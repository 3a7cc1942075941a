---------------------------- MODULE AIGatewayProofs ----------------------------
(***************************************************************************)
(* Proofs about AIGateway: whatever the handlers, the recovery workers,     *)
(* faults, crashes and disconnects do, what happens to the account is what  *)
(* the ledger's operations do.  All that is proved of BalanceLedger is then *)
(* true of the gateway, for every number of calls, workers and faults.      *)
(*                                                                          *)
(* It is also proved that each row and each handler is what it is said to   *)
(* be, that what was used is paid, and that the channel counts its slots.   *)
(* For that a call is always in one of the stages of StageOK: the database  *)
(* calls its handler has left say what its rows hold so far.                *)
(***************************************************************************)
EXTENDS AIGateway, BalanceLedgerProofs, SequenceTheorems

InvocationRows == [status : Statuses, cost : 0..MaxAmount, usage : 0..MaxAmount]

RequestFields == {"todo", "cost", "outcome", "gone", "opened"}

WorkerRows ==
    [batch : Seq(Calls), linked : SUBSET Calls, at : WorkerSteps, cost : 0..MaxAmount]

RequestsInv ==
    /\ request = [c \in Calls |-> request[c]]
    /\ \A c \in Calls : DOMAIN request[c] = RequestFields /\ request[c].cost \in 0..MaxAmount

WorkersInv ==
    /\ worker \in [Workers -> WorkerRows]
    /\ \A w \in Workers : worker[w].at # "idle" => worker[w].batch # <<>>

\* What is about to be settled is an amount, and a worker that is not idle has a
\* reservation to work on.
GatewayInv ==
    /\ invocation \in [Calls -> InvocationRows]
    /\ RequestsInv
    /\ WorkersInv

------------------------------------------------------------------------------
(* Handlers *)

LEMMA SucceedKeeps ==
    ASSUME RequestsInv, NEW c \in Calls, Succeed(c)
    PROVE  RequestsInv'
BY DEF RequestsInv, RequestFields, Succeed

LEMMA GiveUpKeeps ==
    ASSUME RequestsInv, NEW c \in Calls, NEW step, GiveUp(c, step)
    PROVE  RequestsInv'
<1> DEFINE todo == OnError(c, step, Tail(request[c].todo))
           outcome == OutcomeOnError(c, step, Tail(request[c].todo))
<1>1. request' = [request EXCEPT ![c].todo = todo, ![c].outcome = outcome]
  BY DEF GiveUp
<1> HIDE DEF todo, outcome
<1>2. QED
  BY <1>1 DEF RequestsInv, RequestFields

\* A handler's database call has its effect or leaves what is stored alone.
LEMMA DatabaseCallStep ==
    ASSUME RequestsInv, NEW c \in Calls, NEW step, NEW ACTION Effect,
           DatabaseCall(c, step, Effect)
    PROVE  /\ RequestsInv'
           /\ UNCHANGED worker
           /\ Effect \/ UNCHANGED stored
BY SucceedKeeps, GiveUpKeeps DEF DatabaseCall

LEMMA StoredIsKept ==
    ASSUME UNCHANGED stored
    PROVE  UNCHANGED <<ledgerVars, invocation>>
BY DEF stored

\* What one step of a handler or a worker must show.
StepOK ==
    /\ GatewayInv'
    /\ LedgerNext \/ UNCHANGED ledgerVars

LEMMA KeptStep ==
    ASSUME GatewayInv, RequestsInv', UNCHANGED <<worker, ledgerVars>>,
           invocation' \in [Calls -> InvocationRows]
    PROVE  StepOK
BY DEF StepOK, GatewayInv, WorkersInv

LEMMA LedgerStep ==
    ASSUME GatewayInv, RequestsInv', UNCHANGED <<worker, invocation>>,
           LedgerNext \/ UNCHANGED ledgerVars
    PROVE  StepOK
BY DEF StepOK, GatewayInv, WorkersInv

LEMMA HandlerStep ==
    ASSUME GatewayInv, NEW c \in Calls, Handler(c)
    PROVE  StepOK
<1> USE DEF GatewayInv
<1>1. CASE ResolveInvocationTarget(c)
  BY <1>1, DatabaseCallStep, StoredIsKept, KeptStep DEF ResolveInvocationTarget
<1>2. CASE NoTarget(c)
  BY <1>2, GiveUpKeeps, StoredIsKept, KeptStep DEF NoTarget
<1>3. CASE Reserve(c)
  <2>1. /\ RequestsInv' /\ UNCHANGED worker
        /\ \/ UNCHANGED invocation /\ \E amount \in Estimates : ReserveAccessTokenBalance(c, amount)
           \/ UNCHANGED stored
    BY <1>3, DatabaseCallStep DEF Reserve
  <2>2. QED
    BY <2>1, StoredIsKept, LedgerStep, GatewayAssumption DEF LedgerNext
<1>4. CASE ReservationRefused(c)
  BY <1>4, GiveUpKeeps, StoredIsKept, KeptStep DEF ReservationRefused
<1>5. CASE Authorize(c)
  BY <1>5, SucceedKeeps, GiveUpKeeps, StoredIsKept, KeptStep DEF Authorize
<1>6. CASE CreateInvocation(c)
  <2>1. /\ RequestsInv' /\ UNCHANGED worker
        /\ \/ /\ invocation' = [invocation EXCEPT
                    ![c].status = IF c \in StreamCalls THEN "streaming" ELSE "started"]
              /\ UNCHANGED ledgerVars
           \/ UNCHANGED stored
    BY <1>6, DatabaseCallStep DEF CreateInvocation
  <2>2. QED
    BY <2>1, StoredIsKept, KeptStep DEF InvocationRows, Statuses
<1>7. CASE AttachBalanceReservation(c)
  BY <1>7, DatabaseCallStep, StoredIsKept, KeptStep DEF AttachBalanceReservation
<1>8. CASE InvokeProvider(c)
  <2>1. PICK cost \in Costs, outcome \in Outcomes, todo \in
                {AfterSuccess(c), AfterStreamError(c), AfterStreamCancelled(c), AfterProviderError(c)} :
           Answer(c, cost, outcome, todo)
    BY <1>8 DEF InvokeProvider
  <2> DEFINE opened == c \in StreamCalls /\ todo # AfterProviderError(c)
  <2>2. /\ request' = [request EXCEPT ![c].todo = todo, ![c].cost = cost,
                                      ![c].outcome = outcome, ![c].opened = opened]
        /\ cost \in 0..MaxAmount
    BY <2>1, GatewayAssumption DEF Answer
  <2> HIDE DEF opened
  <2>3. RequestsInv'
    BY <2>2 DEF RequestsInv, RequestFields
  <2>4. QED
    BY <1>8, <2>3, StoredIsKept, KeptStep DEF InvokeProvider
<1>9. CASE CreateUsageLedger(c)
  <2>1. /\ RequestsInv' /\ UNCHANGED worker
        /\ \/ /\ invocation' = [invocation EXCEPT ![c].usage = request[c].cost]
              /\ UNCHANGED ledgerVars
           \/ UNCHANGED stored
    BY <1>9, DatabaseCallStep DEF CreateUsageLedger
  <2>2. QED
    BY <2>1, StoredIsKept, KeptStep DEF InvocationRows, RequestsInv
<1>10. CASE Settle(c)
  <2>1. /\ RequestsInv' /\ UNCHANGED worker
        /\ \/ UNCHANGED invocation /\ SettleAccessTokenBalance(c, request[c].cost)
           \/ UNCHANGED stored
    BY <1>10, DatabaseCallStep DEF Settle
  <2>2. request[c].cost \in 0..MaxAmount
    BY DEF RequestsInv
  <2>3. QED
    BY <2>1, <2>2, StoredIsKept, LedgerStep DEF LedgerNext
<1>11. CASE Refund(c)
  <2>1. /\ RequestsInv' /\ UNCHANGED worker
        /\ \/ UNCHANGED invocation /\ RefundAccessTokenBalance(c)
           \/ UNCHANGED stored
    BY <1>11, DatabaseCallStep DEF Refund
  <2>2. QED
    BY <2>1, StoredIsKept, LedgerStep DEF LedgerNext
<1>12. CASE ReleaseSlot(c)
  BY <1>12, DatabaseCallStep, StoredIsKept, KeptStep DEF ReleaseSlot
<1>13. CASE CompleteInvocation(c)
  <2>1. /\ RequestsInv' /\ UNCHANGED worker
        /\ \/ /\ invocation' = [invocation EXCEPT ![c].status = "completed",
                                                  ![c].cost = request[c].cost]
              /\ UNCHANGED ledgerVars
           \/ UNCHANGED stored
    BY <1>13, DatabaseCallStep DEF CompleteInvocation
  <2>2. QED
    BY <2>1, StoredIsKept, KeptStep DEF InvocationRows, Statuses, RequestsInv
<1>14. CASE FailInvocation(c)
  <2>1. PICK step \in {"fail", "failReq", "cancel"} :
          DatabaseCall(c, step,
            /\ invocation' = [invocation EXCEPT
                  ![c].status = IF step = "cancel" THEN "cancelled" ELSE "failed"]
            /\ UNCHANGED <<ledgerVars, channel, claim, slot>>)
    BY <1>14 DEF FailInvocation
  <2>2. /\ RequestsInv' /\ UNCHANGED worker
        /\ \/ /\ invocation' = [invocation EXCEPT
                    ![c].status = IF step = "cancel" THEN "cancelled" ELSE "failed"]
              /\ UNCHANGED ledgerVars
           \/ UNCHANGED stored
    BY <2>1, DatabaseCallStep
  <2>3. QED
    BY <2>2, StoredIsKept, KeptStep DEF InvocationRows, Statuses
<1>15. QED
  BY <1>1, <1>2, <1>3, <1>4, <1>5, <1>6, <1>7, <1>8, <1>9, <1>10, <1>11, <1>12, <1>13, <1>14
     DEF Handler

------------------------------------------------------------------------------
(* Recovery workers *)

LEMMA CurrentIsCall ==
    ASSUME WorkersInv, NEW w \in Workers, worker[w].at # "idle"
    PROVE  /\ Current(w) \in Calls
           /\ worker[w].cost \in 0..MaxAmount
           /\ worker[w].batch \in Seq(Calls) /\ worker[w].batch # <<>>
<1>1. worker[w] \in WorkerRows /\ worker[w].batch # <<>>
  BY DEF WorkersInv
<1>2. QED
  BY <1>1, HeadTailProperties DEF WorkerRows, Current

LEMMA WorkerIsReplaced ==
    ASSUME WorkersInv, NEW w \in Workers, NEW row \in WorkerRows, row.batch # <<>>,
           worker' = [worker EXCEPT ![w] = row]
    PROVE  WorkersInv'
<1>1. worker \in [Workers -> WorkerRows]
  BY DEF WorkersInv
<1>2. worker' \in [Workers -> WorkerRows] /\ worker'[w] = row
  BY <1>1
<1>3. ASSUME NEW v \in Workers, v # w PROVE worker'[v] = worker[v]
  BY <1>1, <1>3
<1>4. ASSUME NEW v \in Workers, worker'[v].at # "idle" PROVE worker'[v].batch # <<>>
  <2>1. CASE v = w
    BY <1>2, <2>1, Zenon
  <2>2. CASE v # w
    <3>1. worker'[v] = worker[v]
      BY <1>3, <2>2
    <3>2. worker[v].at # "idle" => worker[v].batch # <<>>
      BY DEF WorkersInv
    <3>3. QED
      BY <1>4, <3>1, <3>2, Zenon
  <2>3. QED
    BY <2>1, <2>2
<1>5. QED
  BY <1>2, <1>4 DEF WorkersInv

LEMMA GoToKeeps ==
    ASSUME WorkersInv, NEW w \in Workers, worker[w].at # "idle",
           NEW at \in WorkerSteps, GoTo(w, at)
    PROVE  WorkersInv'
BY DEF WorkersInv, WorkerRows, GoTo

LEMMA NextReservationKeeps ==
    ASSUME WorkersInv, NEW w \in Workers, worker[w].at # "idle", NextReservation(w)
    PROVE  WorkersInv'
<1>1. /\ worker[w] \in WorkerRows
      /\ worker[w].batch \in Seq(Calls) /\ worker[w].batch # <<>>
  BY CurrentIsCall DEF WorkersInv
<1>2. IdleWorker \in WorkerRows /\ IdleWorker.at = "idle"
  BY AmountsAssumption, EmptySeq DEF IdleWorker, WorkerRows, WorkerSteps
<1>3. CASE Len(worker[w].batch) = 1
  <2>1. worker' = [worker EXCEPT ![w] = IdleWorker]
    BY <1>3 DEF NextReservation
  <2>2. QED
    BY <1>2, <2>1 DEF WorkersInv
<1>4. CASE Len(worker[w].batch) # 1
  <2> DEFINE batch == worker[w].batch
             rest == Tail(batch)
             next == [batch |-> rest, linked |-> worker[w].linked, at |-> "verify", cost |-> 0]
  <2>1. worker' = [worker EXCEPT ![w] = next]
    BY <1>4 DEF NextReservation
  <2>2. batch \in Seq(Calls) /\ batch # <<>> /\ Len(batch) # 1
    BY <1>1, <1>4
  <2> HIDE DEF batch
  <2>3. rest \in Seq(Calls) /\ Len(rest) = Len(batch) - 1 /\ Len(batch) \in Nat
    BY <2>2, HeadTailProperties, LenProperties
  <2>4. rest # <<>>
    <3>1. Len(batch) # 0
      BY <2>2, EmptySeq
    <3>2. Len(rest) # 0
      BY <2>2, <2>3, <3>1
    <3>3. Len(<<>>) = 0
      OBVIOUS
    <3>4. QED
      BY <3>2, <3>3, Zenon
  <2> HIDE DEF rest
  <2>5. worker[w].linked \in SUBSET Calls
    BY <1>1 DEF WorkerRows
  <2>6. next \in WorkerRows /\ next.batch # <<>>
    BY <2>3, <2>4, <2>5, AmountsAssumption DEF WorkerRows, WorkerSteps
  <2> HIDE DEF next
  <2>7. QED
    BY <2>1, <2>6 DEF WorkersInv
<1>5. QED
  BY <1>3, <1>4

\* A worker whose lease was given back or which failed goes on with its batch.
LEMMA WorkerStepOK ==
    ASSUME GatewayInv, WorkersInv', UNCHANGED request,
           invocation' \in [Calls -> InvocationRows],
           LedgerNext \/ UNCHANGED ledgerVars
    PROVE  StepOK
BY DEF StepOK, GatewayInv, RequestsInv

LEMMA WorkerCallStep ==
    ASSUME WorkersInv, NEW w \in Workers, NEW at \in WorkerSteps \ {"idle"}, NEW ACTION Effect,
           WorkerCall(w, at, Effect)
    PROVE  /\ worker[w].at # "idle"
           /\ UNCHANGED request
           /\ Effect \/ (UNCHANGED stored /\ WorkersInv')
<1>1. worker[w].at = at
  BY DEF WorkerCall
<1>2. "unlease" \in WorkerSteps
  BY DEF WorkerSteps
<1>3. QED
  BY <1>1, <1>2, GoToKeeps DEF WorkerCall

LEMMA WorkerWriteStep ==
    ASSUME WorkersInv, NEW w \in Workers, NEW at \in WorkerSteps \ {"idle"},
           NEW ACTION Effect, NEW ACTION Then, WorkerWrite(w, at, Effect, Then),
           Then => WorkersInv'
    PROVE  /\ worker[w].at # "idle"
           /\ UNCHANGED request
           /\ WorkersInv'
           /\ Effect \/ UNCHANGED stored
<1>1. CASE WorkerCall(w, at, Effect /\ Then)
  BY <1>1, WorkerCallStep
<1>2. CASE ~WorkerCall(w, at, Effect /\ Then)
  <2>1. worker[w].at = at /\ Effect /\ GoTo(w, "unlease") /\ UNCHANGED request
    BY <1>2 DEF WorkerWrite
  <2>2. "unlease" \in WorkerSteps
    BY DEF WorkerSteps
  <2>3. QED
    BY <2>1, <2>2, GoToKeeps
<1>3. QED
  BY <1>1, <1>2

LEMMA RecoveryStep ==
    ASSUME GatewayInv, NEW w \in Workers, Recovery(w)
    PROVE  StepOK
<1> USE DEF GatewayInv
<1>1. CASE ClaimStaleBalanceReservations(w)
  <2>1. PICK b \in Batches :
           \/ worker' = [worker EXCEPT ![w] = [IdleWorker EXCEPT !.batch = b, !.at = "verify",
                            !.linked = {c \in {b[i] : i \in DOMAIN b} : claim[c].attached}]]
           \/ UNCHANGED worker
    BY <1>1 DEF ClaimStaleBalanceReservations
  <2>2. PICK n \in 1..BatchSize : b \in [1..n -> Claimable]
    BY DEF Batches
  <2>3. b \in Seq(Calls) /\ b # <<>>
    <3>1. n \in Nat /\ n # 0
      BY GatewayAssumption
    <3>2. b \in Seq(Claimable) /\ Len(b) = n
      BY <2>2, <3>1
    <3>3. Claimable \subseteq Calls
      BY DEF Claimable
    <3>4. Len(<<>>) = 0
      OBVIOUS
    <3>5. b # <<>>
      BY <3>1, <3>2, <3>4, Zenon
    <3>6. b \in Seq(Calls)
      BY <3>2, <3>3, SeqMonotonic
    <3>7. QED
      BY <3>5, <3>6
  <2> DEFINE linked == {c \in {b[i] : i \in DOMAIN b} : claim[c].attached}
             next == [batch |-> b, linked |-> linked, at |-> "verify", cost |-> 0]
  <2>4. linked \in SUBSET Calls
    BY <2>2 DEF Claimable
  <2>5. \/ worker' = [worker EXCEPT ![w] = next]
        \/ UNCHANGED worker
    BY <2>1 DEF IdleWorker
  <2> HIDE DEF linked
  <2>6. next \in WorkerRows /\ next.batch # <<>>
    BY <2>3, <2>4, AmountsAssumption DEF WorkerRows, WorkerSteps
  <2> HIDE DEF next
  <2>7. WorkersInv'
    BY <2>5, <2>6 DEF WorkersInv
  <2>8. UNCHANGED <<request, invocation, ledgerVars>>
    BY <1>1 DEF ClaimStaleBalanceReservations
  <2>9. QED
    BY <2>7, <2>8, WorkerStepOK
<1>2. CASE VerifyLease(w)
  <2> DEFINE at == IF claim[Current(w)].owner # w THEN "unlease"
                   ELSE IF Current(w) \in worker[w].linked THEN "load" ELSE "refund"
  <2>1. WorkerCall(w, "verify", GoTo(w, at) /\ UNCHANGED stored)
    BY <1>2 DEF VerifyLease
  <2>2. at \in WorkerSteps /\ "verify" \in WorkerSteps \ {"idle"}
    BY DEF WorkerSteps
  <2> HIDE DEF at
  <2>3. WorkersInv' /\ UNCHANGED stored /\ UNCHANGED request
    BY <2>1, <2>2, WorkerCallStep, GoToKeeps
  <2>4. QED
    BY <2>3, StoredIsKept, WorkerStepOK
<1>3. CASE LoadInvocation(w)
  <2> DEFINE inv == invocation[Current(w)]
             at == IF inv.status \in {"started", "streaming"} THEN "cancel" ELSE "settle"
             cost == IF inv.cost # 0 THEN inv.cost ELSE inv.usage
  <2>1. WorkerCall(w, "load",
          worker' = [worker EXCEPT ![w].at = at, ![w].cost = cost] /\ UNCHANGED stored)
    BY <1>3 DEF LoadInvocation
  <2>2. worker[w].at = "load"
    BY <2>1 DEF WorkerCall
  <2>3. inv \in InvocationRows
    BY <2>2, CurrentIsCall
  <2>4. cost \in 0..MaxAmount
    BY <2>3 DEF InvocationRows
  <2>5. at \in WorkerSteps /\ "load" \in WorkerSteps \ {"idle"}
    BY DEF WorkerSteps
  <2> HIDE DEF at, cost, inv
  <2>6. worker' = [worker EXCEPT ![w].at = at, ![w].cost = cost] => WorkersInv'
    <3> DEFINE row == [worker[w] EXCEPT !.at = at, !.cost = cost]
    <3>1. worker[w] \in WorkerRows /\ worker[w].batch # <<>>
      BY <2>2 DEF WorkersInv
    <3>2. row \in WorkerRows
      BY <2>4, <2>5, <3>1 DEF WorkerRows
    <3>3. row.batch = worker[w].batch
      BY <3>1 DEF WorkerRows
    <3>4. SUFFICES ASSUME worker' = [worker EXCEPT ![w].at = at, ![w].cost = cost]
                   PROVE  WorkersInv'
      OBVIOUS
    <3>5. DOMAIN worker = Workers
      BY DEF WorkersInv
    <3>6. worker' = [worker EXCEPT ![w] = row]
      BY <3>1, <3>4, <3>5 DEF WorkerRows
    <3> HIDE DEF row
    <3>7. row.batch # <<>>
      BY <3>1, <3>3, Zenon
    <3>8. QED
      BY <3>2, <3>6, <3>7, WorkerIsReplaced
  <2>7. WorkersInv' /\ UNCHANGED stored /\ UNCHANGED request
    BY <2>1, <2>5, <2>6, WorkerCallStep
  <2>8. QED
    BY <2>7, StoredIsKept, WorkerStepOK
<1>4. CASE CancelStaleInvocation(w)
  <2> DEFINE c == Current(w)
             active == invocation[c].status \in {"started", "streaming"}
             at == IF active THEN "release" ELSE "settle"
             Effect == /\ invocation' = IF active
                                        THEN [invocation EXCEPT ![c].status = "cancelled"]
                                        ELSE invocation
                       /\ UNCHANGED <<ledgerVars, channel, claim, slot>>
  <2>1. WorkerWrite(w, "cancel", Effect, GoTo(w, at))
    BY <1>4 DEF CancelStaleInvocation
  <2>2. at \in WorkerSteps /\ "cancel" \in WorkerSteps \ {"idle"}
    BY DEF WorkerSteps
  <2>3. Effect => UNCHANGED ledgerVars /\ invocation' \in [Calls -> InvocationRows]
    BY DEF InvocationRows, Statuses
  <2> HIDE DEF at, Effect
  <2>4. worker[w].at # "idle"
    BY <2>1, <2>2 DEF WorkerWrite, WorkerCall
  <2>5. GoTo(w, at) => WorkersInv'
    BY <2>2, <2>4, GoToKeeps
  <2>6. UNCHANGED request /\ WorkersInv' /\ (Effect \/ UNCHANGED stored)
    BY <2>1, <2>2, <2>5, WorkerWriteStep
  <2>7. QED
    BY <2>3, <2>6, StoredIsKept, WorkerStepOK
<1>5. CASE ReleaseStaleSlot(w)
  <2> DEFINE Effect == /\ ReleaseChannel(worker[w].cost, "neutral")
                       /\ slot' = [slot EXCEPT ![Current(w)] = @ - 1]
                       /\ UNCHANGED <<ledgerVars, invocation, claim>>
  <2>1. WorkerWrite(w, "release", Effect, GoTo(w, "settle"))
    BY <1>5 DEF ReleaseStaleSlot
  <2>2. "settle" \in WorkerSteps /\ "release" \in WorkerSteps \ {"idle"}
    BY DEF WorkerSteps
  <2>3. Effect => UNCHANGED <<ledgerVars, invocation>>
    OBVIOUS
  <2> HIDE DEF Effect
  <2>4. worker[w].at # "idle"
    BY <2>1, <2>2 DEF WorkerWrite, WorkerCall
  <2>5. GoTo(w, "settle") => WorkersInv'
    BY <2>2, <2>4, GoToKeeps
  <2>6. UNCHANGED request /\ WorkersInv' /\ (Effect \/ UNCHANGED stored)
    BY <2>1, <2>2, <2>5, WorkerWriteStep
  <2>7. QED
    BY <2>3, <2>6, StoredIsKept, WorkerStepOK
<1>6. CASE SettleStale(w)
  <2> DEFINE Effect == /\ SettleAccessTokenBalance(Current(w), worker[w].cost)
                       /\ UNCHANGED <<channel, invocation, claim, slot>>
  <2>1. WorkerWrite(w, "settle", Effect, NextReservation(w))
    BY <1>6 DEF SettleStale
  <2>2. "settle" \in WorkerSteps \ {"idle"}
    BY DEF WorkerSteps
  <2>3. worker[w].at # "idle"
    BY <2>1, <2>2 DEF WorkerWrite, WorkerCall
  <2>4. Effect => LedgerNext /\ UNCHANGED invocation
    BY <2>3, CurrentIsCall DEF LedgerNext
  <2> HIDE DEF Effect
  <2>5. NextReservation(w) => WorkersInv'
    BY <2>3, NextReservationKeeps
  <2>6. UNCHANGED request /\ WorkersInv' /\ (Effect \/ UNCHANGED stored)
    BY <2>1, <2>2, <2>5, WorkerWriteStep
  <2>7. QED
    BY <2>4, <2>6, StoredIsKept, WorkerStepOK
<1>7. CASE RefundStale(w)
  <2> DEFINE Effect == /\ RefundAccessTokenBalance(Current(w))
                       /\ UNCHANGED <<channel, invocation, claim, slot>>
  <2>1. WorkerWrite(w, "refund", Effect, NextReservation(w))
    BY <1>7 DEF RefundStale
  <2>2. "refund" \in WorkerSteps \ {"idle"}
    BY DEF WorkerSteps
  <2>3. worker[w].at # "idle"
    BY <2>1, <2>2 DEF WorkerWrite, WorkerCall
  <2>4. Effect => LedgerNext /\ UNCHANGED invocation
    BY <2>3, CurrentIsCall DEF LedgerNext
  <2> HIDE DEF Effect
  <2>5. NextReservation(w) => WorkersInv'
    BY <2>3, NextReservationKeeps
  <2>6. UNCHANGED request /\ WorkersInv' /\ (Effect \/ UNCHANGED stored)
    BY <2>1, <2>2, <2>5, WorkerWriteStep
  <2>7. QED
    BY <2>4, <2>6, StoredIsKept, WorkerStepOK
<1>8. CASE ReleaseLease(w)
  <2>1. worker[w].at # "idle"
    BY <1>8 DEF ReleaseLease
  <2>2. QED
    BY <1>8, <2>1, NextReservationKeeps, WorkerStepOK DEF ReleaseLease
<1>9. QED
  BY <1>1, <1>2, <1>3, <1>4, <1>5, <1>6, <1>7, <1>8 DEF Recovery

------------------------------------------------------------------------------
(* The whole system *)

LEMMA EnvironmentStep ==
    ASSUME GatewayInv,
           \/ \E c \in Calls : Disconnect(c) \/ Crash(c) \/ Age(c) \/ LeaseExpires(c)
           \/ \E w \in Workers : WorkerCrash(w)
           \/ Adjust
           \/ Cooldown
           \/ UNCHANGED vars
    PROVE  StepOK
<1> USE DEF GatewayInv
<1>1. ASSUME NEW c \in Calls, Disconnect(c)
      PROVE  StepOK
  <2>1. request' = [request EXCEPT ![c].gone = TRUE]
    BY <1>1 DEF Disconnect
  <2>2. RequestsInv'
    BY <2>1 DEF RequestsInv, RequestFields
  <2>3. QED
    BY <1>1, <2>2, StoredIsKept, KeptStep DEF Disconnect
<1>2. ASSUME NEW c \in Calls, Crash(c)
      PROVE  StepOK
  <2>1. request' = [request EXCEPT ![c].todo = <<>>]
    BY <1>2 DEF Crash
  <2>2. RequestsInv'
    BY <2>1 DEF RequestsInv, RequestFields
  <2>3. QED
    BY <1>2, <2>2, StoredIsKept, KeptStep DEF Crash
<1>3. ASSUME NEW c \in Calls, Age(c) \/ LeaseExpires(c)
      PROVE  StepOK
  <2>1. UNCHANGED <<request, worker, invocation, ledgerVars>>
    BY <1>3 DEF Age, LeaseExpires
  <2>2. RequestsInv'
    BY <2>1 DEF RequestsInv
  <2>3. QED
    BY <2>1, <2>2, LedgerStep
<1>4. ASSUME NEW w \in Workers, WorkerCrash(w)
      PROVE  StepOK
  <2>1. IdleWorker \in WorkerRows /\ IdleWorker.at = "idle"
    BY AmountsAssumption, EmptySeq DEF IdleWorker, WorkerRows, WorkerSteps
  <2>2. worker' = [worker EXCEPT ![w] = IdleWorker] /\ UNCHANGED request /\ UNCHANGED stored
    BY <1>4 DEF WorkerCrash
  <2>3. WorkersInv'
    BY <2>1, <2>2 DEF WorkersInv
  <2>4. QED
    BY <2>2, <2>3, StoredIsKept, WorkerStepOK
<1>5. CASE Adjust
  <2>1. UNCHANGED <<request, worker, invocation>> /\ LedgerNext
    BY <1>5 DEF Adjust, gatewayVars, LedgerNext
  <2>2. RequestsInv'
    BY <2>1 DEF RequestsInv
  <2>3. QED
    BY <2>1, <2>2, LedgerStep
<1>6. CASE Cooldown \/ UNCHANGED vars
  <2>1. UNCHANGED <<request, worker, invocation, ledgerVars>>
    BY <1>6 DEF Cooldown, gatewayVars, vars
  <2>2. RequestsInv'
    BY <2>1 DEF RequestsInv
  <2>3. QED
    BY <2>1, <2>2, LedgerStep
<1>7. QED
  BY <1>1, <1>2, <1>3, <1>4, <1>5, <1>6

LEMMA GatewayStep == GatewayInv /\ [GatewayNext]_vars => StepOK
BY HandlerStep, RecoveryStep, EnvironmentStep DEF GatewayNext

LEMMA GatewayStart == GatewayInit => GatewayInv /\ LedgerInit
<1> SUFFICES ASSUME GatewayInit PROVE GatewayInv /\ LedgerInit
  OBVIOUS
<1>1. invocation \in [Calls -> InvocationRows]
  BY AmountsAssumption DEF GatewayInit, InvocationRows, Statuses
<1>2. RequestsInv
  <2>1. request = [c \in Calls |->
                    [todo |-> Opening(c), cost |-> 0, outcome |-> "neutral",
                     gone |-> FALSE, opened |-> FALSE]]
    BY DEF GatewayInit
  <2>2. QED
    BY <2>1, AmountsAssumption DEF RequestsInv, RequestFields
<1>3. WorkersInv
  <2>1. IdleWorker \in WorkerRows /\ IdleWorker.at = "idle"
    BY AmountsAssumption, EmptySeq DEF IdleWorker, WorkerRows, WorkerSteps
  <2>2. QED
    BY <2>1 DEF GatewayInit, WorkersInv
<1>4. QED
  BY <1>1, <1>2, <1>3 DEF GatewayInit, GatewayInv

\* Every behaviour of the gateway is a behaviour of the ledger: no interleaving of
\* handlers, recovery workers, lost acknowledgements, crashes and disconnects
\* moves money in a way the ledger's operations do not.
THEOREM GatewayImplementsLedger == GatewaySpec => LedgerSpec
<1>1. StepOK => GatewayInv' /\ [LedgerNext]_ledgerVars
  BY DEF StepOK
<1>2. QED
  BY <1>1, GatewayStart, GatewayStep, PTL DEF GatewaySpec, LedgerSpec

\* So the running totals of the rows are the sums over the calls in every reachable
\* state of the gateway.
THEOREM GatewayKeepsTotals == GatewaySpec => []LedgerSums
BY GatewayImplementsLedger, SumsAreExact, PTL

\* And the gateway as a whole keeps the promises of the prepaid account.
THEOREM GatewayImplementsAccount == GatewaySpec => ImplementsAccount
BY GatewayImplementsLedger, LedgerImplementsAccount

\* No retry, recovery or late compensation changes a finished reservation.
THEOREM GatewayFinishesOnce == GatewaySpec => FinishedStaysFinished
BY GatewayImplementsLedger, FinishedIsFinal

------------------------------------------------------------------------------
(* Types *)

ClaimRows == [attached : BOOLEAN, stale : BOOLEAN, owner : Workers \cup {NoWorker}, live : BOOLEAN]

TodoOK(c) ==
    /\ request[c].todo \in Seq(Steps)
    /\ request[c].outcome \in Outcomes
    /\ request[c].gone \in BOOLEAN /\ request[c].opened \in BOOLEAN

StoredOK ==
    /\ channel \in Channel
    /\ claim \in [Calls -> ClaimRows]
    /\ slot \in [Calls -> Int]

HistoryOK == faults \in 0..MaxFaults /\ crashes \in 0..MaxCrashes /\ slow \in 0..MaxSlow

\* What GatewayTypeOK says beyond GatewayInv and the types of the ledger.
RestOK ==
    /\ StoredOK
    /\ \A c \in Calls : TodoOK(c)
    /\ HistoryOK

LEMMA TypeParts ==
    GatewayTypeOK <=> /\ LedgerTypeOK /\ RestOK
                      /\ invocation \in [Calls -> InvocationRows]
                      /\ \A c \in Calls : request[c].cost \in 0..MaxAmount
                      /\ worker \in [Workers -> WorkerRows]
BY DEF GatewayTypeOK, RestOK, StoredOK, TodoOK, HistoryOK, ClaimRows, InvocationRows, WorkerRows

\* Handler c writes todo and outcome and nothing else of its own.
MovesTo(c, todo, outcome) ==
    /\ \A d \in Calls \ {c} : request'[d] = request[d]
    /\ request'[c].todo = todo
    /\ request'[c].outcome = outcome
    /\ request'[c].cost = request[c].cost
    /\ request'[c].gone = request[c].gone
    /\ request'[c].opened = request[c].opened

LEMMA SucceedMoves ==
    ASSUME RequestsInv, NEW c \in Calls, Succeed(c)
    PROVE  MovesTo(c, Tail(request[c].todo), request[c].outcome)
BY DEF RequestsInv, RequestFields, Succeed, MovesTo

LEMMA TodoAndOutcomeMove ==
    ASSUME RequestsInv, NEW c \in Calls, NEW todo, NEW outcome,
           request' = [request EXCEPT ![c].todo = todo, ![c].outcome = outcome]
    PROVE  MovesTo(c, todo, outcome)
BY DEF RequestsInv, RequestFields, MovesTo

LEMMA GiveUpMoves ==
    ASSUME RequestsInv, NEW c \in Calls, NEW step, GiveUp(c, step)
    PROVE  MovesTo(c, OnError(c, step, Tail(request[c].todo)),
                   OutcomeOnError(c, step, Tail(request[c].todo)))
BY TodoAndOutcomeMove, Zenon DEF GiveUp

LEMMA ListsAreSteps ==
    ASSUME NEW c \in Calls
    PROVE  /\ Opening(c) \in Seq(Steps) /\ AfterSuccess(c) \in Seq(Steps)
           /\ AfterStreamError(c) \in Seq(Steps) /\ AfterStreamCancelled(c) \in Seq(Steps)
           /\ AfterProviderError(c) \in Seq(Steps) /\ Compensation(c) \in Seq(Steps)
<1> USE DEF For
<1>1. {"resolve", "reserve", "authorize", "create", "attach", "provider", "ledger", "settle",
       "release", "releaseReq", "complete", "fail", "failReq", "cancel", "refund"} = Steps
  BY DEF Steps
<1>2. Opening(c) \in Seq(Steps)
  BY <1>1, SMTT(30) DEF Opening
<1>3. AfterSuccess(c) \in Seq(Steps)
  BY <1>1 DEF AfterSuccess
<1>4. AfterStreamError(c) \in Seq(Steps) /\ AfterStreamCancelled(c) \in Seq(Steps)
  BY <1>1 DEF AfterStreamError, AfterStreamCancelled
<1>5. AfterProviderError(c) \in Seq(Steps) /\ Compensation(c) \in Seq(Steps)
  BY <1>1 DEF AfterProviderError, Compensation
<1>6. QED
  BY <1>2, <1>3, <1>4, <1>5

LEMMA OnErrorIsSteps ==
    ASSUME NEW c \in Calls, NEW step, NEW rest \in Seq(Steps)
    PROVE  OnError(c, step, rest) \in Seq(Steps)
<1>1. Compensation(c) \in Seq(Steps)
  BY ListsAreSteps
<1>2. /\ <<>> \in Seq(Steps) /\ <<"release">> \in Seq(Steps)
      /\ <<"refund", "fail", "release">> \in Seq(Steps) /\ <<"fail", "release">> \in Seq(Steps)
  BY DEF Steps
<1>3. QED
  BY <1>1, <1>2 DEF OnError

LEMMA HandlerMovesOK ==
    ASSUME \A d \in Calls : TodoOK(d), NEW c \in Calls, NEW step, At(c, step),
           \/ MovesTo(c, Tail(request[c].todo), request[c].outcome)
           \/ MovesTo(c, OnError(c, step, Tail(request[c].todo)),
                      OutcomeOnError(c, step, Tail(request[c].todo)))
    PROVE  \A d \in Calls : TodoOK(d)'
<1>1. Tail(request[c].todo) \in Seq(Steps)
  BY HeadTailProperties DEF TodoOK, At
<1>2. OnError(c, step, Tail(request[c].todo)) \in Seq(Steps)
  BY <1>1, OnErrorIsSteps
<1>3. OutcomeOnError(c, step, Tail(request[c].todo)) \in Outcomes
  BY DEF OutcomeOnError, Outcomes, TodoOK
<1>4. QED
  BY <1>1, <1>2, <1>3 DEF MovesTo, TodoOK

\* One database call: it works, the client's absence stops it, or it fails.
LEMMA DatabaseCallCases ==
    ASSUME RequestsInv, NEW c \in Calls, NEW step, NEW ACTION Effect,
           DatabaseCall(c, step, Effect)
    PROVE  LET rest == Tail(request[c].todo)
               back == MovesTo(c, OnError(c, step, rest), OutcomeOnError(c, step, rest))
               cut  == request[c].gone /\ UsesRequestContext(c, step)
           IN  /\ At(c, step)
               /\ UNCHANGED <<worker, crashes, slow>>
               /\ \/ Effect /\ ~cut /\ faults' = faults /\ MovesTo(c, rest, request[c].outcome)
                  \/ UNCHANGED stored /\ cut /\ faults' = faults /\ back
                  \/ /\ Effect \/ UNCHANGED stored
                     /\ faults < MaxFaults /\ faults' = faults + 1 /\ back
BY SucceedMoves, GiveUpMoves DEF DatabaseCall

LEMMA DatabaseCallTypes ==
    ASSUME RequestsInv, RestOK, NEW c \in Calls, NEW step, NEW ACTION Effect,
           DatabaseCall(c, step, Effect), Effect => StoredOK'
    PROVE  RestOK'
<1>1. \A d \in Calls : TodoOK(d)'
  BY DatabaseCallCases, HandlerMovesOK DEF RestOK
<1>2. UNCHANGED stored => StoredOK'
  BY DEF stored, RestOK, StoredOK
<1>3. HistoryOK'
  BY DatabaseCallCases, GatewayAssumption DEF RestOK, HistoryOK
<1>4. StoredOK'
  BY <1>2, DatabaseCallCases
<1>5. QED
  BY <1>1, <1>3, <1>4 DEF RestOK

LEMMA AdmitTypes ==
    ASSUME channel \in Channel, AdmitCall
    PROVE  channel' \in Channel /\ channel'.inflight = channel.inflight + 1
<1> DEFINE n == channel.inflight + 1
<1>1. n \in Nat
  BY DEF Channel
<1>2. \/ channel' = [channel EXCEPT !.inflight = n]
      \/ channel' = [channel EXCEPT !.inflight = n, !.health = "probing", !.circuit = "open"]
  BY DEF AdmitCall
<1> HIDE DEF n
<1>3. channel' \in Channel
  BY <1>1, <1>2, Zenon DEF Channel, Healths
<1>4. channel'.inflight = n
  BY <1>2 DEF Channel
<1>5. QED
  BY <1>3, <1>4 DEF n

LEMMA FailedTypes ==
    ASSUME NEW ch \in Channel
    PROVE  Failed(ch) \in Channel /\ Failed(ch).inflight = ch.inflight
<1> DEFINE n == ch.failures + 1
<1>1. CASE n >= FailureThreshold
  <2>1. Failed(ch) = [ch EXCEPT !.failures = FailureThreshold, !.health = "circuit_open",
                                !.circuit = "open"]
    BY <1>1 DEF Failed
  <2>2. FailureThreshold \in 0..FailureThreshold
    BY ChannelAssumption
  <2>3. Failed(ch) \in Channel
    BY <2>1, <2>2, Zenon DEF Channel, Healths
  <2>4. QED
    BY <2>1, <2>3 DEF Channel
<1>2. CASE ~(n >= FailureThreshold)
  <2>1. Failed(ch) = [ch EXCEPT !.failures = n, !.health = "degraded"]
    BY <1>2 DEF Failed
  <2>2. n \in 0..FailureThreshold
    BY <1>2, ChannelAssumption DEF Channel
  <2> HIDE DEF n
  <2>3. Failed(ch) \in Channel
    BY <2>1, <2>2, Zenon DEF Channel, Healths
  <2>4. QED
    BY <2>1, <2>3 DEF Channel
<1>3. QED
  BY <1>1, <1>2

\* What an outcome does to the health of the channel leaves its capacity alone.
LEMMA OutcomeTypes ==
    ASSUME NEW ch \in Channel, NEW outcome
    PROVE  /\ WithOutcome(ch, outcome) \in Channel
           /\ WithOutcome(ch, outcome).inflight = ch.inflight
<1>1. 0 \in 0..FailureThreshold
  BY ChannelAssumption
<1>2. Recovered(ch) \in Channel
  BY <1>1, Zenon DEF Recovered, Channel, Healths
<1>3. Recovered(ch).inflight = ch.inflight
  BY DEF Recovered, Channel
<1>4. Unjudged(ch) \in Channel /\ Unjudged(ch).inflight = ch.inflight
  BY DEF Unjudged, Channel, Healths
<1>5. QED
  BY <1>2, <1>3, <1>4, FailedTypes DEF WithOutcome

LEMMA ReleaseTypes ==
    ASSUME channel \in Channel, NEW amount \in Nat, NEW outcome, ReleaseChannel(amount, outcome)
    PROVE  /\ channel' \in Channel
           /\ channel'.inflight = IF channel.inflight > 0 THEN channel.inflight - 1 ELSE 0
<1> DEFINE n == IF channel.inflight > 0 THEN channel.inflight - 1 ELSE 0
           used == channel.used + amount
           counted == [channel EXCEPT !.inflight = n, !.used = used]
<1>1. n \in Nat /\ used \in Nat
  BY DEF Channel
<1>2. channel' = WithOutcome(counted, outcome)
  BY DEF ReleaseChannel
<1> HIDE DEF n, used
<1>3. counted \in Channel
  BY <1>1, Zenon DEF Channel
<1>4. counted.inflight = n
  BY DEF Channel
<1> HIDE DEF counted
<1>5. channel' \in Channel /\ channel'.inflight = n
  BY <1>2, <1>3, <1>4, OutcomeTypes
<1>6. QED
  BY <1>5 DEF n

LEMMA StoredAreKept ==
    ASSUME UNCHANGED stored
    PROVE  UNCHANGED <<balance, reserved, quotaUsed, resv, deposits, channel, invocation, claim, slot>>
BY DEF stored, ledgerVars

LEMMA HandlerTypes ==
    ASSUME RequestsInv, RestOK, NEW c \in Calls, Handler(c)
    PROVE  RestOK'
<1> USE DEF StoredOK
<1>1. CASE ResolveInvocationTarget(c)
  <2> DEFINE Effect == /\ AdmitCall
                       /\ slot' = [slot EXCEPT ![c] = @ + 1]
                       /\ UNCHANGED <<ledgerVars, invocation, claim>>
  <2>1. DatabaseCall(c, "resolve", Effect)
    BY <1>1 DEF ResolveInvocationTarget
  <2>2. Effect => StoredOK'
    BY AdmitTypes DEF RestOK
  <2> HIDE DEF Effect
  <2>3. QED
    BY <2>1, <2>2, DatabaseCallTypes
<1>2. CASE NoTarget(c) \/ ReservationRefused(c) \/ Authorize(c)
  <2>1. PICK step : /\ At(c, step)
                    /\ Succeed(c) \/ GiveUp(c, step)
                    /\ UNCHANGED <<stored, worker, faults, crashes, slow>>
    BY <1>2 DEF NoTarget, ReservationRefused, Authorize
  <2>2. \A d \in Calls : TodoOK(d)'
    BY <2>1, SucceedMoves, GiveUpMoves, HandlerMovesOK DEF RestOK
  <2>3. QED
    BY <2>1, <2>2 DEF RestOK, HistoryOK, stored
<1>3. CASE Reserve(c)
  BY <1>3, DatabaseCallTypes DEF Reserve, RestOK
<1>4. CASE CreateInvocation(c)
  BY <1>4, DatabaseCallTypes DEF CreateInvocation, RestOK
<1>5. CASE AttachBalanceReservation(c)
  BY <1>5, DatabaseCallTypes DEF AttachBalanceReservation, RestOK, ClaimRows
<1>6. CASE InvokeProvider(c)
  <2>1. PICK cost \in Costs, outcome \in Outcomes, todo \in
                {AfterSuccess(c), AfterStreamError(c), AfterStreamCancelled(c), AfterProviderError(c)} :
           Answer(c, cost, outcome, todo)
    BY <1>6 DEF InvokeProvider
  <2> DEFINE opened == c \in StreamCalls /\ todo # AfterProviderError(c)
  <2>2. /\ request' = [request EXCEPT ![c].todo = todo, ![c].cost = cost,
                                      ![c].outcome = outcome, ![c].opened = opened]
        /\ opened \in BOOLEAN
    BY <2>1 DEF Answer
  <2>3. todo \in Seq(Steps)
    BY ListsAreSteps
  <2> HIDE DEF opened
  <2>4. \A d \in Calls : TodoOK(d)'
    BY <2>2, <2>3 DEF RequestsInv, RequestFields, RestOK, TodoOK
  <2>5. QED
    BY <1>6, <2>4 DEF InvokeProvider, RestOK, HistoryOK, stored
<1>7. CASE CreateUsageLedger(c)
  BY <1>7, DatabaseCallTypes DEF CreateUsageLedger, RestOK
<1>8. CASE Settle(c)
  BY <1>8, DatabaseCallTypes DEF Settle, RestOK
<1>9. CASE Refund(c)
  BY <1>9, DatabaseCallTypes DEF Refund, RestOK
<1>10. CASE ReleaseSlot(c)
  <2>1. request[c].cost \in Nat
    BY AmountsAssumption DEF RequestsInv
  <2> DEFINE Effect == /\ ReleaseChannel(request[c].cost, request[c].outcome)
                       /\ slot' = [slot EXCEPT ![c] = @ - 1]
                       /\ UNCHANGED <<ledgerVars, invocation, claim>>
  <2>2. PICK step \in {"release", "releaseReq"} : DatabaseCall(c, step, Effect)
    BY <1>10 DEF ReleaseSlot
  <2>3. Effect => StoredOK'
    BY <2>1, ReleaseTypes DEF RestOK
  <2> HIDE DEF Effect
  <2>4. QED
    BY <2>2, <2>3, DatabaseCallTypes
<1>11. CASE CompleteInvocation(c)
  BY <1>11, DatabaseCallTypes DEF CompleteInvocation, RestOK
<1>12. CASE FailInvocation(c)
  BY <1>12, DatabaseCallTypes DEF FailInvocation, RestOK
<1>13. QED
  BY <1>1, <1>2, <1>3, <1>4, <1>5, <1>6, <1>7, <1>8, <1>9, <1>10, <1>11, <1>12 DEF Handler

LEMMA WorkerCallTypes ==
    ASSUME RestOK, NEW w \in Workers, NEW at, NEW ACTION Effect,
           WorkerCall(w, at, Effect), Effect => StoredOK'
    PROVE  RestOK'
<1>1. UNCHANGED stored => StoredOK'
  BY DEF stored, RestOK, StoredOK
<1>2. QED
  BY <1>1, GatewayAssumption DEF WorkerCall, RestOK, HistoryOK, TodoOK

LEMMA WorkerWriteTypes ==
    ASSUME RestOK, NEW w \in Workers, NEW at, NEW ACTION Effect, NEW ACTION Then,
           WorkerWrite(w, at, Effect, Then), Effect => StoredOK'
    PROVE  RestOK'
<1>1. CASE WorkerCall(w, at, Effect /\ Then)
  BY <1>1, WorkerCallTypes
<1>2. CASE ~WorkerCall(w, at, Effect /\ Then)
  BY <1>2, GatewayAssumption DEF WorkerWrite, RestOK, HistoryOK, TodoOK
<1>3. QED
  BY <1>1, <1>2

LEMMA RecoveryTypes ==
    ASSUME WorkersInv, RestOK, NEW w \in Workers, Recovery(w)
    PROVE  RestOK'
<1> USE DEF StoredOK
<1>1. CASE ClaimStaleBalanceReservations(w)
  <2>1. PICK b \in Batches :
          LET claimed == {b[i] : i \in DOMAIN b} IN
          claim' = [c \in Calls |-> IF c \in claimed
                                    THEN [claim[c] EXCEPT !.owner = w, !.live = TRUE] ELSE claim[c]]
    BY <1>1, Zenon DEF ClaimStaleBalanceReservations
  <2> DEFINE claimed == {b[i] : i \in DOMAIN b}
  <2> HIDE DEF claimed
  <2>2. claim' \in [Calls -> ClaimRows]
    <3> DEFINE leased(c) == [claim[c] EXCEPT !.owner = w, !.live = TRUE]
               row(c) == IF c \in claimed THEN leased(c) ELSE claim[c]
    <3>1. claim' = [c \in Calls |-> row(c)]
      BY <2>1, Zenon DEF claimed
    <3>2. ASSUME NEW c \in Calls PROVE leased(c) \in ClaimRows /\ claim[c] \in ClaimRows
      BY DEF RestOK, ClaimRows
    <3> HIDE DEF leased
    <3>3. \A c \in Calls : row(c) \in ClaimRows
      BY <3>2
    <3> HIDE DEF row
    <3>4. QED
      BY <3>1, <3>3
  <2>3. faults' \in 0..MaxFaults
    <3>1. faults' = faults \/ (faults < MaxFaults /\ faults' = faults + 1)
      BY <1>1, Zenon DEF ClaimStaleBalanceReservations
    <3>2. QED
      BY <3>1, GatewayAssumption DEF RestOK, HistoryOK
  <2>4. UNCHANGED <<channel, request, slot, crashes, slow>>
    BY <1>1, Zenon DEF ClaimStaleBalanceReservations
  <2>5. QED
    BY <2>2, <2>3, <2>4 DEF RestOK, TodoOK, HistoryOK
<1>2. CASE VerifyLease(w)
  BY <1>2, WorkerCallTypes, StoredAreKept DEF VerifyLease, RestOK
<1>3. CASE LoadInvocation(w)
  <2> DEFINE Effect ==
        /\ LET inv == invocation[Current(w)]
               at == IF inv.status \in {"started", "streaming"} THEN "cancel" ELSE "settle"
               cost == IF inv.cost # 0 THEN inv.cost ELSE inv.usage
           IN  worker' = [worker EXCEPT ![w].at = at, ![w].cost = cost]
        /\ UNCHANGED stored
  <2>1. WorkerCall(w, "load", Effect)
    BY <1>3 DEF LoadInvocation
  <2>2. Effect => StoredOK'
    BY StoredAreKept DEF RestOK
  <2> HIDE DEF Effect
  <2>3. QED
    BY <2>1, <2>2, WorkerCallTypes
<1>4. CASE CancelStaleInvocation(w)
  <2> DEFINE active == invocation[Current(w)].status \in {"started", "streaming"}
             Effect == /\ invocation' = IF active
                                        THEN [invocation EXCEPT ![Current(w)].status = "cancelled"]
                                        ELSE invocation
                       /\ UNCHANGED <<ledgerVars, channel, claim, slot>>
  <2>1. WorkerWrite(w, "cancel", Effect, GoTo(w, IF active THEN "release" ELSE "settle"))
    BY <1>4 DEF CancelStaleInvocation
  <2>2. Effect => StoredOK'
    BY DEF RestOK
  <2> HIDE DEF Effect
  <2>3. QED
    BY <2>1, <2>2, WorkerWriteTypes
<1>5. CASE ReleaseStaleSlot(w)
  <2> DEFINE Effect == /\ ReleaseChannel(worker[w].cost, "neutral")
                       /\ slot' = [slot EXCEPT ![Current(w)] = @ - 1]
                       /\ UNCHANGED <<ledgerVars, invocation, claim>>
  <2>1. WorkerWrite(w, "release", Effect, GoTo(w, "settle"))
    BY <1>5 DEF ReleaseStaleSlot
  <2>2. worker[w].cost \in Nat
    BY AmountsAssumption DEF WorkersInv, WorkerRows
  <2>3. worker[w].at # "idle"
    BY <2>1 DEF WorkerWrite, WorkerCall
  <2>4. Effect => StoredOK'
    BY <2>2, <2>3, CurrentIsCall, ReleaseTypes DEF RestOK
  <2> HIDE DEF Effect
  <2>5. QED
    BY <2>1, <2>4, WorkerWriteTypes
<1>6. CASE SettleStale(w)
  <2> DEFINE Effect == /\ SettleAccessTokenBalance(Current(w), worker[w].cost)
                       /\ UNCHANGED <<channel, invocation, claim, slot>>
  <2>1. WorkerWrite(w, "settle", Effect, NextReservation(w))
    BY <1>6 DEF SettleStale
  <2>2. Effect => StoredOK'
    BY DEF RestOK
  <2> HIDE DEF Effect
  <2>3. QED
    BY <2>1, <2>2, WorkerWriteTypes
<1>7. CASE RefundStale(w)
  <2> DEFINE Effect == /\ RefundAccessTokenBalance(Current(w))
                       /\ UNCHANGED <<channel, invocation, claim, slot>>
  <2>1. WorkerWrite(w, "refund", Effect, NextReservation(w))
    BY <1>7 DEF RefundStale
  <2>2. Effect => StoredOK'
    BY DEF RestOK
  <2> HIDE DEF Effect
  <2>3. QED
    BY <2>1, <2>2, WorkerWriteTypes
<1>8. CASE ReleaseLease(w)
  <2>1. claim' \in [Calls -> ClaimRows]
    BY <1>8 DEF ReleaseLease, RestOK, ClaimRows
  <2>2. QED
    BY <1>8, <2>1, GatewayAssumption DEF ReleaseLease, RestOK, TodoOK, HistoryOK
<1>9. QED
  BY <1>1, <1>2, <1>3, <1>4, <1>5, <1>6, <1>7, <1>8 DEF Recovery

LEMMA EnvironmentTypes ==
    ASSUME RequestsInv, RestOK,
           \/ \E c \in Calls : Disconnect(c) \/ Crash(c) \/ Age(c) \/ LeaseExpires(c)
           \/ \E w \in Workers : WorkerCrash(w)
           \/ Adjust
           \/ Cooldown
           \/ UNCHANGED vars
    PROVE  RestOK'
<1> USE DEF StoredOK
<1>1. ASSUME NEW c \in Calls, Disconnect(c)
      PROVE  RestOK'
  <2>1. request' = [request EXCEPT ![c].gone = TRUE]
    BY <1>1 DEF Disconnect
  <2>2. \A d \in Calls : TodoOK(d)'
    BY <2>1 DEF RequestsInv, RequestFields, RestOK, TodoOK
  <2>3. QED
    BY <1>1, <2>2 DEF Disconnect, RestOK, HistoryOK, stored
<1>2. ASSUME NEW c \in Calls, Crash(c)
      PROVE  RestOK'
  <2>1. request' = [request EXCEPT ![c].todo = <<>>] /\ <<>> \in Seq(Steps)
    BY <1>2 DEF Crash
  <2>2. \A d \in Calls : TodoOK(d)'
    BY <2>1 DEF RequestsInv, RequestFields, RestOK, TodoOK
  <2>3. QED
    BY <1>2, <2>2, GatewayAssumption DEF Crash, RestOK, HistoryOK, stored
<1>3. ASSUME NEW c \in Calls, Age(c)
      PROVE  RestOK'
  BY <1>3 DEF Age, RestOK, HistoryOK, ClaimRows, TodoOK
<1>4. ASSUME NEW c \in Calls, LeaseExpires(c)
      PROVE  RestOK'
  <2>1. /\ claim' = [claim EXCEPT ![c].live = FALSE]
        /\ slow' \in 0..MaxSlow
        /\ UNCHANGED <<channel, request, slot, faults, crashes>>
    BY <1>4, GatewayAssumption DEF LeaseExpires, RestOK, HistoryOK
  <2>2. QED
    BY <2>1 DEF RestOK, HistoryOK, ClaimRows, TodoOK
<1>5. ASSUME NEW w \in Workers, WorkerCrash(w)
      PROVE  RestOK'
  BY <1>5, GatewayAssumption DEF WorkerCrash, RestOK, HistoryOK, TodoOK, stored
<1>6. CASE Adjust
  BY <1>6 DEF Adjust, gatewayVars, RestOK, HistoryOK, TodoOK
<1>7. CASE Cooldown
  BY <1>7 DEF Cooldown, CooldownElapses, Channel, gatewayVars, RestOK, HistoryOK, TodoOK
<1>8. CASE UNCHANGED vars
  BY <1>8 DEF vars, gatewayVars, RestOK, HistoryOK, TodoOK
<1>9. QED
  BY <1>1, <1>2, <1>3, <1>4, <1>5, <1>6, <1>7, <1>8

GatewayTypes == GatewayInv /\ LedgerTypeOK /\ RestOK

LEMMA GatewayTypesHold == GatewayTypes => GatewayTypeOK
BY TypeParts DEF GatewayTypes, GatewayInv, RequestsInv, WorkersInv

LEMMA GatewayTypesStart == GatewayInit => GatewayTypes
<1> SUFFICES ASSUME GatewayInit PROVE GatewayTypes
  OBVIOUS
<1>1. channel \in Channel
  BY ChannelAssumption DEF GatewayInit, NewChannel, Channel, Healths
<1>2. claim \in [Calls -> ClaimRows] /\ slot \in [Calls -> Int]
  BY DEF GatewayInit, ClaimRows
<1>3. \A c \in Calls : TodoOK(c)
  BY ListsAreSteps DEF GatewayInit, TodoOK, Outcomes
<1>4. HistoryOK
  BY GatewayAssumption DEF GatewayInit, HistoryOK
<1>5. QED
  BY <1>1, <1>2, <1>3, <1>4, GatewayStart, LedgerInitType DEF GatewayTypes, RestOK, StoredOK

LEMMA GatewayTypesStep == GatewayTypes /\ [GatewayNext]_vars => GatewayTypes'
<1> SUFFICES ASSUME GatewayTypes, [GatewayNext]_vars PROVE GatewayTypes'
  OBVIOUS
<1>1. StepOK
  BY GatewayStep DEF GatewayTypes
<1>2. GatewayInv' /\ LedgerTypeOK'
  BY <1>1, LedgerTypeStep DEF StepOK, GatewayTypes
<1>3. RestOK'
  BY HandlerTypes, RecoveryTypes, EnvironmentTypes DEF GatewayNext, GatewayTypes, GatewayInv
<1>4. QED
  BY <1>2, <1>3 DEF GatewayTypes

LEMMA GatewayTypesInvariant == GatewaySpec => []GatewayTypes
BY GatewayTypesStart, GatewayTypesStep, PTL DEF GatewaySpec

\* Whatever fails, crashes or is recovered twice, the rows and the handlers are what they
\* are said to be: no list of steps leads outside the steps the code has.
THEOREM GatewayTypeCorrect == GatewaySpec => []GatewayTypeOK
BY GatewayTypesInvariant, GatewayTypesHold, PTL

------------------------------------------------------------------------------
(***************************************************************************)
(* What a call is about to do says what it has done.  A handler is in one   *)
(* of the stages below, each given by the database calls that are left and  *)
(* by what then holds of the rows of the call.  The stages are disjuncts of *)
(* one invariant, so that a step leads from one disjunct to another.  All   *)
(* of it is for the recovery of reservations whose call has ended.          *)
(***************************************************************************)
Running(c) == invocation[c].status \in {"started", "streaming"}

Lost(c) == request[c].gone /\ ~request[c].opened

\* A call that ended without its client and was not recorded as failed: from here on
\* KeptContext is false for it.
Leaky(c) == Ended(c) /\ Lost(c) /\ invocation[c].status \notin {"none", "failed"}

Calm == faults = 0 /\ crashes = 0

\* CapacityIsExact speaks of no state before which this was not true.
Quiet == Calm /\ \A c \in Calls : ~Leaky(c)

Left(c, metered, plain) == request[c].todo = For(c, metered, plain)

Unused(c) == invocation[c].usage = 0 /\ invocation[c].cost = 0

Held(c) == c \in MeteredCalls => resv[c].state = "open"

Attached(c) == c \in MeteredCalls => claim[c].attached

Unopened(c) == c \notin StreamCalls => ~request[c].opened

HasSlot(c) == Quiet => slot[c] = 1

\* The slot was given back, unless the client was gone by then.
GaveSlot(c) == Quiet => slot[c] = 0 \/ (slot[c] = 1 /\ Lost(c) /\ Running(c))

Closed(c) == Calm => ~Running(c) \/ Lost(c)

Resolving(c) ==
    /\ request[c].todo = Opening(c)
    /\ resv[c].state = "none"
    /\ invocation[c].status = "none" /\ Unused(c) /\ ~request[c].opened
    /\ Quiet => slot[c] = 0

Reserving(c) ==
    /\ c \in MeteredCalls
    /\ request[c].todo = <<"reserve", "authorize", "create", "attach", "provider">>
    /\ resv[c].state = "none"
    /\ invocation[c].status = "none" /\ Unused(c) /\ ~request[c].opened
    /\ HasSlot(c)

Authorizing(c) ==
    /\ Left(c, <<"authorize", "create", "attach", "provider">>, <<"authorize", "create", "provider">>)
    /\ invocation[c].status = "none" /\ Unused(c) /\ ~request[c].opened
    /\ Held(c) /\ HasSlot(c)

Creating(c) ==
    /\ Left(c, <<"create", "attach", "provider">>, <<"create", "provider">>)
    /\ invocation[c].status = "none" /\ Unused(c) /\ ~request[c].opened
    /\ Held(c) /\ HasSlot(c)

Attaching(c) ==
    /\ c \in MeteredCalls
    /\ request[c].todo = <<"attach", "provider">>
    /\ Running(c) /\ Unused(c) /\ ~request[c].opened
    /\ Held(c) /\ HasSlot(c)

Asking(c) ==
    /\ request[c].todo = <<"provider">>
    /\ Running(c) /\ Unused(c) /\ ~request[c].opened
    /\ Held(c) /\ Attached(c) /\ HasSlot(c)

Recording(c) ==
    /\ \/ request[c].todo = AfterSuccess(c)
       \/ c \in StreamCalls /\ request[c].todo = AfterStreamError(c)
       \/ c \in StreamCalls /\ request[c].todo = AfterStreamCancelled(c)
    /\ Running(c) /\ Unused(c) /\ Unopened(c)
    /\ Held(c) /\ Attached(c) /\ HasSlot(c)

Settling(c) ==
    /\ c \in MeteredCalls
    /\ \/ c \notin StreamCalls /\ request[c].todo = <<"settle", "releaseReq", "complete">>
       \/ c \in StreamCalls /\ request[c].todo = <<"settle", "release", "complete">>
       \/ c \in StreamCalls /\ request[c].todo = <<"settle", "fail", "release">>
       \/ c \in StreamCalls /\ request[c].todo = <<"settle", "cancel", "release">>
    /\ Running(c) /\ invocation[c].cost = 0 /\ Unopened(c)
    /\ Held(c) /\ HasSlot(c)

Paid(c) ==
    c \in MeteredCalls => resv[c].state = "settled" /\ resv[c].cost = request[c].cost

Finishing(c) ==
    /\ request[c].todo = IF c \in StreamCalls THEN <<"release", "complete">>
                         ELSE <<"releaseReq", "complete">>
    /\ Running(c) /\ Unopened(c) /\ Paid(c) /\ HasSlot(c)

Completing(c) ==
    /\ request[c].todo = <<"complete">>
    /\ Running(c) /\ Paid(c)
    /\ Quiet => slot[c] = 0 \/ (slot[c] = 1 /\ Lost(c) /\ c \notin StreamCalls)
    /\ Unopened(c)

Stopping(c) ==
    /\ request[c].todo = <<"fail", "release">> \/ request[c].todo = <<"cancel", "release">>
    /\ HasSlot(c)

Releasing(c) ==
    /\ request[c].todo = <<"release">>
    /\ Closed(c) /\ HasSlot(c)

Undoing(c) ==
    /\ c \in MeteredCalls
    /\ request[c].todo = <<"refund", "release">>
    /\ faults = 0 => invocation[c].usage = 0
    /\ Closed(c) /\ HasSlot(c)

Detaching(c) ==
    /\ c \in MeteredCalls
    /\ request[c].todo = <<"refund", "fail", "release">>
    /\ invocation[c].usage = 0
    /\ HasSlot(c)

Excusing(c) ==
    /\ Left(c, <<"releaseReq", "failReq", "refund">>, <<"releaseReq", "failReq">>)
    /\ Running(c) /\ invocation[c].usage = 0 /\ ~request[c].opened
    /\ HasSlot(c)

Failing(c) ==
    /\ Left(c, <<"failReq", "refund">>, <<"failReq">>)
    /\ Running(c) /\ invocation[c].usage = 0 /\ ~request[c].opened
    /\ GaveSlot(c)

Refunding(c) ==
    /\ c \in MeteredCalls
    /\ request[c].todo = <<"refund">>
    /\ invocation[c].usage = 0
    /\ Closed(c) /\ GaveSlot(c)

Over(c) ==
    /\ Ended(c)
    /\ Closed(c)
    /\ Quiet => slot[c] = 0

\* Where a handler may be.
StageOK(c) ==
    \/ Resolving(c) \/ Reserving(c) \/ Authorizing(c) \/ Creating(c)
    \/ Attaching(c) \/ Asking(c) \/ Recording(c) \/ Settling(c)
    \/ Finishing(c) \/ Completing(c) \/ Stopping(c) \/ Releasing(c)
    \/ Undoing(c) \/ Detaching(c) \/ Excusing(c) \/ Failing(c)
    \/ Refunding(c) \/ Over(c)

\* What the rows of a call say of each other at all times.
MoneyOK(c) ==
    /\ c \notin MeteredCalls => resv[c].state = "none"
    /\ claim[c].stale => Ended(c) /\ c \in MeteredCalls
    /\ invocation[c].usage \in {0, request[c].cost}
    /\ invocation[c].cost \in {0, request[c].cost}
    /\ invocation[c].usage # 0 => Attached(c)
    /\ resv[c].state = "settled" => resv[c].cost >= invocation[c].usage
    /\ (faults = 0 /\ resv[c].state = "refunded") => invocation[c].usage = 0
    /\ (c \in MeteredCalls /\ invocation[c].status = "completed") =>
          resv[c].state = "settled" /\ resv[c].cost = invocation[c].cost

\* What a worker knows of its batch stays true: the calls have ended.
BatchOK(w) ==
    /\ \A i \in DOMAIN worker[w].batch :
          LET c == worker[w].batch[i] IN
          claim[c].stale /\ (c \in worker[w].linked <=> claim[c].attached)
    /\ worker[w].at = "refund" => Current(w) \notin worker[w].linked
    /\ worker[w].at \in {"cancel", "release", "settle"} =>
          worker[w].cost >= invocation[Current(w)].usage
    /\ worker[w].at = "release" => ~Quiet

\* inflight_requests is the number of slots that are out.
CapacityOK == Quiet => channel.inflight = Cardinality({c \in Calls : slot[c] = 1})

CallOK(c) == StageOK(c) /\ MoneyOK(c)

CallsInv ==
    /\ \A c \in Calls : CallOK(c)
    /\ \A w \in Workers : BatchOK(w)
    /\ CapacityOK

------------------------------------------------------------------------------
LEMMA OpeningStages ==
    ASSUME NEW c \in Calls
    PROVE  /\ Resolving(c) => At(c, "resolve")
           /\ Reserving(c) => At(c, "reserve")
           /\ Authorizing(c) => At(c, "authorize")
           /\ Creating(c) => At(c, "create")
           /\ Attaching(c) => At(c, "attach")
           /\ Asking(c) => At(c, "provider")
<1> USE DEF At, For, Left
<1>1. Resolving(c) => At(c, "resolve")
  BY DEF Resolving, Opening
<1>2. Reserving(c) => At(c, "reserve")
  BY DEF Reserving
<1>3. Authorizing(c) => At(c, "authorize")
  BY DEF Authorizing
<1>4. Creating(c) => At(c, "create")
  BY DEF Creating
<1>5. (Attaching(c) => At(c, "attach")) /\ (Asking(c) => At(c, "provider"))
  BY DEF Attaching, Asking
<1>6. QED
  BY <1>1, <1>2, <1>3, <1>4, <1>5

LEMMA ClosingStages ==
    ASSUME NEW c \in Calls
    PROVE  /\ Recording(c) => At(c, "ledger")
           /\ Settling(c) => At(c, "settle")
           /\ Finishing(c) => At(c, IF c \in StreamCalls THEN "release" ELSE "releaseReq")
           /\ Completing(c) => At(c, "complete")
           /\ Stopping(c) => At(c, "fail") \/ At(c, "cancel")
           /\ Releasing(c) => At(c, "release")
<1> USE DEF At, For
<1>1. Recording(c) => At(c, "ledger")
  BY DEF Recording, AfterSuccess, AfterStreamError, AfterStreamCancelled
<1>2. Settling(c) => At(c, "settle")
  BY DEF Settling
<1>3. Finishing(c) => At(c, IF c \in StreamCalls THEN "release" ELSE "releaseReq")
  BY DEF Finishing
<1>4. Completing(c) => At(c, "complete")
  BY DEF Completing
<1>5. Stopping(c) => At(c, "fail") \/ At(c, "cancel")
  BY DEF Stopping
<1>6. Releasing(c) => At(c, "release")
  BY DEF Releasing
<1>7. QED
  BY <1>1, <1>2, <1>3, <1>4, <1>5, <1>6

LEMMA UndoingStages ==
    ASSUME NEW c \in Calls
    PROVE  /\ Undoing(c) => At(c, "refund")
           /\ Detaching(c) => At(c, "refund")
           /\ Excusing(c) => At(c, "releaseReq")
           /\ Failing(c) => At(c, "failReq")
           /\ Refunding(c) => At(c, "refund")
           /\ Over(c) => \A step : ~At(c, step)
<1> USE DEF At, For, Left
<1>1. (Undoing(c) => At(c, "refund")) /\ (Detaching(c) => At(c, "refund"))
  BY DEF Undoing, Detaching
<1>2. Excusing(c) => At(c, "releaseReq")
  BY DEF Excusing
<1>3. Failing(c) => At(c, "failReq")
  BY DEF Failing
<1>4. Refunding(c) => At(c, "refund")
  BY DEF Refunding
<1>5. Over(c) => \A step : ~At(c, step)
  BY DEF Over, Ended
<1>6. QED
  BY <1>1, <1>2, <1>3, <1>4, <1>5

\* The step that is next tells the stage.
LEMMA StageOfStep ==
    ASSUME NEW c \in Calls, StageOK(c), NEW step, At(c, step)
    PROVE  /\ step = "resolve" => Resolving(c)
           /\ step = "reserve" => Reserving(c)
           /\ step = "authorize" => Authorizing(c)
           /\ step = "create" => Creating(c)
           /\ step = "attach" => Attaching(c)
           /\ step = "provider" => Asking(c)
           /\ step = "ledger" => Recording(c)
           /\ step = "settle" => Settling(c)
           /\ step = "releaseReq" => Excusing(c) \/ (Finishing(c) /\ c \notin StreamCalls)
           /\ step = "release" => Releasing(c) \/ (Finishing(c) /\ c \in StreamCalls)
           /\ step = "complete" => Completing(c)
           /\ step \in {"fail", "cancel"} => Stopping(c)
           /\ step = "failReq" => Failing(c)
           /\ step = "refund" => Undoing(c) \/ Detaching(c) \/ Refunding(c)
BY OpeningStages, ClosingStages, UndoingStages DEF StageOK, At

------------------------------------------------------------------------------
(* What a step does not touch *)

SameRow(d) ==
    /\ invocation'[d] = invocation[d]
    /\ claim'[d].attached = claim[d].attached
    /\ claim'[d].stale = claim[d].stale
    /\ request'[d] = request[d]
    /\ slot'[d] = slot[d]
    /\ resv'[d] = resv[d]

Later ==
    /\ faults' = 0 => faults = 0
    /\ Calm' => Calm
    /\ Quiet' => Quiet

LEMMA SameRowStage ==
    ASSUME NEW d \in Calls, StageOK(d), SameRow(d), Later
    PROVE  StageOK(d)'
<1> USE DEF SameRow, Later, HasSlot, GaveSlot, Closed, Held, Attached, Unused, Unopened,
            Running, Lost, Left, Paid
<1>1. CASE Resolving(d)
  BY <1>1 DEF StageOK, Resolving
<1>2. CASE Reserving(d)
  BY <1>2 DEF StageOK, Reserving
<1>3. CASE Authorizing(d)
  BY <1>3 DEF StageOK, Authorizing
<1>4. CASE Creating(d)
  BY <1>4 DEF StageOK, Creating
<1>5. CASE Attaching(d)
  BY <1>5 DEF StageOK, Attaching
<1>6. CASE Asking(d)
  BY <1>6 DEF StageOK, Asking
<1>7. CASE Recording(d)
  BY <1>7 DEF StageOK, Recording
<1>8. CASE Settling(d)
  BY <1>8 DEF StageOK, Settling
<1>9. CASE Finishing(d)
  BY <1>9 DEF StageOK, Finishing
<1>10. CASE Completing(d)
  BY <1>10 DEF StageOK, Completing
<1>11. CASE Stopping(d)
  BY <1>11 DEF StageOK, Stopping
<1>12. CASE Releasing(d)
  BY <1>12 DEF StageOK, Releasing
<1>13. CASE Undoing(d)
  BY <1>13 DEF StageOK, Undoing
<1>14. CASE Detaching(d)
  BY <1>14 DEF StageOK, Detaching
<1>15. CASE Excusing(d)
  BY <1>15 DEF StageOK, Excusing
<1>16. CASE Failing(d)
  BY <1>16 DEF StageOK, Failing
<1>17. CASE Refunding(d)
  BY <1>17 DEF StageOK, Refunding
<1>18. CASE Over(d)
  BY <1>18 DEF StageOK, Over, Ended
<1>19. QED
  BY <1>1, <1>2, <1>3, <1>4, <1>5, <1>6, <1>7, <1>8, <1>9, <1>10, <1>11, <1>12, <1>13,
     <1>14, <1>15, <1>16, <1>17, <1>18 DEF StageOK

LEMMA SameRowMoney ==
    ASSUME NEW d \in Calls, MoneyOK(d), SameRow(d), Later
    PROVE  MoneyOK(d)'
BY DEF SameRow, Later, MoneyOK, Ended, Attached

\* Steps move away from the calm: faults and crashes are counted up, and a call that
\* ended without its client stays as it is.
LEMMA LaterSteps ==
    ASSUME faults \in Nat, crashes \in Nat,
           faults' = faults \/ faults' = faults + 1,
           crashes' = crashes \/ crashes' = crashes + 1,
           \A d \in Calls : Leaky(d) => Leaky(d)'
    PROVE  Later
<1>1. faults' = 0 => faults = 0
  OBVIOUS
<1>2. Calm' => Calm
  BY DEF Calm
<1>3. Quiet' => Quiet
  BY <1>2 DEF Quiet
<1>4. QED
  BY <1>1, <1>2, <1>3 DEF Later

LEMMA SameRowLeaky ==
    ASSUME NEW d \in Calls, SameRow(d)
    PROVE  Leaky(d) = Leaky(d)'
BY DEF SameRow, Leaky, Ended, Lost

LEMMA ReserveRow ==
    ASSUME resv \in [Calls -> Reservation], NEW c \in Calls, NEW amount,
           ReserveAccessTokenBalance(c, amount)
    PROVE  /\ resv'[c].state = "open"
           /\ \A d \in Calls \ {c} : resv'[d] = resv[d]
BY DEF ReserveAccessTokenBalance

LEMMA FinishRow ==
    ASSUME resv \in [Calls -> Reservation], NEW c \in Calls, NEW kind, NEW actual,
           FinishAccessTokenReservation(c, kind, actual)
    PROVE  /\ resv'[c].state = IF resv[c].state = "open" THEN kind ELSE resv[c].state
           /\ resv[c].state # "open" => resv'[c] = resv[c]
           /\ (resv[c].state = "open" /\ kind = "settled") => resv'[c].cost = actual
           /\ \A d \in Calls \ {c} : resv'[d] = resv[d]
<1>1. CASE resv[c].state # "open"
  BY <1>1 DEF FinishAccessTokenReservation, ledgerVars
<1>2. CASE resv[c].state = "open"
  <2> DEFINE settled == IF kind = "settled" THEN actual ELSE 0
  <2>1. resv' = [resv EXCEPT ![c].state = kind, ![c].cost = settled]
    BY <1>2 DEF FinishAccessTokenReservation
  <2> HIDE DEF settled
  <2>2. /\ resv'[c].state = kind /\ resv'[c].cost = settled
        /\ \A d \in Calls \ {c} : resv'[d] = resv[d]
    BY <2>1 DEF Reservation
  <2>3. QED
    BY <1>2, <2>2 DEF settled
<1>3. QED
  BY <1>1, <1>2

------------------------------------------------------------------------------
(* One lemma for each step of a handler: from stage to stage *)

OthersSame(c) == \A d \in Calls \ {c} : SameRow(d)

HandlerOK(c) == CallOK(c)' /\ OthersSame(c) /\ Later

StoredRow(d) ==
    /\ invocation'[d] = invocation[d]
    /\ claim'[d] = claim[d]
    /\ slot'[d] = slot[d]
    /\ resv'[d] = resv[d]

LEMMA StoredRows ==
    ASSUME UNCHANGED stored
    PROVE  \A d \in Calls : StoredRow(d)
BY StoredAreKept DEF StoredRow

LEMMA HandlerFrame ==
    ASSUME GatewayTypes, NEW c \in Calls, ~Ended(c),
           \A d \in Calls \ {c} : StoredRow(d) /\ request'[d] = request[d],
           faults' = faults \/ faults' = faults + 1,
           crashes' = crashes
    PROVE  OthersSame(c) /\ Later
<1>1. OthersSame(c)
  BY DEF OthersSame, StoredRow, SameRow
<1>2. ~Leaky(c)
  BY DEF Leaky
<1>3. \A d \in Calls : Leaky(d) => Leaky(d)'
  BY <1>1, <1>2, SameRowLeaky DEF OthersSame
<1>4. faults \in Nat /\ crashes \in Nat
  BY GatewayAssumption DEF GatewayTypes, RestOK, HistoryOK
<1>5. QED
  BY <1>1, <1>3, <1>4, LaterSteps

LEMMA DatabaseCallFrame ==
    ASSUME GatewayTypes, NEW c \in Calls, NEW step, NEW ACTION Effect,
           DatabaseCall(c, step, Effect),
           Effect => \A d \in Calls \ {c} : StoredRow(d)
    PROVE  OthersSame(c) /\ Later /\ ~Ended(c)
<1>1. RequestsInv
  BY DEF GatewayTypes, GatewayInv
<1>2. ~Ended(c)
  BY DEF DatabaseCall, At, Ended
<1>3. \A d \in Calls \ {c} : StoredRow(d) /\ request'[d] = request[d]
  BY <1>1, DatabaseCallCases, StoredRows DEF MovesTo
<1>4. (faults' = faults \/ faults' = faults + 1) /\ crashes' = crashes
  BY <1>1, DatabaseCallCases
<1>5. QED
  BY <1>2, <1>3, <1>4, HandlerFrame

\* After a fault nothing is said of capacity, nor of the refund of what was used.
LEMMA FaultIsLoud ==
    ASSUME GatewayTypes, faults' = faults + 1
    PROVE  faults' # 0 /\ ~Calm' /\ ~Quiet'
<1>1. faults' # 0
  BY GatewayAssumption DEF GatewayTypes, RestOK, HistoryOK
<1>2. QED
  BY <1>1 DEF Calm, Quiet

LEMMA MoneyIsKept ==
    ASSUME NEW c \in Calls, MoneyOK(c), ~Ended(c), Later,
           invocation'[c].usage = invocation[c].usage,
           invocation'[c].cost = invocation[c].cost,
           invocation'[c].status # "completed" \/ invocation'[c].status = invocation[c].status,
           claim'[c] = claim[c], resv'[c] = resv[c],
           request'[c].cost = request[c].cost
    PROVE  MoneyOK(c)'
BY DEF MoneyOK, Later, Attached

LEMMA CallTypes ==
    ASSUME GatewayTypes, NEW c \in Calls
    PROVE  /\ RequestsInv
           /\ invocation \in [Calls -> InvocationRows] /\ invocation[c] \in InvocationRows
           /\ claim \in [Calls -> ClaimRows] /\ claim[c] \in ClaimRows
           /\ resv \in [Calls -> Reservation] /\ resv[c] \in Reservation
           /\ slot \in [Calls -> Int] /\ slot[c] \in Int
           /\ request[c].cost \in Nat
           /\ request[c].gone \in BOOLEAN /\ request[c].opened \in BOOLEAN
<1>1. RequestsInv /\ request[c].cost \in Nat
  BY AmountsAssumption DEF GatewayTypes, GatewayInv, RequestsInv
<1>2. QED
  BY <1>1 DEF GatewayTypes, GatewayInv, RestOK, StoredOK, TodoOK, LedgerTypeOK

\* How a database call ends for its handler: it worked, or it was cut off by the client's
\* absence with nothing done, or it failed, which the history shows.
LEMMA DatabaseCallOutcome ==
    ASSUME GatewayTypes, NEW c \in Calls, NEW step, NEW ACTION Effect,
           DatabaseCall(c, step, Effect),
           Effect => \A d \in Calls \ {c} : StoredRow(d)
    PROVE  LET rest == Tail(request[c].todo)
               cut  == request[c].gone /\ UsesRequestContext(c, step)
           IN  /\ At(c, step) /\ ~Ended(c)
               /\ OthersSame(c) /\ Later
               /\ request'[c].cost = request[c].cost
               /\ request'[c].gone = request[c].gone
               /\ request'[c].opened = request[c].opened
               /\ \/ Effect /\ ~cut /\ faults' = faults /\ request'[c].todo = rest
                  \/ /\ StoredRow(c) /\ cut /\ faults' = faults
                     /\ request'[c].todo = OnError(c, step, rest)
                  \/ /\ Effect \/ StoredRow(c)
                     /\ faults' # 0 /\ ~Calm' /\ ~Quiet'
                     /\ request'[c].todo = OnError(c, step, rest)
<1>1. RequestsInv
  BY CallTypes
<1>2. OthersSame(c) /\ Later /\ ~Ended(c)
  BY DatabaseCallFrame
<1>3. QED
  BY <1>1, <1>2, DatabaseCallCases, StoredRows, FaultIsLoud DEF MovesTo

LEMMA ResolveStage ==
    ASSUME GatewayTypes, NEW c \in Calls, CallOK(c), ResolveInvocationTarget(c)
    PROVE  HandlerOK(c)
<1> DEFINE Effect == /\ AdmitCall
                     /\ slot' = [slot EXCEPT ![c] = @ + 1]
                     /\ UNCHANGED <<ledgerVars, invocation, claim>>
           rest == Tail(request[c].todo)
<1>1. DatabaseCall(c, "resolve", Effect)
  BY DEF ResolveInvocationTarget
<1>2. Effect => /\ \A d \in Calls \ {c} : StoredRow(d)
                /\ slot'[c] = slot[c] + 1
                /\ invocation'[c] = invocation[c] /\ claim'[c] = claim[c] /\ resv'[c] = resv[c]
  BY CallTypes DEF StoredRow, ledgerVars
<1> HIDE DEF Effect
<1>3. /\ At(c, "resolve") /\ ~Ended(c) /\ OthersSame(c) /\ Later
      /\ request'[c].cost = request[c].cost /\ request'[c].opened = request[c].opened
      /\ \/ Effect /\ request'[c].todo = rest
         \/ /\ request'[c].todo = OnError(c, "resolve", rest)
            /\ StoredRow(c) \/ (Effect /\ ~Quiet')
  BY <1>1, <1>2, DatabaseCallOutcome
<1>4. Resolving(c) /\ MoneyOK(c)
  BY <1>3, StageOfStep DEF CallOK
<1>5. invocation'[c] = invocation[c] /\ claim'[c] = claim[c] /\ resv'[c] = resv[c]
  BY <1>2, <1>3 DEF StoredRow
<1>6. MoneyOK(c)'
  BY <1>3, <1>4, <1>5, MoneyIsKept
<1>7. ASSUME Effect, request'[c].todo = rest, c \in MeteredCalls
      PROVE  Reserving(c)'
  <2>1. rest = <<"reserve", "authorize", "create", "attach", "provider">>
    BY <1>4, <1>7 DEF Resolving, Opening, For
  <2>2. QED
    BY <1>2, <1>3, <1>4, <1>5, <1>7, <2>1 DEF Reserving, Resolving, Later, HasSlot, Unused
<1>8. ASSUME Effect, request'[c].todo = rest, c \notin MeteredCalls
      PROVE  Authorizing(c)'
  <2>1. rest = <<"authorize", "create", "provider">>
    BY <1>4, <1>8 DEF Resolving, Opening, For
  <2>2. QED
    BY <1>2, <1>3, <1>4, <1>5, <1>8, <2>1
       DEF Authorizing, Resolving, Later, HasSlot, Unused, Left, For, Held
<1>9. ASSUME request'[c].todo = OnError(c, "resolve", rest), ~Quiet' \/ StoredRow(c)
      PROVE  Over(c)'
  <2>1. request'[c].todo = <<>>
    BY <1>9 DEF OnError
  <2>2. QED
    BY <1>3, <1>4, <1>5, <1>9, <2>1
       DEF Over, Ended, Resolving, Later, Closed, Running, StoredRow
<1>10. StageOK(c)'
  BY <1>3, <1>7, <1>8, <1>9 DEF StageOK
<1>11. QED
  BY <1>3, <1>6, <1>10 DEF HandlerOK, CallOK

\* A step that changes no stored row.
QuietStep(c, step) ==
    /\ At(c, step)
    /\ UNCHANGED <<stored, worker, faults, crashes, slow>>

LEMMA QuietStepFrame ==
    ASSUME GatewayTypes, NEW c \in Calls, NEW step, QuietStep(c, step),
           \A d \in Calls \ {c} : request'[d] = request[d]
    PROVE  OthersSame(c) /\ Later /\ ~Ended(c) /\ StoredRow(c)
<1>1. ~Ended(c)
  BY DEF QuietStep, At, Ended
<1>2. \A d \in Calls : StoredRow(d)
  BY StoredRows DEF QuietStep
<1>3. QED
  BY <1>1, <1>2, HandlerFrame DEF QuietStep

LEMMA NoTargetStage ==
    ASSUME GatewayTypes, NEW c \in Calls, CallOK(c), NoTarget(c)
    PROVE  HandlerOK(c)
<1>1. QuietStep(c, "resolve") /\ GiveUp(c, "resolve")
  BY DEF NoTarget, QuietStep
<1>2. Resolving(c) /\ MoneyOK(c)
  BY <1>1, StageOfStep DEF CallOK, QuietStep
<1>3. /\ request'[c].todo = OnError(c, "resolve", Tail(request[c].todo))
      /\ request'[c].cost = request[c].cost
      /\ \A d \in Calls \ {c} : request'[d] = request[d]
  BY <1>1, CallTypes, GiveUpMoves DEF MovesTo
<1>4. OthersSame(c) /\ Later /\ ~Ended(c) /\ StoredRow(c)
  BY <1>1, <1>3, QuietStepFrame
<1>5. MoneyOK(c)'
  BY <1>2, <1>3, <1>4, MoneyIsKept DEF StoredRow
<1>6. request'[c].todo = <<>>
  BY <1>3 DEF OnError
<1>7. Over(c)'
  BY <1>2, <1>4, <1>6 DEF Over, Ended, Resolving, Later, Closed, Running, StoredRow
<1>8. QED
  BY <1>4, <1>5, <1>7 DEF HandlerOK, CallOK, StageOK

LEMMA ReserveStage ==
    ASSUME GatewayTypes, NEW c \in Calls, CallOK(c), Reserve(c)
    PROVE  HandlerOK(c)
<1> DEFINE Effect == /\ \E amount \in Estimates : ReserveAccessTokenBalance(c, amount)
                     /\ UNCHANGED <<channel, invocation, claim, slot>>
           rest == Tail(request[c].todo)
<1>1. DatabaseCall(c, "reserve", Effect)
  BY DEF Reserve
<1>2. Effect => /\ \A d \in Calls \ {c} : StoredRow(d)
                /\ resv'[c].state = "open"
                /\ invocation'[c] = invocation[c] /\ claim'[c] = claim[c] /\ slot'[c] = slot[c]
  BY CallTypes, ReserveRow DEF StoredRow
<1> HIDE DEF Effect
<1>3. /\ At(c, "reserve") /\ ~Ended(c) /\ OthersSame(c) /\ Later
      /\ request'[c].cost = request[c].cost /\ request'[c].opened = request[c].opened
      /\ \/ Effect /\ request'[c].todo = rest
         \/ request'[c].todo = OnError(c, "reserve", rest) /\ (StoredRow(c) \/ Effect)
  BY <1>1, <1>2, DatabaseCallOutcome
<1>4. Reserving(c) /\ MoneyOK(c)
  BY <1>3, StageOfStep DEF CallOK
<1>5. invocation'[c] = invocation[c] /\ claim'[c] = claim[c] /\ slot'[c] = slot[c]
  BY <1>2, <1>3 DEF StoredRow
<1>6. MoneyOK(c)'
  BY <1>2, <1>3, <1>4, <1>5 DEF MoneyOK, Reserving, StoredRow, Later, Attached
<1>7. ASSUME Effect, request'[c].todo = rest
      PROVE  Authorizing(c)'
  <2>1. rest = <<"authorize", "create", "attach", "provider">>
    BY <1>4 DEF Reserving
  <2>2. QED
    BY <1>2, <1>3, <1>4, <1>5, <1>7, <2>1
       DEF Authorizing, Reserving, Later, HasSlot, Unused, Left, For, Held
<1>8. ASSUME request'[c].todo = OnError(c, "reserve", rest)
      PROVE  Releasing(c)'
  <2>1. request'[c].todo = <<"release">>
    BY <1>8 DEF OnError
  <2>2. QED
    BY <1>3, <1>4, <1>5, <2>1 DEF Releasing, Reserving, Later, Closed, Running, HasSlot
<1>9. StageOK(c)'
  BY <1>3, <1>7, <1>8 DEF StageOK
<1>10. QED
  BY <1>3, <1>6, <1>9 DEF HandlerOK, CallOK

LEMMA RefusedStage ==
    ASSUME GatewayTypes, NEW c \in Calls, CallOK(c), ReservationRefused(c)
    PROVE  HandlerOK(c)
<1>1. QuietStep(c, "reserve") /\ GiveUp(c, "reserve")
  BY DEF ReservationRefused, QuietStep
<1>2. Reserving(c) /\ MoneyOK(c)
  BY <1>1, StageOfStep DEF CallOK, QuietStep
<1>3. /\ request'[c].todo = OnError(c, "reserve", Tail(request[c].todo))
      /\ request'[c].cost = request[c].cost
      /\ \A d \in Calls \ {c} : request'[d] = request[d]
  BY <1>1, CallTypes, GiveUpMoves DEF MovesTo
<1>4. OthersSame(c) /\ Later /\ ~Ended(c) /\ StoredRow(c)
  BY <1>1, <1>3, QuietStepFrame
<1>5. MoneyOK(c)'
  BY <1>2, <1>3, <1>4, MoneyIsKept DEF StoredRow
<1>6. request'[c].todo = <<"release">>
  BY <1>3 DEF OnError
<1>7. Releasing(c)'
  BY <1>2, <1>4, <1>6 DEF Releasing, Reserving, Later, Closed, Running, HasSlot, StoredRow
<1>8. QED
  BY <1>4, <1>5, <1>7 DEF HandlerOK, CallOK, StageOK

\* Where a handler goes that gives up before it asked the provider.
LEMMA CompensationStage ==
    ASSUME NEW c \in Calls, Later,
           request'[c].todo = Compensation(c),
           faults' = 0 => invocation'[c].usage = 0,
           Closed(c)', HasSlot(c)'
    PROVE  StageOK(c)'
<1>1. CASE c \in MeteredCalls
  <2>1. Undoing(c)'
    BY <1>1 DEF Undoing, Compensation, For
  <2>2. QED
    BY <2>1 DEF StageOK
<1>2. CASE c \notin MeteredCalls
  <2>1. Releasing(c)'
    BY <1>2 DEF Releasing, Compensation, For
  <2>2. QED
    BY <2>1 DEF StageOK
<1>3. QED
  BY <1>1, <1>2

LEMMA AuthorizeStage ==
    ASSUME GatewayTypes, NEW c \in Calls, CallOK(c), Authorize(c)
    PROVE  HandlerOK(c)
<1> DEFINE rest == Tail(request[c].todo)
<1>1. QuietStep(c, "authorize") /\ (Succeed(c) \/ GiveUp(c, "authorize"))
  BY DEF Authorize, QuietStep
<1>2. Authorizing(c) /\ MoneyOK(c)
  BY <1>1, StageOfStep DEF CallOK, QuietStep
<1>3. /\ \/ request'[c].todo = rest
         \/ request'[c].todo = OnError(c, "authorize", rest)
      /\ request'[c].cost = request[c].cost /\ request'[c].opened = request[c].opened
      /\ \A d \in Calls \ {c} : request'[d] = request[d]
  BY <1>1, CallTypes, GiveUpMoves, SucceedMoves DEF MovesTo
<1>4. OthersSame(c) /\ Later /\ ~Ended(c) /\ StoredRow(c)
  BY <1>1, <1>3, QuietStepFrame
<1>5. MoneyOK(c)'
  BY <1>2, <1>3, <1>4, MoneyIsKept DEF StoredRow
<1>6. ASSUME request'[c].todo = rest
      PROVE  StageOK(c)'
  <2>1. rest = For(c, <<"create", "attach", "provider">>, <<"create", "provider">>)
    BY <1>2 DEF Authorizing, Left, For
  <2>2. Creating(c)'
    BY <1>2, <1>3, <1>4, <1>6, <2>1
       DEF Creating, Authorizing, Later, HasSlot, Unused, Left, Held, StoredRow, For
  <2>3. QED
    BY <2>2 DEF StageOK
<1>7. ASSUME request'[c].todo = OnError(c, "authorize", rest)
      PROVE  StageOK(c)'
  <2>1. request'[c].todo = Compensation(c)
    BY <1>7 DEF OnError
  <2>2. Closed(c)' /\ HasSlot(c)' /\ invocation'[c].usage = 0
    BY <1>2, <1>4 DEF Authorizing, Later, HasSlot, Unused, Closed, Running, StoredRow
  <2>3. QED
    BY <1>4, <2>1, <2>2, CompensationStage
<1>8. QED
  BY <1>3, <1>4, <1>5, <1>6, <1>7 DEF HandlerOK, CallOK

LEMMA InvocationRow ==
    ASSUME GatewayTypes, NEW c \in Calls, NEW status,
           invocation' = [invocation EXCEPT ![c].status = status]
    PROVE  /\ invocation'[c].status = status
           /\ invocation'[c].usage = invocation[c].usage
           /\ invocation'[c].cost = invocation[c].cost
           /\ \A d \in Calls \ {c} : invocation'[d] = invocation[d]
BY CallTypes DEF InvocationRows

LEMMA CreateStage ==
    ASSUME GatewayTypes, NEW c \in Calls, CallOK(c), CreateInvocation(c)
    PROVE  HandlerOK(c)
<1> DEFINE status == IF c \in StreamCalls THEN "streaming" ELSE "started"
           Effect == /\ invocation' = [invocation EXCEPT ![c].status = status]
                     /\ UNCHANGED <<ledgerVars, channel, claim, slot>>
           rest == Tail(request[c].todo)
<1>1. DatabaseCall(c, "create", Effect)
  BY DEF CreateInvocation
<1>2. status \in {"started", "streaming"}
  OBVIOUS
<1> HIDE DEF status
<1>3. Effect => /\ \A d \in Calls \ {c} : StoredRow(d)
                /\ invocation'[c].status = status
                /\ invocation'[c].usage = invocation[c].usage
                /\ invocation'[c].cost = invocation[c].cost
                /\ claim'[c] = claim[c] /\ resv'[c] = resv[c] /\ slot'[c] = slot[c]
  BY InvocationRow DEF StoredRow, ledgerVars
<1> HIDE DEF Effect
<1>4. /\ At(c, "create") /\ ~Ended(c) /\ OthersSame(c) /\ Later
      /\ request'[c].cost = request[c].cost /\ request'[c].opened = request[c].opened
      /\ \/ Effect /\ request'[c].todo = rest
         \/ /\ request'[c].todo = OnError(c, "create", rest)
            /\ StoredRow(c) \/ (Effect /\ ~Quiet' /\ ~Calm')
  BY <1>1, <1>3, DatabaseCallOutcome
<1>5. Creating(c) /\ MoneyOK(c)
  BY <1>4, StageOfStep DEF CallOK
<1>6. /\ invocation'[c].usage = invocation[c].usage /\ invocation'[c].cost = invocation[c].cost
      /\ invocation'[c].status = status \/ invocation'[c].status = invocation[c].status
      /\ claim'[c] = claim[c] /\ resv'[c] = resv[c] /\ slot'[c] = slot[c]
  BY <1>3, <1>4 DEF StoredRow
<1>7. MoneyOK(c)'
  BY <1>2, <1>4, <1>5, <1>6, MoneyIsKept
<1>8. ASSUME Effect, request'[c].todo = rest
      PROVE  StageOK(c)'
  <2>1. rest = For(c, <<"attach", "provider">>, <<"provider">>)
    BY <1>5 DEF Creating, Left, For
  <2>2. Running(c)' /\ Unused(c)' /\ ~request'[c].opened /\ Held(c)' /\ HasSlot(c)'
    BY <1>2, <1>3, <1>4, <1>5, <1>8
       DEF Creating, Later, HasSlot, Unused, Held, Running
  <2>3. c \in MeteredCalls => Attaching(c)'
    BY <1>8, <2>1, <2>2 DEF Attaching, For
  <2>4. c \notin MeteredCalls => Asking(c)'
    BY <1>8, <2>1, <2>2 DEF Asking, For, Attached
  <2>5. QED
    BY <2>3, <2>4 DEF StageOK
<1>9. ASSUME request'[c].todo = OnError(c, "create", rest),
             StoredRow(c) \/ (~Quiet' /\ ~Calm')
      PROVE  StageOK(c)'
  <2>1. request'[c].todo = Compensation(c)
    BY <1>9 DEF OnError
  <2>2. Closed(c)' /\ HasSlot(c)' /\ invocation'[c].usage = 0
    BY <1>4, <1>5, <1>6, <1>9 DEF Creating, Later, HasSlot, Unused, Closed, Running, StoredRow
  <2>3. QED
    BY <1>4, <2>1, <2>2, CompensationStage
<1>10. QED
  BY <1>4, <1>7, <1>8, <1>9 DEF HandlerOK, CallOK

LEMMA AttachStage ==
    ASSUME GatewayTypes, NEW c \in Calls, CallOK(c), AttachBalanceReservation(c)
    PROVE  HandlerOK(c)
<1> DEFINE Effect == /\ claim' = [claim EXCEPT ![c].attached = TRUE]
                     /\ UNCHANGED <<ledgerVars, channel, invocation, slot>>
           rest == Tail(request[c].todo)
<1>1. DatabaseCall(c, "attach", Effect)
  BY DEF AttachBalanceReservation
<1>2. Effect => /\ \A d \in Calls \ {c} : StoredRow(d)
                /\ claim'[c].attached = TRUE /\ claim'[c].stale = claim[c].stale
                /\ invocation'[c] = invocation[c] /\ resv'[c] = resv[c] /\ slot'[c] = slot[c]
  BY CallTypes DEF StoredRow, ledgerVars, ClaimRows
<1> HIDE DEF Effect
<1>3. /\ At(c, "attach") /\ ~Ended(c) /\ OthersSame(c) /\ Later
      /\ request'[c].cost = request[c].cost /\ request'[c].opened = request[c].opened
      /\ \/ Effect /\ request'[c].todo = rest
         \/ /\ request'[c].todo = OnError(c, "attach", rest)
            /\ StoredRow(c) \/ Effect
  BY <1>1, <1>2, DatabaseCallOutcome
<1>4. Attaching(c) /\ MoneyOK(c)
  BY <1>3, StageOfStep DEF CallOK
<1>5. invocation'[c] = invocation[c] /\ claim'[c].stale = claim[c].stale
      /\ resv'[c] = resv[c] /\ slot'[c] = slot[c]
  BY <1>2, <1>3 DEF StoredRow
<1>6. MoneyOK(c)'
  BY <1>3, <1>4, <1>5 DEF MoneyOK, Attaching, Unused, Later, Held
<1>7. ASSUME Effect, request'[c].todo = rest
      PROVE  Asking(c)'
  <2>1. rest = <<"provider">>
    BY <1>4 DEF Attaching
  <2>2. QED
    BY <1>2, <1>3, <1>4, <1>5, <1>7, <2>1
       DEF Asking, Attaching, Attached, Later, HasSlot, Unused, Held, Running
<1>8. ASSUME request'[c].todo = OnError(c, "attach", rest)
      PROVE  Detaching(c)'
  <2>1. request'[c].todo = <<"refund", "fail", "release">>
    BY <1>8 DEF OnError
  <2>2. QED
    BY <1>3, <1>4, <1>5, <2>1 DEF Detaching, Attaching, Later, HasSlot, Unused
<1>9. StageOK(c)'
  BY <1>3, <1>7, <1>8 DEF StageOK
<1>10. QED
  BY <1>3, <1>6, <1>9 DEF HandlerOK, CallOK

LEMMA ProviderStage ==
    ASSUME GatewayTypes, NEW c \in Calls, CallOK(c), InvokeProvider(c)
    PROVE  HandlerOK(c)
<1>1. PICK cost \in Costs, outcome \in Outcomes, todo \in
              {AfterSuccess(c), AfterStreamError(c), AfterStreamCancelled(c), AfterProviderError(c)} :
         /\ \/ todo = AfterSuccess(c)
            \/ todo = AfterStreamError(c) /\ c \in StreamCalls
            \/ todo = AfterStreamCancelled(c) /\ c \in StreamCalls
            \/ todo = AfterProviderError(c)
         /\ Answer(c, cost, outcome, todo)
  BY DEF InvokeProvider
<1> DEFINE opened == c \in StreamCalls /\ todo # AfterProviderError(c)
<1>2. request' = [request EXCEPT ![c].todo = todo, ![c].cost = cost,
                                 ![c].outcome = outcome, ![c].opened = opened]
  BY <1>1 DEF Answer
<1>3. /\ opened => c \in StreamCalls
      /\ opened => todo # AfterProviderError(c)
      /\ opened \in BOOLEAN
  OBVIOUS
<1> HIDE DEF opened
<1>4. /\ request'[c].todo = todo /\ request'[c].opened = opened
      /\ request'[c].gone = request[c].gone
      /\ \A d \in Calls \ {c} : request'[d] = request[d]
  BY <1>2, CallTypes DEF RequestsInv, RequestFields
<1>5. QuietStep(c, "provider")
  BY DEF InvokeProvider, QuietStep
<1>6. Asking(c) /\ MoneyOK(c)
  BY <1>5, StageOfStep DEF CallOK, QuietStep
<1>7. OthersSame(c) /\ Later /\ ~Ended(c) /\ StoredRow(c)
  BY <1>4, <1>5, QuietStepFrame
<1>8. MoneyOK(c)'
  BY <1>6, <1>7 DEF MoneyOK, Asking, Unused, StoredRow, Later, Attached
<1>9. /\ Running(c)' /\ Unused(c)' /\ Held(c)' /\ Attached(c)' /\ HasSlot(c)'
  BY <1>6, <1>7 DEF Asking, Running, Unused, Held, Attached, HasSlot, StoredRow, Later
<1>10. CASE todo # AfterProviderError(c)
  <2>1. Recording(c)'
    BY <1>1, <1>3, <1>4, <1>9, <1>10
       DEF Recording, Unopened, AfterSuccess, AfterStreamError, AfterStreamCancelled, For
  <2>2. QED
    BY <1>7, <1>8, <2>1 DEF HandlerOK, CallOK, StageOK
<1>11. CASE todo = AfterProviderError(c)
  <2>1. ~request'[c].opened
    BY <1>3, <1>4, <1>11
  <2>2. request'[c].todo = For(c, <<"releaseReq", "failReq", "refund">>, <<"releaseReq", "failReq">>)
    BY <1>4, <1>11 DEF AfterProviderError
  <2>3. Excusing(c)'
    BY <1>9, <2>1, <2>2 DEF Excusing, Left, Unused, For
  <2>4. QED
    BY <1>7, <1>8, <2>3 DEF HandlerOK, CallOK, StageOK
<1>12. QED
  BY <1>10, <1>11

LEMMA AfterLedger ==
    ASSUME NEW c \in Calls, Recording(c)
    PROVE  LET rest == Tail(request[c].todo) IN
           /\ c \in MeteredCalls =>
                \/ c \notin StreamCalls /\ rest = <<"settle", "releaseReq", "complete">>
                \/ c \in StreamCalls /\ rest = <<"settle", "release", "complete">>
                \/ c \in StreamCalls /\ rest = <<"settle", "fail", "release">>
                \/ c \in StreamCalls /\ rest = <<"settle", "cancel", "release">>
           /\ c \notin MeteredCalls =>
                \/ rest = IF c \in StreamCalls THEN <<"release", "complete">>
                          ELSE <<"releaseReq", "complete">>
                \/ rest = <<"fail", "release">>
                \/ rest = <<"cancel", "release">>
<1>1. CASE request[c].todo = AfterSuccess(c)
  BY <1>1 DEF AfterSuccess, For
<1>2. CASE c \in StreamCalls /\ request[c].todo = AfterStreamError(c)
  BY <1>2 DEF AfterStreamError, For
<1>3. CASE c \in StreamCalls /\ request[c].todo = AfterStreamCancelled(c)
  BY <1>3 DEF AfterStreamCancelled, For
<1>4. QED
  BY <1>1, <1>2, <1>3 DEF Recording

LEMMA LedgerStage ==
    ASSUME GatewayTypes, NEW c \in Calls, CallOK(c), CreateUsageLedger(c)
    PROVE  HandlerOK(c)
<1> DEFINE Effect == /\ invocation' = [invocation EXCEPT ![c].usage = request[c].cost]
                     /\ UNCHANGED <<ledgerVars, channel, claim, slot>>
           rest == Tail(request[c].todo)
<1>1. DatabaseCall(c, "ledger", Effect)
  BY DEF CreateUsageLedger
<1>2. Effect => /\ \A d \in Calls \ {c} : StoredRow(d)
                /\ invocation'[c].usage = request[c].cost
                /\ invocation'[c].cost = invocation[c].cost
                /\ invocation'[c].status = invocation[c].status
                /\ claim'[c] = claim[c] /\ resv'[c] = resv[c] /\ slot'[c] = slot[c]
  BY CallTypes DEF StoredRow, ledgerVars, InvocationRows
<1> HIDE DEF Effect
<1>3. /\ At(c, "ledger") /\ ~Ended(c) /\ OthersSame(c) /\ Later
      /\ request'[c].cost = request[c].cost
      /\ request'[c].opened = request[c].opened /\ request'[c].gone = request[c].gone
      /\ \/ Effect /\ request'[c].todo = rest
         \/ /\ StoredRow(c) /\ request[c].gone /\ UsesRequestContext(c, "ledger")
            /\ request'[c].todo = OnError(c, "ledger", rest)
         \/ /\ StoredRow(c) \/ Effect
            /\ ~Quiet' /\ ~Calm' /\ faults' # 0
            /\ request'[c].todo = OnError(c, "ledger", rest)
  BY <1>1, <1>2, DatabaseCallOutcome
<1>4. Recording(c) /\ MoneyOK(c)
  BY <1>3, StageOfStep DEF CallOK
<1>5. /\ invocation'[c].usage \in {0, request[c].cost}
      /\ invocation'[c].cost = 0
      /\ invocation'[c].status = invocation[c].status
      /\ claim'[c] = claim[c] /\ resv'[c] = resv[c] /\ slot'[c] = slot[c]
  BY <1>2, <1>3, <1>4 DEF StoredRow, Recording, Unused
<1>6. MoneyOK(c)'
  BY <1>3, <1>4, <1>5 DEF MoneyOK, Recording, Unused, Later, Held, Attached, Running
<1>7. Running(c)' /\ Unopened(c)' /\ Held(c)' /\ HasSlot(c)'
  BY <1>3, <1>4, <1>5 DEF Recording, Running, Unopened, Held, HasSlot, Later
<1>8. ASSUME request'[c].todo = rest
      PROVE  StageOK(c)'
  <2>1. CASE c \in MeteredCalls
    <3>1. \/ c \notin StreamCalls /\ rest = <<"settle", "releaseReq", "complete">>
          \/ c \in StreamCalls /\ rest = <<"settle", "release", "complete">>
          \/ c \in StreamCalls /\ rest = <<"settle", "fail", "release">>
          \/ c \in StreamCalls /\ rest = <<"settle", "cancel", "release">>
      BY <1>4, <2>1, AfterLedger
    <3>2. Settling(c)'
      BY <1>5, <1>7, <1>8, <2>1, <3>1 DEF Settling
    <3>3. QED
      BY <3>2 DEF StageOK
  <2>2. CASE c \notin MeteredCalls
    <3>1. \/ rest = IF c \in StreamCalls THEN <<"release", "complete">>
                    ELSE <<"releaseReq", "complete">>
          \/ rest = <<"fail", "release">>
          \/ rest = <<"cancel", "release">>
      BY <1>4, <2>2, AfterLedger
    <3>2. Finishing(c)' \/ Stopping(c)'
      BY <1>5, <1>7, <1>8, <2>2, <3>1 DEF Finishing, Stopping, Paid
    <3>3. QED
      BY <3>2 DEF StageOK
  <2>3. QED
    BY <2>1, <2>2
<1>9. ASSUME request'[c].todo = OnError(c, "ledger", rest), c \notin StreamCalls,
             \/ StoredRow(c) /\ request[c].gone
             \/ ~Calm' /\ faults' # 0
      PROVE  StageOK(c)'
  <2>1. request'[c].todo = Compensation(c)
    BY <1>9 DEF OnError
  <2>2. faults' = 0 => invocation'[c].usage = 0
    BY <1>4, <1>9 DEF Recording, Unused, StoredRow, Calm
  <2>3. Closed(c)'
    BY <1>3, <1>4, <1>9 DEF Recording, Unopened, Closed, Lost
  <2>4. QED
    BY <1>3, <1>7, <2>1, <2>2, <2>3, CompensationStage
<1>10. ASSUME request'[c].todo = OnError(c, "ledger", rest), c \in StreamCalls
       PROVE  StageOK(c)'
  <2>1. request'[c].todo = rest
    BY <1>10 DEF OnError
  <2>2. QED
    BY <1>8, <2>1
<1>11. UsesRequestContext(c, "ledger") => c \notin StreamCalls
  BY DEF UsesRequestContext
<1>12. StageOK(c)'
  BY <1>3, <1>8, <1>9, <1>10, <1>11
<1>13. QED
  BY <1>3, <1>6, <1>12 DEF HandlerOK, CallOK

LEMMA SettleStage ==
    ASSUME GatewayTypes, NEW c \in Calls, CallOK(c), Settle(c)
    PROVE  HandlerOK(c)
<1> DEFINE Effect == /\ SettleAccessTokenBalance(c, request[c].cost)
                     /\ UNCHANGED <<channel, invocation, claim, slot>>
           rest == Tail(request[c].todo)
<1>1. DatabaseCall(c, "settle", Effect)
  BY DEF Settle
<1>2. At(c, "settle")
  BY <1>1 DEF DatabaseCall
<1>3. Settling(c) /\ MoneyOK(c) /\ resv[c].state = "open"
  BY <1>2, StageOfStep DEF CallOK, Settling, Held
<1>4. Effect => /\ \A d \in Calls \ {c} : StoredRow(d)
                /\ resv'[c].state = "settled" /\ resv'[c].cost = request[c].cost
                /\ invocation'[c] = invocation[c] /\ claim'[c] = claim[c] /\ slot'[c] = slot[c]
  BY <1>3, CallTypes, FinishRow DEF StoredRow, SettleAccessTokenBalance
<1> HIDE DEF Effect
<1>5. /\ ~Ended(c) /\ OthersSame(c) /\ Later
      /\ request'[c].cost = request[c].cost
      /\ request'[c].opened = request[c].opened /\ request'[c].gone = request[c].gone
      /\ \/ Effect /\ request'[c].todo = rest
         \/ /\ StoredRow(c) /\ request[c].gone /\ UsesRequestContext(c, "settle")
            /\ request'[c].todo = OnError(c, "settle", rest)
         \/ /\ StoredRow(c) \/ Effect
            /\ ~Quiet' /\ ~Calm'
            /\ request'[c].todo = OnError(c, "settle", rest)
  BY <1>1, <1>4, DatabaseCallOutcome
<1>6. invocation'[c] = invocation[c] /\ claim'[c] = claim[c] /\ slot'[c] = slot[c]
  BY <1>4, <1>5 DEF StoredRow
<1>7. request[c].cost \in Nat
  BY CallTypes
<1>8. MoneyOK(c)'
  BY <1>3, <1>4, <1>5, <1>6, <1>7 DEF MoneyOK, Settling, Later, Attached, Running, StoredRow
<1>9. Running(c)' /\ Unopened(c)' /\ HasSlot(c)'
  BY <1>3, <1>5, <1>6 DEF Settling, Running, Unopened, HasSlot, Later
<1>10. \/ c \notin StreamCalls /\ rest = <<"releaseReq", "complete">>
       \/ c \in StreamCalls /\ rest = <<"release", "complete">>
       \/ c \in StreamCalls /\ rest = <<"fail", "release">>
       \/ c \in StreamCalls /\ rest = <<"cancel", "release">>
  <2>1. CASE c \notin StreamCalls /\ request[c].todo = <<"settle", "releaseReq", "complete">>
    BY <2>1
  <2>2. CASE c \in StreamCalls /\ request[c].todo = <<"settle", "release", "complete">>
    BY <2>2
  <2>3. CASE c \in StreamCalls /\ request[c].todo = <<"settle", "fail", "release">>
    BY <2>3
  <2>4. CASE c \in StreamCalls /\ request[c].todo = <<"settle", "cancel", "release">>
    BY <2>4
  <2>5. QED
    BY <1>3, <2>1, <2>2, <2>3, <2>4 DEF Settling
<1>11. ASSUME Effect, request'[c].todo = rest
       PROVE  StageOK(c)'
  <2>1. Paid(c)'
    BY <1>4, <1>5, <1>11 DEF Paid
  <2>2. Finishing(c)' \/ Stopping(c)'
    BY <1>9, <1>10, <1>11, <2>1 DEF Finishing, Stopping
  <2>3. QED
    BY <2>2 DEF StageOK
<1>12. ASSUME request'[c].todo = OnError(c, "settle", rest), c \notin StreamCalls,
              request[c].gone \/ ~Calm'
       PROVE  StageOK(c)'
  <2>1. request'[c].todo = <<"release">>
    BY <1>10, <1>12 DEF OnError
  <2>2. Closed(c)'
    BY <1>3, <1>5, <1>12 DEF Settling, Unopened, Closed, Lost
  <2>3. Releasing(c)'
    BY <1>9, <2>1, <2>2 DEF Releasing
  <2>4. QED
    BY <2>3 DEF StageOK
<1>13. ASSUME request'[c].todo = OnError(c, "settle", rest), c \in StreamCalls
       PROVE  StageOK(c)'
  <2>1. request'[c].todo = IF rest = <<"release", "complete">> THEN <<"fail", "release">> ELSE rest
    BY <1>13 DEF OnError
  <2>2. request'[c].todo = <<"fail", "release">> \/ request'[c].todo = <<"cancel", "release">>
    BY <1>10, <1>13, <2>1
  <2>3. Stopping(c)'
    BY <1>9, <2>2 DEF Stopping
  <2>4. QED
    BY <2>3 DEF StageOK
<1>14. UsesRequestContext(c, "settle") => c \notin StreamCalls
  BY DEF UsesRequestContext
<1>15. StageOK(c)'
  BY <1>5, <1>11, <1>12, <1>13, <1>14
<1>16. QED
  BY <1>5, <1>8, <1>15 DEF HandlerOK, CallOK

\* A call that is over and still has its slot is one that KeptContext leaves out.
LEMMA OverWhenDone ==
    ASSUME NEW c \in Calls, request'[c].todo = <<>>, Closed(c)', GaveSlot(c)'
    PROVE  Over(c)'
<1>1. Ended(c)'
  BY DEF Ended
<1>2. Lost(c)' /\ Running(c)' => Leaky(c)'
  BY <1>1 DEF Leaky, Running
<1>3. Quiet' => ~Leaky(c)'
  BY DEF Quiet
<1>4. Quiet' => slot'[c] = 0
  BY <1>2, <1>3 DEF GaveSlot
<1>5. QED
  BY <1>1, <1>4 DEF Over

LEMMA RefundStage ==
    ASSUME GatewayTypes, NEW c \in Calls, CallOK(c), Refund(c)
    PROVE  HandlerOK(c)
<1> DEFINE Effect == /\ RefundAccessTokenBalance(c)
                     /\ UNCHANGED <<channel, invocation, claim, slot>>
           rest == Tail(request[c].todo)
<1>1. DatabaseCall(c, "refund", Effect)
  BY DEF Refund
<1>2. Effect => /\ \A d \in Calls \ {c} : StoredRow(d)
                /\ resv[c].state # "open" => resv'[c] = resv[c]
                /\ resv[c].state = "open" => resv'[c].state = "refunded"
                /\ invocation'[c] = invocation[c] /\ claim'[c] = claim[c] /\ slot'[c] = slot[c]
  BY CallTypes, FinishRow DEF StoredRow, RefundAccessTokenBalance
<1> HIDE DEF Effect
<1>3. ~UsesRequestContext(c, "refund") /\ OnError(c, "refund", rest) = rest
  BY DEF UsesRequestContext, OnError
<1>4. /\ At(c, "refund") /\ ~Ended(c) /\ OthersSame(c) /\ Later
      /\ request'[c].cost = request[c].cost
      /\ request'[c].opened = request[c].opened /\ request'[c].gone = request[c].gone
      /\ request'[c].todo = rest
      /\ Effect \/ StoredRow(c)
  BY <1>1, <1>2, <1>3, DatabaseCallOutcome
<1>5. (Undoing(c) \/ Detaching(c) \/ Refunding(c)) /\ MoneyOK(c)
  BY <1>4, StageOfStep DEF CallOK
<1>6. /\ invocation'[c] = invocation[c] /\ claim'[c] = claim[c] /\ slot'[c] = slot[c]
      /\ resv[c].state # "open" => resv'[c] = resv[c]
      /\ resv[c].state = "open" => resv'[c] = resv[c] \/ resv'[c].state = "refunded"
  BY <1>2, <1>4 DEF StoredRow
<1>7. c \in MeteredCalls /\ (faults = 0 => invocation[c].usage = 0)
  BY <1>5 DEF Undoing, Detaching, Refunding
<1>8. MoneyOK(c)'
  BY <1>4, <1>5, <1>6, <1>7 DEF MoneyOK, Later, Attached
<1>9. CASE Undoing(c)
  <2>1. rest = <<"release">>
    BY <1>9 DEF Undoing
  <2>2. Releasing(c)'
    BY <1>4, <1>6, <1>9, <2>1 DEF Undoing, Releasing, Closed, Running, Lost, HasSlot, Later
  <2>3. QED
    BY <1>4, <1>8, <2>2 DEF HandlerOK, CallOK, StageOK
<1>10. CASE Detaching(c)
  <2>1. rest = <<"fail", "release">>
    BY <1>10 DEF Detaching
  <2>2. Stopping(c)'
    BY <1>4, <1>6, <1>10, <2>1 DEF Detaching, Stopping, HasSlot, Later
  <2>3. QED
    BY <1>4, <1>8, <2>2 DEF HandlerOK, CallOK, StageOK
<1>11. CASE Refunding(c)
  <2>1. rest = <<>>
    BY <1>11 DEF Refunding
  <2>2. Closed(c)' /\ GaveSlot(c)'
    BY <1>4, <1>6, <1>11 DEF Refunding, Closed, GaveSlot, Running, Lost, Later
  <2>3. Over(c)'
    BY <1>4, <2>1, <2>2, OverWhenDone
  <2>4. QED
    BY <1>4, <1>8, <2>3 DEF HandlerOK, CallOK, StageOK
<1>12. QED
  BY <1>5, <1>9, <1>10, <1>11

LEMMA ReleaseStage ==
    ASSUME GatewayTypes, NEW c \in Calls, CallOK(c), ReleaseSlot(c)
    PROVE  HandlerOK(c)
<1> DEFINE Effect == /\ ReleaseChannel(request[c].cost, request[c].outcome)
                     /\ slot' = [slot EXCEPT ![c] = @ - 1]
                     /\ UNCHANGED <<ledgerVars, invocation, claim>>
           rest == Tail(request[c].todo)
<1>1. PICK step \in {"release", "releaseReq"} : DatabaseCall(c, step, Effect)
  BY DEF ReleaseSlot
<1>2. Effect => /\ \A d \in Calls \ {c} : StoredRow(d)
                /\ slot'[c] = slot[c] - 1
                /\ invocation'[c] = invocation[c] /\ claim'[c] = claim[c] /\ resv'[c] = resv[c]
  BY CallTypes DEF StoredRow, ledgerVars
<1> HIDE DEF Effect
<1>3. OnError(c, step, rest) = rest /\ ~UsesRequestContext(c, "release")
  BY DEF OnError, UsesRequestContext
<1>4. /\ At(c, step) /\ ~Ended(c) /\ OthersSame(c) /\ Later
      /\ request'[c].cost = request[c].cost
      /\ request'[c].opened = request[c].opened /\ request'[c].gone = request[c].gone
      /\ request'[c].todo = rest
      /\ \/ Effect
         \/ StoredRow(c) /\ request[c].gone /\ step = "releaseReq"
         \/ StoredRow(c) /\ ~Quiet' /\ ~Calm'
  BY <1>1, <1>2, <1>3, DatabaseCallOutcome
<1>5. /\ MoneyOK(c)
      /\ step = "release" => Releasing(c) \/ (Finishing(c) /\ c \in StreamCalls)
      /\ step = "releaseReq" => Excusing(c) \/ (Finishing(c) /\ c \notin StreamCalls)
  BY <1>4, StageOfStep DEF CallOK
<1>6. invocation'[c] = invocation[c] /\ claim'[c] = claim[c] /\ resv'[c] = resv[c]
  BY <1>2, <1>4 DEF StoredRow
<1>7. MoneyOK(c)'
  BY <1>4, <1>5, <1>6, MoneyIsKept
<1>8. HasSlot(c)
  BY <1>5 DEF Releasing, Finishing, Excusing
<1>9. Quiet' => slot'[c] = 0 \/ (slot'[c] = 1 /\ request[c].gone /\ step = "releaseReq")
  BY <1>2, <1>4, <1>8 DEF HasSlot, Later, StoredRow
<1>10. CASE Releasing(c) /\ step = "release"
  <2>1. rest = <<>>
    BY <1>10 DEF Releasing
  <2>2. Closed(c)' /\ GaveSlot(c)'
    BY <1>4, <1>6, <1>9, <1>10 DEF Releasing, Closed, GaveSlot, Running, Lost, Later
  <2>3. Over(c)'
    BY <1>4, <2>1, <2>2, OverWhenDone
  <2>4. QED
    BY <1>4, <1>7, <2>3 DEF HandlerOK, CallOK, StageOK
<1>11. CASE Finishing(c) /\ (step = "releaseReq" => c \notin StreamCalls)
  <2>1. rest = <<"complete">>
    BY <1>11 DEF Finishing
  <2>2. Running(c)' /\ Paid(c)' /\ Unopened(c)'
    BY <1>4, <1>6, <1>11 DEF Finishing, Running, Paid, Unopened
  <2>3. Quiet' => slot'[c] = 0 \/ (slot'[c] = 1 /\ Lost(c)' /\ c \notin StreamCalls)
    BY <1>4, <1>9, <1>11 DEF Finishing, Unopened, Lost
  <2>4. Completing(c)'
    BY <1>4, <2>1, <2>2, <2>3 DEF Completing
  <2>5. QED
    BY <1>4, <1>7, <2>4 DEF HandlerOK, CallOK, StageOK
<1>12. CASE Excusing(c)
  <2>1. rest = For(c, <<"failReq", "refund">>, <<"failReq">>)
    BY <1>12 DEF Excusing, Left, For
  <2>2. Running(c)' /\ GaveSlot(c)'
    BY <1>4, <1>6, <1>9, <1>12 DEF Excusing, Running, Lost, GaveSlot
  <2>3. Failing(c)'
    BY <1>4, <1>6, <1>12, <2>1, <2>2 DEF Failing, Excusing, Left, For
  <2>4. QED
    BY <1>4, <1>7, <2>3 DEF HandlerOK, CallOK, StageOK
<1>13. QED
  BY <1>5, <1>10, <1>11, <1>12

LEMMA CompleteStage ==
    ASSUME GatewayTypes, NEW c \in Calls, CallOK(c), CompleteInvocation(c)
    PROVE  HandlerOK(c)
<1> DEFINE Effect == /\ invocation' = [invocation EXCEPT ![c].status = "completed",
                                                         ![c].cost = request[c].cost]
                     /\ UNCHANGED <<ledgerVars, channel, claim, slot>>
           rest == Tail(request[c].todo)
<1>1. DatabaseCall(c, "complete", Effect)
  BY DEF CompleteInvocation
<1>2. Effect => /\ \A d \in Calls \ {c} : StoredRow(d)
                /\ invocation'[c].status = "completed" /\ invocation'[c].cost = request[c].cost
                /\ invocation'[c].usage = invocation[c].usage
                /\ claim'[c] = claim[c] /\ resv'[c] = resv[c] /\ slot'[c] = slot[c]
  BY CallTypes DEF StoredRow, ledgerVars, InvocationRows
<1> HIDE DEF Effect
<1>3. OnError(c, "complete", rest) = rest
  BY DEF OnError
<1>4. UsesRequestContext(c, "complete") <=> c \notin StreamCalls
  BY DEF UsesRequestContext
<1>5. /\ At(c, "complete") /\ ~Ended(c) /\ OthersSame(c) /\ Later
      /\ request'[c].cost = request[c].cost
      /\ request'[c].opened = request[c].opened /\ request'[c].gone = request[c].gone
      /\ request'[c].todo = rest
      /\ \/ Effect /\ ~(request[c].gone /\ c \notin StreamCalls)
         \/ StoredRow(c) /\ request[c].gone /\ c \notin StreamCalls
         \/ (Effect \/ StoredRow(c)) /\ ~Quiet' /\ ~Calm'
  BY <1>1, <1>2, <1>3, <1>4, DatabaseCallOutcome
<1>6. Completing(c) /\ MoneyOK(c)
  BY <1>5, StageOfStep DEF CallOK
<1>7. claim'[c] = claim[c] /\ resv'[c] = resv[c] /\ slot'[c] = slot[c]
  BY <1>2, <1>5 DEF StoredRow
<1>8. MoneyOK(c)'
  BY <1>2, <1>5, <1>6, <1>7
     DEF MoneyOK, Completing, Paid, Later, Attached, StoredRow
<1>9. rest = <<>>
  BY <1>6 DEF Completing
<1>10. Closed(c)'
  BY <1>2, <1>5, <1>6 DEF Completing, Unopened, Closed, Running, Lost
<1>11. GaveSlot(c)'
  <2>1. Quiet' => slot[c] = 0 \/ (slot[c] = 1 /\ request[c].gone /\ ~request[c].opened
                                  /\ c \notin StreamCalls)
    BY <1>5, <1>6 DEF Completing, Later, Lost
  <2>2. StoredRow(c) => Running(c)'
    BY <1>6 DEF Completing, Running, StoredRow
  <2>3. QED
    BY <1>5, <1>7, <2>1, <2>2 DEF GaveSlot, Lost
<1>12. Over(c)'
  BY <1>5, <1>9, <1>10, <1>11, OverWhenDone
<1>13. QED
  BY <1>5, <1>8, <1>12 DEF HandlerOK, CallOK, StageOK

LEMMA FailStage ==
    ASSUME GatewayTypes, NEW c \in Calls, CallOK(c), FailInvocation(c)
    PROVE  HandlerOK(c)
<1>1. PICK step \in {"fail", "failReq", "cancel"} :
        DatabaseCall(c, step,
            /\ invocation' = [invocation EXCEPT
                  ![c].status = IF step = "cancel" THEN "cancelled" ELSE "failed"]
            /\ UNCHANGED <<ledgerVars, channel, claim, slot>>)
  BY DEF FailInvocation
<1> DEFINE status == IF step = "cancel" THEN "cancelled" ELSE "failed"
           Effect == /\ invocation' = [invocation EXCEPT ![c].status = status]
                     /\ UNCHANGED <<ledgerVars, channel, claim, slot>>
           rest == Tail(request[c].todo)
<1>2. DatabaseCall(c, step, Effect)
  BY <1>1
<1>3. status \in {"cancelled", "failed"}
  OBVIOUS
<1> HIDE DEF status
<1>4. Effect => /\ \A d \in Calls \ {c} : StoredRow(d)
                /\ invocation'[c].status = status
                /\ invocation'[c].usage = invocation[c].usage
                /\ invocation'[c].cost = invocation[c].cost
                /\ claim'[c] = claim[c] /\ resv'[c] = resv[c] /\ slot'[c] = slot[c]
  BY InvocationRow DEF StoredRow, ledgerVars
<1> HIDE DEF Effect
<1>5. /\ OnError(c, step, rest) = rest
      /\ UsesRequestContext(c, step) <=> step = "failReq"
  BY DEF OnError, UsesRequestContext
<1>6. /\ At(c, step) /\ ~Ended(c) /\ OthersSame(c) /\ Later
      /\ request'[c].cost = request[c].cost
      /\ request'[c].opened = request[c].opened /\ request'[c].gone = request[c].gone
      /\ request'[c].todo = rest
      /\ \/ Effect /\ ~(request[c].gone /\ step = "failReq")
         \/ StoredRow(c) /\ request[c].gone /\ step = "failReq"
         \/ (Effect \/ StoredRow(c)) /\ ~Quiet' /\ ~Calm'
  BY <1>2, <1>4, <1>5, DatabaseCallOutcome
<1>7. /\ MoneyOK(c)
      /\ step # "failReq" => Stopping(c)
      /\ step = "failReq" => Failing(c)
  BY <1>6, StageOfStep DEF CallOK
<1>8. /\ invocation'[c].usage = invocation[c].usage /\ invocation'[c].cost = invocation[c].cost
      /\ invocation'[c].status = status \/ invocation'[c].status = invocation[c].status
      /\ claim'[c] = claim[c] /\ resv'[c] = resv[c] /\ slot'[c] = slot[c]
  BY <1>4, <1>6 DEF StoredRow
<1>9. MoneyOK(c)'
  BY <1>3, <1>6, <1>7, <1>8, MoneyIsKept
<1>10. Effect => ~Running(c)'
  BY <1>3, <1>4 DEF Running
<1>11. CASE step # "failReq"
  <2>1. rest = <<"release">>
    <3>1. CASE request[c].todo = <<"fail", "release">>
      BY <3>1
    <3>2. CASE request[c].todo = <<"cancel", "release">>
      BY <3>2
    <3>3. QED
      BY <1>7, <1>11, <3>1, <3>2 DEF Stopping
  <2>2. Closed(c)' /\ HasSlot(c)'
    BY <1>6, <1>7, <1>8, <1>10, <1>11 DEF Stopping, Closed, HasSlot, Later
  <2>3. Releasing(c)'
    BY <1>6, <2>1, <2>2 DEF Releasing
  <2>4. QED
    BY <1>6, <1>9, <2>3 DEF HandlerOK, CallOK, StageOK
<1>12. CASE step = "failReq"
  <2>1. Failing(c)
    BY <1>7, <1>12
  <2>2. Closed(c)'
    BY <1>6, <1>10, <1>12, <2>1 DEF Failing, Closed, Lost
  <2>3. StoredRow(c) => Running(c)'
    BY <2>1 DEF Failing, Running, StoredRow
  <2>4. GaveSlot(c)'
    BY <1>6, <1>8, <1>12, <2>1, <2>3 DEF Failing, GaveSlot, Lost, Later
  <2>5. CASE c \in MeteredCalls
    <3>1. rest = <<"refund">>
      BY <2>1, <2>5 DEF Failing, Left, For
    <3>2. Refunding(c)'
      BY <1>6, <1>8, <2>1, <2>2, <2>4, <2>5, <3>1 DEF Refunding, Failing
    <3>3. QED
      BY <1>6, <1>9, <3>2 DEF HandlerOK, CallOK, StageOK
  <2>6. CASE c \notin MeteredCalls
    <3>1. rest = <<>>
      BY <2>1, <2>6 DEF Failing, Left, For
    <3>2. Over(c)'
      BY <1>6, <2>2, <2>4, <3>1, OverWhenDone
    <3>3. QED
      BY <1>6, <1>9, <3>2 DEF HandlerOK, CallOK, StageOK
  <2>7. QED
    BY <2>5, <2>6
<1>13. QED
  BY <1>11, <1>12

LEMMA HandlerStage ==
    ASSUME GatewayTypes, NEW c \in Calls, CallOK(c), Handler(c)
    PROVE  HandlerOK(c)
BY ResolveStage, NoTargetStage, ReserveStage, RefusedStage, AuthorizeStage, CreateStage,
   AttachStage, ProviderStage, LedgerStage, SettleStage, RefundStage, ReleaseStage,
   CompleteStage, FailStage DEF Handler

------------------------------------------------------------------------------
(* The batches of the workers and the count of the slots *)

\* What a worker may have read of a call that ended stays.
StaleKept ==
    \A d \in Calls : claim[d].stale =>
        /\ claim'[d].stale
        /\ claim'[d].attached = claim[d].attached
        /\ invocation'[d].usage = invocation[d].usage

LEMMA CurrentInBatch ==
    ASSUME GatewayTypes, NEW w \in Workers, BatchOK(w), worker[w].at # "idle"
    PROVE  /\ Current(w) \in Calls
           /\ claim[Current(w)].stale
           /\ Current(w) \in worker[w].linked <=> claim[Current(w)].attached
<1>1. worker[w].batch \in Seq(Calls) /\ worker[w].batch # <<>> /\ Current(w) \in Calls
  BY CurrentIsCall DEF GatewayTypes, GatewayInv
<1>2. 1 \in DOMAIN worker[w].batch /\ Current(w) = worker[w].batch[1]
  BY <1>1 DEF Current
<1>3. QED
  BY <1>1, <1>2 DEF BatchOK

LEMMA BatchCalls ==
    ASSUME GatewayTypes, NEW w \in Workers
    PROVE  /\ worker[w] \in WorkerRows
           /\ worker[w].batch \in Seq(Calls)
           /\ \A i \in DOMAIN worker[w].batch : worker[w].batch[i] \in Calls
<1>1. worker[w] \in WorkerRows
  BY DEF GatewayTypes, GatewayInv, WorkersInv
<1>2. worker[w].batch \in Seq(Calls)
  BY <1>1 DEF WorkerRows
<1>3. QED
  BY <1>1, <1>2

LEMMA BatchKept ==
    ASSUME GatewayTypes, NEW w \in Workers, BatchOK(w), StaleKept, Later, worker'[w] = worker[w]
    PROVE  BatchOK(w)'
<1>1. Current(w)' = Current(w)
  BY DEF Current
<1>2. \A i \in DOMAIN worker[w].batch : worker[w].batch[i] \in Calls
  BY BatchCalls
<1>3. worker[w].at # "idle" => /\ Current(w) \in Calls
                               /\ invocation'[Current(w)].usage = invocation[Current(w)].usage
  BY CurrentInBatch DEF StaleKept
<1>4. QED
  BY <1>1, <1>2, <1>3 DEF BatchOK, StaleKept, Later

Taken == {c \in Calls : slot[c] = 1}

LEMMA TakenIsFinite == IsFiniteSet(Taken) /\ Cardinality(Taken) \in Nat
BY CallsAssumption, FS_Subset, FS_CardinalityType DEF Taken

LEMMA CapacityKept ==
    ASSUME CapacityOK, Later, UNCHANGED <<channel, slot>> \/ ~Quiet'
    PROVE  CapacityOK'
BY DEF CapacityOK, Later

LEMMA StoredUnlessChannel ==
    ASSUME GatewayTypes, NEW c \in Calls, NEW step, NEW ACTION Effect,
           DatabaseCall(c, step, Effect), Effect => UNCHANGED <<channel, slot>>
    PROVE  UNCHANGED <<channel, slot, worker>>
BY StoredAreKept DEF DatabaseCall

LEMMA ResolveCapacity ==
    ASSUME GatewayTypes, NEW c \in Calls, CallOK(c), CapacityOK, Later, ResolveInvocationTarget(c)
    PROVE  CapacityOK' /\ UNCHANGED worker
<1> DEFINE Effect == /\ AdmitCall
                     /\ slot' = [slot EXCEPT ![c] = @ + 1]
                     /\ UNCHANGED <<ledgerVars, invocation, claim>>
<1>1. DatabaseCall(c, "resolve", Effect)
  BY DEF ResolveInvocationTarget
<1>2. UNCHANGED worker /\ At(c, "resolve") /\ (Effect \/ UNCHANGED stored)
  BY <1>1 DEF DatabaseCall
<1>3. CASE UNCHANGED stored
  BY <1>2, <1>3, StoredAreKept, CapacityKept
<1>4. CASE Effect /\ Quiet'
  <2>1. slot[c] = 0 /\ slot' = [slot EXCEPT ![c] = @ + 1]
    BY <1>2, <1>4, StageOfStep DEF CallOK, Resolving, Later
  <2>2. c \notin Taken /\ Taken' = Taken \cup {c}
    BY <2>1, CallTypes DEF Taken
  <2>3. Cardinality(Taken') = Cardinality(Taken) + 1
    BY <2>2, TakenIsFinite, FS_AddElement
  <2>4. channel'.inflight = channel.inflight + 1
    BY <1>4, AdmitTypes DEF GatewayTypes, RestOK, StoredOK
  <2>5. QED
    BY <1>2, <1>4, <2>3, <2>4 DEF CapacityOK, Later, Taken
<1>5. QED
  BY <1>2, <1>3, <1>4 DEF CapacityOK

LEMMA ReleaseCapacity ==
    ASSUME GatewayTypes, NEW c \in Calls, CallOK(c), CapacityOK, Later, ReleaseSlot(c)
    PROVE  CapacityOK' /\ UNCHANGED worker
<1> DEFINE Effect == /\ ReleaseChannel(request[c].cost, request[c].outcome)
                     /\ slot' = [slot EXCEPT ![c] = @ - 1]
                     /\ UNCHANGED <<ledgerVars, invocation, claim>>
<1>1. PICK step \in {"release", "releaseReq"} : DatabaseCall(c, step, Effect)
  BY DEF ReleaseSlot
<1>2. UNCHANGED worker /\ At(c, step) /\ (Effect \/ UNCHANGED stored)
  BY <1>1 DEF DatabaseCall
<1>3. CASE UNCHANGED stored
  BY <1>2, <1>3, StoredAreKept, CapacityKept
<1>4. CASE Effect /\ Quiet'
  <2>1. HasSlot(c)
    BY <1>2, StageOfStep DEF CallOK, Releasing, Finishing, Excusing
  <2>2. slot[c] = 1 /\ slot' = [slot EXCEPT ![c] = @ - 1]
    BY <1>4, <2>1 DEF HasSlot, Later
  <2>3. c \in Taken /\ Taken' = Taken \ {c}
    BY <2>2, CallTypes DEF Taken
  <2>4. Cardinality(Taken') = Cardinality(Taken) - 1 /\ Cardinality(Taken) > 0
    BY <2>3, TakenIsFinite, FS_RemoveElement, FS_EmptySet
  <2>5. channel.inflight = Cardinality(Taken)
    BY <1>4 DEF CapacityOK, Later, Taken
  <2>6. request[c].cost \in Nat /\ channel \in Channel
    BY CallTypes DEF GatewayTypes, RestOK, StoredOK
  <2>7. channel'.inflight = channel.inflight - 1
    BY <1>4, <2>4, <2>5, <2>6, ReleaseTypes
  <2>8. QED
    BY <1>2, <2>4, <2>5, <2>7 DEF CapacityOK, Taken
<1>5. QED
  BY <1>2, <1>3, <1>4 DEF CapacityOK

LEMMA HandlerCapacity ==
    ASSUME GatewayTypes, NEW c \in Calls, CallOK(c), CapacityOK, Later, Handler(c)
    PROVE  CapacityOK' /\ UNCHANGED worker
<1>1. CASE ResolveInvocationTarget(c) \/ ReleaseSlot(c)
  BY <1>1, ResolveCapacity, ReleaseCapacity
<1>2. CASE NoTarget(c) \/ ReservationRefused(c) \/ Authorize(c) \/ InvokeProvider(c)
  BY <1>2, StoredAreKept, CapacityKept
     DEF NoTarget, ReservationRefused, Authorize, InvokeProvider
<1>3. CASE Reserve(c) \/ Settle(c) \/ Refund(c)
  <2>1. UNCHANGED <<channel, slot, worker>>
    BY <1>3, StoredUnlessChannel DEF Reserve, Settle, Refund
  <2>2. QED
    BY <2>1, CapacityKept
<1>4. CASE CreateInvocation(c) \/ AttachBalanceReservation(c) \/ CreateUsageLedger(c)
  <2>1. UNCHANGED <<channel, slot, worker>>
    BY <1>4, StoredUnlessChannel
       DEF CreateInvocation, AttachBalanceReservation, CreateUsageLedger
  <2>2. QED
    BY <2>1, CapacityKept
<1>5. CASE CompleteInvocation(c) \/ FailInvocation(c)
  <2>1. UNCHANGED <<channel, slot, worker>>
    BY <1>5, StoredUnlessChannel DEF CompleteInvocation, FailInvocation
  <2>2. QED
    BY <2>1, CapacityKept
<1>6. QED
  BY <1>1, <1>2, <1>3, <1>4, <1>5 DEF Handler

LEMMA HandlerKeepsCalls ==
    ASSUME GatewayTypes, CallsInv, NEW c \in Calls, Handler(c)
    PROVE  CallsInv'
<1>1. CallOK(c) /\ CapacityOK
  BY DEF CallsInv
<1>2. CallOK(c)' /\ OthersSame(c) /\ Later
  BY <1>1, HandlerStage DEF HandlerOK
<1>3. \A d \in Calls : CallOK(d)'
  <2>1. ASSUME NEW d \in Calls \ {c} PROVE CallOK(d)'
    <3>1. SameRow(d) /\ StageOK(d) /\ MoneyOK(d)
      BY <1>2, <2>1 DEF OthersSame, CallsInv, CallOK
    <3>2. QED
      BY <1>2, <3>1, SameRowStage, SameRowMoney DEF CallOK
  <2>2. QED
    BY <1>2, <2>1
<1>4. CapacityOK' /\ UNCHANGED worker
  BY <1>1, <1>2, HandlerCapacity
<1>5. StaleKept
  <2>1. ~Ended(c)
    BY DEF Handler, ResolveInvocationTarget, NoTarget, Reserve, ReservationRefused, Authorize,
           CreateInvocation, AttachBalanceReservation, InvokeProvider, CreateUsageLedger, Settle,
           Refund, ReleaseSlot, CompleteInvocation, FailInvocation, DatabaseCall, At, Ended
  <2>2. ~claim[c].stale
    BY <1>1, <2>1 DEF CallOK, MoneyOK
  <2>3. QED
    BY <1>2, <2>2 DEF OthersSame, SameRow, StaleKept
<1>6. \A w \in Workers : BatchOK(w)'
  BY <1>2, <1>4, <1>5, BatchKept DEF CallsInv
<1>7. QED
  BY <1>3, <1>4, <1>6 DEF CallsInv

------------------------------------------------------------------------------
(***************************************************************************)
(* The other actors.  They work on calls that have ended, or change nothing *)
(* that the stages speak of.                                                *)
(***************************************************************************)
LEMMA OverIfEnded ==
    ASSUME NEW c \in Calls, StageOK(c), Ended(c)
    PROVE  Over(c)
BY OpeningStages, ClosingStages, UndoingStages DEF StageOK, At, Ended

LEMMA OtherActor ==
    ASSUME GatewayTypes, CallsInv,
           \A d \in Calls : SameRow(d) \/ CallOK(d)',
           Later, StaleKept,
           (channel'.inflight = channel.inflight /\ UNCHANGED slot) \/ ~Quiet',
           \A w \in Workers : worker'[w] = worker[w] \/ BatchOK(w)'
    PROVE  CallsInv'
<1>1. \A d \in Calls : CallOK(d)'
  BY SameRowStage, SameRowMoney DEF CallsInv, CallOK
<1>2. \A w \in Workers : BatchOK(w)'
  BY BatchKept DEF CallsInv
<1>3. CapacityOK'
  BY DEF CallsInv, CapacityOK, Later
<1>4. QED
  BY <1>1, <1>2, <1>3 DEF CallsInv

LEMMA CurrentHasEnded ==
    ASSUME GatewayTypes, CallsInv, NEW w \in Workers, worker[w].at # "idle"
    PROVE  LET c == Current(w) IN
           /\ c \in Calls /\ c \in MeteredCalls /\ Ended(c) /\ Over(c) /\ MoneyOK(c)
           /\ c \in worker[w].linked <=> claim[c].attached
<1>1. /\ Current(w) \in Calls
      /\ claim[Current(w)].stale
      /\ Current(w) \in worker[w].linked <=> claim[Current(w)].attached
  BY CurrentInBatch DEF CallsInv
<1>2. CallOK(Current(w))
  BY <1>1 DEF CallsInv
<1>3. QED
  BY <1>1, <1>2, OverIfEnded DEF CallOK, MoneyOK

\* The next step of a worker on the same reservation.
LEMMA SameReservation ==
    ASSUME GatewayTypes, NEW w \in Workers, BatchOK(w), StaleKept,
           worker'[w].batch = worker[w].batch, worker'[w].linked = worker[w].linked,
           worker'[w].at = "refund" => Current(w) \notin worker[w].linked,
           worker'[w].at \in {"cancel", "release", "settle"} =>
               worker'[w].cost >= invocation'[Current(w)].usage,
           worker'[w].at = "release" => ~Quiet'
    PROVE  BatchOK(w)'
<1>1. Current(w)' = Current(w)
  BY DEF Current
<1>2. \A i \in DOMAIN worker[w].batch : worker[w].batch[i] \in Calls
  BY BatchCalls
<1>3. QED
  BY <1>1, <1>2 DEF BatchOK, StaleKept

LEMMA NextOfBatch ==
    ASSUME GatewayTypes, NEW w \in Workers, BatchOK(w), StaleKept, worker[w].at # "idle",
           NextReservation(w)
    PROVE  /\ BatchOK(w)'
           /\ \A v \in Workers \ {w} : worker'[v] = worker[v]
<1> DEFINE batch == worker[w].batch
           next == [batch |-> Tail(batch), linked |-> worker[w].linked, at |-> "verify", cost |-> 0]
           row == IF Len(batch) = 1 THEN IdleWorker ELSE next
<1>1. worker \in [Workers -> WorkerRows]
  BY DEF GatewayTypes, GatewayInv, WorkersInv
<1>2. worker' = [worker EXCEPT ![w] = row]
  BY DEF NextReservation
<1> HIDE DEF row
<1>3. worker'[w] = row /\ \A v \in Workers \ {w} : worker'[v] = worker[v]
  BY <1>1, <1>2
<1>4. batch \in Seq(Calls) /\ batch # <<>>
  BY CurrentIsCall DEF GatewayTypes, GatewayInv
<1>5. CASE Len(batch) = 1
  <2>1. worker'[w] = IdleWorker
    BY <1>3, <1>5 DEF row
  <2>2. QED
    BY <1>3, <2>1 DEF BatchOK, IdleWorker
<1>6. CASE Len(batch) # 1
  <2>1. worker'[w] = next
    BY <1>3, <1>6 DEF row
  <2>2. worker'[w].batch = Tail(batch) /\ worker'[w].linked = worker[w].linked
        /\ worker'[w].at = "verify"
    BY <2>1
  <2>3. \A i \in DOMAIN Tail(batch) : i + 1 \in DOMAIN batch /\ Tail(batch)[i] = batch[i + 1]
    BY <1>4
  <2>4. \A i \in DOMAIN batch :
          /\ batch[i] \in Calls
          /\ claim[batch[i]].stale /\ (batch[i] \in worker[w].linked <=> claim[batch[i]].attached)
    BY BatchCalls DEF BatchOK
  <2> HIDE DEF batch, next
  <2>5. \A i \in DOMAIN Tail(batch) :
          LET d == Tail(batch)[i] IN
          claim'[d].stale /\ (d \in worker[w].linked <=> claim'[d].attached)
    BY <2>3, <2>4 DEF StaleKept
  <2>6. QED
    BY <1>3, <2>2, <2>5, Zenon DEF BatchOK
<1>7. QED
  BY <1>5, <1>6

LEMMA HistoryIsLater ==
    ASSUME GatewayTypes, \A d \in Calls : Leaky(d) => Leaky(d)',
           faults' = faults \/ faults' = faults + 1, crashes' = crashes \/ crashes' = crashes + 1
    PROVE  Later
BY LaterSteps, GatewayAssumption DEF GatewayTypes, RestOK, HistoryOK

LEMMA SameRowsStep ==
    ASSUME GatewayTypes, \A d \in Calls : SameRow(d),
           faults' = faults \/ faults' = faults + 1, crashes' = crashes \/ crashes' = crashes + 1
    PROVE  Later /\ StaleKept
BY SameRowLeaky, HistoryIsLater DEF StaleKept, SameRow

LEMMA StoredIsSame ==
    ASSUME UNCHANGED stored, UNCHANGED request
    PROVE  \A d \in Calls : SameRow(d)
BY StoredAreKept DEF SameRow

LEMMA WorkerRow ==
    ASSUME GatewayTypes, NEW w \in Workers, NEW at, GoTo(w, at)
    PROVE  /\ worker'[w].batch = worker[w].batch /\ worker'[w].linked = worker[w].linked
           /\ worker'[w].cost = worker[w].cost /\ worker'[w].at = at
           /\ \A v \in Workers \ {w} : worker'[v] = worker[v]
<1>1. worker \in [Workers -> WorkerRows]
  BY DEF GatewayTypes, GatewayInv, WorkersInv
<1>2. QED
  BY <1>1 DEF GoTo, WorkerRows

LEMMA ClaimKeepsCalls ==
    ASSUME GatewayTypes, CallsInv, NEW w \in Workers, ClaimStaleBalanceReservations(w)
    PROVE  CallsInv'
<1>1. PICK b \in Batches :
        LET claimed == {b[i] : i \in DOMAIN b} IN
        /\ claim' = [c \in Calls |->
              IF c \in claimed THEN [claim[c] EXCEPT !.owner = w, !.live = TRUE] ELSE claim[c]]
        /\ \/ worker' = [worker EXCEPT ![w] =
                  [IdleWorker EXCEPT !.batch = b, !.at = "verify",
                                     !.linked = {c \in claimed : claim[c].attached}]]
           \/ UNCHANGED worker
  BY Zenon DEF ClaimStaleBalanceReservations
<1>2. /\ UNCHANGED <<ledgerVars, channel, invocation, request, slot, crashes, slow>>
      /\ faults' = faults \/ faults' = faults + 1
  BY Zenon DEF ClaimStaleBalanceReservations
<1> DEFINE claimed == {b[i] : i \in DOMAIN b}
           leased(c) == [claim[c] EXCEPT !.owner = w, !.live = TRUE]
           row(c) == IF c \in claimed THEN leased(c) ELSE claim[c]
<1>3. \A c \in Calls : row(c).attached = claim[c].attached /\ row(c).stale = claim[c].stale
  BY DEF GatewayTypes, RestOK, StoredOK, ClaimRows
<1>4. claim' = [c \in Calls |-> row(c)]
  BY <1>1, Zenon
<1> HIDE DEF row
<1>5. \A d \in Calls : SameRow(d)
  BY <1>2, <1>3, <1>4 DEF SameRow, ledgerVars
<1>6. Later /\ StaleKept
  BY <1>2, <1>5, SameRowsStep
<1>7. \A i \in DOMAIN b : b[i] \in Calls /\ claim[b[i]].stale
  BY DEF Batches, Claimable
<1> HIDE DEF claimed
<1>8. ASSUME worker' = [worker EXCEPT ![w] =
                  [IdleWorker EXCEPT !.batch = b, !.at = "verify",
                                     !.linked = {c \in claimed : claim[c].attached}]]
      PROVE  \A v \in Workers : worker'[v] = worker[v] \/ BatchOK(v)'
  <2> DEFINE linked == {c \in claimed : claim[c].attached}
             new == [IdleWorker EXCEPT !.batch = b, !.at = "verify", !.linked = linked]
  <2>1. worker' = [worker EXCEPT ![w] = new]
    BY <1>8, Zenon
  <2>2. worker \in [Workers -> WorkerRows]
    BY DEF GatewayTypes, GatewayInv, WorkersInv
  <2> HIDE DEF linked
  <2>0. new.batch = b /\ new.linked = linked /\ new.at = "verify"
    BY DEF IdleWorker
  <2> HIDE DEF new
  <2>3. /\ worker'[w].batch = b /\ worker'[w].linked = linked /\ worker'[w].at = "verify"
        /\ \A v \in Workers \ {w} : worker'[v] = worker[v]
    BY <2>0, <2>1, <2>2
  <2>4. \A i \in DOMAIN b : /\ b[i] \in Calls
                            /\ claim'[b[i]].stale
                            /\ b[i] \in linked <=> claim'[b[i]].attached
    BY <1>5, <1>7 DEF linked, claimed, SameRow
  <2>5. BatchOK(w)'
    BY <2>3, <2>4, Zenon DEF BatchOK
  <2>6. QED
    BY <2>3, <2>5
<1>9. \A v \in Workers : worker'[v] = worker[v] \/ BatchOK(v)'
  BY <1>1, <1>8, Zenon DEF claimed
<1>10. QED
  BY <1>2, <1>5, <1>6, <1>9, OtherActor

\* A step of a worker that leaves the rows of all calls alone.
LEMMA WorkerOnly ==
    ASSUME GatewayTypes, CallsInv, NEW w \in Workers, UNCHANGED <<stored, request>>,
           faults' = faults \/ faults' = faults + 1, crashes' = crashes \/ crashes' = crashes + 1,
           \A v \in Workers \ {w} : worker'[v] = worker[v],
           StaleKept => BatchOK(w)'
    PROVE  CallsInv'
<1>1. \A d \in Calls : SameRow(d)
  BY StoredIsSame
<1>2. Later /\ StaleKept
  BY <1>1, SameRowsStep
<1>3. channel' = channel /\ UNCHANGED slot
  BY StoredAreKept
<1>4. QED
  BY <1>1, <1>2, <1>3, OtherActor

LEMMA GivingUpKeepsCalls ==
    ASSUME GatewayTypes, CallsInv, NEW w \in Workers, worker[w].at # "idle",
           UNCHANGED <<stored, request, crashes>>, faults' = faults + 1, GoTo(w, "unlease")
    PROVE  CallsInv'
<1>1. /\ worker'[w].batch = worker[w].batch /\ worker'[w].linked = worker[w].linked
      /\ worker'[w].at = "unlease"
      /\ \A v \in Workers \ {w} : worker'[v] = worker[v]
  BY WorkerRow
<1>2. StaleKept => BatchOK(w)'
  BY <1>1, SameReservation DEF CallsInv
<1>3. QED
  BY <1>1, <1>2, WorkerOnly

LEMMA VerifyKeepsCalls ==
    ASSUME GatewayTypes, CallsInv, NEW w \in Workers, VerifyLease(w)
    PROVE  CallsInv'
<1> DEFINE at == IF claim[Current(w)].owner # w THEN "unlease"
                 ELSE IF Current(w) \in worker[w].linked THEN "load" ELSE "refund"
<1>1. /\ worker[w].at = "verify" /\ UNCHANGED <<stored, request, crashes>>
      /\ \/ GoTo(w, at) /\ faults' = faults
         \/ GoTo(w, "unlease") /\ faults' = faults + 1
  BY DEF VerifyLease, WorkerCall
<1>2. CASE GoTo(w, at) /\ faults' = faults
  <2>1. at \in {"unlease", "load", "refund"} /\ (at = "refund" => Current(w) \notin worker[w].linked)
    OBVIOUS
  <2> HIDE DEF at
  <2>2. /\ worker'[w].batch = worker[w].batch /\ worker'[w].linked = worker[w].linked
        /\ worker'[w].at = at
        /\ \A v \in Workers \ {w} : worker'[v] = worker[v]
    BY <1>2, WorkerRow
  <2>3. StaleKept => BatchOK(w)'
    BY <2>1, <2>2, SameReservation DEF CallsInv
  <2>4. QED
    BY <1>1, <1>2, <2>2, <2>3, WorkerOnly
<1>3. QED
  BY <1>1, <1>2, GivingUpKeepsCalls

LEMMA LoadKeepsCalls ==
    ASSUME GatewayTypes, CallsInv, NEW w \in Workers, LoadInvocation(w)
    PROVE  CallsInv'
<1> DEFINE inv == invocation[Current(w)]
           at == IF inv.status \in {"started", "streaming"} THEN "cancel" ELSE "settle"
           cost == IF inv.cost # 0 THEN inv.cost ELSE inv.usage
<1>1. /\ worker[w].at = "load" /\ UNCHANGED <<stored, request, crashes>>
      /\ \/ worker' = [worker EXCEPT ![w].at = at, ![w].cost = cost] /\ faults' = faults
         \/ GoTo(w, "unlease") /\ faults' = faults + 1
  BY DEF LoadInvocation, WorkerCall
<1>2. CASE worker' = [worker EXCEPT ![w].at = at, ![w].cost = cost] /\ faults' = faults
  <2>1. Current(w) \in Calls /\ MoneyOK(Current(w))
    BY <1>1, CurrentHasEnded
  <2>2. inv \in InvocationRows
    BY <2>1, CallTypes
  <2>3. at \in {"cancel", "settle"} /\ cost >= inv.usage
    BY <2>1, <2>2, AmountsAssumption DEF MoneyOK, InvocationRows
  <2>4. invocation' = invocation
    BY <1>1, StoredAreKept
  <2> HIDE DEF at, cost
  <2>5. /\ worker'[w].batch = worker[w].batch /\ worker'[w].linked = worker[w].linked
        /\ worker'[w].at = at /\ worker'[w].cost = cost
        /\ \A v \in Workers \ {w} : worker'[v] = worker[v]
    BY <1>2 DEF GatewayTypes, GatewayInv, WorkersInv, WorkerRows
  <2>6. StaleKept => BatchOK(w)'
    BY <2>3, <2>4, <2>5, SameReservation DEF CallsInv
  <2>7. QED
    BY <1>1, <1>2, <2>5, <2>6, WorkerOnly
<1>3. QED
  BY <1>1, <1>2, GivingUpKeepsCalls

\* A worker writes to the rows of one call, which has ended.
LEMMA WorkerWrites ==
    ASSUME GatewayTypes, CallsInv, NEW w \in Workers, worker[w].at # "idle",
           NEW c \in Calls, c = Current(w),
           UNCHANGED <<request, claim, crashes>>, faults' = faults \/ faults' = faults + 1,
           \A d \in Calls \ {c} : SameRow(d),
           invocation'[c].usage = invocation[c].usage,
           invocation'[c].cost = invocation[c].cost,
           invocation'[c].status \in {invocation[c].status, "cancelled"},
           MoneyOK(c)',
           (channel'.inflight = channel.inflight /\ UNCHANGED slot) \/ ~Quiet',
           Later /\ StaleKept => BatchOK(w)',
           \A v \in Workers \ {w} : worker'[v] = worker[v]
    PROVE  CallsInv'
<1>1. Ended(c) /\ Over(c)
  BY CurrentHasEnded
<1>2. Leaky(c) => Leaky(c)'
  BY DEF Leaky, Ended, Lost
<1>3. \A d \in Calls : Leaky(d) => Leaky(d)'
  BY <1>2, SameRowLeaky
<1>4. Later
  BY <1>3, HistoryIsLater
<1>5. StaleKept
  BY DEF StaleKept, SameRow
<1>6. Over(c)'
  BY <1>1, <1>4 DEF Over, Ended, Closed, Running, Lost, Later
<1>7. \A d \in Calls : SameRow(d) \/ CallOK(d)'
  BY <1>6 DEF CallOK, StageOK
<1>8. \A v \in Workers : worker'[v] = worker[v] \/ BatchOK(v)'
  BY <1>4, <1>5
<1>9. QED
  BY <1>4, <1>5, <1>7, <1>8, OtherActor

\* How a write of a worker ends.
LEMMA WorkerWriteOutcome ==
    ASSUME GatewayTypes, NEW w \in Workers, NEW at \in WorkerSteps \ {"idle"},
           NEW ACTION Effect, NEW ACTION Then, WorkerWrite(w, at, Effect, Then)
    PROVE  /\ worker[w].at = at /\ worker[w].at # "idle"
           /\ UNCHANGED <<request, crashes>>
           /\ \/ Effect /\ Then /\ faults' = faults
              \/ (Effect \/ UNCHANGED stored) /\ GoTo(w, "unlease") /\ faults' = faults + 1
BY DEF WorkerWrite, WorkerCall

LEMMA UnleaseBatch ==
    ASSUME GatewayTypes, CallsInv, NEW w \in Workers, GoTo(w, "unlease")
    PROVE  /\ \A v \in Workers \ {w} : worker'[v] = worker[v]
           /\ StaleKept => BatchOK(w)'
<1>1. /\ worker'[w].batch = worker[w].batch /\ worker'[w].linked = worker[w].linked
      /\ worker'[w].at = "unlease"
      /\ \A v \in Workers \ {w} : worker'[v] = worker[v]
  BY WorkerRow
<1>2. QED
  BY <1>1, SameReservation DEF CallsInv

LEMMA CancelKeepsCalls ==
    ASSUME GatewayTypes, CallsInv, NEW w \in Workers, CancelStaleInvocation(w)
    PROVE  CallsInv'
<1> DEFINE active == invocation[Current(w)].status \in {"started", "streaming"}
           next == IF active THEN "release" ELSE "settle"
           Effect == /\ invocation' = IF active
                                      THEN [invocation EXCEPT ![Current(w)].status = "cancelled"]
                                      ELSE invocation
                     /\ UNCHANGED <<ledgerVars, channel, claim, slot>>
<1>1. WorkerWrite(w, "cancel", Effect, GoTo(w, next))
  BY DEF CancelStaleInvocation
<1>2. PICK c \in Calls : c = Current(w)
  BY <1>1, CurrentHasEnded DEF WorkerWrite, WorkerCall
<1>3. Effect => /\ \A d \in Calls \ {c} : StoredRow(d)
                /\ invocation'[c].usage = invocation[c].usage
                /\ invocation'[c].cost = invocation[c].cost
                /\ invocation'[c].status = IF active THEN "cancelled" ELSE invocation[c].status
                /\ UNCHANGED <<channel, claim, slot, resv>>
  BY <1>2, InvocationRow DEF StoredRow, ledgerVars
<1> HIDE DEF Effect
<1>4. /\ worker[w].at = "cancel" /\ UNCHANGED <<request, crashes>>
      /\ \/ Effect /\ GoTo(w, next) /\ faults' = faults
         \/ (Effect \/ UNCHANGED stored) /\ GoTo(w, "unlease") /\ faults' = faults + 1
  BY <1>1, WorkerWriteOutcome DEF WorkerSteps
<1>5. UNCHANGED stored => /\ \A d \in Calls : StoredRow(d)
                          /\ UNCHANGED <<channel, claim, slot, resv>>
  BY StoredAreKept, StoredRows
<1>6. Ended(c) /\ Over(c) /\ MoneyOK(c) /\ c \in MeteredCalls
  BY <1>2, <1>4, CurrentHasEnded
<1>7. UNCHANGED <<channel, claim, slot, resv>> /\ \A d \in Calls \ {c} : SameRow(d)
  BY <1>3, <1>4, <1>5 DEF SameRow, StoredRow
<1>8. /\ invocation'[c].usage = invocation[c].usage /\ invocation'[c].cost = invocation[c].cost
      /\ invocation'[c].status \in {invocation[c].status, "cancelled"}
  BY <1>3, <1>4, <1>5 DEF StoredRow
<1>9. MoneyOK(c)'
  BY <1>4, <1>6, <1>7, <1>8, GatewayAssumption
     DEF MoneyOK, Ended, Attached, GatewayTypes, RestOK, HistoryOK
\* A call that ended while its invocation was running lost its client, or something failed.
<1>10. active => ~Quiet
  <2>1. active => Leaky(c) \/ ~Calm
    BY <1>2, <1>6 DEF Over, Closed, Leaky, Running
  <2>2. QED
    BY <2>1 DEF Quiet
<1>11. /\ \A v \in Workers \ {w} : worker'[v] = worker[v]
       /\ Later /\ StaleKept => BatchOK(w)'
  <2>1. CASE GoTo(w, next)
    <3>1. next \in {"release", "settle"} /\ (next = "release" => ~Quiet)
      BY <1>10
    <3> HIDE DEF next
    <3>2. /\ worker'[w].batch = worker[w].batch /\ worker'[w].linked = worker[w].linked
          /\ worker'[w].cost = worker[w].cost /\ worker'[w].at = next
          /\ \A v \in Workers \ {w} : worker'[v] = worker[v]
      BY <2>1, WorkerRow
    <3>3. worker[w].cost >= invocation'[c].usage
      BY <1>2, <1>4, <1>8 DEF CallsInv, BatchOK
    <3>4. QED
      BY <1>2, <3>1, <3>2, <3>3, SameReservation DEF CallsInv, Later
  <2>2. CASE GoTo(w, "unlease")
    BY <2>2, UnleaseBatch
  <2>3. QED
    BY <1>4, <2>1, <2>2
<1>12. QED
  BY <1>2, <1>4, <1>7, <1>8, <1>9, <1>11, WorkerWrites

LEMMA ReleaseStaleKeepsCalls ==
    ASSUME GatewayTypes, CallsInv, NEW w \in Workers, ReleaseStaleSlot(w)
    PROVE  CallsInv'
<1> DEFINE Effect == /\ ReleaseChannel(worker[w].cost, "neutral")
                     /\ slot' = [slot EXCEPT ![Current(w)] = @ - 1]
                     /\ UNCHANGED <<ledgerVars, invocation, claim>>
<1>1. WorkerWrite(w, "release", Effect, GoTo(w, "settle"))
  BY DEF ReleaseStaleSlot
<1>2. PICK c \in Calls : c = Current(w)
  BY <1>1, CurrentHasEnded DEF WorkerWrite, WorkerCall
<1>3. Effect => /\ \A d \in Calls \ {c} : slot'[d] = slot[d]
                /\ UNCHANGED <<invocation, claim, resv>>
  BY <1>2, CallTypes DEF ledgerVars
<1> HIDE DEF Effect
<1>4. /\ worker[w].at = "release" /\ UNCHANGED <<request, crashes>>
      /\ \/ GoTo(w, "settle") /\ faults' = faults
         \/ GoTo(w, "unlease") /\ faults' = faults + 1
      /\ Effect \/ UNCHANGED stored
  BY <1>1, WorkerWriteOutcome DEF WorkerSteps
<1>5. /\ \A d \in Calls \ {c} : slot'[d] = slot[d]
      /\ UNCHANGED <<invocation, claim, resv>>
  BY <1>3, <1>4, StoredAreKept
<1>6. \A d \in Calls \ {c} : SameRow(d)
  BY <1>4, <1>5 DEF SameRow
<1>7. MoneyOK(c)
  BY <1>2, <1>4, CurrentHasEnded
<1>8. MoneyOK(c)'
  BY <1>4, <1>5, <1>7, GatewayAssumption
     DEF MoneyOK, Ended, Attached, GatewayTypes, RestOK, HistoryOK
<1>9. \A d \in Calls : Leaky(d) => Leaky(d)'
  BY <1>4, <1>5 DEF Leaky, Ended, Lost
<1>10. ~Quiet'
  <2>1. Later
    BY <1>4, <1>9, HistoryIsLater
  <2>2. QED
    BY <1>4, <2>1 DEF CallsInv, BatchOK, Later
<1>11. /\ \A v \in Workers \ {w} : worker'[v] = worker[v]
       /\ StaleKept => BatchOK(w)'
  <2>1. CASE GoTo(w, "settle")
    <3>1. /\ worker'[w].batch = worker[w].batch /\ worker'[w].linked = worker[w].linked
          /\ worker'[w].cost = worker[w].cost /\ worker'[w].at = "settle"
          /\ \A v \in Workers \ {w} : worker'[v] = worker[v]
      BY <2>1, WorkerRow
    <3>2. worker[w].cost >= invocation'[c].usage
      BY <1>2, <1>4, <1>5 DEF CallsInv, BatchOK
    <3>3. QED
      BY <1>2, <3>1, <3>2, SameReservation DEF CallsInv
  <2>2. CASE GoTo(w, "unlease")
    BY <2>2, UnleaseBatch
  <2>3. QED
    BY <1>4, <2>1, <2>2
<1>12. QED
  BY <1>2, <1>4, <1>5, <1>6, <1>8, <1>10, <1>11, WorkerWrites

\* The recovery settles what was used or refunds where nothing was.
LEMMA FinishKeepsCalls ==
    ASSUME GatewayTypes, CallsInv, NEW w \in Workers, SettleStale(w) \/ RefundStale(w)
    PROVE  CallsInv'
<1>1. PICK at \in {"settle", "refund"} :
        WorkerWrite(w, at,
            /\ FinishAccessTokenReservation(Current(w), IF at = "settle" THEN "settled" ELSE "refunded",
                                            IF at = "settle" THEN worker[w].cost ELSE 0)
            /\ UNCHANGED <<channel, invocation, claim, slot>>,
            NextReservation(w))
  BY DEF SettleStale, RefundStale, SettleAccessTokenBalance, RefundAccessTokenBalance
<1> DEFINE kind == IF at = "settle" THEN "settled" ELSE "refunded"
           actual == IF at = "settle" THEN worker[w].cost ELSE 0
           Effect == /\ FinishAccessTokenReservation(Current(w), kind, actual)
                     /\ UNCHANGED <<channel, invocation, claim, slot>>
<1>2. WorkerWrite(w, at, Effect, NextReservation(w))
  BY <1>1
<1>3. PICK c \in Calls : c = Current(w)
  BY <1>2, CurrentHasEnded DEF WorkerWrite, WorkerCall
<1> HIDE DEF kind, actual
<1>4. Effect => /\ resv'[c].state = IF resv[c].state = "open" THEN kind ELSE resv[c].state
                /\ resv[c].state # "open" => resv'[c] = resv[c]
                /\ (resv[c].state = "open" /\ kind = "settled") => resv'[c].cost = actual
                /\ \A d \in Calls \ {c} : resv'[d] = resv[d]
                /\ UNCHANGED <<channel, invocation, claim, slot>>
  BY <1>3, FinishRow, CallTypes
<1> HIDE DEF Effect
<1>5. /\ worker[w].at = at /\ worker[w].at # "idle" /\ UNCHANGED <<request, crashes>>
      /\ \/ NextReservation(w) /\ faults' = faults
         \/ GoTo(w, "unlease") /\ faults' = faults + 1
      /\ Effect \/ UNCHANGED stored
  BY <1>2, WorkerWriteOutcome DEF WorkerSteps
<1>6. /\ \A d \in Calls \ {c} : resv'[d] = resv[d]
      /\ UNCHANGED <<channel, invocation, claim, slot>>
  BY <1>4, <1>5, StoredAreKept
<1>7. \A d \in Calls \ {c} : SameRow(d)
  BY <1>5, <1>6 DEF SameRow
<1>8. /\ MoneyOK(c) /\ Ended(c) /\ c \in MeteredCalls
      /\ c \in worker[w].linked <=> claim[c].attached
  BY <1>3, <1>5, CurrentHasEnded
<1>9. /\ at = "settle" => kind = "settled" /\ actual >= invocation[c].usage
      /\ at = "refund" => kind = "refunded" /\ invocation[c].usage = 0
  BY <1>3, <1>5, <1>8 DEF kind, actual, CallsInv, BatchOK, MoneyOK, Attached
<1>10. MoneyOK(c)'
  <2>1. MoneyOK(c) /\ Ended(c) /\ c \in MeteredCalls /\ (faults' = 0 => faults = 0)
    BY <1>5, <1>8, GatewayAssumption DEF GatewayTypes, RestOK, HistoryOK
  <2>2. CASE resv'[c] = resv[c]
    BY <1>5, <1>6, <2>1, <2>2 DEF MoneyOK, Ended, Attached
  <2>3. CASE resv'[c] # resv[c]
    <3>1. Effect /\ resv[c].state = "open"
      BY <1>4, <1>5, <2>3, StoredAreKept
    <3>2. /\ resv'[c].state = kind
          /\ kind = "settled" => resv'[c].cost = actual
      BY <1>4, <3>1
    <3>3. invocation[c].status # "completed"
      BY <1>8, <3>1 DEF MoneyOK
    <3>4. QED
      BY <1>5, <1>6, <1>9, <2>1, <3>2, <3>3 DEF MoneyOK, Ended, Attached
  <2>4. QED
    BY <2>2, <2>3
<1>11. /\ \A v \in Workers \ {w} : worker'[v] = worker[v]
       /\ StaleKept => BatchOK(w)'
  <2>1. CASE NextReservation(w)
    <3>1. BatchOK(w) /\ StaleKept
      BY <1>6 DEF CallsInv, StaleKept
    <3>2. QED
      BY <1>5, <2>1, <3>1, NextOfBatch
  <2>2. CASE GoTo(w, "unlease")
    BY <2>2, UnleaseBatch
  <2>3. QED
    BY <1>5, <2>1, <2>2
<1>12. QED
  BY <1>3, <1>5, <1>6, <1>7, <1>10, <1>11, WorkerWrites

LEMMA UnleaseKeepsCalls ==
    ASSUME GatewayTypes, CallsInv, NEW w \in Workers, ReleaseLease(w)
    PROVE  CallsInv'
<1>1. PICK c \in Calls : c = Current(w)
  BY CurrentHasEnded DEF ReleaseLease
<1>2. /\ worker[w].at # "idle" /\ NextReservation(w)
      /\ UNCHANGED <<resv, channel, invocation, request, slot, crashes>>
      /\ faults' = faults \/ faults' = faults + 1
      /\ \/ claim' = claim
         \/ claim' = [claim EXCEPT ![c].owner = NoWorker, ![c].live = FALSE]
  BY <1>1 DEF ReleaseLease, ledgerVars
<1>3. \A d \in Calls : claim'[d].attached = claim[d].attached /\ claim'[d].stale = claim[d].stale
  BY <1>2 DEF GatewayTypes, RestOK, StoredOK, ClaimRows
<1>4. \A d \in Calls : SameRow(d)
  BY <1>2, <1>3 DEF SameRow
<1>5. Later /\ StaleKept
  BY <1>2, <1>4, SameRowsStep
<1>6. BatchOK(w)' /\ \A v \in Workers \ {w} : worker'[v] = worker[v]
  BY <1>2, <1>5, NextOfBatch DEF CallsInv
<1>7. QED
  BY <1>2, <1>4, <1>5, <1>6, OtherActor

LEMMA RecoveryKeepsCalls ==
    ASSUME GatewayTypes, CallsInv, NEW w \in Workers, Recovery(w)
    PROVE  CallsInv'
BY ClaimKeepsCalls, VerifyKeepsCalls, LoadKeepsCalls, CancelKeepsCalls, ReleaseStaleKeepsCalls,
   FinishKeepsCalls, UnleaseKeepsCalls DEF Recovery

LEMMA WorkerCrashKeepsCalls ==
    ASSUME GatewayTypes, CallsInv, NEW w \in Workers, WorkerCrash(w)
    PROVE  CallsInv'
<1>1. /\ UNCHANGED <<stored, request, faults>> /\ crashes' = crashes + 1
      /\ worker' = [worker EXCEPT ![w] = IdleWorker]
  BY DEF WorkerCrash
<1>2. worker'[w] = IdleWorker /\ \A v \in Workers \ {w} : worker'[v] = worker[v]
  BY <1>1 DEF GatewayTypes, GatewayInv, WorkersInv
<1>3. BatchOK(w)'
  BY <1>2 DEF BatchOK, IdleWorker
<1>4. QED
  BY <1>1, <1>2, <1>3, WorkerOnly

------------------------------------------------------------------------------
(* Clients, operators, crashes and time *)

\* Nothing of a stage says that the client is still there.
LEMMA GoneStage ==
    ASSUME NEW c \in Calls, StageOK(c), ~Ended(c), Later,
           invocation'[c] = invocation[c], claim'[c] = claim[c], slot'[c] = slot[c],
           resv'[c] = resv[c],
           request'[c].todo = request[c].todo, request'[c].cost = request[c].cost,
           request'[c].opened = request[c].opened, request'[c].gone
    PROVE  StageOK(c)'
<1> USE DEF Later, HasSlot, GaveSlot, Closed, Held, Attached, Unused, Unopened,
            Running, Lost, Left, Paid
<1>1. CASE Resolving(c)
  BY <1>1 DEF StageOK, Resolving
<1>2. CASE Reserving(c)
  BY <1>2 DEF StageOK, Reserving
<1>3. CASE Authorizing(c)
  BY <1>3 DEF StageOK, Authorizing
<1>4. CASE Creating(c)
  BY <1>4 DEF StageOK, Creating
<1>5. CASE Attaching(c)
  BY <1>5 DEF StageOK, Attaching
<1>6. CASE Asking(c)
  BY <1>6 DEF StageOK, Asking
<1>7. CASE Recording(c)
  BY <1>7 DEF StageOK, Recording
<1>8. CASE Settling(c)
  BY <1>8 DEF StageOK, Settling
<1>9. CASE Finishing(c)
  BY <1>9 DEF StageOK, Finishing
<1>10. CASE Completing(c)
  BY <1>10 DEF StageOK, Completing
<1>11. CASE Stopping(c)
  BY <1>11 DEF StageOK, Stopping
<1>12. CASE Releasing(c)
  BY <1>12 DEF StageOK, Releasing
<1>13. CASE Undoing(c)
  BY <1>13 DEF StageOK, Undoing
<1>14. CASE Detaching(c)
  BY <1>14 DEF StageOK, Detaching
<1>15. CASE Excusing(c)
  BY <1>15 DEF StageOK, Excusing
<1>16. CASE Failing(c)
  BY <1>16 DEF StageOK, Failing
<1>17. CASE Refunding(c)
  BY <1>17 DEF StageOK, Refunding
<1>18. ~Over(c)
  BY DEF Over
<1>19. QED
  BY <1>1, <1>2, <1>3, <1>4, <1>5, <1>6, <1>7, <1>8, <1>9, <1>10, <1>11, <1>12, <1>13,
     <1>14, <1>15, <1>16, <1>17, <1>18 DEF StageOK

\* A handler that did not end is changed: what is stored stays.
LEMMA HandlerChanges ==
    ASSUME GatewayTypes, CallsInv, NEW c \in Calls, ~Ended(c),
           UNCHANGED <<stored, worker>>,
           \A d \in Calls \ {c} : request'[d] = request[d], request'[c].cost = request[c].cost,
           faults' = faults, crashes' = crashes \/ crashes' = crashes + 1,
           Later => StageOK(c)'
    PROVE  CallsInv'
<1>1. \A d \in Calls : StoredRow(d)
  BY StoredRows
<1>2. \A d \in Calls \ {c} : SameRow(d)
  BY <1>1 DEF SameRow, StoredRow
<1>3. ~Leaky(c)
  BY DEF Leaky
<1>4. Later
  BY <1>2, <1>3, SameRowLeaky, HistoryIsLater
<1>5. MoneyOK(c) /\ ~claim[c].stale
  BY DEF CallsInv, CallOK, MoneyOK
<1>6. MoneyOK(c)'
  BY <1>1, <1>4, <1>5 DEF MoneyOK, StoredRow, Later, Attached
<1>7. StaleKept
  BY <1>1 DEF StaleKept, StoredRow
<1>8. \A d \in Calls : SameRow(d) \/ CallOK(d)'
  BY <1>2, <1>4, <1>6 DEF CallOK
<1>9. channel' = channel /\ UNCHANGED slot
  BY StoredAreKept
<1>10. QED
  BY <1>4, <1>7, <1>8, <1>9, OtherActor

LEMMA DisconnectKeepsCalls ==
    ASSUME GatewayTypes, CallsInv, NEW c \in Calls, Disconnect(c)
    PROVE  CallsInv'
<1>1. /\ ~Ended(c) /\ request' = [request EXCEPT ![c].gone = TRUE]
      /\ UNCHANGED <<stored, worker, faults, crashes>>
  BY DEF Disconnect
<1>2. /\ \A d \in Calls \ {c} : request'[d] = request[d]
      /\ request'[c].todo = request[c].todo /\ request'[c].cost = request[c].cost
      /\ request'[c].opened = request[c].opened /\ request'[c].gone
  BY <1>1 DEF GatewayTypes, GatewayInv, RequestsInv, RequestFields
<1>3. StoredRow(c) /\ StageOK(c)
  BY <1>1, StoredRows DEF CallsInv, CallOK
<1>4. Later => StageOK(c)'
  BY <1>1, <1>2, <1>3, GoneStage DEF StoredRow
<1>5. QED
  BY <1>1, <1>2, <1>4, HandlerChanges

LEMMA CrashKeepsCalls ==
    ASSUME GatewayTypes, CallsInv, NEW c \in Calls, Crash(c)
    PROVE  CallsInv'
<1>1. /\ ~Ended(c) /\ request' = [request EXCEPT ![c].todo = <<>>]
      /\ UNCHANGED <<stored, worker, faults>> /\ crashes' = crashes + 1
  BY DEF Crash
<1>2. /\ \A d \in Calls \ {c} : request'[d] = request[d]
      /\ request'[c].todo = <<>> /\ request'[c].cost = request[c].cost
  BY <1>1 DEF GatewayTypes, GatewayInv, RequestsInv, RequestFields
<1>3. crashes' # 0
  BY <1>1, GatewayAssumption DEF GatewayTypes, RestOK, HistoryOK
<1>4. StageOK(c)'
  BY <1>2, <1>3 DEF StageOK, Over, Ended, Closed, Quiet, Calm
<1>5. QED
  BY <1>1, <1>2, <1>4, HandlerChanges

\* Only the reservation of a call that has ended counts as stale.
LEMMA AgeKeepsCalls ==
    ASSUME ~LiveRecovery, GatewayTypes, CallsInv, NEW c \in Calls, Age(c)
    PROVE  CallsInv'
<1>1. /\ resv[c].state = "open" /\ Ended(c) /\ ~claim[c].stale
      /\ claim' = [claim EXCEPT ![c].stale = TRUE]
      /\ UNCHANGED <<resv, channel, invocation, request, worker, slot, faults, crashes>>
  BY DEF Age, ledgerVars
<1>2. /\ \A d \in Calls \ {c} : claim'[d] = claim[d]
      /\ claim'[c].attached = claim[c].attached /\ claim'[c].stale
  BY <1>1 DEF GatewayTypes, RestOK, StoredOK, ClaimRows
<1>3. \A d \in Calls \ {c} : SameRow(d)
  BY <1>1, <1>2 DEF SameRow
<1>4. Over(c) /\ MoneyOK(c)
  BY <1>1, OverIfEnded DEF CallsInv, CallOK
<1>5. \A d \in Calls : Leaky(d) = Leaky(d)'
  BY <1>1 DEF Leaky, Ended, Lost
<1>6. Later
  BY <1>1, <1>5, HistoryIsLater
<1>7. MoneyOK(c)'
  BY <1>1, <1>2, <1>4 DEF MoneyOK, Ended, Attached
<1>8. Over(c)'
  BY <1>1, <1>4, <1>6 DEF Over, Ended, Closed, Running, Lost, Later
<1>9. StaleKept
  BY <1>1, <1>2 DEF StaleKept
<1>10. QED
  BY <1>1, <1>3, <1>6, <1>7, <1>8, <1>9, OtherActor DEF CallOK, StageOK

LEMMA RestKeepsCalls ==
    ASSUME GatewayTypes, CallsInv,
           (\E c \in Calls : LeaseExpires(c)) \/ Adjust \/ Cooldown \/ UNCHANGED vars
    PROVE  CallsInv'
<1>1. /\ UNCHANGED <<invocation, request, worker, slot, faults, crashes>>
      /\ \A d \in Calls : SameRow(d)
      /\ channel'.inflight = channel.inflight
  <2>1. ASSUME NEW c \in Calls, LeaseExpires(c)
        PROVE  \A d \in Calls : claim'[d].attached = claim[d].attached
                                /\ claim'[d].stale = claim[d].stale
    BY <2>1 DEF LeaseExpires, GatewayTypes, RestOK, StoredOK, ClaimRows
  <2>2. CASE \E c \in Calls : LeaseExpires(c)
    BY <2>1, <2>2 DEF LeaseExpires, SameRow, ledgerVars
  <2>3. CASE Adjust
    BY <2>3 DEF Adjust, AdjustGatewayBalance, SameRow, gatewayVars
  <2>4. CASE Cooldown
    BY <2>4 DEF Cooldown, CooldownElapses, SameRow, gatewayVars, ledgerVars,
                GatewayTypes, RestOK, StoredOK, Channel
  <2>5. CASE UNCHANGED vars
    BY <2>5 DEF vars, SameRow, gatewayVars, ledgerVars
  <2>6. QED
    BY <2>2, <2>3, <2>4, <2>5
<1>2. Later /\ StaleKept
  BY <1>1, SameRowsStep
<1>3. QED
  BY <1>1, <1>2, OtherActor

LEMMA CallsStart == GatewayInit => CallsInv
<1> SUFFICES ASSUME GatewayInit PROVE CallsInv
  OBVIOUS
<1>1. \A c \in Calls : Resolving(c)
  BY DEF GatewayInit, LedgerInit, NoReservation, Resolving, Unused
<1>2. \A c \in Calls : MoneyOK(c)
  BY AmountsAssumption DEF GatewayInit, LedgerInit, NoReservation, MoneyOK
<1>3. \A w \in Workers : BatchOK(w)
  BY DEF GatewayInit, BatchOK, IdleWorker
<1>4. CapacityOK
  <2>1. {c \in Calls : slot[c] = 1} = {}
    BY DEF GatewayInit
  <2>2. channel.inflight = 0
    BY DEF GatewayInit, NewChannel
  <2>3. QED
    BY <2>1, <2>2, FS_EmptySet DEF CapacityOK
<1>5. QED
  BY <1>1, <1>2, <1>3, <1>4 DEF CallsInv, CallOK, StageOK

LEMMA CallsStep ==
    ASSUME ~LiveRecovery
    PROVE  GatewayTypes /\ CallsInv /\ [GatewayNext]_vars => CallsInv'
<1> SUFFICES ASSUME GatewayTypes, CallsInv, [GatewayNext]_vars PROVE CallsInv'
  OBVIOUS
<1>1. ASSUME NEW c \in Calls, Handler(c) \/ Disconnect(c) \/ Crash(c) \/ Age(c)
      PROVE  CallsInv'
  BY <1>1, HandlerKeepsCalls, DisconnectKeepsCalls, CrashKeepsCalls, AgeKeepsCalls
<1>2. ASSUME NEW w \in Workers, Recovery(w) \/ WorkerCrash(w)
      PROVE  CallsInv'
  BY <1>2, RecoveryKeepsCalls, WorkerCrashKeepsCalls
<1>3. QED
  BY <1>1, <1>2, RestKeepsCalls DEF GatewayNext

LEMMA CallsInvariant ==
    ASSUME ~LiveRecovery
    PROVE  GatewaySpec => []CallsInv
BY CallsStart, CallsStep, GatewayTypesInvariant, PTL DEF GatewaySpec

LEMMA UsagePart == CallsInv => UsageIsPaid
BY GatewayAssumption DEF CallsInv, CallOK, MoneyOK, UsageIsPaid

LEMMA CapacityPart == GatewayTypes /\ CallsInv => CapacityIsExact
<1> SUFFICES ASSUME GatewayTypes, CallsInv, faults = 0, crashes = 0,
                    \A c \in Calls : KeptContext(c)
             PROVE  /\ channel.inflight = Cardinality({c \in Calls : slot[c] = 1})
                    /\ \A c \in Calls : slot[c] \in (IF Ended(c) THEN {0} ELSE {0, 1})
  BY DEF CapacityIsExact
<1>1. Quiet
  BY DEF Quiet, Calm, Leaky, Lost, KeptContext
<1>2. channel.inflight = Cardinality({c \in Calls : slot[c] = 1})
  BY <1>1 DEF CallsInv, CapacityOK
<1>3. ASSUME NEW c \in Calls
      PROVE  slot[c] \in IF Ended(c) THEN {0} ELSE {0, 1}
  <2>1. StageOK(c)
    BY DEF CallsInv, CallOK
  <2>2. slot[c] \in {0, 1}
    BY <1>1, <2>1
       DEF StageOK, HasSlot, GaveSlot, Resolving, Reserving, Authorizing, Creating, Attaching,
           Asking, Recording, Settling, Finishing, Completing, Stopping, Releasing, Undoing,
           Detaching, Excusing, Failing, Refunding, Over
  <2>3. Ended(c) => slot[c] = 0
    BY <1>1, <2>1, OverIfEnded DEF Over
  <2>4. QED
    BY <2>2, <2>3
<1>4. QED
  BY <1>2, <1>3

\* What was used is paid: every handler of every call, every recovery worker, every
\* fault, crash and disconnect leaves reservations settled for no less than the usage
\* that was recorded, and completed calls settled for exactly the cost they show.
THEOREM GatewayPaysUsage == GatewaySpec => []UsageIsPaid
<1>1. CASE LiveRecovery
  <2>1. UsageIsPaid
    BY <1>1 DEF UsageIsPaid
  <2>2. QED
    BY <2>1, PTL
<1>2. CASE ~LiveRecovery
  BY <1>2, CallsInvariant, UsagePart, PTL
<1>3. QED
  BY <1>1, <1>2

\* inflight_requests counts the slots that are out, and none is out for a call that has
\* ended, as long as nothing failed and no client left in the middle of a write.
THEOREM GatewayCountsSlots == GatewaySpec => []CapacityIsExact
<1>1. CASE LiveRecovery
  <2>1. CapacityIsExact
    BY <1>1 DEF CapacityIsExact
  <2>2. QED
    BY <2>1, PTL
<1>2. CASE ~LiveRecovery
  BY <1>2, CallsInvariant, GatewayTypesInvariant, CapacityPart, PTL
<1>3. QED
  BY <1>1, <1>2
==============================================================================
