-------------------------- MODULE GatewayRowsProofs --------------------------
(***************************************************************************)
(* Proofs about the rows of GatewayRows beside the balance: about           *)
(* ChannelCircuit, for every number of calls, every limit, quota, threshold *)
(* and cost; about CostExports, for every number of calls, costs, batches   *)
(* and requests; and that the rows together have their types.               *)
(***************************************************************************)
EXTENDS GatewayRows, BalanceLedgerProofs

\* What the row says of itself: the circuit, the failures and the health agree.
RowAgrees(ch) ==
    /\ ch.circuit # "closed" <=> ch.failures = FailureThreshold
    /\ ch.circuit # "closed" <=> ch.health \in {"circuit_open", "probing"}

\* The outcome of a call or a test moves failures, circuit and health together
\* and leaves the counters alone; no outcome leaves the channel probing.
LEMMA OutcomeKeepsRow ==
    ASSUME NEW ch \in Channel, RowAgrees(ch), NEW outcome
    PROVE  LET r == WithOutcome(ch, outcome) IN
           /\ r \in Channel
           /\ RowAgrees(r)
           /\ r.inflight = ch.inflight
           /\ r.used = ch.used
           /\ r.health # "probing"
<1> DEFINE Good(r) == /\ r \in Channel
                      /\ RowAgrees(r)
                      /\ r.inflight = ch.inflight
                      /\ r.used = ch.used
                      /\ r.health # "probing"
<1>1. /\ 0 \in 0..FailureThreshold /\ FailureThreshold \in 0..FailureThreshold
      /\ {"healthy", "degraded", "circuit_open"} \subseteq Healths
  BY ChannelAssumption DEF Healths
<1>2. ch.failures + 1 < FailureThreshold => ch.failures + 1 \in 0..FailureThreshold
  BY ChannelAssumption DEF Channel
<1>3. Good(Recovered(ch))
  <2>1. Recovered(ch) \in Channel
    BY <1>1 DEF Channel, Recovered
  <2>2. QED
    BY <2>1, ChannelAssumption DEF Channel, Recovered, RowAgrees
<1>4. Good(Failed(ch))
  <2>1. CASE ch.failures + 1 >= FailureThreshold
    <3>1. Failed(ch) \in Channel
      BY <1>1, <2>1 DEF Channel, Failed
    <3>2. QED
      BY <2>1, <3>1, ChannelAssumption DEF Channel, Failed, RowAgrees
  <2>2. CASE ch.failures + 1 < FailureThreshold
    <3>1. Failed(ch) \in Channel
      BY <1>1, <1>2, <2>2, ChannelAssumption DEF Channel, Failed
    <3>2. QED
      BY <2>2, <3>1, ChannelAssumption DEF Channel, Failed, RowAgrees
  <2>3. QED
    BY <2>1, <2>2, ChannelAssumption DEF Channel
<1>5. Good(Unjudged(ch))
  <2>1. Unjudged(ch) \in Channel
    BY <1>1 DEF Channel, Unjudged
  <2>2. QED
    BY <2>1 DEF Channel, Unjudged, RowAgrees
<1>6. QED
  BY <1>3, <1>4, <1>5 DEF WithOutcome

------------------------------------------------------------------------------
(* The row agrees with itself *)

RowInv == CircuitTypeOK /\ RowAgrees(channel)

LEMMA AdmitKeepsRow ==
    ASSUME RowInv, AdmitCall
    PROVE  channel' \in Channel /\ RowAgrees(channel')
<1>1. channel \in Channel /\ RowAgrees(channel)
  BY DEF RowInv, CircuitTypeOK
<1>2. channel.inflight + 1 \in Nat /\ "probing" \in Healths
  BY <1>1 DEF Channel, Healths
<1>3. CASE channel.circuit = "closed"
  <2>1. channel' = [channel EXCEPT !.inflight = @ + 1]
    BY <1>3 DEF AdmitCall
  <2>2. channel' \in Channel
    BY <1>1, <1>2, <2>1 DEF Channel
  <2>3. QED
    BY <1>1, <2>1, <2>2 DEF Channel, RowAgrees
<1>4. CASE channel.circuit # "closed"
  <2>1. channel' = [channel EXCEPT !.inflight = @ + 1, !.health = "probing", !.circuit = "open"]
    BY <1>4 DEF AdmitCall
  <2>2. channel' \in Channel
    BY <1>1, <1>2, <2>1 DEF Channel
  <2>3. QED
    BY <1>1, <1>4, <2>1, <2>2 DEF Channel, RowAgrees
<1>5. QED
  BY <1>3, <1>4

\* A release counts the slot back and then applies the outcome.
LEMMA ReleaseKeepsRow ==
    ASSUME RowInv, NEW amount \in Nat, NEW outcome, ReleaseChannel(amount, outcome)
    PROVE  /\ channel' \in Channel
           /\ RowAgrees(channel')
           /\ channel'.inflight = IF channel.inflight > 0 THEN channel.inflight - 1 ELSE 0
           /\ channel'.used = channel.used + amount
           /\ channel'.health # "probing"
<1> DEFINE less == IF channel.inflight > 0 THEN channel.inflight - 1 ELSE 0
           counted == [channel EXCEPT !.inflight = less, !.used = @ + amount]
<1>1. channel \in Channel /\ RowAgrees(channel)
  BY DEF RowInv, CircuitTypeOK
<1>2. less \in Nat /\ channel.used + amount \in Nat
  BY <1>1 DEF Channel
<1>3. counted \in Channel
  <2> HIDE DEF less
  <2> QED BY <1>1, <1>2 DEF Channel
<1>4. /\ RowAgrees(counted)
      /\ counted.inflight = less
      /\ counted.used = channel.used + amount
  <2> HIDE DEF less
  <2> QED BY <1>1 DEF Channel, RowAgrees
<1>5. channel' = WithOutcome(counted, outcome)
  BY <1>1 DEF ReleaseChannel, Channel
<1> HIDE DEF counted
<1>6. QED
  BY <1>3, <1>4, <1>5, OutcomeKeepsRow

LEMMA TestIsOutcome ==
    ASSUME NEW ok \in BOOLEAN, UpdateChannelTestResult(ok)
    PROVE  \E outcome \in Outcomes : channel' = WithOutcome(channel, outcome)
<1>1. CASE ok
  BY <1>1 DEF UpdateChannelTestResult, Outcomes, WithOutcome
<1>2. CASE ~ok
  BY <1>2 DEF UpdateChannelTestResult, Outcomes, WithOutcome
<1>3. QED
  BY <1>1, <1>2

\* The invariant that the type and the circuit's agreement need together: the
\* failure counter stays within its bound because an open circuit has reached it.
LEMMA RowInvStep == RowInv /\ [CircuitNext]_circuitVars => RowInv'
<1> SUFFICES ASSUME RowInv, [CircuitNext]_circuitVars PROVE RowInv'
  OBVIOUS
<1>1. channel \in Channel /\ RowAgrees(channel)
  BY DEF RowInv, CircuitTypeOK
<1>2. ASSUME NEW c \in Invocations, Admit(c) PROVE RowInv'
  <2>1. channel' \in Channel /\ RowAgrees(channel')
    BY <1>2, AdmitKeepsRow DEF Admit
  <2>2. role' \in [Invocations -> {"idle", "plain", "probe"}]
    BY <1>2 DEF Admit, RowInv, CircuitTypeOK
  <2>3. QED
    BY <2>1, <2>2 DEF RowInv, CircuitTypeOK, RowAgrees
<1>3. ASSUME NEW c \in Invocations, NEW amount \in 0..MaxCost, NEW outcome \in Outcomes,
             Release(c, amount, outcome)
      PROVE  RowInv'
  <2>1. channel' \in Channel /\ RowAgrees(channel')
    BY <1>3, ReleaseKeepsRow, CircuitAssumption DEF Release
  <2>2. role' \in [Invocations -> {"idle", "plain", "probe"}]
    BY <1>3 DEF Release, RowInv, CircuitTypeOK
  <2>3. QED
    BY <2>1, <2>2 DEF RowInv, CircuitTypeOK, RowAgrees
<1>4. ASSUME NEW ok \in BOOLEAN, TestChannel(ok) PROVE RowInv'
  <2>1. PICK outcome \in Outcomes : channel' = WithOutcome(channel, outcome)
    BY <1>4, TestIsOutcome DEF TestChannel
  <2>2. channel' \in Channel /\ RowAgrees(channel')
    BY <1>1, <2>1, OutcomeKeepsRow
  <2>3. QED
    BY <1>4, <2>2 DEF TestChannel, RowInv, CircuitTypeOK, RowAgrees
<1>5. CASE SwitchChannel
  <2>1. channel' = [channel EXCEPT !.active = ~@]
    BY <1>5 DEF SwitchChannel, UpdateChannelStatus
  <2>2. channel' \in Channel
    BY <1>1, <2>1 DEF Channel
  <2>3. QED
    BY <1>1, <1>5, <2>1, <2>2 DEF SwitchChannel, RowInv, CircuitTypeOK, RowAgrees, Channel
<1>6. CASE Cooldown
  <2>1. channel.circuit = "open" /\ channel' = [channel EXCEPT !.circuit = "elapsed"]
    BY <1>6 DEF Cooldown, CooldownElapses
  <2>2. channel' \in Channel
    BY <1>1, <2>1 DEF Channel
  <2>3. QED
    BY <1>1, <1>6, <2>1, <2>2 DEF Cooldown, RowInv, CircuitTypeOK, RowAgrees, Channel
<1>7. CASE UNCHANGED circuitVars
  BY <1>7 DEF circuitVars, RowInv, CircuitTypeOK, RowAgrees
<1>8. QED
  BY <1>2, <1>3, <1>4, <1>5, <1>6, <1>7 DEF CircuitNext

THEOREM RowInvariant == CircuitSpec => []RowInv
<1>1. CircuitInit => RowInv
  BY ChannelAssumption DEF CircuitInit, NewChannel, RowInv, CircuitTypeOK, RowAgrees, Channel, Healths
<1>2. QED
  BY <1>1, RowInvStep, PTL DEF CircuitSpec

\* Every reachable row is one the table can hold.
THEOREM CircuitTypeCorrect == CircuitSpec => []CircuitTypeOK
<1>1. RowInv => CircuitTypeOK
  BY DEF RowInv
<1>2. QED
  BY <1>1, RowInvariant, PTL

\* The breaker is open exactly while the failures have reached the threshold,
\* for every threshold and any number of concurrent calls and tests.
LEMMA CircuitAgrees == CircuitSpec => []CircuitIffThreshold
<1>1. RowInv => CircuitIffThreshold
  BY DEF RowInv, RowAgrees, CircuitIffThreshold
<1>2. QED
  BY <1>1, RowInvariant, PTL

------------------------------------------------------------------------------
(* The counter counts the calls that hold the channel *)

LEMMA HoldersFinite == IsFiniteSet(Holders) /\ Cardinality(Holders) \in Nat
<1>1. Holders \in SUBSET Invocations
  BY DEF Holders
<1>2. IsFiniteSet(Holders)
  BY <1>1, CircuitAssumption, FS_Subset
<1>3. QED
  BY <1>2, FS_CardinalityType

CapacityInv == RowInv /\ InflightCountsHolders

\* What an admission does to the counter and to the holders.
LEMMA AdmitCounts ==
    ASSUME RowInv, NEW c \in Invocations, Admit(c)
    PROVE  /\ channel'.inflight = channel.inflight + 1
           /\ channel'.used = channel.used
           /\ ConcurrencyLimit > 0 => channel.inflight < ConcurrencyLimit
           /\ ChannelQuota > 0 => channel.used < ChannelQuota
           /\ Cardinality(Holders') = Cardinality(Holders) + 1
<1>1. channel \in Channel
  BY DEF RowInv, CircuitTypeOK
<1>2. channel'.inflight = channel.inflight + 1 /\ channel'.used = channel.used
  BY <1>1 DEF Admit, AdmitCall, Channel
<1>3. HasCapacity(channel)
  BY DEF Admit, AdmitCall
<1>4. /\ ConcurrencyLimit > 0 => channel.inflight < ConcurrencyLimit
      /\ ChannelQuota > 0 => channel.used < ChannelQuota
  BY <1>1, <1>3, ChannelAssumption DEF HasCapacity, Channel
<1>5. Holders' = Holders \cup {c} /\ c \notin Holders
  BY DEF Admit, RowInv, CircuitTypeOK, Holders
<1>6. QED
  BY <1>2, <1>4, <1>5, HoldersFinite, FS_AddElement

\* What a release does to them: the clamp at zero does not act.
LEMMA ReleaseCounts ==
    ASSUME CapacityInv, NEW c \in Invocations, NEW amount \in 0..MaxCost, NEW outcome \in Outcomes,
           Release(c, amount, outcome)
    PROVE  /\ channel.inflight > 0
           /\ channel'.inflight = channel.inflight - 1
           /\ channel'.used = channel.used + amount
           /\ Cardinality(Holders') = Cardinality(Holders) - 1
<1>1. Holders' = Holders \ {c} /\ c \in Holders
  BY DEF Release, CapacityInv, RowInv, CircuitTypeOK, Holders
<1>2. Cardinality(Holders') = Cardinality(Holders) - 1 /\ Cardinality(Holders') \in Nat
  <2>1. IsFiniteSet(Holders \ {c})
    BY HoldersFinite, FS_RemoveElement
  <2>2. Cardinality(Holders \ {c}) \in Nat
    BY <2>1, FS_CardinalityType
  <2>3. QED
    BY <1>1, <2>2, HoldersFinite, FS_RemoveElement
<1>3. channel.inflight > 0
  BY <1>2, HoldersFinite DEF CapacityInv, InflightCountsHolders
<1>4. amount \in Nat /\ ReleaseChannel(amount, outcome) /\ RowInv
  BY CircuitAssumption DEF Release, CapacityInv
<1>5. QED
  BY <1>2, <1>3, <1>4, ReleaseKeepsRow

LEMMA OthersCount ==
    ASSUME RowInv, \/ \E ok \in BOOLEAN : TestChannel(ok)
                   \/ SwitchChannel \/ Cooldown \/ UNCHANGED circuitVars
    PROVE  /\ channel'.inflight = channel.inflight
           /\ channel'.used = channel.used
           /\ UNCHANGED role
           /\ channel'.health = "probing" => channel.health = "probing"
<1>1. channel \in Channel /\ RowAgrees(channel)
  BY DEF RowInv, CircuitTypeOK
<1>2. ASSUME NEW ok \in BOOLEAN, TestChannel(ok)
      PROVE  /\ channel'.inflight = channel.inflight
             /\ channel'.used = channel.used
             /\ channel'.health # "probing"
  <2>1. PICK outcome \in Outcomes : channel' = WithOutcome(channel, outcome)
    BY <1>2, TestIsOutcome DEF TestChannel
  <2>2. QED
    BY <1>1, <2>1, OutcomeKeepsRow
<1>3. CASE SwitchChannel
  BY <1>1, <1>3 DEF SwitchChannel, UpdateChannelStatus, Channel
<1>4. CASE Cooldown
  BY <1>1, <1>4 DEF Cooldown, CooldownElapses, Channel
<1>5. CASE UNCHANGED circuitVars
  BY <1>5 DEF circuitVars
<1>6. QED
  BY <1>2, <1>3, <1>4, <1>5 DEF TestChannel

LEMMA CapacityStep == CapacityInv /\ [CircuitNext]_circuitVars => CapacityInv'
<1> SUFFICES ASSUME CapacityInv, [CircuitNext]_circuitVars PROVE CapacityInv'
  OBVIOUS
<1>1. RowInv /\ RowInv' /\ channel \in Channel
  BY RowInvStep DEF CapacityInv, RowInv, CircuitTypeOK
<1>2. channel.inflight \in Nat /\ ConcurrencyLimit \in Nat
  BY <1>1, ChannelAssumption DEF Channel
<1>3. ASSUME NEW c \in Invocations, Admit(c) PROVE InflightCountsHolders'
  BY <1>1, <1>2, <1>3, AdmitCounts DEF CapacityInv, InflightCountsHolders
<1>4. ASSUME NEW c \in Invocations, NEW amount \in 0..MaxCost, NEW outcome \in Outcomes,
             Release(c, amount, outcome)
      PROVE  InflightCountsHolders'
  BY <1>2, <1>4, ReleaseCounts DEF CapacityInv, InflightCountsHolders
<1>5. ASSUME \/ \E ok \in BOOLEAN : TestChannel(ok)
             \/ SwitchChannel \/ Cooldown \/ UNCHANGED circuitVars
      PROVE  InflightCountsHolders'
  BY <1>1, <1>5, OthersCount DEF CapacityInv, InflightCountsHolders, Holders
<1>6. QED
  BY <1>1, <1>3, <1>4, <1>5 DEF CircuitNext, CapacityInv

LEMMA CapacityInit == CircuitInit => CapacityInv
<1> SUFFICES ASSUME CircuitInit PROVE CapacityInv
  OBVIOUS
<1>1. RowInv
  BY ChannelAssumption DEF CircuitInit, NewChannel, RowInv, CircuitTypeOK, RowAgrees, Channel, Healths
<1>2. Holders = {}
  BY DEF CircuitInit, Holders
<1>3. channel.inflight = 0
  BY DEF CircuitInit, NewChannel
<1>4. QED
  BY <1>1, <1>2, <1>3, FS_EmptySet, ChannelAssumption DEF CapacityInv, InflightCountsHolders

\* inflight_requests is the number of calls that hold the channel, and never
\* more than the limit, for any number of calls and any limit.
THEOREM CapacityIsCounted == CircuitSpec => []InflightCountsHolders
<1>1. CapacityInv => InflightCountsHolders
  BY DEF CapacityInv
<1>2. QED
  BY <1>1, CapacityInit, CapacityStep, PTL DEF CircuitSpec

------------------------------------------------------------------------------
(* Probes and the quota *)

LEMMA ProbingStep ==
    RowInv /\ ProbingHasProbe /\ [CircuitNext]_circuitVars => ProbingHasProbe'
<1> SUFFICES ASSUME RowInv, ProbingHasProbe, [CircuitNext]_circuitVars
             PROVE  ProbingHasProbe'
  OBVIOUS
<1>1. channel \in Channel /\ RowAgrees(channel) /\ role \in [Invocations -> {"idle", "plain", "probe"}]
  BY DEF RowInv, CircuitTypeOK
<1>2. ASSUME NEW c \in Invocations, Admit(c) PROVE ProbingHasProbe'
  <2>1. CASE channel.circuit = "closed"
    <3>1. channel'.health = channel.health /\ channel.health # "probing"
      BY <1>1, <1>2, <2>1 DEF Admit, AdmitCall, Channel, RowAgrees
    <3>2. QED
      BY <3>1 DEF ProbingHasProbe
  <2>2. CASE channel.circuit # "closed"
    <3>1. role'[c] = "probe"
      BY <1>1, <1>2, <2>2 DEF Admit
    <3>2. QED
      BY <3>1 DEF ProbingHasProbe
  <2>3. QED
    BY <2>1, <2>2
<1>3. ASSUME NEW c \in Invocations, NEW amount \in 0..MaxCost, NEW outcome \in Outcomes,
             Release(c, amount, outcome)
      PROVE  ProbingHasProbe'
  <2>1. amount \in Nat /\ ReleaseChannel(amount, outcome)
    BY <1>3, CircuitAssumption DEF Release
  <2>2. channel'.health # "probing"
    BY <2>1, ReleaseKeepsRow
  <2>3. QED
    BY <2>2 DEF ProbingHasProbe
<1>4. ASSUME \/ \E ok \in BOOLEAN : TestChannel(ok)
             \/ SwitchChannel \/ Cooldown \/ UNCHANGED circuitVars
      PROVE  ProbingHasProbe'
  BY <1>4, OthersCount DEF ProbingHasProbe
<1>5. QED
  BY <1>2, <1>3, <1>4 DEF CircuitNext

\* A channel shown as probing has a probe under way.
LEMMA ProbingIsTrue == CircuitSpec => []ProbingHasProbe
<1>1. CircuitInit => ProbingHasProbe
  BY DEF CircuitInit, NewChannel, ProbingHasProbe
<1>2. QED
  BY <1>1, RowInvariant, ProbingStep, PTL DEF CircuitSpec

\* What a channel shows of its circuit, its health and its probes is true, for every
\* threshold and any number of concurrent calls and tests.
THEOREM HealthIsTrue == CircuitSpec => []HealthTellsCircuit
<1>1. CircuitIffThreshold /\ ProbingHasProbe => HealthTellsCircuit
  BY DEF HealthTellsCircuit
<1>2. QED
  BY <1>1, CircuitAgrees, ProbingIsTrue, PTL

LEMMA QuotaStep ==
    CapacityInv /\ QuotaOverrunIsBounded /\ [CircuitNext]_circuitVars => QuotaOverrunIsBounded'
<1> SUFFICES ASSUME CapacityInv, QuotaOverrunIsBounded, [CircuitNext]_circuitVars,
                    ChannelQuota > 0, ConcurrencyLimit > 0
             PROVE  channel'.used + MaxCost * channel'.inflight
                        <= (ChannelQuota - 1) + MaxCost * ConcurrencyLimit
  BY DEF QuotaOverrunIsBounded
<1>1. /\ channel.inflight \in Nat /\ channel.used \in Nat
      /\ MaxCost \in Nat /\ ConcurrencyLimit \in Nat /\ ChannelQuota \in Nat
  BY ChannelAssumption, CircuitAssumption DEF CapacityInv, RowInv, CircuitTypeOK, Channel
<1>2. channel.used + MaxCost * channel.inflight <= (ChannelQuota - 1) + MaxCost * ConcurrencyLimit
  BY DEF QuotaOverrunIsBounded
<1>3. ASSUME NEW c \in Invocations, Admit(c)
      PROVE  channel'.used + MaxCost * channel'.inflight
                 <= (ChannelQuota - 1) + MaxCost * ConcurrencyLimit
  <2>1. /\ channel'.inflight = channel.inflight + 1
        /\ channel'.used = channel.used
        /\ channel.inflight + 1 <= ConcurrencyLimit
        /\ channel.used <= ChannelQuota - 1
    BY <1>1, <1>3, AdmitCounts DEF CapacityInv
  <2>2. MaxCost * (channel.inflight + 1) <= MaxCost * ConcurrencyLimit
    BY <1>1, <2>1
  <2>3. QED
    BY <1>1, <2>1, <2>2
<1>4. ASSUME NEW c \in Invocations, NEW amount \in 0..MaxCost, NEW outcome \in Outcomes,
             Release(c, amount, outcome)
      PROVE  channel'.used + MaxCost * channel'.inflight
                 <= (ChannelQuota - 1) + MaxCost * ConcurrencyLimit
  <2>1. channel'.inflight = channel.inflight - 1 /\ channel'.used = channel.used + amount
    BY <1>4, ReleaseCounts
  <2>2. MaxCost * (channel.inflight - 1) = MaxCost * channel.inflight - MaxCost
    BY <1>1
  <2>3. amount \in Nat /\ amount <= MaxCost
    BY <1>1
  <2>4. QED
    BY <1>1, <1>2, <2>1, <2>2, <2>3
<1>5. ASSUME \/ \E ok \in BOOLEAN : TestChannel(ok)
             \/ SwitchChannel \/ Cooldown \/ UNCHANGED circuitVars
      PROVE  channel'.used + MaxCost * channel'.inflight
                 <= (ChannelQuota - 1) + MaxCost * ConcurrencyLimit
  BY <1>2, <1>5, OthersCount DEF CapacityInv
<1>6. QED
  BY <1>3, <1>4, <1>5 DEF CircuitNext

\* The channel's quota is overrun by less than one call for each slot.
THEOREM ChannelQuotaIsBounded == CircuitSpec => []QuotaOverrunIsBounded
<1>1. CircuitInit => QuotaOverrunIsBounded
  <2> SUFFICES ASSUME CircuitInit PROVE QuotaOverrunIsBounded
    OBVIOUS
  <2>1. channel.inflight = 0 /\ channel.used = 0
    BY DEF CircuitInit, NewChannel
  <2>2. MaxCost * ConcurrencyLimit \in Nat /\ MaxCost * 0 = 0
    BY ChannelAssumption, CircuitAssumption
  <2>3. QED
    BY <2>1, <2>2, ChannelAssumption DEF QuotaOverrunIsBounded
<1>2. QED
  BY <1>1, CapacityInit, CapacityStep, QuotaStep, PTL DEF CircuitSpec

------------------------------------------------------------------------------
(* Costs and batches have their types *)

\* A row that exists has an amount; a claim is of a batch and of rows that exist.
CostTypeInv ==
    /\ CostTypeOK
    /\ \A r \in Rows : ledger[r].status # "none" => ledger[r].amount \in Positive
    /\ \A q \in Requests :
          /\ At(q, "claimed") => request[q].key \in Keys
          /\ At(q, "claimed") => \A r \in request[q].rows : ledger[r].status # "none"
          /\ At(q, "import") => request[q].of \in Records
          /\ At(q, "record") => request[q].entry \in Entries

LEMMA AmountsArePositive ==
    /\ UsageCosts \subseteq Positive /\ EntryCosts \subseteq Positive
    /\ ExpenseCosts \subseteq Positive
BY CostAssumption DEF Amounts

LEMMA CorrectionIsAmount ==
    ASSUME NEW r \in Rows, NEW amount \in Corrections(r)
    PROVE  amount \in Positive
<1>1. CASE \E u \in Usages : r = OfUsage(u)
  BY <1>1, AmountsArePositive DEF OfUsage, Corrections
<1>2. CASE \E e \in Entries : r = OfEntry(e)
  BY <1>2, AmountsArePositive DEF OfEntry, Corrections
<1>3. CASE \E i \in Imports : r = OfImport(i)
  BY <1>3, AmountsArePositive DEF OfImport, Corrections
<1>4. QED
  BY <1>1, <1>2, <1>3 DEF Rows

\* A row keeps its type, its claims and its batch when a cost is posted to it.
LEMMA PutKeepsRows ==
    ASSUME CostTypeInv, NEW r \in Rows, NEW status \in Given, NEW amount \in Positive,
           ledger' = Put(r, status, amount)
    PROVE  /\ ledger' \in [Rows -> LedgerRows]
           /\ \A s \in Rows : ledger'[s].status # "none" => ledger'[s].amount \in Positive
           /\ \A s \in Rows : ledger[s].status # "none" => ledger'[s].status # "none"
<1>1. ledger \in [Rows -> LedgerRows]
  BY DEF CostTypeInv, CostTypeOK
<1>2. ledger' = [ledger EXCEPT ![r] = [@ EXCEPT !.status = status, !.amount = amount]]
  BY <1>1 DEF Put, LedgerRows
<1> DEFINE new == [ledger[r] EXCEPT !.status = status, !.amount = amount]
<1>3. new \in LedgerRows /\ new.status # "none" /\ new.amount = amount
  BY <1>1 DEF LedgerRows, Given, Positive
<1> HIDE DEF new
<1>4. \A s \in Rows : ledger'[s] = IF s = r THEN new ELSE ledger[s]
  BY <1>1, <1>2 DEF new
<1>5. ledger' \in [Rows -> LedgerRows]
  BY <1>1, <1>2, <1>3 DEF new
<1>6. QED
  BY <1>1, <1>3, <1>4, <1>5 DEF CostTypeInv

\* What a request may remember of rows.
Remembers(row, books) ==
    /\ row.at = "claimed" => row.key \in Keys /\ \A r \in row.rows : books[r].status # "none"
    /\ row.at = "import" => row.of \in Records
    /\ row.at = "record" => row.entry \in Entries

LEMMA CostTypeInvIs ==
    CostTypeInv <=>
        /\ CostTypeOK
        /\ \A r \in Rows : ledger[r].status # "none" => ledger[r].amount \in Positive
        /\ \A q \in Requests : Remembers(request[q], ledger)
BY DEF CostTypeInv, Remembers, At

\* The types of what a step of one request writes are those of the tables, if rows
\* and entries stay and the request remembers what it may.
LEMMA StepKeepsTypes ==
    ASSUME CostTypeInv, NEW q \in Requests, NEW next \in RequestRows, Go(q, next),
           ledger' \in [Rows -> LedgerRows],
           \A r \in Rows : ledger'[r].status # "none" => ledger'[r].amount \in Positive,
           \A r \in Rows : ledger[r].status # "none" => ledger'[r].status # "none",
           exported' \subseteq ExportLines,
           batch' \in [Keys -> [status : BatchStates, submitted : BOOLEAN]],
           cost' \in [Entries -> CostRows],
           posted' \in [Usages -> Entries \cup {Nil}],
           record' \in [Imports -> Records \cup {Nil}],
           Remembers(next, ledger')
    PROVE  CostTypeInv'
<1>1. /\ request \in [Requests -> RequestRows]
      /\ \A p \in Requests : Remembers(request[p], ledger)
  BY CostTypeInvIs DEF CostTypeOK
<1>2. /\ request' \in [Requests -> RequestRows]
      /\ \A p \in Requests : request'[p] = IF p = q THEN next ELSE request[p]
  BY <1>1 DEF Go
<1>3. CostTypeOK'
  BY <1>2 DEF CostTypeOK
<1>4. ASSUME NEW p \in Requests PROVE Remembers(request'[p], ledger')
  <2>1. CASE p = q
    BY <1>2, <2>1
  <2>2. CASE p # q
    BY <1>1, <1>2, <2>2 DEF Remembers, RequestRows
  <2>3. QED
    BY <2>1, <2>2
<1>5. QED
  BY <1>3, <1>4 DEF CostTypeInv, Remembers, At

\* The same for a step that moves only a request.
LEMMA MoveKeepsTypes ==
    ASSUME CostTypeInv, NEW q \in Requests, NEW next \in RequestRows, Go(q, next),
           UNCHANGED <<ledger, exported, cost, posted, record>>,
           batch' \in [Keys -> [status : BatchStates, submitted : BOOLEAN]],
           Remembers(next, ledger)
    PROVE  CostTypeInv'
<1>1. /\ ledger \in [Rows -> LedgerRows] /\ exported \subseteq ExportLines
      /\ cost \in [Entries -> CostRows]
      /\ posted \in [Usages -> Entries \cup {Nil}] /\ record \in [Imports -> Records \cup {Nil}]
      /\ \A r \in Rows : ledger[r].status # "none" => ledger[r].amount \in Positive
  BY DEF CostTypeInv, CostTypeOK
<1>2. QED
  BY <1>1, StepKeepsTypes

\* And for a step on the ledger alone.
LEMMA LedgerKeepsTypes ==
    ASSUME CostTypeInv, UNCHANGED exportVars,
           ledger' \in [Rows -> LedgerRows],
           \A r \in Rows : ledger'[r].status # "none" => ledger'[r].amount \in Positive,
           \A r \in Rows : ledger[r].status # "none" => ledger'[r].status # "none"
    PROVE  CostTypeInv'
<1>1. CostTypeOK'
  BY DEF CostTypeInv, CostTypeOK, exportVars
<1>2. ASSUME NEW p \in Requests PROVE Remembers(request'[p], ledger')
  BY CostTypeInvIs DEF Remembers, exportVars, CostTypeOK, RequestRows
<1>3. QED
  BY <1>1, <1>2 DEF CostTypeInv, Remembers, At

LEMMA LedgerTypes ==
    ASSUME CostTypeInv,
           \/ \E u \in Usages, amount \in UsageCosts : recordCostLedger(u, amount)
           \/ \E r \in Rows : \E status \in Given, amount \in Corrections(r) :
                  PostAgain(r, status, amount) \/ UpdateLedgerEntry(r, status, amount)
           \/ \E r \in Rows : VoidLedgerEntry(r)
    PROVE  CostTypeInv'
<1>1. ASSUME NEW r \in Rows, NEW status \in Given, NEW amount \in Positive,
             ledger' = Put(r, status, amount), UNCHANGED exportVars
      PROVE  CostTypeInv'
  BY <1>1, PutKeepsRows, LedgerKeepsTypes
<1>2. ASSUME NEW u \in Usages, NEW amount \in UsageCosts, recordCostLedger(u, amount)
      PROVE  CostTypeInv'
  <2>1. OfUsage(u) \in Rows /\ amount \in Positive
    BY AmountsArePositive DEF Rows
  <2>2. QED
    BY <1>1, <1>2, <2>1 DEF recordCostLedger, CreateLedgerEntry, Given
<1>3. ASSUME NEW r \in Rows, NEW status \in Given, NEW amount \in Corrections(r),
             PostAgain(r, status, amount) \/ UpdateLedgerEntry(r, status, amount)
      PROVE  CostTypeInv'
  BY <1>1, <1>3, CorrectionIsAmount DEF PostAgain, CreateLedgerEntry, UpdateLedgerEntry
<1>4. ASSUME NEW r \in Rows, VoidLedgerEntry(r) PROVE CostTypeInv'
  <2>1. ledger \in [Rows -> LedgerRows]
    BY DEF CostTypeInv, CostTypeOK
  <2> DEFINE new == [ledger[r] EXCEPT !.status = "void"]
  <2>2. new \in LedgerRows /\ new.status = "void" /\ new.amount = ledger[r].amount
    BY <2>1 DEF LedgerRows, Given
  <2>3. ledger' = [ledger EXCEPT ![r] = new] /\ ledger[r].status # "none" /\ UNCHANGED exportVars
    BY <1>4 DEF VoidLedgerEntry, Correctable
  <2> HIDE DEF new
  <2>4. \A s \in Rows : ledger'[s] = IF s = r THEN new ELSE ledger[s]
    BY <2>1, <2>3
  <2>5. ledger' \in [Rows -> LedgerRows]
    BY <2>1, <2>2, <2>3
  <2>6. /\ \A s \in Rows : ledger'[s].status # "none" => ledger'[s].amount \in Positive
        /\ \A s \in Rows : ledger[s].status # "none" => ledger'[s].status # "none"
    BY <2>2, <2>3, <2>4 DEF CostTypeInv
  <2>7. QED
    BY <2>3, <2>5, <2>6, LedgerKeepsTypes
<1>5. QED
  BY <1>2, <1>3, <1>4

LEMMA IdleIsRow == Idle \in RequestRows /\ \A books : Remembers(Idle, books)
BY DEF Idle, RequestRows, Steps, Remembers

LEMMA ToPostIsRow ==
    ASSUME NEW k \in Keys, NEW todo \in SUBSET Usages
    PROVE  /\ ToPost(k, todo) \in RequestRows
           /\ ToPost(k, todo).at = "posting" /\ ToPost(k, todo).key = k /\ ToPost(k, todo).todo = todo
           /\ \A books : Remembers(ToPost(k, todo), books)
BY DEF ToPost, Idle, RequestRows, Steps, Remembers

\* Requests that only go from one step to the next, or change a batch as well.
LEMMA MoveTypes ==
    ASSUME CostTypeInv, NEW q \in Requests
    PROVE  (  \/ \E k \in Keys, rows \in SUBSET {r \in Rows : Exportable(r)} : ClaimRows(q, k, rows)
              \/ \E k \in Keys : FindBatch(q, k) \/ CheckBatch(q, k)
              \/ \E u \in Usages : GetCostEntryBySource(q, u)
              \/ \E x \in Records : findImportRecord(q, x)
              \/ \E answer \in Answers : AnswerBatch(q, answer)
              \/ FailPosting(q) \/ FinishPosting(q) \/ SendBatch(q) \/ Stop(q) )
           => CostTypeInv'
<1> DEFINE Batches == [Keys -> [status : BatchStates, submitted : BOOLEAN]]
<1>1. request[q] \in RequestRows /\ batch \in Batches
  BY DEF CostTypeInv, CostTypeOK
<1>2. \A k : \A state \in BatchStates : [batch EXCEPT ![k].status = state] \in Batches
  BY <1>1
<1>3. ASSUME NEW k \in Keys, NEW rows \in SUBSET {r \in Rows : Exportable(r)}, ClaimRows(q, k, rows)
      PROVE  CostTypeInv'
  <2> DEFINE next == [Idle EXCEPT !.at = "claimed", !.key = k, !.rows = rows]
  <2>1. next \in RequestRows
    BY DEF Idle, RequestRows, Steps
  <2>2. Remembers(next, ledger)
    BY DEF Idle, Remembers, Exportable
  <2>3. Go(q, next) /\ UNCHANGED <<ledger, exported, batch, cost, posted, record>>
    BY <1>3, Zenon DEF ClaimRows
  <2>4. QED
    BY <1>1, <2>1, <2>2, <2>3, MoveKeepsTypes
<1>4. ASSUME NEW k \in Keys, FindBatch(q, k) PROVE CostTypeInv'
  <2> DEFINE next == ToPost(k, Unposted({l \in exported : l.key = k}))
  <2>1. Unposted({l \in exported : l.key = k}) \subseteq Usages
    BY CostAssumption DEF Unposted
  <2>2. next \in RequestRows /\ Remembers(next, ledger)
    BY <2>1, ToPostIsRow
  <2>3. Go(q, next) /\ UNCHANGED <<ledger, exported, batch, cost, posted, record>>
    BY <1>4, Zenon DEF FindBatch
  <2>4. QED
    BY <1>1, <2>2, <2>3, MoveKeepsTypes
<1>5. ASSUME NEW k \in Keys, CheckBatch(q, k) PROVE CostTypeInv'
  <2> DEFINE next == [Idle EXCEPT !.at = "checked", !.key = k]
  <2>1. next \in RequestRows /\ Remembers(next, ledger)
    BY DEF Idle, RequestRows, Steps, Remembers
  <2>2. Go(q, next) /\ UNCHANGED <<ledger, exported, batch, cost, posted, record>>
    BY <1>5, Zenon DEF CheckBatch
  <2>3. QED
    BY <1>1, <2>1, <2>2, MoveKeepsTypes
<1>6. ASSUME NEW u \in Usages, GetCostEntryBySource(q, u) PROVE CostTypeInv'
  <2>1. UNCHANGED <<ledger, exported, batch, cost, posted, record>>
    BY <1>6, Zenon DEF GetCostEntryBySource
  <2>2. ASSUME NEW e \in CostOf(u), Go(q, [request[q] EXCEPT !.at = "line", !.of = u, !.entry = e])
        PROVE  CostTypeInv'
    <3> DEFINE next == [request[q] EXCEPT !.at = "line", !.of = u, !.entry = e]
    <3>1. next \in RequestRows /\ Remembers(next, ledger)
      BY <1>1 DEF RequestRows, Steps, Remembers, CostOf
    <3>2. QED
      BY <1>1, <2>1, <2>2, <3>1, MoveKeepsTypes
  <2>3. ASSUME Go(q, [request[q] EXCEPT !.at = "insert", !.of = u]) PROVE CostTypeInv'
    <3> DEFINE next == [request[q] EXCEPT !.at = "insert", !.of = u]
    <3>1. next \in RequestRows /\ Remembers(next, ledger)
      BY <1>1 DEF RequestRows, Steps, Remembers
    <3>2. QED
      BY <1>1, <2>1, <2>3, <3>1, MoveKeepsTypes
  <2>4. QED
    BY <1>6, <2>2, <2>3, Zenon DEF GetCostEntryBySource
<1>7. ASSUME NEW x \in Records, findImportRecord(q, x) PROVE CostTypeInv'
  <2> DEFINE next == [Idle EXCEPT !.at = "import", !.of = x]
  <2>1. next \in RequestRows /\ Remembers(next, ledger)
    BY DEF Idle, RequestRows, Steps, Remembers
  <2>2. Go(q, next) /\ UNCHANGED <<ledger, exported, batch, cost, posted, record>>
    BY <1>7, Zenon DEF findImportRecord
  <2>3. QED
    BY <1>1, <2>1, <2>2, MoveKeepsTypes
<1>8. ASSUME \/ \E answer \in Answers : AnswerBatch(q, answer)
             \/ FailPosting(q) \/ FinishPosting(q) \/ Stop(q)
      PROVE  CostTypeInv'
  <2>1. Go(q, Idle) /\ UNCHANGED <<ledger, exported, cost, posted, record>>
    BY <1>8 DEF AnswerBatch, FailPosting, FinishPosting, Stop
  <2>2. batch' \in Batches
    <3>1. Answers \subseteq BatchStates /\ "failed" \in BatchStates
      BY DEF Answers, BatchStates
    <3>2. batch' = batch \/ \E k : \E state \in BatchStates : batch' = [batch EXCEPT ![k].status = state]
      BY <1>8, <3>1, Zenon DEF AnswerBatch, FailPosting, FinishPosting, Stop
    <3>3. ASSUME NEW k, NEW state \in BatchStates, batch' = [batch EXCEPT ![k].status = state]
          PROVE  batch' \in Batches
      <4> HIDE DEF Batches
      <4> QED BY <1>2, <3>3
    <3>4. QED
      BY <1>1, <3>2, <3>3
  <2>3. QED
    BY <2>1, <2>2, IdleIsRow, MoveKeepsTypes
<1>9. ASSUME SendBatch(q) PROVE CostTypeInv'
  <2> DEFINE next == [request[q] EXCEPT !.at = "waiting"]
  <2>1. next \in RequestRows /\ Remembers(next, ledger)
    BY <1>1 DEF RequestRows, Steps, Remembers
  <2>2. Go(q, next) /\ UNCHANGED <<ledger, exported, cost, posted, record>>
    BY <1>9 DEF SendBatch, Move
  <2>3. batch' \in Batches
    BY <1>1, <1>9 DEF SendBatch, BatchStates
  <2>4. QED
    BY <2>1, <2>2, <2>3, MoveKeepsTypes
<1>10. QED
  BY <1>3, <1>4, <1>5, <1>6, <1>7, <1>8, <1>9

\* The line of a row that exists.
LEMMA LineIsLine ==
    ASSUME CostTypeInv, NEW k \in Keys, NEW r \in Rows, ledger[r].status # "none"
    PROVE  /\ LineFor(k, r) \in ExportLines
           /\ LineFor(k, r).key = k /\ LineFor(k, r).row = r
           /\ r[1] # "project_cost_entry" => LineFor(k, r).entry = Nil
<1>1. ledger[r].amount \in Positive
  BY DEF CostTypeInv
<1>2. r[1] = "project_cost_entry" => r[2] \in Entries
  BY DEF Rows, OfUsage, OfEntry, OfImport
<1>3. QED
  BY <1>1, <1>2 DEF LineFor, ExportLines

LEMMA CommitTypes ==
    ASSUME CostTypeInv, NEW q \in Requests, CommitBatch(q)
    PROVE  CostTypeInv'
<1> DEFINE k == request[q].key
           rows == request[q].rows
           lines == {LineFor(k, r) : r \in rows}
           taken == [r \in Rows |-> IF r \in rows THEN [ledger[r] EXCEPT !.key = k] ELSE ledger[r]]
<1>1. /\ At(q, "claimed") /\ ledger' = taken /\ exported' = exported \cup lines
      /\ batch' = [batch EXCEPT ![k] = [status |-> IF rows = {} THEN "draft" ELSE "ready",
                                        submitted |-> FALSE]]
      /\ Go(q, ToPost(k, Unposted(lines))) /\ UNCHANGED <<cost, posted, record>>
  BY Zenon DEF CommitBatch
<1>2. k \in Keys /\ rows \subseteq Rows /\ \A r \in rows : ledger[r].status # "none"
  BY <1>1 DEF CostTypeInv, CostTypeOK, RequestRows
<1>3. ToPost(k, Unposted(lines)) \in RequestRows /\ Remembers(ToPost(k, Unposted(lines)), ledger')
  <2>1. Unposted(lines) \subseteq Usages
    BY CostAssumption DEF Unposted
  <2>2. QED
    BY <1>2, <2>1, ToPostIsRow
<1>4. lines \subseteq ExportLines
  BY <1>2, LineIsLine
<1>5. batch' \in [Keys -> [status : BatchStates, submitted : BOOLEAN]]
  BY <1>1 DEF CostTypeInv, CostTypeOK, BatchStates
<1> HIDE DEF k, rows, lines
<1>6. ledger \in [Rows -> LedgerRows]
  BY DEF CostTypeInv, CostTypeOK
<1>7. /\ ledger' \in [Rows -> LedgerRows]
      /\ \A r \in Rows : ledger'[r].status = ledger[r].status /\ ledger'[r].amount = ledger[r].amount
  <2>1. \A r \in Rows : taken[r] \in LedgerRows /\ taken[r].status = ledger[r].status
                                               /\ taken[r].amount = ledger[r].amount
    BY <1>2, <1>6 DEF LedgerRows
  <2>2. QED
    BY <1>1, <2>1
<1>8. QED
  BY <1>1, <1>3, <1>4, <1>5, <1>7, StepKeepsTypes DEF CostTypeInv, CostTypeOK

\* Rounding gives a whole number of cents, the nearest one.
LEMMA CentsRound ==
    ASSUME NEW amount \in Nat
    PROVE  Cents(amount) \in Nat /\ IsRounded(Cents(amount), amount)
<1> DEFINE n == 2 * amount + Cent
           d == 2 * Cent
           c == n \div d
<1>1. Cent \in Nat /\ Cent > 0 /\ n \in Nat /\ d \in Nat /\ d > 0
  BY CostAssumption DEF Positive
<1> HIDE DEF n, d
<1>2. c \in Int /\ d * c <= n /\ n < d * c + d
  BY <1>1
<1>3. c >= 0
  <2> SUFFICES ASSUME c <= -1 PROVE FALSE
    BY <1>2
  <2>1. d * c <= -d
    BY <1>1, <1>2
  <2>2. QED
    BY <1>1, <1>2, <2>1
<1>4. Cents(amount) = c
  BY DEF Cents, n, d
<1> HIDE DEF c
<1>5. d * c = 2 * Cent * c
  BY <1>1, <1>2 DEF d
<1>6. 2 * amount - Cent <= 2 * Cent * c /\ 2 * Cent * c <= 2 * amount + Cent
  <2> DEFINE dc == 2 * Cent * c
  <2>1. dc \in Int /\ dc <= n /\ n < dc + d
    BY <1>1, <1>2, <1>5
  <2> HIDE DEF dc
  <2>2. 2 * amount - Cent <= dc /\ dc <= 2 * amount + Cent
    BY <1>1, <2>1 DEF n, d
  <2>3. QED
    BY <2>2 DEF dc
<1>7. QED
  BY <1>2, <1>3, <1>4, <1>6 DEF IsRounded

\* What an entry is in the ledger.
LEMMA CentsAreAmount ==
    ASSUME NEW cents \in Nat, cents # 0
    PROVE  Cent * cents \in Positive
BY CostAssumption DEF Positive

\* New entries of projects, and what becomes of them.
LEMMA EntryTypes ==
    ASSUME CostTypeInv, NEW q \in Requests
    PROVE  (  \/ \E e \in Entries : InsertCostEntry(q, e)
              \/ \E e \in Entries, amount \in EntryCosts : CreateCostEntry(q, e, amount)
              \/ recordCostEntry(q) )
           => CostTypeInv'
<1> DEFINE Costs == [Entries -> CostRows]
<1>1. /\ request[q] \in RequestRows /\ cost \in Costs /\ ledger \in [Rows -> LedgerRows]
      /\ exported \subseteq ExportLines
      /\ batch \in [Keys -> [status : BatchStates, submitted : BOOLEAN]]
      /\ posted \in [Usages -> Entries \cup {Nil}] /\ record \in [Imports -> Records \cup {Nil}]
      /\ \A r \in Rows : ledger[r].status # "none" => ledger[r].amount \in Positive
  BY DEF CostTypeInv, CostTypeOK
<1>2. ASSUME NEW e \in Entries, InsertCostEntry(q, e) PROVE CostTypeInv'
  <2>1. UNCHANGED <<ledger, exported, batch, posted, record>>
    BY <1>2, Zenon DEF InsertCostEntry
  <2>2. ASSUME NEW l \in exported, l.row = OfUsage(request[q].of),
               cost' = [cost EXCEPT ![e] = NewCost(request[q].of, l.amount)],
               Go(q, [request[q] EXCEPT !.at = "record", !.entry = e])
        PROVE  CostTypeInv'
    <3> DEFINE next == [request[q] EXCEPT !.at = "record", !.entry = e]
    <3>1. next \in RequestRows /\ next.at = "record" /\ next.entry = e
      BY <1>1 DEF RequestRows, Steps
    <3>2. l.amount \in Nat /\ request[q].of \in Usages
      <4>1. l.amount \in Positive /\ OfUsage(request[q].of) \in Rows
        BY <1>1, <2>2 DEF ExportLines
      <4>2. QED
        BY <4>1 DEF Positive, Rows, OfUsage, OfEntry, OfImport
    <3>3. NewCost(request[q].of, l.amount) \in CostRows
      BY <3>2, CentsRound DEF NewCost, CostRows
    <3>4. cost' \in Costs
      BY <1>1, <2>2, <3>3
    <3>5. Remembers(next, ledger')
      BY <3>1 DEF Remembers
    <3> HIDE DEF next, Costs
    <3>6. Go(q, next)
      BY <2>2 DEF next
    <3>7. QED
      BY <1>1, <2>1, <3>1, <3>4, <3>5, <3>6, StepKeepsTypes DEF Costs
  <2>3. ASSUME Go(q, [request[q] EXCEPT !.at = "line", !.entry = e]), UNCHANGED cost
        PROVE  CostTypeInv'
    <3> DEFINE next == [request[q] EXCEPT !.at = "line", !.entry = e]
    <3>1. next \in RequestRows /\ Remembers(next, ledger)
      BY <1>1 DEF RequestRows, Steps, Remembers
    <3>2. QED
      BY <1>1, <2>1, <2>3, <3>1, MoveKeepsTypes
  <2>4. QED
    BY <1>2, <2>2, <2>3, Zenon DEF InsertCostEntry
<1>3. ASSUME NEW e \in Entries, NEW amount \in EntryCosts, CreateCostEntry(q, e, amount)
      PROVE  CostTypeInv'
  <2> DEFINE next == [Idle EXCEPT !.at = "record", !.entry = e]
  <2>1. next \in RequestRows /\ next.at = "record" /\ next.entry = e
    BY DEF Idle, RequestRows, Steps
  <2>2. Go(q, next) /\ UNCHANGED <<ledger, exported, batch, posted, record>>
    BY <1>3, Zenon DEF CreateCostEntry
  <2>3. NewCost(Nil, amount) \in CostRows
    BY AmountsArePositive, CentsRound DEF NewCost, CostRows, Positive
  <2>4. cost' \in Costs
    BY <1>1, <1>3, <2>3 DEF CreateCostEntry
  <2>5. Remembers(next, ledger')
    BY <2>1 DEF Remembers
  <2> HIDE DEF next, Costs
  <2>6. QED
    BY <1>1, <2>1, <2>2, <2>4, <2>5, StepKeepsTypes DEF Costs
<1>4. ASSUME recordCostEntry(q) PROVE CostTypeInv'
  <2> DEFINE e == request[q].entry
             next == IF request[q].key = Nil THEN Idle ELSE [request[q] EXCEPT !.at = "line"]
  <2>1. e \in Entries /\ cost[e].amount \in Nat
    BY <1>1, <1>4 DEF recordCostEntry, CostTypeInv, CostRows
  <2>2. /\ UNCHANGED <<exported, batch, cost, posted, record>>
        /\ \/ UNCHANGED ledger
           \/ /\ cost[e].amount # 0
              /\ ledger' = Put(OfEntry(e), "posted", Cent * cost[e].amount)
    BY <1>4 DEF recordCostEntry, CreateLedgerEntry
  <2>3. Go(q, next)
    BY <1>4 DEF recordCostEntry, Move
  <2>4. [request[q] EXCEPT !.at = "line"] \in RequestRows
    BY <1>1 DEF RequestRows, Steps
  <2>5. \A books : Remembers([request[q] EXCEPT !.at = "line"], books)
    BY <1>1 DEF RequestRows, Remembers
  <2>6. next \in RequestRows /\ Remembers(next, ledger')
    BY <2>4, <2>5, IdleIsRow
  <2>7. OfEntry(e) \in Rows
    BY <2>1 DEF Rows
  <2>8. /\ ledger' \in [Rows -> LedgerRows]
        /\ \A s \in Rows : ledger'[s].status # "none" => ledger'[s].amount \in Positive
        /\ \A s \in Rows : ledger[s].status # "none" => ledger'[s].status # "none"
    BY <1>1, <2>1, <2>2, <2>7, CentsAreAmount, PutKeepsRows DEF Given
  <2> HIDE DEF next, e
  <2>9. QED
    BY <1>1, <2>2, <2>3, <2>6, <2>8, StepKeepsTypes
<1>5. QED
  BY <1>2, <1>3, <1>4

LEMMA LinkTypes ==
    ASSUME CostTypeInv, NEW q \in Requests
    PROVE  LinkLine(q) \/ LinkUsage(q) => CostTypeInv'
<1>1. /\ request[q] \in RequestRows
      /\ cost \in [Entries -> CostRows]
      /\ ledger \in [Rows -> LedgerRows] /\ exported \subseteq ExportLines
      /\ batch \in [Keys -> [status : BatchStates, submitted : BOOLEAN]]
      /\ posted \in [Usages -> Entries \cup {Nil}] /\ record \in [Imports -> Records \cup {Nil}]
      /\ \A r \in Rows : ledger[r].status # "none" => ledger[r].amount \in Positive
  BY DEF CostTypeInv, CostTypeOK
<1>2. request[q].entry \in Entries \cup {Nil} /\ request[q].todo \subseteq Usages
  BY <1>1 DEF RequestRows
<1>3. ASSUME LinkLine(q) PROVE CostTypeInv'
  <2> DEFINE next == [request[q] EXCEPT !.at = "usage"]
  <2>1. next \in RequestRows /\ Remembers(next, ledger')
    BY <1>1 DEF RequestRows, Steps, Remembers
  <2>2. Go(q, next) /\ UNCHANGED <<ledger, batch, cost, posted, record>>
    BY <1>3, Zenon DEF LinkLine, Move
  <2>3. \A l \in ExportLines : [l EXCEPT !.entry = request[q].entry] \in ExportLines
    BY <1>2 DEF ExportLines
  <2>4. exported' \subseteq ExportLines
    BY <1>1, <1>3, <2>3 DEF LinkLine
  <2> HIDE DEF next
  <2>5. QED
    BY <1>1, <2>1, <2>2, <2>4, StepKeepsTypes
<1>4. ASSUME LinkUsage(q) PROVE CostTypeInv'
  <2> DEFINE next == ToPost(request[q].key, request[q].todo \ {request[q].of})
  <2>1. next \in RequestRows /\ Remembers(next, ledger')
    BY <1>1 DEF ToPost, Idle, RequestRows, Steps, Remembers
  <2>2. Go(q, next) /\ UNCHANGED <<ledger, exported, batch, cost, record>>
    BY <1>4, Zenon DEF LinkUsage
  <2>3. posted' \in [Usages -> Entries \cup {Nil}]
    BY <1>1, <1>2, <1>4 DEF LinkUsage
  <2> HIDE DEF next
  <2>4. QED
    BY <1>1, <2>1, <2>2, <2>3, StepKeepsTypes
<1>5. QED
  BY <1>3, <1>4

LEMMA ImportTypes ==
    ASSUME CostTypeInv, NEW q \in Requests, NEW i \in Imports, NEW amount \in ExpenseCosts,
           CreateImportedExpense(q, i, amount)
    PROVE  CostTypeInv'
<1>1. /\ cost \in [Entries -> CostRows]
      /\ ledger \in [Rows -> LedgerRows] /\ exported \subseteq ExportLines
      /\ batch \in [Keys -> [status : BatchStates, submitted : BOOLEAN]]
      /\ posted \in [Usages -> Entries \cup {Nil}] /\ record \in [Imports -> Records \cup {Nil}]
      /\ \A r \in Rows : ledger[r].status # "none" => ledger[r].amount \in Positive
  BY DEF CostTypeInv, CostTypeOK
<1>2. /\ Go(q, Idle) /\ UNCHANGED <<exported, batch, cost, posted>>
      /\ \/ UNCHANGED <<record, ledger>>
         \/ record' = [record EXCEPT ![i] = request[q].of] /\ ledger' = Put(OfImport(i), "posted", amount)
  BY Zenon DEF CreateImportedExpense
<1>3. request[q].of \in Records /\ OfImport(i) \in Rows /\ amount \in Positive
  BY AmountsArePositive DEF CreateImportedExpense, CostTypeInv, Rows
<1>4. record' \in [Imports -> Records \cup {Nil}]
  BY <1>1, <1>2, <1>3
<1>5. /\ ledger' \in [Rows -> LedgerRows]
      /\ \A s \in Rows : ledger'[s].status # "none" => ledger'[s].amount \in Positive
      /\ \A s \in Rows : ledger[s].status # "none" => ledger'[s].status # "none"
  BY <1>1, <1>2, <1>3, PutKeepsRows DEF Given
<1>6. QED
  BY <1>1, <1>2, <1>4, <1>5, IdleIsRow, StepKeepsTypes

LEMMA WebhookTypes ==
    ASSUME CostTypeInv, NEW k \in Keys, NEW status \in Answers, ReceiveWebhook(k, status)
    PROVE  CostTypeInv'
<1>1. UNCHANGED <<ledger, exported, cost, posted, record, request>>
  BY DEF ReceiveWebhook
<1>2. batch' \in [Keys -> [status : BatchStates, submitted : BOOLEAN]]
  BY DEF ReceiveWebhook, CostTypeInv, CostTypeOK, Answers, BatchStates
<1>3. CostTypeOK'
  BY <1>1, <1>2 DEF CostTypeInv, CostTypeOK
<1>4. QED
  BY <1>1, <1>3 DEF CostTypeInv, At

LEMMA CostTypeStep == CostTypeInv /\ [CostNext]_costVars => CostTypeInv'
<1> SUFFICES ASSUME CostTypeInv, [CostNext]_costVars PROVE CostTypeInv'
  OBVIOUS
<1>1. CASE UNCHANGED costVars
  BY <1>1 DEF costVars, CostTypeInv, CostTypeOK, At
<1>2. CASE CostNext
  BY <1>2, LedgerTypes, MoveTypes, CommitTypes, EntryTypes, LinkTypes, ImportTypes, WebhookTypes
     DEF CostNext
<1>3. QED
  BY <1>1, <1>2

LEMMA CostTypeInit == CostInit => CostTypeInv
BY DEF CostInit, CostTypeInv, CostTypeOK, NoRow, NoBatch, NoCost, CostRows, Idle, LedgerRows, RequestRows,
       BatchStates, Steps, At

------------------------------------------------------------------------------
(* A cost is exported once *)

\* Open transactions hold rows that are free, no row twice, for batches that are
\* not there yet, no batch twice.
ClaimsInv ==
    /\ \A q \in Requests : At(q, "claimed") =>
          /\ batch[request[q].key].status = "none"
          /\ \A r \in request[q].rows : ledger[r].status = "posted" /\ ledger[r].key = Nil
    /\ \A p, q \in Requests : p # q /\ At(p, "claimed") /\ At(q, "claimed") =>
          /\ request[p].key # request[q].key
          /\ request[p].rows \cap request[q].rows = {}

\* A request that goes on with a batch goes on with one that is there, and sends
\* only one that has lines.
SendersInv ==
    \A q \in Requests :
        /\ Posting(q) => request[q].key \in Keys /\ batch[request[q].key].status # "none"
        /\ At(q, "record") /\ request[q].key # Nil => batch[request[q].key].status # "none"
        /\ request[q].at \in {"checked", "waiting"} => request[q].key \in Keys /\ HasLines(request[q].key)
        /\ At(q, "waiting") => batch[request[q].key].submitted

ExportInv == CostTypeInv /\ ExportsAreExact /\ ClaimsInv /\ SendersInv

\* What a row may remember of batches, rows and lines.
Claims(row, batches, books) ==
    row.at = "claimed" =>
        /\ batches[row.key].status = "none"
        /\ \A r \in row.rows : books[r].status = "posted" /\ books[r].key = Nil

Sends(row, batches, lines) ==
    /\ row.at \in {"posting", "insert", "line", "usage"} =>
          row.key \in Keys /\ batches[row.key].status # "none"
    /\ row.at = "record" /\ row.key # Nil => batches[row.key].status # "none"
    /\ row.at \in {"checked", "waiting"} => row.key \in Keys /\ \E l \in lines : l.key = row.key
    /\ row.at = "waiting" => batches[row.key].submitted

LEMMA RequestsAre ==
    /\ ClaimsInv <=>
          /\ \A q \in Requests : Claims(request[q], batch, ledger)
          /\ \A p, q \in Requests : p # q /\ At(p, "claimed") /\ At(q, "claimed") =>
                /\ request[p].key # request[q].key
                /\ request[p].rows \cap request[q].rows = {}
    /\ SendersInv <=> \A q \in Requests : Sends(request[q], batch, exported)
BY DEF ClaimsInv, SendersInv, Claims, Sends, At, Posting, HasLines

\* The claims of the property are among them.
LEMMA ClaimsAreHeld == (ClaimsInv => ClaimsStand) /\ (ClaimsInv' => ClaimsStand')
BY DEF ClaimsInv, ClaimsStand

\* A step leaves rows in their batches and does not void what is claimed.
RowsStay ==
    \A r \in Rows :
        /\ ledger'[r].key = ledger[r].key
        /\ ledger[r].status = "posted" /\ Locked(r) => ledger'[r].status = "posted"

BatchesStay ==
    \A k \in Keys :
        /\ batch'[k].status = "none" <=> batch[k].status = "none"
        /\ batch[k].submitted => batch'[k].submitted
        /\ HasLines(k)' <=> HasLines(k)

LEMMA PutStays ==
    ASSUME CostTypeInv, NEW r \in Rows, NEW status, NEW amount, ledger' = Put(r, status, amount),
           status = "posted" \/ ~Locked(r)
    PROVE  RowsStay
BY DEF CostTypeInv, CostTypeOK, LedgerRows, Put, RowsStay

LEMMA RowsKeepLines ==
    ASSUME ExportInv, CostTypeInv', UNCHANGED exported, RowsStay
    PROVE  RowsKnowTheirLines'
<1>1. RowsKnowTheirLines /\ \A l \in exported : l.row \in Rows
  BY DEF ExportInv, ExportsAreExact, CostTypeInv, CostTypeOK, ExportLines
<1>2. QED
  BY <1>1 DEF RowsKnowTheirLines, RowsStay

\* All steps but those that make a batch.
LEMMA StepKeepsExports ==
    ASSUME ExportInv, CostTypeInv', RowsStay, BatchesStay, RowsKnowTheirLines', BatchesHaveLines',
           \A p \in Requests :
              \/ request'[p] = request[p]
              \/ request'[p].at # "claimed" /\ Sends(request'[p], batch', exported')
    PROVE  ExportInv'
<1>1. ClaimsInv /\ SendersInv /\ request \in [Requests -> RequestRows]
  BY DEF ExportInv, CostTypeInv, CostTypeOK
<1>2. ASSUME NEW p \in Requests, At(p, "claimed")'
      PROVE  request'[p] = request[p] /\ Claims(request'[p], batch', ledger')
  <2>1. request'[p] = request[p] /\ At(p, "claimed")
    BY <1>2 DEF At
  <2>2. Claims(request[p], batch, ledger)
    BY <1>1, RequestsAre
  <2>3. request[p].rows \subseteq Rows /\ request[p].key \in Keys
    BY <1>1, <2>1 DEF RequestRows, ExportInv, CostTypeInv
  <2>4. \A r \in request[p].rows : Locked(r)
    BY <2>1 DEF Locked
  <2>5. QED
    BY <2>1, <2>2, <2>3, <2>4 DEF Claims, At, RowsStay, BatchesStay
<1>3. ClaimsInv'
  <2>1. \A p, q \in Requests : p # q /\ At(p, "claimed")' /\ At(q, "claimed")' =>
           request'[p].key # request'[q].key /\ request'[p].rows \cap request'[q].rows = {}
    BY <1>1, <1>2 DEF ClaimsInv, At
  <2>2. QED
    BY <1>2, <2>1 DEF ClaimsInv, Claims, At
<1>4. ASSUME NEW p \in Requests PROVE Sends(request'[p], batch', exported')
  <2>1. CASE request'[p] = request[p]
    <3>1. Sends(request[p], batch, exported) /\ request[p].key \in Keys \cup {Nil}
      BY <1>1, RequestsAre DEF RequestRows
    <3>2. QED
      BY <2>1, <3>1 DEF Sends, BatchesStay, HasLines
  <2>2. QED
    BY <2>1
<1>5. SendersInv'
  BY <1>4 DEF SendersInv, Sends, At, Posting, HasLines
<1>6. QED
  BY <1>3, <1>5, ClaimsAreHeld DEF ExportInv, ExportsAreExact

\* Steps on the ledger alone.
LEMMA LedgerExports ==
    ASSUME ExportInv, CostTypeInv', UNCHANGED exportVars, RowsStay
    PROVE  ExportInv'
<1>1. RowsKnowTheirLines'
  BY RowsKeepLines DEF exportVars
<1>2. BatchesHaveLines' /\ BatchesStay
  BY DEF ExportInv, ExportsAreExact, BatchesHaveLines, BatchesStay, HasLines, exportVars
<1>3. QED
  BY <1>1, <1>2, StepKeepsExports DEF exportVars

\* Steps of a request that leave lines and batches alone.
LEMMA MoveExports ==
    ASSUME ExportInv, CostTypeInv', NEW q \in Requests, NEW next, Go(q, next),
           UNCHANGED <<exported, batch>>, RowsStay,
           next.at # "claimed", Sends(next, batch, exported)
    PROVE  ExportInv'
<1>1. RowsKnowTheirLines'
  BY RowsKeepLines
<1>2. BatchesHaveLines' /\ BatchesStay
  BY DEF ExportInv, ExportsAreExact, BatchesHaveLines, BatchesStay, HasLines
<1>3. \A p \in Requests : request'[p] = IF p = q THEN next ELSE request[p]
  BY DEF ExportInv, CostTypeInv, CostTypeOK, Go
<1>4. QED
  BY <1>1, <1>2, <1>3, StepKeepsExports

LEMMA SameRowsStay == UNCHANGED ledger => RowsStay
BY DEF RowsStay

LEMMA LedgerExported ==
    ASSUME ExportInv, CostTypeInv',
           \/ \E u \in Usages, amount \in UsageCosts : recordCostLedger(u, amount)
           \/ \E r \in Rows : \E status \in Given, amount \in Corrections(r) :
                  PostAgain(r, status, amount) \/ UpdateLedgerEntry(r, status, amount)
           \/ \E r \in Rows : VoidLedgerEntry(r)
    PROVE  ExportInv'
<1>1. UNCHANGED exportVars
  BY DEF recordCostLedger, PostAgain, UpdateLedgerEntry, VoidLedgerEntry
<1>2. ASSUME NEW r \in Rows, VoidLedgerEntry(r) PROVE RowsStay
  BY <1>2 DEF VoidLedgerEntry, Correctable, RowsStay, ExportInv, CostTypeInv, CostTypeOK, LedgerRows
<1>3. \/ \E r \in Rows : VoidLedgerEntry(r)
      \/ \E r \in Rows : \E status, amount :
            ledger' = Put(r, status, amount) /\ (status = "posted" \/ ~Locked(r))
  <2>1. \A u \in Usages : OfUsage(u) \in Rows
    BY DEF Rows
  <2>2. QED
    BY <2>1 DEF recordCostLedger, PostAgain, UpdateLedgerEntry, CreateLedgerEntry, Correctable
<1>4. RowsStay
  BY <1>2, <1>3, PutStays DEF ExportInv
<1>5. QED
  BY <1>1, <1>4, LedgerExports

LEMMA MovesExported ==
    ASSUME ExportInv, CostTypeInv', NEW q \in Requests
    PROVE  (  \/ \E k \in Keys : FindBatch(q, k) \/ CheckBatch(q, k)
              \/ \E u \in Usages : GetCostEntryBySource(q, u)
              \/ \E e \in Entries : InsertCostEntry(q, e)
              \/ \E e \in Entries, amount \in EntryCosts : CreateCostEntry(q, e, amount)
              \/ \E i \in Imports, amount \in ExpenseCosts : CreateImportedExpense(q, i, amount)
              \/ \E x \in Records : findImportRecord(q, x)
              \/ recordCostEntry(q) \/ LinkUsage(q) \/ FinishPosting(q) \/ Stop(q) )
           => ExportInv'
<1>1. request[q] \in RequestRows /\ Sends(request[q], batch, exported)
  BY RequestsAre DEF ExportInv, CostTypeInv, CostTypeOK
<1>2. Idle.at # "claimed" /\ Sends(Idle, batch, exported)
  BY DEF Idle, Sends
<1>3. ASSUME Go(q, Idle), UNCHANGED <<exported, batch>>, RowsStay
      PROVE  ExportInv'
  BY <1>2, <1>3, MoveExports
<1>4. ASSUME NEW k \in Keys, FindBatch(q, k) PROVE ExportInv'
  <2> DEFINE next == ToPost(k, Unposted({l \in exported : l.key = k}))
  <2>1. Go(q, next) /\ UNCHANGED <<ledger, exported, batch>> /\ batch[k].status # "none"
    BY <1>4, Zenon DEF FindBatch
  <2>2. next.at = "posting" /\ next.key = k
    BY DEF ToPost, Idle
  <2> HIDE DEF next
  <2>3. QED
    BY <2>1, <2>2, SameRowsStay, MoveExports DEF Sends
<1>5. ASSUME NEW k \in Keys, CheckBatch(q, k) PROVE ExportInv'
  <2> DEFINE next == [Idle EXCEPT !.at = "checked", !.key = k]
  <2>1. Go(q, next) /\ UNCHANGED <<ledger, exported, batch>> /\ HasLines(k)
    BY <1>5, Zenon DEF CheckBatch
  <2>2. next.at = "checked" /\ next.key = k
    BY DEF Idle
  <2> HIDE DEF next
  <2>3. QED
    BY <2>1, <2>2, SameRowsStay, MoveExports DEF Sends, HasLines
<1>6. ASSUME NEW u \in Usages, GetCostEntryBySource(q, u) PROVE ExportInv'
  <2>1. At(q, "posting") /\ UNCHANGED <<ledger, exported, batch>>
    BY <1>6, Zenon DEF GetCostEntryBySource
  <2>2. ASSUME NEW e, Go(q, [request[q] EXCEPT !.at = "line", !.of = u, !.entry = e])
        PROVE  ExportInv'
    <3> DEFINE next == [request[q] EXCEPT !.at = "line", !.of = u, !.entry = e]
    <3>1. next.at = "line" /\ next.key = request[q].key
      BY <1>1 DEF RequestRows
    <3>2. Go(q, next)
      BY <2>2
    <3> HIDE DEF next
    <3>3. QED
      BY <1>1, <2>1, <3>1, <3>2, SameRowsStay, MoveExports DEF Sends, At
  <2>3. ASSUME Go(q, [request[q] EXCEPT !.at = "insert", !.of = u]) PROVE ExportInv'
    <3> DEFINE next == [request[q] EXCEPT !.at = "insert", !.of = u]
    <3>1. next.at = "insert" /\ next.key = request[q].key
      BY <1>1 DEF RequestRows
    <3>2. Go(q, next)
      BY <2>3
    <3> HIDE DEF next
    <3>3. QED
      BY <1>1, <2>1, <3>1, <3>2, SameRowsStay, MoveExports DEF Sends, At
  <2>4. QED
    BY <1>6, <2>2, <2>3, Zenon DEF GetCostEntryBySource
<1>7. ASSUME NEW e \in Entries, InsertCostEntry(q, e) PROVE ExportInv'
  <2>1. PICK at \in {"record", "line"} : Go(q, [request[q] EXCEPT !.at = at, !.entry = e])
    BY <1>7, Zenon DEF InsertCostEntry
  <2>2. At(q, "insert") /\ UNCHANGED <<ledger, exported, batch>>
    BY <1>7, Zenon DEF InsertCostEntry
  <2> DEFINE next == [request[q] EXCEPT !.at = at, !.entry = e]
  <2>3. next.at = at /\ next.key = request[q].key
    BY <1>1 DEF RequestRows
  <2>4. Go(q, next)
    BY <2>1
  <2> HIDE DEF next
  <2>5. QED
    BY <1>1, <2>2, <2>3, <2>4, SameRowsStay, MoveExports DEF Sends, At
<1>8. ASSUME NEW e \in Entries, NEW amount \in EntryCosts, CreateCostEntry(q, e, amount)
      PROVE  ExportInv'
  <2> DEFINE next == [Idle EXCEPT !.at = "record", !.entry = e]
  <2>1. Go(q, next) /\ UNCHANGED <<ledger, exported, batch>>
    BY <1>8, Zenon DEF CreateCostEntry
  <2>2. next.at = "record" /\ next.key = Nil
    BY DEF Idle
  <2> HIDE DEF next
  <2>3. QED
    BY <2>1, <2>2, SameRowsStay, MoveExports DEF Sends
<1>9. ASSUME NEW i \in Imports, NEW amount \in ExpenseCosts, CreateImportedExpense(q, i, amount)
      PROVE  ExportInv'
  <2>1. OfImport(i) \in Rows
    BY DEF Rows
  <2>2. RowsStay
    BY <1>9, <2>1, PutStays, SameRowsStay DEF CreateImportedExpense, ExportInv
  <2>3. QED
    BY <1>3, <1>9, <2>2 DEF CreateImportedExpense
<1>10. ASSUME NEW x \in Records, findImportRecord(q, x) PROVE ExportInv'
  <2> DEFINE next == [Idle EXCEPT !.at = "import", !.of = x]
  <2>1. Go(q, next) /\ UNCHANGED <<ledger, exported, batch>>
    BY <1>10, Zenon DEF findImportRecord
  <2>2. next.at = "import"
    BY DEF Idle
  <2> HIDE DEF next
  <2>3. QED
    BY <2>1, <2>2, SameRowsStay, MoveExports DEF Sends
<1>11. ASSUME recordCostEntry(q) PROVE ExportInv'
  <2> DEFINE e == request[q].entry
             next == [request[q] EXCEPT !.at = "line"]
  <2>1. At(q, "record") /\ UNCHANGED <<exported, batch>>
    BY <1>11 DEF recordCostEntry
  <2>2. OfEntry(e) \in Rows
    BY <2>1 DEF Rows, ExportInv, CostTypeInv
  <2>3. RowsStay
    BY <1>11, <2>2, PutStays, SameRowsStay DEF recordCostEntry, CreateLedgerEntry, ExportInv
  <2>4. CASE request[q].key = Nil
    BY <1>3, <1>11, <2>1, <2>3, <2>4 DEF recordCostEntry
  <2>5. CASE request[q].key # Nil
    <3>1. Go(q, next)
      BY <1>11, <2>5 DEF recordCostEntry, Move
    <3>2. next.at = "line" /\ next.key = request[q].key /\ next.key \in Keys
      BY <1>1, <2>5 DEF RequestRows
    <3> HIDE DEF next
    <3>3. QED
      BY <1>1, <2>1, <2>3, <2>5, <3>1, <3>2, MoveExports DEF Sends, At
  <2>6. QED
    BY <2>4, <2>5
<1>12. ASSUME LinkUsage(q) PROVE ExportInv'
  <2> DEFINE next == ToPost(request[q].key, request[q].todo \ {request[q].of})
  <2>1. At(q, "usage") /\ Go(q, next) /\ UNCHANGED <<ledger, exported, batch>>
    BY <1>12, Zenon DEF LinkUsage
  <2>2. next.at = "posting" /\ next.key = request[q].key
    BY DEF ToPost, Idle
  <2> HIDE DEF next
  <2>3. QED
    BY <1>1, <2>1, <2>2, SameRowsStay, MoveExports DEF Sends, At
<1>13. ASSUME FinishPosting(q) \/ Stop(q) PROVE ExportInv'
  BY <1>3, <1>13, SameRowsStay DEF FinishPosting, Stop
<1>14. QED
  BY <1>4, <1>5, <1>6, <1>7, <1>8, <1>9, <1>10, <1>11, <1>12, <1>13

\* A line gets its entry: rows and keys of lines are what they were.
LEMMA LinkExported ==
    ASSUME ExportInv, CostTypeInv', NEW q \in Requests, LinkLine(q)
    PROVE  ExportInv'
<1> DEFINE entry == request[q].entry
           Linked(l) == IF l.key = request[q].key /\ l.row = OfUsage(request[q].of)
                        THEN [l EXCEPT !.entry = entry] ELSE l
           next == [request[q] EXCEPT !.at = "usage"]
<1>1. /\ request[q] \in RequestRows /\ Sends(request[q], batch, exported)
      /\ exported \subseteq ExportLines /\ RowsKnowTheirLines /\ BatchesHaveLines
  BY RequestsAre DEF ExportInv, CostTypeInv, CostTypeOK, ExportsAreExact
<1>2. /\ At(q, "line") /\ exported' = {Linked(l) : l \in exported} /\ Go(q, next)
      /\ UNCHANGED <<ledger, batch>>
  BY Zenon DEF LinkLine, Move
<1>3. \A l \in exported : Linked(l).row = l.row /\ Linked(l).key = l.key
  BY <1>1 DEF ExportLines
<1>4. next.at = "usage" /\ next.key = request[q].key
  BY <1>1 DEF RequestRows
<1> HIDE DEF Linked, next
<1>5. RowsKnowTheirLines'
  <2>1. \A l, m \in exported : Linked(l).row = Linked(m).row => Linked(l) = Linked(m)
    BY <1>1, <1>3 DEF RowsKnowTheirLines
  <2>2. \A l \in exported : ledger[Linked(l).row].key = Linked(l).key
    BY <1>1, <1>3 DEF RowsKnowTheirLines
  <2>3. \A r \in Rows : ledger[r].key # Nil =>
           \E l \in exported : Linked(l).row = r
    BY <1>1, <1>3 DEF RowsKnowTheirLines
  <2>4. QED
    BY <1>2, <2>1, <2>2, <2>3 DEF RowsKnowTheirLines
<1>6. \A k : HasLines(k)' <=> HasLines(k)
  BY <1>2, <1>3 DEF HasLines
<1>7. BatchesHaveLines' /\ BatchesStay /\ RowsStay
  BY <1>1, <1>2, <1>6, SameRowsStay DEF BatchesHaveLines, BatchesStay
<1>8. \A p \in Requests : request'[p] = IF p = q THEN next ELSE request[p]
  BY <1>2 DEF ExportInv, CostTypeInv, CostTypeOK, Go
<1>9. next.at # "claimed" /\ Sends(next, batch', exported')
  BY <1>1, <1>2, <1>4 DEF Sends, At
<1>10. QED
  BY <1>5, <1>7, <1>8, <1>9, StepKeepsExports

\* A batch that is there gets another status.
LEMMA StatusExported ==
    ASSUME ExportInv, CostTypeInv'
    PROVE  (  \/ \E q \in Requests : FailPosting(q) \/ SendBatch(q)
              \/ \E q \in Requests, answer \in Answers : AnswerBatch(q, answer)
              \/ \E k \in Keys, status \in Answers : ReceiveWebhook(k, status) )
           => ExportInv'
<1>1. /\ batch \in [Keys -> [status : BatchStates, submitted : BOOLEAN]]
      /\ request \in [Requests -> RequestRows]
      /\ RowsKnowTheirLines /\ BatchesHaveLines
      /\ \A p \in Requests : Sends(request[p], batch, exported)
  BY RequestsAre DEF ExportInv, CostTypeInv, CostTypeOK, ExportsAreExact
<1>2. Idle.at # "claimed" /\ \A b : Sends(Idle, b, exported)
  BY DEF Idle, Sends
<1>3. ASSUME NEW k \in Keys, NEW status \in Answers, batch[k].status # "none",
             batch' = [batch EXCEPT ![k].status = status],
             status \in {"sent", "reconciled"} => batch[k].submitted,
             UNCHANGED <<ledger, exported>>
      PROVE  RowsKnowTheirLines' /\ BatchesHaveLines' /\ BatchesStay /\ RowsStay
  <2>1. /\ batch'[k].status = status /\ batch'[k].submitted = batch[k].submitted
        /\ \A j \in Keys : j # k => batch'[j] = batch[j]
    BY <1>1, <1>3
  <2>2. QED
    BY <1>1, <1>3, <2>1, SameRowsStay
       DEF RowsKnowTheirLines, BatchesHaveLines, BatchesStay, HasLines, Answers
<1>4. ASSUME NEW q \in Requests, FailPosting(q) PROVE ExportInv'
  <2>1. request[q].key \in Keys /\ batch[request[q].key].status # "none"
    BY <1>1, <1>4 DEF FailPosting, Posting, Sends
  <2>2. RowsKnowTheirLines' /\ BatchesHaveLines' /\ BatchesStay /\ RowsStay
    BY <1>3, <1>4, <2>1 DEF FailPosting, Answers
  <2>3. UNCHANGED exported /\ \A p \in Requests : request'[p] = IF p = q THEN Idle ELSE request[p]
    BY <1>1, <1>4 DEF FailPosting, Go
  <2>4. QED
    BY <1>2, <2>2, <2>3, StepKeepsExports
<1>5. ASSUME NEW q \in Requests, SendBatch(q) PROVE ExportInv'
  <2> DEFINE k == request[q].key
             next == [request[q] EXCEPT !.at = "waiting"]
  <2>1. k \in Keys /\ HasLines(k) /\ batch[k].status # "none"
    BY <1>1, <1>5 DEF SendBatch, At, Sends, BatchesHaveLines, HasLines
  <2>2. /\ batch' = [batch EXCEPT ![k].status = "sent", ![k].submitted = TRUE]
        /\ Go(q, next) /\ UNCHANGED <<ledger, exported>>
    BY <1>5, Zenon DEF SendBatch, Move
  <2>3. next.at = "waiting" /\ next.key = k
    BY <1>1 DEF RequestRows
  <2> HIDE DEF next, k
  <2>4. /\ batch'[k].status = "sent" /\ batch'[k].submitted
        /\ \A j \in Keys : j # k => batch'[j] = batch[j]
    BY <1>1, <2>1, <2>2
  <2>5. RowsKnowTheirLines' /\ BatchesHaveLines' /\ BatchesStay /\ RowsStay
    BY <1>1, <2>1, <2>2, <2>4, SameRowsStay
       DEF RowsKnowTheirLines, BatchesHaveLines, BatchesStay, HasLines
  <2>6. \A p \in Requests : request'[p] = IF p = q THEN next ELSE request[p]
    BY <1>1, <2>2 DEF Go
  <2>7. Sends(next, batch', exported')
    BY <2>1, <2>2, <2>3, <2>4 DEF Sends, HasLines
  <2>8. QED
    BY <2>3, <2>5, <2>6, <2>7, StepKeepsExports
<1>6. ASSUME NEW q \in Requests, NEW answer \in Answers, AnswerBatch(q, answer) PROVE ExportInv'
  <2>1. /\ request[q].key \in Keys /\ batch[request[q].key].submitted
        /\ batch[request[q].key].status # "none"
    BY <1>1, <1>6 DEF AnswerBatch, At, Sends, BatchesHaveLines
  <2>2. RowsKnowTheirLines' /\ BatchesHaveLines' /\ BatchesStay /\ RowsStay
    BY <1>3, <1>6, <2>1 DEF AnswerBatch
  <2>3. UNCHANGED exported /\ \A p \in Requests : request'[p] = IF p = q THEN Idle ELSE request[p]
    BY <1>1, <1>6 DEF AnswerBatch, Go
  <2>4. QED
    BY <1>2, <2>2, <2>3, StepKeepsExports
<1>7. ASSUME NEW k \in Keys, NEW status \in Answers, ReceiveWebhook(k, status) PROVE ExportInv'
  <2>1. batch[k].submitted /\ batch[k].status # "none"
    BY <1>1, <1>7 DEF ReceiveWebhook, BatchesHaveLines
  <2>2. RowsKnowTheirLines' /\ BatchesHaveLines' /\ BatchesStay /\ RowsStay
    BY <1>3, <1>7, <2>1 DEF ReceiveWebhook
  <2>3. QED
    BY <1>7, <2>2, StepKeepsExports DEF ReceiveWebhook
<1>8. QED
  BY <1>4, <1>5, <1>6, <1>7

\* The rows that a transaction locks were free, and no other holds them.
LEMMA ClaimExported ==
    ASSUME ExportInv, CostTypeInv', NEW q \in Requests, NEW k \in Keys,
           NEW rows \in SUBSET {r \in Rows : Exportable(r)}, ClaimRows(q, k, rows)
    PROVE  ExportInv'
<1> DEFINE next == [Idle EXCEPT !.at = "claimed", !.key = k, !.rows = rows]
<1>1. /\ batch[k].status = "none"
      /\ \A p \in Requests : ~(At(p, "claimed") /\ request[p].key = k)
      /\ Go(q, next) /\ UNCHANGED <<ledger, exported, batch>>
  BY Zenon DEF ClaimRows
<1>2. /\ request \in [Requests -> RequestRows] /\ ClaimsInv /\ ExportsAreExact
      /\ \A p \in Requests : Sends(request[p], batch, exported)
  BY RequestsAre DEF ExportInv, CostTypeInv, CostTypeOK
<1>3. next.at = "claimed" /\ next.key = k /\ next.rows = rows
  BY DEF Idle
<1> HIDE DEF next
<1>4. \A p \in Requests : request'[p] = IF p = q THEN next ELSE request[p]
  BY <1>1, <1>2 DEF Go
<1>5. \A r \in rows : ledger[r].status = "posted" /\ ledger[r].key = Nil /\ ~Locked(r)
  BY DEF Exportable
<1>6. \A p \in Requests : At(p, "claimed") => request[p].rows \cap rows = {}
  BY <1>5 DEF Locked
<1>7. RowsKnowTheirLines' /\ BatchesHaveLines'
  BY <1>1, <1>2 DEF ExportsAreExact, RowsKnowTheirLines, BatchesHaveLines, HasLines
<1>8. ClaimsInv'
  <2>1. \A p \in Requests : At(p, "claimed")' =>
           /\ batch'[request'[p].key].status = "none"
           /\ \A r \in request'[p].rows : ledger'[r].status = "posted" /\ ledger'[r].key = Nil
    BY <1>1, <1>2, <1>3, <1>4, <1>5 DEF ClaimsInv, At
  <2>2. ASSUME NEW p \in Requests, NEW o \in Requests, p # o, At(p, "claimed")', At(o, "claimed")'
        PROVE  request'[p].key # request'[o].key /\ request'[p].rows \cap request'[o].rows = {}
    <3>1. CASE p = q
      BY <1>1, <1>3, <1>4, <1>6, <2>2, <3>1 DEF At
    <3>2. CASE o = q
      BY <1>1, <1>3, <1>4, <1>6, <2>2, <3>2 DEF At
    <3>3. CASE p # q /\ o # q
      BY <1>2, <1>4, <2>2, <3>3 DEF ClaimsInv, At
    <3>4. QED
      BY <3>1, <3>2, <3>3
  <2>3. QED
    BY <2>1, <2>2 DEF ClaimsInv
<1>9. SendersInv'
  <2>1. \A p \in Requests : Sends(request'[p], batch', exported')
    BY <1>1, <1>2, <1>3, <1>4 DEF Sends
  <2>2. QED
    BY <2>1 DEF SendersInv, Sends, At, Posting, HasLines
<1>10. QED
  BY <1>7, <1>8, <1>9, ClaimsAreHeld DEF ExportInv, ExportsAreExact

\* The claimed rows get their lines, each its first.
LEMMA CommitExported ==
    ASSUME ExportInv, CostTypeInv', NEW q \in Requests, CommitBatch(q)
    PROVE  ExportInv'
<1> DEFINE k == request[q].key
           rows == request[q].rows
           lines == {LineFor(k, r) : r \in rows}
           next == ToPost(k, Unposted(lines))
<1>1. /\ At(q, "claimed") /\ \A l \in exported : l.row \notin rows
      /\ ledger' = [r \in Rows |-> IF r \in rows THEN [ledger[r] EXCEPT !.key = k] ELSE ledger[r]]
      /\ exported' = exported \cup lines
      /\ batch' = [batch EXCEPT ![k] = [status |-> IF rows = {} THEN "draft" ELSE "ready",
                                        submitted |-> FALSE]]
      /\ Go(q, next)
  BY Zenon DEF CommitBatch
<1>2. /\ request \in [Requests -> RequestRows] /\ ledger \in [Rows -> LedgerRows]
      /\ batch \in [Keys -> [status : BatchStates, submitted : BOOLEAN]]
      /\ exported \subseteq ExportLines
      /\ CostTypeInv /\ ClaimsInv /\ RowsKnowTheirLines /\ BatchesHaveLines
      /\ \A p \in Requests : Sends(request[p], batch, exported)
  BY RequestsAre DEF ExportInv, CostTypeInv, CostTypeOK, ExportsAreExact
<1>3. /\ k \in Keys /\ rows \subseteq Rows /\ batch[k].status = "none"
      /\ \A r \in rows : ledger[r].status = "posted" /\ ledger[r].key = Nil
  BY <1>1, <1>2 DEF CostTypeInv, ClaimsInv, RequestRows
<1>4. ~batch[k].submitted /\ ~HasLines(k)
  BY <1>2, <1>3 DEF BatchesHaveLines
<1>5. next.at = "posting" /\ next.key = k
  BY DEF ToPost, Idle
<1>6. /\ \A r \in rows : LineFor(k, r).key = k /\ LineFor(k, r).row = r /\ LineFor(k, r) \in lines
      /\ \A l \in lines : l.row \in rows /\ l.key = k /\ l = LineFor(k, l.row)
  BY <1>2, <1>3, LineIsLine
<1>7. /\ \A r \in rows : ledger'[r].status = ledger[r].status /\ ledger'[r].key = k
      /\ \A r \in Rows : r \notin rows => ledger'[r] = ledger[r]
  BY <1>1, <1>2, <1>3 DEF LedgerRows
<1>8. /\ batch'[k].status = IF rows = {} THEN "draft" ELSE "ready"
      /\ batch'[k].submitted = FALSE
      /\ \A j \in Keys : j # k => batch'[j] = batch[j]
  BY <1>1, <1>2, <1>3
<1>9. \A p \in Requests : request'[p] = IF p = q THEN next ELSE request[p]
  BY <1>1, <1>2 DEF Go
<1> HIDE DEF k, rows, lines, next
<1>10. RowsKnowTheirLines'
  <2>1. \A l, m \in exported' : l.row = m.row => l = m
    BY <1>1, <1>2, <1>6 DEF RowsKnowTheirLines
  <2>2. \A l \in exported' : ledger'[l.row].key = l.key
    BY <1>1, <1>2, <1>3, <1>6, <1>7 DEF RowsKnowTheirLines, ExportLines
  <2>3. ASSUME NEW r \in Rows, ledger'[r].key # Nil
        PROVE  \E l \in exported' : l.row = r
    BY <1>1, <1>2, <1>3, <1>6, <1>7, <2>3 DEF RowsKnowTheirLines
  <2>4. QED
    BY <2>1, <2>2, <2>3 DEF RowsKnowTheirLines
<1>11. BatchesHaveLines'
  <2>1. \A j \in Keys : j # k => (HasLines(j)' <=> HasLines(j))
    BY <1>1, <1>6 DEF HasLines
  <2>2. (\E l \in exported' : l.key = k) <=> rows # {}
    BY <1>1, <1>4, <1>6 DEF HasLines
  <2>3. QED
    BY <1>2, <1>8, <2>1, <2>2 DEF BatchesHaveLines, HasLines
<1>12. ClaimsInv'
  <2>1. \A p \in Requests : At(p, "claimed")' => p # q /\ At(p, "claimed") /\ request'[p] = request[p]
    BY <1>5, <1>9 DEF At
  <2>2. \A p \in Requests : p # q /\ At(p, "claimed") =>
           request[p].key # k /\ request[p].rows \cap rows = {} /\ request[p].key \in Keys
                                  /\ request[p].rows \subseteq Rows
    BY <1>1, <1>2 DEF ClaimsInv, CostTypeInv, RequestRows, k, rows
  <2>3. QED
    BY <1>2, <1>7, <1>8, <2>1, <2>2 DEF ClaimsInv
<1>13. SendersInv'
  <2>1. Sends(next, batch', exported')
    BY <1>3, <1>5, <1>8 DEF Sends
  <2>2. ASSUME NEW p \in Requests, p # q PROVE Sends(request[p], batch', exported')
    BY <1>1, <1>2, <1>3, <1>4, <1>8 DEF Sends, RequestRows
  <2>3. \A p \in Requests : Sends(request'[p], batch', exported')
    BY <1>9, <2>1, <2>2
  <2>4. QED
    BY <2>3 DEF SendersInv, Sends, At, Posting, HasLines
<1>14. QED
  BY <1>10, <1>11, <1>12, <1>13, ClaimsAreHeld DEF ExportInv, ExportsAreExact

LEMMA ExportStep == ExportInv /\ [CostNext]_costVars => ExportInv'
<1> SUFFICES ASSUME ExportInv, [CostNext]_costVars PROVE ExportInv'
  OBVIOUS
<1>1. CostTypeInv'
  BY CostTypeStep DEF ExportInv
<1>2. CASE UNCHANGED costVars
  <2>1. RowsStay /\ UNCHANGED exportVars
    BY <1>2, SameRowsStay DEF costVars, exportVars
  <2>2. QED
    BY <1>1, <2>1, LedgerExports
<1>3. CASE CostNext
  BY <1>1, <1>3, LedgerExported, MovesExported, LinkExported, StatusExported, ClaimExported,
     CommitExported DEF CostNext
<1>4. QED
  BY <1>2, <1>3

LEMMA ExportInit == CostInit => ExportInv
<1> SUFFICES ASSUME CostInit PROVE ExportInv
  OBVIOUS
<1>1. ExportsAreExact
  BY DEF CostInit, ExportsAreExact, RowsKnowTheirLines, ClaimsStand, BatchesHaveLines, HasLines,
         NoRow, NoBatch, At, Idle
<1>2. ClaimsInv /\ SendersInv
  BY DEF CostInit, ClaimsInv, SendersInv, At, Posting, Idle
<1>3. QED
  BY <1>1, <1>2, CostTypeInit DEF ExportInv

LEMMA ExportInvariant == CostSpec => []ExportInv
BY ExportInit, ExportStep, PTL DEF CostSpec

\* For any number of costs, batches and requests, however they overlap: a cost is on one
\* line, of the batch its row names, what an open transaction has selected stays as it was,
\* and only batches with lines are sent.
THEOREM CostsAreExportedOnce == CostSpec => []ExportsAreExact
<1>1. ExportInv => ExportsAreExact
  BY DEF ExportInv
<1>2. QED
  BY <1>1, ExportInvariant, PTL

------------------------------------------------------------------------------
(* A cost is posted once *)

HasLine(k, u) == \E l \in exported : l.key = k /\ l.row = OfUsage(u)

\* A request posts the lines of its batch, and knows the entry of the usage.
PostersInv ==
    \A q \in Requests :
        /\ (Posting(q) \/ At(q, "record")) /\ request[q].key # Nil =>
              \A u \in request[q].todo : HasLine(request[q].key, u)
        /\ request[q].at \in {"line", "usage"} => request[q].key # Nil
        /\ request[q].at \in {"insert", "line", "usage"} \/ (At(q, "record") /\ request[q].key # Nil) =>
              request[q].of \in Usages /\ HasLine(request[q].key, request[q].of)
        /\ request[q].at \in {"line", "usage"} \/ (At(q, "record") /\ request[q].key # Nil) =>
              request[q].entry \in Entries /\ cost[request[q].entry].usage = request[q].of
        /\ At(q, "usage") =>
              \E l \in exported : l.row = OfUsage(request[q].of) /\ l.entry = request[q].entry

\* An entry for a usage has the amount of the usage's line, rounded.
EntriesMatchLines ==
    \A e \in Entries : cost[e].usage # Nil =>
        /\ cost[e].made
        /\ \E l \in exported : l.row = OfUsage(cost[e].usage) /\ IsRounded(cost[e].amount, l.amount)

PostInv == ExportInv /\ PostersInv /\ EntriesMatchLines /\ NothingIsPostedTwice

\* What a row may remember of lines and entries.
Posts(row, lines, entries) ==
    /\ row.at \in {"posting", "insert", "record", "line", "usage"} /\ row.key # Nil =>
          \A u \in row.todo : \E l \in lines : l.key = row.key /\ l.row = OfUsage(u)
    /\ row.at \in {"line", "usage"} => row.key # Nil
    /\ row.at \in {"insert", "line", "usage"} \/ (row.at = "record" /\ row.key # Nil) =>
          row.of \in Usages /\ \E l \in lines : l.key = row.key /\ l.row = OfUsage(row.of)
    /\ row.at \in {"line", "usage"} \/ (row.at = "record" /\ row.key # Nil) =>
          row.entry \in Entries /\ entries[row.entry].usage = row.of
    /\ row.at = "usage" => \E l \in lines : l.row = OfUsage(row.of) /\ l.entry = row.entry

LEMMA PostersAre == PostersInv <=> \A q \in Requests : Posts(request[q], exported, cost)
BY DEF PostersInv, Posts, At, Posting, HasLine

LEMMA OthersPost ==
    \A row : row.at \in {"idle", "claimed", "import", "checked", "waiting"} =>
        \A lines, entries : Posts(row, lines, entries)
BY DEF Posts

\* What the steps rely on.
LEMMA PostFacts ==
    ASSUME PostInv
    PROVE  /\ request \in [Requests -> RequestRows] /\ exported \subseteq ExportLines
           /\ cost \in [Entries -> CostRows]
           /\ posted \in [Usages -> Entries \cup {Nil}]
           /\ record \in [Imports -> Records \cup {Nil}]
           /\ \A l, m \in exported : l.row = m.row => l = m
           /\ \A q \in Requests : Posts(request[q], exported, cost)
           /\ \A q \in Requests : Posting(q) => request[q].key \in Keys
           /\ Nil \notin Usages /\ Nil \notin Entries /\ Nil \notin Keys /\ Nil \notin Records
BY PostersAre, CostAssumption
   DEF PostInv, ExportInv, CostTypeInv, CostTypeOK, ExportsAreExact, RowsKnowTheirLines, SendersInv

\* Entries of usages and linked lines are not touched again.
LEMMA StepKeepsPosts ==
    ASSUME PostInv, ExportInv',
           \A e \in Entries : cost[e].usage # Nil => cost'[e] = cost[e],
           \A l \in exported : \E m \in exported' :
              /\ m.key = l.key /\ m.row = l.row
              /\ l.entry # Nil => m.entry = l.entry,
           \A p \in Requests :
              request'[p] = request[p] \/ Posts(request'[p], exported', cost'),
           EntriesMatchLines', NothingIsPostedTwice'
    PROVE  PostInv'
<1>1. ASSUME NEW p \in Requests PROVE Posts(request'[p], exported', cost')
  <2>1. CASE request'[p] = request[p]
    <3>1. Posts(request[p], exported, cost) /\ request[p] \in RequestRows
      BY PostFacts
    <3>2. Posts(request[p], exported', cost')
      BY <3>1, PostFacts DEF Posts
    <3>3. QED
      BY <2>1, <3>2
  <2>2. QED
    BY <2>1
<1>2. PostersInv'
  BY <1>1 DEF PostersInv, Posts, At, Posting, HasLine
<1>3. QED
  BY <1>2 DEF PostInv

LEMMA MoveKeepsPosts ==
    ASSUME PostInv, ExportInv', UNCHANGED <<exported, cost, posted, record>>,
           \A p \in Requests :
              request'[p] = request[p] \/ Posts(request'[p], exported, cost)
    PROVE  PostInv'
<1>1. EntriesMatchLines' /\ NothingIsPostedTwice'
  BY DEF PostInv, EntriesMatchLines, NothingIsPostedTwice
<1>2. QED
  BY <1>1, StepKeepsPosts

LEMMA GoPosts ==
    ASSUME PostInv, ExportInv', NEW q \in Requests, NEW next, Go(q, next),
           UNCHANGED <<exported, cost, posted, record>>, Posts(next, exported, cost)
    PROVE  PostInv'
<1>1. \A p \in Requests : request'[p] = IF p = q THEN next ELSE request[p]
  BY PostFacts DEF Go
<1>2. QED
  BY <1>1, MoveKeepsPosts

\* Steps that have to do with the ledger and with batches only.
LEMMA OthersPosted ==
    ASSUME PostInv, ExportInv'
    PROVE  (  \/ \E u \in Usages, amount \in UsageCosts : recordCostLedger(u, amount)
              \/ \E r \in Rows : \E status \in Given, amount \in Corrections(r) :
                     PostAgain(r, status, amount) \/ UpdateLedgerEntry(r, status, amount)
              \/ \E r \in Rows : VoidLedgerEntry(r)
              \/ \E k \in Keys, status \in Answers : ReceiveWebhook(k, status) )
           => PostInv'
<1> SUFFICES ASSUME UNCHANGED <<exported, cost, posted, record, request>> PROVE PostInv'
  BY DEF recordCostLedger, PostAgain, UpdateLedgerEntry, VoidLedgerEntry, ReceiveWebhook, exportVars
<1> QED
  BY MoveKeepsPosts

LEMMA BatchesPosted ==
    ASSUME PostInv, ExportInv', NEW q \in Requests
    PROVE  (  \/ \E k \in Keys, rows \in SUBSET {r \in Rows : Exportable(r)} : ClaimRows(q, k, rows)
              \/ \E k \in Keys : CheckBatch(q, k)
              \/ \E x \in Records : findImportRecord(q, x)
              \/ \E answer \in Answers : AnswerBatch(q, answer)
              \/ FailPosting(q) \/ FinishPosting(q) \/ SendBatch(q) \/ Stop(q) )
           => PostInv'
<1>1. ASSUME NEW next, next.at \in {"idle", "claimed", "import", "checked", "waiting"},
             Go(q, next), UNCHANGED <<exported, cost, posted, record>>
      PROVE  PostInv'
  BY <1>1, OthersPost, GoPosts
<1>2. ASSUME NEW k \in Keys, NEW rows \in SUBSET {r \in Rows : Exportable(r)}, ClaimRows(q, k, rows)
      PROVE  PostInv'
  <2> DEFINE next == [Idle EXCEPT !.at = "claimed", !.key = k, !.rows = rows]
  <2>1. Go(q, next) /\ UNCHANGED <<exported, cost, posted, record>>
    BY <1>2, Zenon DEF ClaimRows
  <2>2. next.at = "claimed"
    BY DEF Idle
  <2> HIDE DEF next
  <2>3. QED
    BY <1>1, <2>1, <2>2
<1>3. ASSUME NEW k \in Keys, CheckBatch(q, k) PROVE PostInv'
  <2> DEFINE next == [Idle EXCEPT !.at = "checked", !.key = k]
  <2>1. Go(q, next) /\ UNCHANGED <<exported, cost, posted, record>>
    BY <1>3, Zenon DEF CheckBatch
  <2>2. next.at = "checked"
    BY DEF Idle
  <2> HIDE DEF next
  <2>3. QED
    BY <1>1, <2>1, <2>2
<1>4. ASSUME NEW x \in Records, findImportRecord(q, x) PROVE PostInv'
  <2> DEFINE next == [Idle EXCEPT !.at = "import", !.of = x]
  <2>1. Go(q, next) /\ UNCHANGED <<exported, cost, posted, record>>
    BY <1>4, Zenon DEF findImportRecord
  <2>2. next.at = "import"
    BY DEF Idle
  <2> HIDE DEF next
  <2>3. QED
    BY <1>1, <2>1, <2>2
<1>5. ASSUME (\E answer \in Answers : AnswerBatch(q, answer)) \/ FailPosting(q) \/ FinishPosting(q) \/ Stop(q)
      PROVE  PostInv'
  <2>1. Go(q, Idle) /\ UNCHANGED <<exported, cost, posted, record>>
    BY <1>5 DEF AnswerBatch, FailPosting, FinishPosting, Stop
  <2>2. Idle.at = "idle"
    BY DEF Idle
  <2>3. QED
    BY <1>1, <2>1, <2>2
<1>6. ASSUME SendBatch(q) PROVE PostInv'
  <2> DEFINE next == [request[q] EXCEPT !.at = "waiting"]
  <2>1. Go(q, next) /\ UNCHANGED <<exported, cost, posted, record>>
    BY <1>6, Zenon DEF SendBatch, Move
  <2>2. next.at = "waiting"
    BY PostFacts DEF RequestRows
  <2> HIDE DEF next
  <2>3. QED
    BY <1>1, <2>1, <2>2
<1>7. QED
  BY <1>2, <1>3, <1>4, <1>5, <1>6

LEMMA ToPostPosts ==
    ASSUME NEW k, NEW todo, NEW lines, NEW entries,
           \A u \in todo : \E l \in lines : l.key = k /\ l.row = OfUsage(u)
    PROVE  Posts(ToPost(k, todo), lines, entries)
BY DEF Posts, ToPost, Idle

\* A request takes up the usages of a batch, or learns which entry a usage has.
LEMMA FindPosted ==
    ASSUME PostInv, ExportInv', NEW q \in Requests
    PROVE  (  \/ \E k \in Keys : FindBatch(q, k)
              \/ \E u \in Usages : GetCostEntryBySource(q, u)
              \/ recordCostEntry(q) )
           => PostInv'
<1>1. request[q] \in RequestRows /\ Posts(request[q], exported, cost)
  BY PostFacts
<1>2. ASSUME NEW k \in Keys, FindBatch(q, k) PROVE PostInv'
  <2> DEFINE todo == Unposted({l \in exported : l.key = k})
  <2>1. Go(q, ToPost(k, todo)) /\ UNCHANGED <<exported, cost, posted, record>>
    BY <1>2, Zenon DEF FindBatch
  <2>2. \A u \in todo : \E l \in exported : l.key = k /\ l.row = OfUsage(u)
    BY DEF Unposted
  <2> HIDE DEF todo
  <2>3. QED
    BY <2>1, <2>2, ToPostPosts, GoPosts
<1>3. ASSUME NEW u \in Usages, GetCostEntryBySource(q, u) PROVE PostInv'
  <2>1. At(q, "posting") /\ u \in request[q].todo /\ UNCHANGED <<exported, cost, posted, record>>
    BY <1>3, Zenon DEF GetCostEntryBySource
  <2>2. request[q].key \in Keys /\ request[q].key # Nil
    BY <2>1, PostFacts DEF Posting, At
  <2>3. /\ \A v \in request[q].todo : \E l \in exported : l.key = request[q].key /\ l.row = OfUsage(v)
        /\ \E l \in exported : l.key = request[q].key /\ l.row = OfUsage(u)
    BY <1>1, <2>1, <2>2 DEF Posts, At
  <2>4. ASSUME NEW e \in CostOf(u), Go(q, [request[q] EXCEPT !.at = "line", !.of = u, !.entry = e])
        PROVE  PostInv'
    <3> DEFINE next == [request[q] EXCEPT !.at = "line", !.of = u, !.entry = e]
    <3>1. /\ next.at = "line" /\ next.key = request[q].key /\ next.todo = request[q].todo
          /\ next.of = u /\ next.entry = e
      BY <1>1 DEF RequestRows
    <3>2. Go(q, next) /\ e \in Entries /\ cost[e].usage = u
      BY <2>4 DEF CostOf
    <3> HIDE DEF next
    <3>3. Posts(next, exported, cost)
      BY <2>2, <2>3, <3>1, <3>2 DEF Posts
    <3>4. QED
      BY <2>1, <3>2, <3>3, GoPosts
  <2>5. ASSUME Go(q, [request[q] EXCEPT !.at = "insert", !.of = u]) PROVE PostInv'
    <3> DEFINE next == [request[q] EXCEPT !.at = "insert", !.of = u]
    <3>1. /\ next.at = "insert" /\ next.key = request[q].key /\ next.todo = request[q].todo
          /\ next.of = u
      BY <1>1 DEF RequestRows
    <3>2. Go(q, next)
      BY <2>5
    <3> HIDE DEF next
    <3>3. Posts(next, exported, cost)
      BY <2>2, <2>3, <3>1 DEF Posts
    <3>4. QED
      BY <2>1, <3>2, <3>3, GoPosts
  <2>6. QED
    BY <1>3, <2>4, <2>5, Zenon DEF GetCostEntryBySource
<1>4. ASSUME recordCostEntry(q) PROVE PostInv'
  <2> DEFINE next == [request[q] EXCEPT !.at = "line"]
  <2>1. At(q, "record") /\ UNCHANGED <<exported, cost, posted, record>>
    BY <1>4, Zenon DEF recordCostEntry
  <2>2. CASE request[q].key = Nil
    <3>1. Go(q, Idle) /\ Idle.at = "idle"
      BY <1>4, <2>2 DEF recordCostEntry, Idle
    <3>2. QED
      BY <2>1, <3>1, OthersPost, GoPosts
  <2>3. CASE request[q].key # Nil
    <3>1. Go(q, next)
      BY <1>4, <2>3 DEF recordCostEntry, Move
    <3>2. /\ next.at = "line" /\ next.key = request[q].key /\ next.todo = request[q].todo
          /\ next.of = request[q].of /\ next.entry = request[q].entry
      BY <1>1 DEF RequestRows
    <3> HIDE DEF next
    <3>3. Posts(next, exported, cost)
      BY <1>1, <2>1, <2>3, <3>2 DEF Posts, At
    <3>4. QED
      BY <2>1, <3>1, <3>3, GoPosts
  <2>4. QED
    BY <2>2, <2>3
<1>5. QED
  BY <1>2, <1>3, <1>4

LEMMA FreeHasNoUsage ==
    ASSUME PostInv, NEW e \in Entries, FreeEntry(e)
    PROVE  cost[e].usage = Nil
BY CostAssumption DEF PostInv, EntriesMatchLines, FreeEntry, Entries

\* People's entries stand for no usage.
LEMMA CreatePosted ==
    ASSUME PostInv, ExportInv', NEW q \in Requests, NEW e \in Entries, NEW amount \in EntryCosts,
           CreateCostEntry(q, e, amount)
    PROVE  PostInv'
<1> DEFINE next == [Idle EXCEPT !.at = "record", !.entry = e]
<1>1. /\ FreeEntry(e) /\ Go(q, next) /\ cost' = [cost EXCEPT ![e] = NewCost(Nil, amount)]
      /\ UNCHANGED <<exported, posted, record>>
  BY Zenon DEF CreateCostEntry
<1>2. cost[e].usage = Nil
  BY <1>1, FreeHasNoUsage
<1>3. cost'[e].usage = Nil /\ \A f \in Entries : f # e => cost'[f] = cost[f]
  BY <1>1, PostFacts DEF NewCost
<1>4. next.at = "record" /\ next.key = Nil
  BY DEF Idle
<1> HIDE DEF next
<1>5. \A p \in Requests : request'[p] = request[p] \/ Posts(request'[p], exported', cost')
  <2>1. \A p \in Requests : request'[p] = IF p = q THEN next ELSE request[p]
    BY <1>1, PostFacts DEF Go
  <2>2. QED
    BY <1>4, <2>1 DEF Posts
<1>6. EntriesMatchLines'
  BY <1>1, <1>2, <1>3 DEF PostInv, EntriesMatchLines
<1>7. NothingIsPostedTwice'
  <2>1. ASSUME NEW u \in Usages, NEW l \in exported, l.row = OfUsage(u), l.entry # Nil
        PROVE  cost'[l.entry].usage = u /\ IsRounded(cost'[l.entry].amount, l.amount)
    <3>1. cost[l.entry].usage = u /\ IsRounded(cost[l.entry].amount, l.amount)
      BY <2>1 DEF PostInv, NothingIsPostedTwice
    <3>2. l.entry \in Entries /\ l.entry # e
      BY <1>2, <2>1, <3>1, PostFacts DEF ExportLines
    <3>3. QED
      BY <1>3, <3>1, <3>2
  <2>2. QED
    BY <1>1, <1>2, <1>3, <2>1 DEF PostInv, NothingIsPostedTwice
<1>8. QED
  BY <1>1, <1>2, <1>3, <1>5, <1>6, <1>7, StepKeepsPosts

\* The entry of a usage is made where there is none, with the amount of its line.
LEMMA InsertPosted ==
    ASSUME PostInv, ExportInv', NEW q \in Requests, NEW e \in Entries, InsertCostEntry(q, e)
    PROVE  PostInv'
<1> DEFINE u == request[q].of
<1>1. /\ request[q] \in RequestRows /\ Posts(request[q], exported, cost)
      /\ At(q, "insert") /\ UNCHANGED <<exported, posted, record>>
  BY PostFacts, Zenon DEF InsertCostEntry
<1>2. request[q].key # Nil /\ u \in Usages
  BY <1>1, PostFacts DEF Posts, Posting, At
<1>3. ASSUME NEW at \in {"record", "line"}, Go(q, [request[q] EXCEPT !.at = at, !.entry = e]),
             cost'[e].usage = u
      PROVE  \A p \in Requests : request'[p] = request[p] \/ Posts(request'[p], exported', cost')
  <2> DEFINE next == [request[q] EXCEPT !.at = at, !.entry = e]
  <2>1. /\ next.at = at /\ next.key = request[q].key /\ next.todo = request[q].todo
        /\ next.of = u /\ next.entry = e
    BY <1>1 DEF RequestRows
  <2>2. \A p \in Requests : request'[p] = IF p = q THEN next ELSE request[p]
    BY <1>3, PostFacts DEF Go
  <2> HIDE DEF next, u
  <2>3. Posts(next, exported', cost')
    BY <1>1, <1>2, <1>3, <2>1 DEF Posts, At, u
  <2>4. QED
    BY <2>2, <2>3
<1>4. ASSUME e \in CostOf(u), Go(q, [request[q] EXCEPT !.at = "line", !.entry = e]), UNCHANGED cost
      PROVE  PostInv'
  <2>1. cost'[e].usage = u
    BY <1>4 DEF CostOf
  <2>2. \A p \in Requests : request'[p] = request[p] \/ Posts(request'[p], exported', cost')
    BY <1>3, <1>4, <2>1
  <2>3. QED
    BY <1>1, <1>4, <2>2, MoveKeepsPosts
<1>5. ASSUME CostOf(u) = {}, FreeEntry(e), NEW l \in exported, l.row = OfUsage(u),
             cost' = [cost EXCEPT ![e] = NewCost(u, l.amount)],
             Go(q, [request[q] EXCEPT !.at = "record", !.entry = e])
      PROVE  PostInv'
  <2>1. cost[e].usage = Nil /\ \A f \in Entries : cost[f].usage # u
    BY <1>5, FreeHasNoUsage DEF CostOf
  <2>2. /\ cost'[e].made /\ cost'[e].usage = u /\ IsRounded(cost'[e].amount, l.amount)
        /\ \A f \in Entries : f # e => cost'[f] = cost[f]
    <3>1. l.amount \in Nat
      BY PostFacts DEF ExportLines, Positive
    <3>2. NewCost(u, l.amount) = [made |-> TRUE, usage |-> u, amount |-> Cents(l.amount)]
      BY DEF NewCost
    <3>3. cost'[e] = NewCost(u, l.amount) /\ \A f \in Entries : f # e => cost'[f] = cost[f]
      BY <1>5, PostFacts
    <3>4. QED
      BY <3>1, <3>2, <3>3, CentsRound
  <2>3. \A p \in Requests : request'[p] = request[p] \/ Posts(request'[p], exported', cost')
    <3>1. cost'[e].usage = u
      BY <2>2
    <3>2. "record" \in {"record", "line"}
      OBVIOUS
    <3>3. QED
      BY <1>3, <1>5, <3>1, <3>2, Zenon
  <2> HIDE DEF u
  <2>4. EntriesMatchLines'
    BY <1>1, <1>5, <2>1, <2>2 DEF PostInv, EntriesMatchLines
  <2>5. NothingIsPostedTwice'
    <3>1. ASSUME NEW v \in Usages, NEW m \in exported, m.row = OfUsage(v), m.entry # Nil
          PROVE  cost'[m.entry].usage = v /\ IsRounded(cost'[m.entry].amount, m.amount)
      <4>1. cost[m.entry].usage = v /\ IsRounded(cost[m.entry].amount, m.amount)
        BY <3>1 DEF PostInv, NothingIsPostedTwice
      <4>2. m.entry \in Entries /\ m.entry # e
        BY <2>1, <3>1, <4>1, PostFacts DEF ExportLines
      <4>3. QED
        BY <2>2, <4>1, <4>2
    <3>2. \A f, g \in Entries : cost'[f].usage = cost'[g].usage /\ cost'[f].usage # Nil => f = g
      BY <2>1, <2>2 DEF PostInv, NothingIsPostedTwice
    <3>3. QED
      BY <1>1, <3>1, <3>2 DEF PostInv, NothingIsPostedTwice
  <2>6. \A f \in Entries : cost[f].usage # Nil => cost'[f] = cost[f]
    BY <2>1, <2>2
  <2>7. QED
    BY <1>1, <2>3, <2>4, <2>5, <2>6, StepKeepsPosts
<1>6. QED
  BY <1>4, <1>5, Zenon DEF InsertCostEntry

LEMMA UsageRowsDiffer ==
    ASSUME NEW u, NEW v, OfUsage(u) = OfUsage(v)
    PROVE  u = v
BY DEF OfUsage

\* The line gets the one entry that its usage has.
LEMMA LinkPosted ==
    ASSUME PostInv, ExportInv', NEW q \in Requests, LinkLine(q)
    PROVE  PostInv'
<1> DEFINE k == request[q].key
           u == request[q].of
           entry == request[q].entry
           Linked(l) == IF l.key = k /\ l.row = OfUsage(u) THEN [l EXCEPT !.entry = entry] ELSE l
           next == [request[q] EXCEPT !.at = "usage"]
<1>1. /\ request[q] \in RequestRows /\ Posts(request[q], exported, cost)
      /\ At(q, "line") /\ exported' = {Linked(l) : l \in exported} /\ Go(q, next)
      /\ UNCHANGED <<cost, posted, record>>
  BY PostFacts, Zenon DEF LinkLine, Move
<1>2. /\ k # Nil /\ u \in Usages /\ entry \in Entries /\ cost[entry].usage = u
      /\ \E l \in exported : l.key = k /\ l.row = OfUsage(u)
      /\ \A v \in request[q].todo : \E l \in exported : l.key = k /\ l.row = OfUsage(v)
  BY <1>1 DEF Posts, At
<1>3. /\ next.at = "usage" /\ next.key = k /\ next.todo = request[q].todo
      /\ next.of = u /\ next.entry = entry
  BY <1>1 DEF RequestRows
<1>4. \A l \in exported :
         /\ Linked(l).row = l.row /\ Linked(l).key = l.key /\ Linked(l).amount = l.amount
         /\ Linked(l).entry = IF l.key = k /\ l.row = OfUsage(u) THEN entry ELSE l.entry
  BY PostFacts DEF ExportLines
<1>5. entry # Nil /\ \A e \in Entries : cost[e].usage = u => e = entry
  BY <1>2, PostFacts DEF PostInv, NothingIsPostedTwice
<1>6. \A p \in Requests : request'[p] = IF p = q THEN next ELSE request[p]
  BY <1>1, PostFacts DEF Go
<1> HIDE DEF k, u, entry, Linked, next
<1>7. ASSUME NEW l \in exported, l.row = OfUsage(u)
      PROVE  /\ l.entry # Nil => l.entry = entry
             /\ IsRounded(cost[entry].amount, l.amount)
  <2>1. l.entry # Nil => l.entry \in Entries /\ cost[l.entry].usage = u
    <3>1. l.entry # Nil => l.entry \in Entries
      BY PostFacts DEF ExportLines
    <3>2. l.entry # Nil => cost[l.entry].usage = u
      BY <1>2, <1>7 DEF PostInv, NothingIsPostedTwice
    <3>3. QED
      BY <3>1, <3>2
  <2>2. PICK m \in exported : m.row = OfUsage(u) /\ IsRounded(cost[entry].amount, m.amount)
    BY <1>2, PostFacts DEF PostInv, EntriesMatchLines
  <2>3. m = l
    BY <1>7, <2>2, PostFacts
  <2>4. QED
    BY <1>2, <1>5, <2>1, <2>2, <2>3
<1>8. \A l \in exported : \E m \in exported' :
         /\ m.key = l.key /\ m.row = l.row
         /\ l.entry # Nil => m.entry = l.entry
  <2>1. \A l \in exported : l.entry # Nil => Linked(l).entry = l.entry
    BY <1>4, <1>7
  <2>2. QED
    BY <1>1, <1>4, <2>1
<1>9. Posts(next, exported', cost')
  <2>1. \E l \in exported' : l.key = k /\ l.row = OfUsage(u) /\ l.entry = entry
    BY <1>1, <1>2, <1>4
  <2>2. \A v \in request[q].todo : \E l \in exported' : l.key = k /\ l.row = OfUsage(v)
    BY <1>2, <1>8
  <2>3. QED
    BY <1>1, <1>2, <1>3, <2>1, <2>2 DEF Posts
<1>10. EntriesMatchLines'
  BY <1>1, <1>4 DEF PostInv, EntriesMatchLines
<1>11. NothingIsPostedTwice'
  <2>1. ASSUME NEW v \in Usages, NEW l \in exported, Linked(l).row = OfUsage(v), Linked(l).entry # Nil
        PROVE  /\ cost[Linked(l).entry].usage = v
               /\ IsRounded(cost[Linked(l).entry].amount, Linked(l).amount)
    <3>1. l.row = OfUsage(v)
      BY <1>4, <2>1
    <3>2. CASE l.key = k /\ l.row = OfUsage(u)
      <4>1. v = u
        BY <3>1, <3>2, UsageRowsDiffer
      <4>2. Linked(l).entry = entry /\ Linked(l).amount = l.amount
        BY <1>4, <3>2
      <4>3. QED
        BY <1>2, <1>7, <3>2, <4>1, <4>2
    <3>3. CASE ~(l.key = k /\ l.row = OfUsage(u))
      BY <1>4, <2>1, <3>1, <3>3 DEF PostInv, NothingIsPostedTwice
    <3>4. QED
      BY <3>2, <3>3
  <2>2. ASSUME NEW v \in Usages, posted[v] # Nil
        PROVE  \E l \in exported' : l.row = OfUsage(v) /\ l.entry = posted[v]
    BY <1>8, <2>2 DEF PostInv, NothingIsPostedTwice
  <2>3. QED
    BY <1>1, <2>1, <2>2 DEF PostInv, NothingIsPostedTwice
<1>12. QED
  BY <1>1, <1>6, <1>8, <1>9, <1>10, <1>11, StepKeepsPosts

LEMMA UsagePosted ==
    ASSUME PostInv, ExportInv', NEW q \in Requests, LinkUsage(q)
    PROVE  PostInv'
<1> DEFINE u == request[q].of
           next == ToPost(request[q].key, request[q].todo \ {u})
<1>1. /\ request[q] \in RequestRows /\ Posts(request[q], exported, cost)
      /\ At(q, "usage") /\ posted' = [posted EXCEPT ![u] = request[q].entry]
      /\ Go(q, next) /\ UNCHANGED <<exported, cost, record>>
  BY PostFacts, Zenon DEF LinkUsage
<1>2. \A v \in request[q].todo \ {u} : \E l \in exported : l.key = request[q].key /\ l.row = OfUsage(v)
  BY <1>1 DEF Posts, At
<1>3. Posts(next, exported, cost)
  BY <1>2, ToPostPosts
<1>4. \A p \in Requests : request'[p] = IF p = q THEN next ELSE request[p]
  BY <1>1, PostFacts DEF Go
<1>5. u \in Usages /\ \E l \in exported : l.row = OfUsage(u) /\ l.entry = request[q].entry
  BY <1>1 DEF Posts, At
<1> HIDE DEF u, next
<1>6. EntriesMatchLines' /\ NothingIsPostedTwice'
  <2>1. \A v \in Usages : posted'[v] # Nil => \E l \in exported : l.row = OfUsage(v) /\ l.entry = posted'[v]
    BY <1>1, <1>5, PostFacts DEF PostInv, NothingIsPostedTwice
  <2>2. QED
    BY <1>1, <2>1 DEF PostInv, NothingIsPostedTwice, EntriesMatchLines
<1>7. QED
  BY <1>1, <1>3, <1>4, <1>6, StepKeepsPosts

\* A new batch: the lines of usages have no entry yet.
LEMMA CommitPosted ==
    ASSUME PostInv, ExportInv', NEW q \in Requests, CommitBatch(q)
    PROVE  PostInv'
<1> DEFINE k == request[q].key
           rows == request[q].rows
           lines == {LineFor(k, r) : r \in rows}
           next == ToPost(k, Unposted(lines))
<1>1. /\ At(q, "claimed") /\ exported' = exported \cup lines /\ Go(q, next)
      /\ UNCHANGED <<cost, posted, record>>
  BY Zenon DEF CommitBatch
<1>2. /\ CostTypeInv /\ k \in Keys /\ rows \subseteq Rows /\ \A r \in rows : ledger[r].status # "none"
  BY <1>1, PostFacts DEF PostInv, ExportInv, CostTypeInv, RequestRows
<1>3. \A l \in lines : l.key = k /\ (l.row[1] # "project_cost_entry" => l.entry = Nil)
  BY <1>2, LineIsLine
<1>4. \A u \in Usages, l \in lines : l.row = OfUsage(u) => l.entry = Nil
  BY <1>3 DEF OfUsage
<1>5. Posts(next, exported', cost')
  <2>1. \A u \in Unposted(lines) : \E l \in exported' : l.key = k /\ l.row = OfUsage(u)
    BY <1>1, <1>3 DEF Unposted
  <2>2. QED
    BY <2>1, ToPostPosts
<1>6. \A p \in Requests : request'[p] = IF p = q THEN next ELSE request[p]
  BY <1>1, PostFacts DEF Go
<1> HIDE DEF k, rows, lines, next
<1>7. EntriesMatchLines' /\ NothingIsPostedTwice'
  BY <1>1, <1>4 DEF PostInv, EntriesMatchLines, NothingIsPostedTwice
<1>8. QED
  BY <1>1, <1>5, <1>6, <1>7, StepKeepsPosts

\* An expense that is not there yet gets its record.
LEMMA ImportPosted ==
    ASSUME PostInv, ExportInv', NEW q \in Requests, NEW i \in Imports, NEW amount \in ExpenseCosts,
           CreateImportedExpense(q, i, amount)
    PROVE  PostInv'
<1>1. /\ At(q, "import") /\ Go(q, Idle) /\ UNCHANGED <<exported, cost, posted>>
      /\ \/ UNCHANGED record
         \/ ~Imported(request[q].of) /\ record' = [record EXCEPT ![i] = request[q].of]
  BY Zenon DEF CreateImportedExpense
<1>2. \A j, h \in Imports : record'[j] = record'[h] /\ record'[j] # Nil => j = h
  BY <1>1, PostFacts DEF Imported, PostInv, NothingIsPostedTwice
<1>3. EntriesMatchLines' /\ NothingIsPostedTwice'
  BY <1>1, <1>2 DEF PostInv, EntriesMatchLines, NothingIsPostedTwice
<1>4. \A p \in Requests : request'[p] = request[p] \/ Posts(request'[p], exported', cost')
  <2>1. \A p \in Requests : request'[p] = IF p = q THEN Idle ELSE request[p]
    BY <1>1, PostFacts DEF Go
  <2>2. Idle.at = "idle"
    BY DEF Idle
  <2>3. QED
    BY <2>1, <2>2, OthersPost
<1>5. QED
  BY <1>1, <1>3, <1>4, StepKeepsPosts

LEMMA PostStep == PostInv /\ [CostNext]_costVars => PostInv'
<1> SUFFICES ASSUME PostInv, [CostNext]_costVars PROVE PostInv'
  OBVIOUS
<1>1. ExportInv'
  BY ExportStep DEF PostInv
<1>2. CASE UNCHANGED costVars
  BY <1>1, <1>2, MoveKeepsPosts DEF costVars
<1>3. CASE CostNext
  BY <1>1, <1>3, OthersPosted, BatchesPosted, FindPosted, CreatePosted, InsertPosted, LinkPosted,
     UsagePosted, CommitPosted, ImportPosted DEF CostNext
<1>4. QED
  BY <1>2, <1>3

LEMMA PostInit == CostInit => PostInv
<1> SUFFICES ASSUME CostInit PROVE PostInv
  OBVIOUS
<1>1. PostersInv /\ EntriesMatchLines /\ NothingIsPostedTwice
  BY DEF CostInit, PostersInv, EntriesMatchLines, NothingIsPostedTwice, At, Posting, Idle, NoCost
<1>2. QED
  BY <1>1, ExportInit DEF PostInv

\* For any number of calls, batches and requests: the AI cost of a call reaches its project
\* once, with the amount exported rounded to the cent, whichever request posts it and however often;
\* and an expense is imported once.
THEOREM CostsArePostedOnce == CostSpec => []NothingIsPostedTwice
<1>1. PostInv => NothingIsPostedTwice
  BY DEF PostInv
<1>2. QED
  BY <1>1, PostInit, PostStep, PTL DEF CostSpec

------------------------------------------------------------------------------
(* The rows together *)

RowsInv == LedgerTypeOK /\ RowInv /\ CostTypeInv

\* Whichever of the three moves, every reachable row is one that its table can hold.
THEOREM RowsTypeCorrect == RowsSpec => []RowsTypeOK
<1>1. RowsInit => RowsInv
  <2>1. CircuitInit => RowInv
    BY ChannelAssumption DEF CircuitInit, NewChannel, RowInv, CircuitTypeOK, RowAgrees, Channel, Healths
  <2>2. QED
    BY <2>1, LedgerInitType, CostTypeInit DEF RowsInit, RowsInv
<1>2. RowsInv /\ [RowsNext]_rowsVars => RowsInv'
  <2> SUFFICES ASSUME RowsInv, [RowsNext]_rowsVars PROVE RowsInv'
    OBVIOUS
  <2>1. [LedgerNext]_ledgerVars /\ [CircuitNext]_circuitVars /\ [CostNext]_costVars
    BY DEF RowsNext, rowsVars
  <2>2. QED
    BY <2>1, LedgerTypeStep, RowInvStep, CostTypeStep DEF RowsInv
<1>3. RowsInv => RowsTypeOK
  BY DEF RowsInv, RowInv, CostTypeInv, RowsTypeOK
<1>4. QED
  BY <1>1, <1>2, <1>3, PTL DEF RowsSpec
==============================================================================
