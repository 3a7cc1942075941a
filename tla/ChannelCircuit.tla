---------------------------- MODULE ChannelCircuit ----------------------------
(***************************************************************************)
(* The channel under concurrent calls, connection tests and an operator who *)
(* switches it off and on: its capacity, its quota and its circuit breaker. *)
(* A call is admitted once and releases the channel once (what a call does  *)
(* in between, and where that fails, is the subject of AIGateway).          *)
(***************************************************************************)
EXTENDS ProviderChannel, FiniteSets

CONSTANTS
    Invocations,   \* invocations that can be under way at the same time
    MaxCost  \* the largest cost of one call

ASSUME CircuitAssumption == IsFiniteSet(Invocations) /\ MaxCost \in Nat

VARIABLE
    role  \* what each call is to the channel: a plain call or a probe

circuitVars == <<channel, role>>

CircuitTypeOK ==
    /\ channel \in Channel
    /\ role \in [Invocations -> {"idle", "plain", "probe"}]

CircuitInit ==
    /\ channel = NewChannel
    /\ role = [c \in Invocations |-> "idle"]

Admit(c) ==
    /\ role[c] = "idle"
    /\ AdmitCall
    /\ role' = [role EXCEPT ![c] = IF channel.circuit = "closed" THEN "plain" ELSE "probe"]

Release(c, amount, outcome) ==
    /\ role[c] # "idle"
    /\ ReleaseChannel(amount, outcome)
    /\ role' = [role EXCEPT ![c] = "idle"]

TestChannel(ok) ==
    /\ UpdateChannelTestResult(ok)
    /\ UNCHANGED role

SwitchChannel ==
    /\ UpdateChannelStatus
    /\ UNCHANGED role

Cooldown ==
    /\ CooldownElapses
    /\ UNCHANGED role

CircuitNext ==
    \/ \E c \in Invocations : Admit(c)
    \/ \E c \in Invocations, amount \in 0..MaxCost, outcome \in Outcomes : Release(c, amount, outcome)
    \/ \E ok \in BOOLEAN : TestChannel(ok)
    \/ SwitchChannel
    \/ Cooldown

CircuitSpec == CircuitInit /\ [][CircuitNext]_circuitVars

------------------------------------------------------------------------------
Holders == {c \in Invocations : role[c] # "idle"}

\* inflight_requests is the number of calls that hold the channel, so the
\* concurrency limit is a limit on calls and the clamp at zero never acts.
InflightCountsHolders ==
    /\ channel.inflight = Cardinality(Holders)
    /\ ConcurrencyLimit > 0 => channel.inflight <= ConcurrencyLimit

\* The circuit is away from closed exactly while the failures since the last
\* success have reached the threshold; what is shown as health agrees.  A late
\* result of a call admitted long before must not break either.
CircuitIffThreshold ==
    /\ channel.circuit # "closed" <=> channel.failures = FailureThreshold
    /\ channel.circuit # "closed" <=> channel.health \in {"circuit_open", "probing"}

ProbingHasProbe == channel.health = "probing" => \E c \in Invocations : role[c] = "probe"

\* What a channel shows is true: the circuit and the health as above, and a channel shown
\* as probing has a probe under way, so that a probe released without a verdict (its
\* client went away) does not leave it probing.
HealthTellsCircuit == CircuitIffThreshold /\ ProbingHasProbe

\* The quota is checked when a call is admitted and charged when it ends, so
\* it is overrun, but by no more than one call for each slot.
QuotaOverrunIsBounded ==
    (ChannelQuota > 0 /\ ConcurrencyLimit > 0) =>
        channel.used + MaxCost * channel.inflight <= (ChannelQuota - 1) + MaxCost * ConcurrencyLimit

\* What BASELINE_RESTRUCTURE.md says of the circuit: "only one expired-circuit
\* probe may reserve capacity".
OneProbe == \A c, d \in Invocations : role[c] = "probe" /\ role[d] = "probe" => c = d
==============================================================================
