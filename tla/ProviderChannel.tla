---------------------------- MODULE ProviderChannel ----------------------------
(***************************************************************************)
(* One row of model_provider_channels and the single-statement updates that *)
(* admit a call to the channel, release it and record a connection test.    *)
(* Each is one SQL statement, so it is one step.                            *)
(*                                                                          *)
(* circuit stands for circuit_open_until: "closed" when it is NULL, "open"  *)
(* while it lies in the future, "elapsed" once it has passed.  The failure  *)
(* counter is only compared with the threshold and stops there.             *)
(*                                                                          *)
(* Not modelled: the choice among several channels (the query only orders   *)
(* the candidates; every condition is checked again by the update), model   *)
(* patterns and mappings, and the success, failure and latency statistics.  *)
(***************************************************************************)
EXTENDS Integers

CONSTANTS
    ConcurrencyLimit,  \* concurrency_limit, 0 for none
    ChannelQuota,      \* quota_amount, 0 for none
    FailureThreshold   \* consecutive failures that open the circuit

ASSUME ChannelAssumption ==
    /\ ConcurrencyLimit \in Nat
    /\ ChannelQuota \in Nat
    /\ FailureThreshold \in Nat \ {0}

VARIABLE channel

Outcomes == {"success", "failure", "neutral"}

Healths == {"unknown", "healthy", "degraded", "circuit_open", "probing"}

Channel ==
    [active : BOOLEAN, inflight : Nat, used : Nat, failures : 0..FailureThreshold,
     health : Healths, circuit : {"closed", "open", "elapsed"}]

NewChannel ==
    [active |-> TRUE, inflight |-> 0, used |-> 0, failures |-> 0,
     health |-> "unknown", circuit |-> "closed"]

\* Mutant: the quota may be used up to its last unit and one call more.
HasCapacityAtQuota(ch) ==
    /\ ch.active
    /\ ChannelQuota = 0 \/ ch.used <= ChannelQuota
    /\ ConcurrencyLimit = 0 \/ ch.inflight < ConcurrencyLimit
    /\ ch.circuit # "open"

HasCapacity(ch) ==
    /\ ch.active
    /\ ChannelQuota = 0 \/ ch.used < ChannelQuota
    /\ ConcurrencyLimit = 0 \/ ch.inflight < ConcurrencyLimit
    /\ ch.circuit # "open"

\* The conditional update of applyChannel: a call that gets through an elapsed
\* circuit is its probe and closes the door behind it for another cooldown.
AdmitCall ==
    /\ HasCapacity(channel)
    /\ channel' =
          IF channel.circuit = "closed"
          THEN [channel EXCEPT !.inflight = @ + 1]
          ELSE [channel EXCEPT !.inflight = @ + 1, !.health = "probing", !.circuit = "open"]

Recovered(ch) == [ch EXCEPT !.failures = 0, !.health = "healthy", !.circuit = "closed"]

Failed(ch) ==
    IF ch.failures + 1 >= FailureThreshold
    THEN [ch EXCEPT !.failures = FailureThreshold, !.health = "circuit_open", !.circuit = "open"]
    ELSE [ch EXCEPT !.failures = @ + 1, !.health = "degraded"]

\* Mutant: a neutral outcome leaves the health alone.
UnjudgedAsIs(ch) == ch

Unjudged(ch) == [ch EXCEPT !.health = IF @ = "probing" THEN "circuit_open" ELSE @]

WithOutcome(ch, outcome) ==
    CASE outcome = "success" -> Recovered(ch)
      [] outcome = "failure" -> Failed(ch)
      [] OTHER -> Unjudged(ch)

\* Mutant: a failed call keeps its slot.
ReleaseUnlessFailed(amount, outcome) ==
    LET counted == [channel EXCEPT !.inflight =
                        IF @ > 0 /\ outcome # "failure" THEN @ - 1 ELSE @,
                                   !.used = @ + amount]
    IN  channel' = WithOutcome(counted, outcome)

\* The counter is clamped: a release too many takes nothing below zero.
ReleaseChannel(amount, outcome) ==
    LET counted == [channel EXCEPT !.inflight = IF @ > 0 THEN @ - 1 ELSE 0,
                                   !.used = @ + amount]
    IN  channel' = WithOutcome(counted, outcome)

\* The connection test an operator starts; it takes no slot.
UpdateChannelTestResult(ok) ==
    channel' = IF ok THEN Recovered(channel) ELSE Failed(channel)

UpdateChannelStatus == channel' = [channel EXCEPT !.active = ~@]

\* Time passes: circuit_open_until <= NOW().
CooldownElapses ==
    /\ channel.circuit = "open"
    /\ channel' = [channel EXCEPT !.circuit = "elapsed"]
==============================================================================
