\* The same channel, checked for the one-probe rule of the migration notes.
CONSTANTS
    Invocations = {c1, c2, c3}
    ConcurrencyLimit = 2
    ChannelQuota = 3
    FailureThreshold = 2
    MaxCost = 2
SPECIFICATION CircuitSpec
INVARIANT OneProbe
