\* A client that leaves a synchronous call between its usage row and its settlement.
CONSTANTS
    Calls = {sync}
    MeteredCalls = {sync}
    StreamCalls = {}
    token = token
    Tokens = {token}
    TokenOf <- MCTokenOf
    QuotaAmount <- MCQuotaAmount
    Adjustments <- MCAdjustments
    MaxAmount = 2
    MaxBalance = 2
    Estimates = {1}
    Costs = {0, 2}
    ConcurrencyLimit = 2
    ChannelQuota = 0
    FailureThreshold = 1
    Workers = {w1}
    NoWorker = NoWorker
    BatchSize = 2
    MaxFaults = 0
    MaxCrashes = 0
    MaxSlow = 1
    Disconnects = TRUE
    LiveRecovery = FALSE
\* The system rests once every call has ended and the balance is full.
CHECK_DEADLOCK FALSE
SPECIFICATION GatewaySpec
INVARIANT ReleasedSlotsWereHeld
