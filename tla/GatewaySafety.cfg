\* A synchronous and a streaming call.
CONSTANTS
    Calls = {sync, stream}
    MeteredCalls = {sync, stream}
    StreamCalls = {stream}
    token = token
    Tokens = {token}
    TokenOf <- MCTokenOf
    QuotaAmount <- MCQuotaAmount
    Adjustments <- MCAdjustments
    MaxAmount = 2
    MaxBalance = 2
    Estimates = {1}
    Costs = {0, 2}
    ConcurrencyLimit = 2
    ChannelQuota = 0
    FailureThreshold = 1
    Workers = {w1}
    NoWorker = NoWorker
    BatchSize = 2
    MaxFaults = 1
    MaxCrashes = 1
    MaxSlow = 1
    Disconnects = TRUE
    LiveRecovery = FALSE
\* The system rests once every call has ended and the balance is full.
CHECK_DEADLOCK FALSE
SPECIFICATION GatewaySpec
INVARIANT GatewayTypeOK
INVARIANT UsageIsPaid
INVARIANT CapacityIsExact
