\* One synchronous call whose reservation two workers may recover, while it still runs.
CONSTANTS
    Calls = {sync}
    MeteredCalls = {sync}
    StreamCalls = {}
    token = token
    Tokens = {token}
    TokenOf <- MCTokenOf
    QuotaAmount <- MCQuotaAmount
    Adjustments <- MCAdjustments
    MaxAmount = 2
    MaxBalance = 2
    Estimates = {1}
    Costs = {0, 2}
    ConcurrencyLimit = 2
    ChannelQuota = 0
    FailureThreshold = 1
    Workers = {w1, w2}
    NoWorker = NoWorker
    BatchSize = 1
    MaxFaults = 1
    MaxCrashes = 1
    MaxSlow = 1
    Disconnects = TRUE
    LiveRecovery = TRUE
\* The system rests once every call has ended and the balance is full.
CHECK_DEADLOCK FALSE
SPECIFICATION FairGatewaySpec
PROPERTY OpenReservationIsFinished
