\* Reservations of up to 2 on deposits of up to 6: quota, balance and estimate
\* can each be the one that is exceeded.  Three concurrent calls on two slots, a
\* quota of three and a circuit that opens after two failures.  One call in a
\* project, two cost entries and an expense sent twice, in two batches made by two
\* requests.  A cent is four units: a usage may cost less than half a cent, which a
\* project gets as nothing, or a cent and three quarters, which it gets as two cents.
\* What people enter is nothing once rounded, so of the rows of entries only those of
\* AI costs are exported; rows do not tell which of the two they are.
CONSTANTS
    c1 = c1
    c2 = c2
    c3 = c3
    limited = limited
    free = free
    Calls = {c1, c2, c3}
    Tokens = {limited, free}
    TokenOf <- MCTokenOf
    QuotaAmount <- MCQuotaAmount
    MaxAmount = 2
    Adjustments <- MCAdjustments
    MaxBalance = 4
    Invocations = {c1, c2, c3}
    ConcurrencyLimit = 2
    ChannelQuota = 3
    FailureThreshold = 2
    MaxCost = 2
    k1 = k1
    k2 = k2
    q1 = q1
    q2 = q2
    Usages = {c1}
    ProjectUsages = {c1}
    Records = {expense}
    Keys = {k1, k2}
    Requests = {q1, q2}
    Nil = Nil
    Cent = 4
    UsageCosts = {1, 7}
    EntryCosts = {1}
    ExpenseCosts = {4}
    Reposted <- MCReposted
    MaxEntries = 2
    MaxImports = 2
SPECIFICATION RowsSpec
SYMMETRY Symmetry
INVARIANT RowsTypeOK
INVARIANT LedgerSums
INVARIANT OverrunOnly
INVARIANT InflightCountsHolders
INVARIANT HealthTellsCircuit
INVARIANT QuotaOverrunIsBounded
INVARIANT ExportsAreExact
 
PROPERTY ImplementsAccount
