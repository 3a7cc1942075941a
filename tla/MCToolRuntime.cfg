\* Nothing is left to do when a denied tool's handlers are gone.
SPECIFICATION ToolSpec
CONSTANTS
    Callers = {h1, h2}
    Requests = {"propose", "tool"}
    Proposals = {"propose"}
    LedgerTools = {"propose"}
    ApiKeys = {"api"}
    Keys = {"propose", "tool", "api"}
    Parameters = {"d1", "d2"}
    ToolData = "d1"
    MaxCalls = 4
SYMMETRY Symmetry
CHECK_DEADLOCK FALSE
INVARIANT ToolTypeOK
INVARIANT AuditTellsEffects
INVARIANT EffectWasApproved
INVARIANT SuccessIsTrue
