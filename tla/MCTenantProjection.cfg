\* Nothing is left to do when the organization is closed and its jobs are over.
SPECIFICATION PlaneSpec
CONSTANTS
    Workers = {w1, w2}
    NoWorker = none
    Topologies = {t1, t2}
    MaxAttempts = 2
    MaxReruns = 1
    Projectors = {p1}
    NoProjector = none
    Changes = {c1}
    MaxEventAttempts = 2
CHECK_DEADLOCK FALSE
INVARIANT PlaneTypeOK
INVARIANT ProvisionedIsUsable
INVARIANT PublishedIsProjected
PROPERTY ArchivedStaysArchived
PROPERTY TargetSettles
