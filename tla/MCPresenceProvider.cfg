CONSTANTS
    Providers = {cam}
    Camera = cam
    Instances = {i1, i2}
    LeaseIds = {l1, l2}
    None = None
    MaxSeq = 2
    MaxFailures = 1
    MaxLate = 1
    MaxOutages = 0
SPECIFICATION FairSpec
INVARIANTS EveryTransitionIsDelivered EngineKnowsTheGateUnlessConfused LeaseTablesAgree RevokedInstanceStaysDark
PROPERTIES LiveLeaseIsNotTakenOver WorkerGetsItsLease
CHECK_DEADLOCK FALSE
