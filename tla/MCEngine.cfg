CONSTANTS
    ObsIds = {"o1", "o2", "o3", "o4", "o5"}
    ControlIds = {c1}
    Subjects = {s1}
    Subject = s1
    Sources = {"cam", "mic"}
    MaxSeq = 4
    MaxTime = 5
    Durations = {1}
    Inputs <- TwoReturns
    CapabilitySets <- MCCapabilitySets
    TTL = 2
    AbsenceThreshold = 1
    RejectionCooldown = 3
    NoResponseCooldown = 2
    WaitFor = 1
    None = None
SPECIFICATION EngineSpec
INVARIANTS WindowCopiesAgree DueWakeupExpires GreetingRespectsCooldowns OneOutcomePerFact
PROPERTIES OutcomesAreTimely ImplementsLifecycle
CHECK_DEADLOCK TRUE
