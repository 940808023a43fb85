CONSTANTS
    ObsIds = {"o1", "o2", "o3"}
    ControlIds = {"c1"}
    Subjects = {"s1"}
    Subject = "s1"
    Sources = {"cam", "mic"}
    MaxSeq = 2
    MaxTime = 3
    MaxLag = 0
    Durations = {1}
    Inputs <- OneReturn
    Commands <- AnyCommand
    CapabilitySets <- SmallBody
    ObservationCapacity = 2
    ControlCapacity = 1
    TTL = 2
    AbsenceThreshold = 1
    RejectionCooldown = 3
    NoResponseCooldown = 2
    WaitFor = 1
    None = None
SPECIFICATION FairSpec
INVARIANTS WakeupIsArmed ControlOvertakenAtMostOnce RejectionTakesEffect
PROPERTIES RespectsSingleWriter EveryRequestReturns ResponseWindowCloses
CHECK_DEADLOCK FALSE
