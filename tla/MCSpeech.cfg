CONSTANTS
    Scenario <- MCScenario
    Manifests <- MCManifests
    Cases <- MCCases
    Recordings <- MCRecordings
    WindowFrames = 3
    VoicedFrames = 2
    RearmFrames = 2
    WaitFor = 4
    Ttl = 1
    LeaseFor = 3
    MaxTime = 6
    MaxBacklog = 2
    MaxWindows = 2
    MaxFailures = 1
    None = None
SPECIFICATION FairSpec
INVARIANTS ReadinessIsCorrect OneTriggerPerUtterance  VoiceIsHeardUnlessSpent
PROPERTY BacklogIsProcessed
CHECK_DEADLOCK FALSE
