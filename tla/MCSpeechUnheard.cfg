CONSTANTS
    Scenario <- MCScenario
    Manifests <- MCManifests
    Cases <- MCCases
    Recordings <- MCRecordings
    WindowFrames = 3
    VoicedFrames = 2
    RearmFrames = 2
    WaitFor = 4
    Ttl = 1
    LeaseFor = 4
    MaxTime = 7
    MaxBacklog = 2
    MaxWindows = 1
    MaxFailures = 0
    None = None
SPECIFICATION Spec
INVARIANT VoiceIsHeard
CHECK_DEADLOCK FALSE
