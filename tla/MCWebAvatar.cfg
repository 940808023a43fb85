CONSTANTS
    Attends = {attend}
    Idles = {}
    Speeches = {hello, again}
    HasSpeaker = TRUE
    MaxStops = 1
    NoAction = NoAction
SPECIFICATION FairSpec
INVARIANTS TheActiveSpeechIsTheOneRunning
PROPERTIES StoppedActionsStaySilent EveryWaitEnds
CHECK_DEADLOCK TRUE
