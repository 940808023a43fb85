CONSTANTS
    Panels = {p1}
    MaxCalls = 2
    Permission = {camera}
    Captures = {camera}
    Requests <- MCRequests
    MaxAvatar = 3
    MaxProviders = 2
    MaxWire = 1
    None = None
SPECIFICATION FairSpec
INVARIANTS SameRevisionSameState OpenPageTellsTheTruthUnlessOvertaken
PROPERTIES StreamNeverGoesBack WatcherCatchesUp HiddenPageIsReleased
CHECK_DEADLOCK FALSE
