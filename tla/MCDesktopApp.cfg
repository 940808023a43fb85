CONSTANTS
    Workers = {camera, microphone}
    Handlers = {h1, h2}
SPECIFICATION FairSpec
INVARIANTS FailedBuildKeepsNothing PartsStopInOrder RunLeavesNothing
PROPERTY ProgramEnds
CHECK_DEADLOCK FALSE
