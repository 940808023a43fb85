CONSTANTS
    Workers = {camera}
    Changes = {c1, c2}
    ChangeCapacity = 2
SPECIFICATION FairSpec
INVARIANTS ChildrenAreJoined DisabledMeansNoChild
PROPERTIES WorkersFollowPermissions
CHECK_DEADLOCK FALSE
