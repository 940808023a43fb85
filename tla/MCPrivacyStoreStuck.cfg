CONSTANTS
    camera = camera
    microphone = microphone
    retired = retired
    Permission = {camera, microphone}
    Foreign = {retired}
    MaxRevision = 4
    Documents <- MCDocuments
    NoFile = NoFile
    Unreadable = Unreadable
    Down = Down
SPECIFICATION Spec
INVARIANT PermissionsStayRevocable
CHECK_DEADLOCK FALSE
