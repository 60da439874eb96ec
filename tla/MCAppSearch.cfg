SPECIFICATION Spec
CONSTANTS
    HostId = {1, 2, 3}
    ALL <- MCColumns
    Look <- MCLook
    Letter = {"r"}
    MaxQuery = 1
    Stale = Stale
PROPERTIES
    SearchTakesEveryCharacter
CHECK_DEADLOCK FALSE
