SPECIFICATION Spec
CONSTANTS
    Off = Off
    None = None
PROPERTIES SyncEnds CallsReturn
CHECK_DEADLOCK FALSE
