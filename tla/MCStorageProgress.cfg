SPECIFICATION Spec
CONSTANTS
    Off = Off
    None = None
PROPERTIES PendingResolves DeletingFinishes OpensOrMismatch
CHECK_DEADLOCK FALSE
