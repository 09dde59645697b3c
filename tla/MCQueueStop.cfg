CONSTANTS
    MaxPush = 2
    StopModes = {TRUE}
SPECIFICATION Spec
PROPERTY StopReturns
CHECK_DEADLOCK FALSE
