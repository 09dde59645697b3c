CONSTANTS
    MaxPush = 4
    StopModes = {FALSE, TRUE}
SPECIFICATION Spec
INVARIANTS NoNullDispatch
PROPERTIES AllTaken InboundOrder
CHECK_DEADLOCK FALSE
