SPECIFICATION RxFairSpec
CONSTANTS
    Junks = {0, 1, 6}
    ControlSize = 2
    ShortSize = 3
    FullSize = 7
    Fragments = {2, 3}
    MaxMsgs = 3
    MaxControls = 1
INVARIANTS
    DeliveredInOrder
    WholeMessages
PROPERTIES
    EveryMessageDelivered
CHECK_DEADLOCK FALSE
