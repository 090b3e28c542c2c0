SPECIFICATION LoopSpec
CONSTANTS
    Prices = {1}
    QtyMod = 8
    MaxOrders = 3
    MaxTake = 7
INVARIANTS VolumeConserved ComputesClosedForm
CHECK_DEADLOCK FALSE
