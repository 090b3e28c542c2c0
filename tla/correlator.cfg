SPECIFICATION Spec
CONSTANTS
    Prices = {1}
    QtyMod = 8
    Timestamps = {1, 2}
    TradeIds = {7}
    L2Qtys = {0, 5}
    TradeQtys = {1}
    MaxOrderId = 3
    MaxBuffered = 1
INVARIANTS TypeOK TotalIsTwiceResting IdsInOrder NoStaleTrades CancelsAreUnexplained
PROPERTIES FIFOPriority VolumeExplained FillsConsumeTrades ImplementsStream
CHECK_DEADLOCK FALSE
