SPECIFICATION FeedSpec
CONSTANTS
    Prices = {p1, p2}
    p1 = p1
    p2 = p2
    QtyMod = 8
    Timestamps = {1}
    TradeIds = {}
    L2Qtys = {1, 3}
    TradeQtys = {1}
    MaxOrderId = 2
    MaxBuffered = 1
    MaxUnreported = 2
SYMMETRY Symmetry
INVARIANTS IdsInOrder RestingWithinAnnounced EveryFillTraded
PROPERTIES VolumeExplained UpdateLeavesDifference
CHECK_DEADLOCK FALSE
