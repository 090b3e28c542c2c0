SPECIFICATION FeedSpec
CONSTANTS
    Prices = {1}
    QtyMod = 8
    Timestamps = {1}
    TradeIds = {7}
    L2Qtys = {0, 1, 2, 3}
    TradeQtys = {1}
    MaxOrderId = 2
    MaxBuffered = 1
    MaxUnreported = 4
INVARIANT MirrorsFeed
CHECK_DEADLOCK FALSE
