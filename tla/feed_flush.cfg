SPECIFICATION FeedSpec
CONSTANTS
    Prices = {1}
    QtyMod = 8
    Timestamps = {1, 2}
    TradeIds = {7}
    L2Qtys = {1, 2}
    TradeQtys = {1}
    MaxOrderId = 2
    MaxBuffered = 1
    MaxUnreported = 4
INVARIANT FlushedNeverMatched
CHECK_DEADLOCK FALSE
