SPECIFICATION MDSpec
CONSTANTS
    FeedPrices = {10, 15}
    FeedQtys = {0, 10, 35}
    TradedQtys = {0, 10, 35}
    Prices = {1}
    QtyMod = 8
    Timestamps = {1}
    TradeIds = {}
    L2Qtys = {0, 1, 3}
    TradeQtys = {0, 1, 3}
    MaxOrderId = 2
    MaxBuffered = 1
INVARIANT NoDuplicateAdd
CHECK_DEADLOCK FALSE
