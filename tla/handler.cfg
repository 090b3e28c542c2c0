SPECIFICATION MDSpec
CONSTANTS
    FeedPrices = {10, 15}
    FeedQtys = {0, 10, 35}
    TradedQtys = {80}
    Prices = {1}
    QtyMod = 8
    Timestamps = {1}
    TradeIds = {}
    L2Qtys = {0, 1, 3}
    TradeQtys = {0, 1, 2, 3, 4, 5, 6, 7}
    MaxOrderId = 2
    MaxBuffered = 1
INVARIANTS TrackerMirrorsBooks AnomaliesNeedDuplicate EveryAddCounted
           DuplicatesAcrossSides
CHECK_DEADLOCK FALSE
