SPECIFICATION VendSpec
CONSTANTS
    States <- VendStates
    Root = "vm"
    Parent <- VendParent
    Initial <- VendInitial
    Regions <- VendRegions
    History <- VendHistory
    Events <- VendEvents
    TypeOf <- VendTypeOf
    None = None
    Table <- VendTable
    Internal <- VendInternal
    Deferred <- VendDeferred
    Guarantee <- VendGuarantee
    InitFacts <- VendFacts
    Throwing <- NeverThrows
    Verdicts <- VendVerdicts
    Effects <- VendEffects
    Writes <- VendWrites
    Posts <- VendPosts
    Products <- MCProducts
    Amounts <- MCAmounts
    Prices <- MCPrices
    Coins = {1, 2}
    Code = 1
    Codes = {1, 2}
    Stocks <- MCStocks
    MaxMoney = 3
    MaxCount = 2
INVARIANTS
    NothingPending
    PricedWhenServing
PROPERTIES
    CoinForEachItem
    HistoryKept
