CONSTANTS
    NanosMod = 100
    Int32Half = 214
    Products <- MCProducts
    Price <- MCPrice
    Rate <- MCRate
    Codes <- MCCodes
    ItemCost = 899
    ShortCounts <- MCShortCounts
    ShortPrices <- MCShortPrices
    MaxQuantity = 3
    MaxLines = 2
SPECIFICATION Spec
INVARIANTS
    NeverPanics
    TotalIsExact
    OrderPageAgrees
    ChargedAsShown
CHECK_DEADLOCK FALSE
