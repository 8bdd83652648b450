CONSTANTS
    Grosses <- MCGrosses
    Eligibles <- MCEligibles
    Offers <- MCOffers
    Balances <- MCBalances
    Requested <- MCRequested
    RawRates = {0, 1, 150}
    TierMultipliers = {100, 150, 200}
SPECIFICATION PricingSpec
CHECK_DEADLOCK FALSE
INVARIANTS
    MoneyAddsUp
    ReceiptWithinLimits
    StoredTotalIsFinal
