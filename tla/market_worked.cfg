SPECIFICATION MarketSpec
CONSTANTS
    None = None
    Carriers = {1, 2}
    Briefings <- OneBrief
    SeedBriefing <- Brief
    OfferTerms <- TwoTerms
    MaxCalls = 5
    MaxQuotes = 2
    MaxOffers = 2
    MaxCommitments = 1
    MaxInFlight = 2
    Faults = {"error"}
INVARIANTS
    MarketTypeOK

    
    
CHECK_DEADLOCK FALSE
