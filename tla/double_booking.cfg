SPECIFICATION MarketSpec
CONSTANTS
    None = None
    Carriers = {1, 2}
    Briefings <- OneBrief
    SeedBriefing <- Brief
    OfferTerms <- Affordable
    MaxCalls = 4
    MaxQuotes = 2
    MaxOffers = 2
    MaxCommitments = 1
    MaxInFlight = 2
    Faults = {}
INVARIANTS
    NoDoubleBooking
CHECK_DEADLOCK FALSE
