SPECIFICATION MarketSpec
CONSTANTS
    None = None
    Carriers = {1}
    Briefings <- OneBrief
    SeedBriefing <- Brief
    OfferTerms <- TwoTerms
    MaxCalls = 4
    MaxQuotes = 2
    MaxOffers = 4
    MaxCommitments = 1
    MaxInFlight = 1
    Faults = {"refused", "lost", "reorder"}
INVARIANTS
    NoDoubleBooking
    OneStandingOffer
PROPERTIES
    ConfirmedWithinMandate
CHECK_DEADLOCK FALSE
