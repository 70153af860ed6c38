SPECIFICATION FlowSpec
CONSTANTS
    None = None
    h1 = h1
    h2 = h2
    Carriers = {1}
    Handlers = {h1, h2}
    Reports = {"COMPLETED"}
    Briefings <- TwoBriefings
    SeedBriefing <- Wide
    OfferTerms <- OneTerm
    MaxCalls = 2
    MaxOffers = 2
    MaxCommitments = 2
SYMMETRY Symmetry
INVARIANTS
    FlowTypeOK
    CommittedIsProven
    CommittedOperationHasCommitment
PROPERTIES
    JudgedIsConfirmed
    ImplementsGate
CHECK_DEADLOCK FALSE
