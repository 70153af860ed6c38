SPECIFICATION Spec
CONSTANTS
    h1 = h1
    h2 = h2
    l1 = l1
    Handlers = {h1, h2}
    Lines = {l1}
    Transports = {"whatsapp", "telnyx", "twilio", "simulated"}
    MaxCalls = 2
    MaxEscalations = 2
INVARIANTS
    AgentLeavesForHuman
    InboundOnce

    
CHECK_DEADLOCK FALSE
