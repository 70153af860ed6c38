SPECIFICATION HandoffSpec
CONSTANTS
    None = None
    Calls = {c1, c2, c3}
    Transfers = {t1}
INVARIANTS
    HandoffTypeOK
    
    NoOrphanSession
    
CHECK_DEADLOCK FALSE
