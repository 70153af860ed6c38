SPECIFICATION Spec
CONSTANTS
    seed = seed
    edited = edited
    Tasks = {1, 2}
    Briefings = {seed, edited}
    Seed = seed
    Invalid = {}
    MaxVersion = 4
    MaxPolls = 2
INVARIANTS
    TypingIsKept
    
PROPERTIES
    CallsFollowTheSavedBriefing
    WatcherConverges
CHECK_DEADLOCK FALSE
