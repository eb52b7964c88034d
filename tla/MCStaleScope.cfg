CONSTANTS
    MaxStarts = 1
    Scoped = {1}
    Signals = {1}
    Tampering = FALSE
    Calls = {"watch"}
SPECIFICATION FairSpec
PROPERTIES
    Refreshed
CHECK_DEADLOCK FALSE
