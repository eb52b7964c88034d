CONSTANTS
    MaxStarts = 3
    Scoped = {}
    Signals = {}
    Tampering = FALSE
    Calls = {}
SPECIFICATION Spec
PROPERTIES
    PinnedPairLoads
CHECK_DEADLOCK FALSE
