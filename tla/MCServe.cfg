CONSTANTS
    MaxStarts = 2
    Scoped = {1}
    Signals = {1}
    Tampering = TRUE
    Calls = {"watch"}
SPECIFICATION FairSpec
INVARIANTS
    TypeOK
    WholeIdentity
    CertLast
    PrivateFiles
    ScopeHolds
PROPERTIES
    
    StableIdentity
    SignalEnds
\* Every process may be down.
CHECK_DEADLOCK FALSE
