CONSTANTS
    Options <- MCOptions
    Requests <- MCRequests
SPECIFICATION Spec
INVARIANTS
    TypeOK
    Ladder
    NoEscalation
    StrictBoundary
    GroupsAgree
    DiscoveryRouted
\* A process whose options are refused exits.
CHECK_DEADLOCK FALSE
