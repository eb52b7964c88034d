CONSTANTS
    Slots = {"a", "b"}
    Configs <- MCConfigs
    Inputs <- InputsOf
    Replies <- RepliesOf
    BodyCap = 2
    RespCap = 2
SPECIFICATION FairSpec
INVARIANTS
    AuditComplete
\* Every request ends.
CHECK_DEADLOCK FALSE
