CONSTANTS
    Slots = {"a", "b"}
    Configs <- MCConfigs
    Inputs <- InputsOf
    Replies <- RepliesOf
    BodyCap = 2
    RespCap = 2
SPECIFICATION FairSpec
INVARIANTS
    TypeOK
    OnlyVetted
    NothingDeniedLeaves
    StrictContent
    NoTruncation
    AuditTruthful
    LogWhole
PROPERTIES
    NeverRewritten
    KeepsContract
    RefusedIsAudited
    HangUpReleases
\* Every request ends.
CHECK_DEADLOCK FALSE
