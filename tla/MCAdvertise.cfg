CONSTANTS
    Configs <- MCConfigs
    Clusters <- MCClusters
SPECIFICATION Spec
INVARIANTS
    TypeOK
    ShownWorks
    WorksShown
    LooseUntouched
\* The walk ends.
CHECK_DEADLOCK FALSE
