CONSTANTS
    Configs <- MCConfigs
    Clusters <- MCClusters
SPECIFICATION Spec
INVARIANT ExactlyWhatWorks
CHECK_DEADLOCK FALSE
