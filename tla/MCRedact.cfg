CONSTANTS
    Names = {"Pod", "ConfigMap", "Secret"}
    Stores <- MCStores
    Views = {"get", "list", "table", "wholeTable", "watch", "brokenWatch", "bareWatch"}
SPECIFICATION Spec
INVARIANTS
    TypeOK
    Stripped
    NothingElseLost
    WatchFailsClosed
