\* kubectl get --watch asks for Tables.
CONSTANTS
    Names = {"Pod", "ConfigMap", "Secret"}
    Stores <- MCStores
    Views = {"get", "list", "table", "watch", "watchTable"}
SPECIFICATION Spec
INVARIANTS
    Stripped
