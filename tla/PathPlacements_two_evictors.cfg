\* Two evictions at once.
SPECIFICATION Spec
CONSTANTS
    v1 = v1
    v2 = v2
    Resources = {nas, old, gpu}
    Authority = {nas, old}
    Default = nas
    Revisions = {v1, v2}
    Torn = Torn
    Gone = Gone
    Evictors = {e1, e2}
    Probes = {}
    Copiers = {}
    LateStart = FALSE
    MaxOperations = 4
SYMMETRY Contents
PROPERTIES EvictionLeavesACopy
CHECK_DEADLOCK FALSE
