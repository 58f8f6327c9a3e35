\* One eviction at a time beside a probe and a transfer.
SPECIFICATION Spec
CONSTANTS
    v1 = v1
    v2 = v2
    Resources = {nas, old, gpu}
    Authority = {nas, old}
    Default = nas
    Revisions = {v1, v2}
    Torn = Torn
    Gone = Gone
    Evictors = {e1}
    Probes = {p1}
    Copiers = {c1}
    LateStart = FALSE
    MaxOperations = 4
SYMMETRY Contents
INVARIANTS TypeOK TombstonesAreAccounted InspectIsNeverLate
PROPERTIES EvictionLeavesACopy
CHECK_DEADLOCK FALSE
