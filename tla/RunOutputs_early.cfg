\* The manager looks for the outputs before the files were discovered.
SPECIFICATION Spec
CONSTANTS
    v1 = v1
    v2 = v2
    MaxOutputs = 2
    Declarations = {0, 2}
    Required = {2}
    Revisions = {v1, v2}
    Absent = Absent
    Servers = {s1}
    Submitters = {}
    Clients = {}
    Evidences = {e1}
    MaxEvents = 0
PROPERTIES MissingAfterDiscovery
CHECK_DEADLOCK FALSE
