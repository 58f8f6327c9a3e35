\* One server that may crash or be stopped, a CLI command that may end or cancel the run, one
\* further event: a change of a file, a time-out, a refused statement, a request.
SPECIFICATION FairSpec
CONSTANTS
    v1 = v1
    v2 = v2
    MaxOutputs = 2
    Declarations = {0, 2}
    Required = {2}
    Revisions = {v1, v2}
    Absent = Absent
    Servers = {s1}
    Submitters = {}
    Clients = {c1}
    Evidences = {e1, e2}
    MaxEvents = 1
INVARIANTS TypeOK CompletedIsPublished OnlyRequiredCondemns ManifestIsTrue
PROPERTIES VerdictIsFinal DataSettles
CHECK_DEADLOCK FALSE
