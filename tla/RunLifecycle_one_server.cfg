\* One control plane that may crash, a CLI that may submit instead of it, one
\* prober beside Cancel.
SPECIFICATION Spec
CONSTANTS
    Servers = {s1}
    Cli = cli
    Watchers = {w1}
    Stopper = stopper
    Submitters = {s1, cli}
    CancelHosts = {s1, cli}
    MaxCrashes = 2
INVARIANTS
    TypeOK
    AtMostOneStart
    VerdictMatchesExit
    LaunchedIsHandedOver
PROPERTIES
    StartedVerdictIsFinal
    RunIsAccounted
