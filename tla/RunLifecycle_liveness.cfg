\* One server that crashes at most once and is started again.
SPECIFICATION FairSpec
CONSTANTS
    Servers = {s1}
    Cli = cli
    Watchers = {w1}
    Stopper = stopper
    Submitters = {s1}
    CancelHosts = {s1}
    MaxCrashes = 1
PROPERTIES
    LaunchJobCloses
    AsyncRunSettles
