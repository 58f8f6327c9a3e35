\* A second control plane resumes the launch of the first, which is alive.
SPECIFICATION Spec
CONSTANTS
    Servers = {s1, s2}
    Cli = cli
    Watchers = {w1}
    Stopper = stopper
    Submitters = {s1}
    CancelHosts = {s1}
    MaxCrashes = 0
PROPERTIES
    ObservableIsNotRelaunched
