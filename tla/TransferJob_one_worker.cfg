\* One manager, two initiators, a rival or a source that grows, one interruption.
SPECIFICATION FairSpec
CONSTANTS
    Workers = {w1}
    Managers = {w1}
    Routes = 2
    Edits = {"rival", "source"}
    MaxEdits = 1
    MaxInterrupts = 1
    LateBeats = TRUE
INVARIANTS TypeOK OnlyVerifiedIsPromoted
PROPERTIES CompletedIsDelivered JobSettles ProgressNeverFalls EndIsKept JobIsAccounted
CHECK_DEADLOCK FALSE
