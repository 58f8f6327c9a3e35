SPECIFICATION Spec
CONSTANTS
    Runs = {r1, r2}
    OldRun = r1
    Limit = 1
    MaxPages = 2
    MaxWrites = 2
    MaxTroubles = 1
INVARIANTS TypeOK NoChangeSkipped PageIsCurrent
PROPERTY ViewConverges
