\* Two servers on one database, one of which may crash.
SPECIFICATION FairSpec
CONSTANTS
    Runs = {r1}
    Tests = {t1}
    Servers = {s1, s2}
    Batch = 2
    MaxRequests = 2
    MaxTroubles = 1
INVARIANTS TypeOK NoUnaskedCopy SpooledIsAccepted NoReceiptSkipped
PROPERTIES QueueDrains EndIsQueued
