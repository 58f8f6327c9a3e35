SPECIFICATION Spec
CONSTANTS
    None = None
    n1 = n1
    n2 = n2
    e1 = e1
    topic = topic
    Map = {primary, topic}
    Proposal = {x}
    Card = {c}
    Reviewer = {r1}
    Agent = {a1}
    Saver = {s1}
    Admin = {}
    Place = {0}
    MaxRev = 2
    Patch <- MCOnePatch
    CardPatch <- MCCardPatch
    Seed <- MCSeed
SYMMETRY MCSymmetry
INVARIANTS
    TypeOK
    HistoryIsTrue
CHECK_DEADLOCK FALSE
