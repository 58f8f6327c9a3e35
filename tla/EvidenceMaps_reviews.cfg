SPECIFICATION Spec
CONSTANTS
    None = None
    n1 = n1
    n2 = n2
    e1 = e1
    topic = topic
    Map = {topic}
    Proposal = {x, y}
    Card = {}
    Reviewer = {r1, r2}
    Agent = {a1}
    Saver = {}
    Admin = {d1}
    Place = {0}
    MaxRev = 3
    Patch <- MCReviewed
    CardPatch <- MCCardPatch
    Seed <- MCSeed
SYMMETRY MCSymmetry
INVARIANTS
    GraphIsValid
PROPERTIES
    NothingIsUndone
    ReviewIsAtomic
CHECK_DEADLOCK FALSE
