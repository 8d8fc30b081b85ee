CONSTANTS
    t1 = t1
    t2 = t2
    ann = ann
    bob = bob
    cat = cat
    dan = dan
    Tours = {t1}
    Users = {ann, bob, cat, dan}
    Portfolios = {bob, cat}
    Founders <- MCFounders
    Requests = {r1, r2}
    Asks <- MCJoins
    Tasks = {w1, w2}
    OpenCap = 1
    StartCash = 2
    MaxMoves = 2
    MaxCrashes = 0
    ActivationCommits = TRUE
SPECIFICATION Spec
SYMMETRY MCSymmetry
INVARIANT FrozenBoardIsConsistent
PROPERTIES StartIsLocked FrozenIsFinal ActivatedAtOneInstant
CHECK_DEADLOCK FALSE
