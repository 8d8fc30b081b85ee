CONSTANTS
    t1 = t1
    t2 = t2
    ann = ann
    bob = bob
    cat = cat
    dan = dan
    Tours = {t1}
    Users = {ann, bob}
    Portfolios = {bob}
    Founders <- MCFounders
    Requests = {r1}
    Asks <- MCOneJoiner
    Tasks = {w1}
    OpenCap = 1
    StartCash = 2
    MaxMoves = 0
    MaxCrashes = 0
    ActivationCommits = FALSE
SPECIFICATION FairSpec
PROPERTY TournamentsStart
CHECK_DEADLOCK FALSE
