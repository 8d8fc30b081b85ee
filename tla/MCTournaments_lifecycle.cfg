CONSTANTS
    t1 = t1
    t2 = t2
    ann = ann
    bob = bob
    cat = cat
    dan = dan
    Tours = {t1, t2}
    Users = {ann, bob}
    Portfolios = {}
    Founders <- MCFounders
    Requests = {r1, r2}
    Asks <- MCAnything
    Tasks = {w1}
    OpenCap = 1
    StartCash = 2
    MaxMoves = 0
    MaxCrashes = 1
    ActivationCommits = TRUE
SPECIFICATION FairSpec
PROPERTIES TournamentsStart TournamentsEnd
CHECK_DEADLOCK FALSE
