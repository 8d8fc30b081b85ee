SPECIFICATION FairSpec
CONSTANTS
    Users = {u1}
    Players = {1, 2}
    Catalog = {2}
    Requests = {r1, r2}
    Workers = {w1, w2}
    NoTxn = NoTxn
    Budgets = {3}
    SellSizes = {3, 4}
    ShareOutcomes = {4}
    RefundOutcomes = {1}
    StartPoints = 4
    Step = 2
    Dust = 1
    InitialQ <- MCInitialQ
    InitialB = 2
    Targets = {3, 6}
    BStep = 2
    QuietRecalibration = FALSE
INVARIANTS
    LedgerMatchesPositions
    BalanceFollowsLedger
    DustBufferHolds
PROPERTY
    RequestsAnswered
