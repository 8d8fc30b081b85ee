SPECIFICATION Spec
CONSTANTS
    Users = {u1, u2}
    Players = {1}
    Catalog = {1, 9}
    Requests = {r1, r2, r3}
    Workers = {w1}
    NoTxn = NoTxn
    Budgets = {3}
    SellSizes = {1, 2}
    ShareOutcomes = {0, 2}
    RefundOutcomes = {1}
    StartPoints = 4
    Step = 2
    Dust = 1
    InitialQ <- MCInitialQ
    InitialB = 2
    Targets = {2, 5}
    BStep = 2
    QuietRecalibration = TRUE
SYMMETRY MCSymmetry
INVARIANTS
    IInv
    MarketCoversPositions
PROPERTY
    TradesAreAtomic
