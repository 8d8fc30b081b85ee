SPECIFICATION Spec
CONSTANTS
    Users = {u1}
    Players = {1}
    Catalog = {1}
    Requests = {r1, r2}
    Workers = {w1}
    NoTxn = NoTxn
    Budgets = {1}
    SellSizes = {4}
    ShareOutcomes = {4}
    RefundOutcomes = {1}
    StartPoints = 4
    Step = 2
    Dust = 1
    InitialQ <- MCInitialQ
    InitialB = 2
    Targets = {3}
    BStep = 1
    QuietRecalibration = FALSE
INVARIANT
    SellAlwaysPermitted
