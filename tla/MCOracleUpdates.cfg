SPECIFICATION FairSpec
CONSTANTS
    f1 = f1
    f2 = f2
    Fixtures = {f1, f2}
    Ids = {1, 2, 3, 9}
    Players = {1, 2, 3}
    Markets = {1, 2}
    Lineup <- MCLineup
    Malformed <- MCMalformed
    Tasks = {w1, w2}
    Recals = {c1}
    Traders = {t1}
    NoTxn = NoTxn
    NoFixture = NoFixture
    MaxTrades = 1
CHECK_DEADLOCK FALSE
INVARIANTS
    WholeFixtures
    PricesUntouched
    OracleFromCommitted
PROPERTY NobodyWaitsForEver
