CONSTANTS
    Parts = {"matches"}
    eng = eng esp = esp mci = mci fcb = fcb rma = rma f1 = f1 p1 = p1
    Leagues = {eng, esp} Teams = {mci, fcb} LeagueOf <- MCLeagueOf Ids = {p1, p2}
    Standings = {10, 11, NoStanding} NoStanding = NoStanding TopCap = 2 LowCap = 1
    NoRow = NoRow NoLeague = NoLeague MaxTrades = 1
    Fixtures = {f1} FixtureLeagues = {esp} LeagueOfFixture <- MCLeagueOfFixture
    Sides <- MCSides TeamOrder <- MCTeamOrder DaysBack = 3 Lookback = 2 MaxFailures = 0
    passes = passes conceded = conceded Peers = {k1, k2, k3} Pool = {k1, k2} Stats = {passes, conceded}
    Weight <- MCWeight LessIsBetter = {conceded} ZeroLost = {conceded} Amounts = {0, 1, 2}
    Grades = {3, 6, 10} NoRating = NoRating NoAmount = NoAmount
    Callers = {c1, c2} Refreshers = {c1} Counts = {2, 3} BBase = 2 NTarget = 3 NMin = 1 TTL = 2 Delay = 1
    Missing = Missing
    Players = {p1, p2, p3, p4} Watched = p1 Levels = {0, 1} Filters = {{p1, p2, p3}}
    TierTTL = 2 WriteDelay = 1 MaxTasks = 2 NoTier = NoTier
    Users = {u1, u2} Markets = {m1, m2} Points = 64 MaxShares = 2 MaxMoves = 4 BMin = 1 BFloor = 1
    NoAccount = NoAccount
    Addresses = {a1, a2, a3} Joins = {j1, j2, j3} Jump = 2 NoCode = NoCode NoSignup = NoSignup
SPECIFICATION MCFairSpec
PROPERTY EndedIsProcessed
CHECK_DEADLOCK FALSE
