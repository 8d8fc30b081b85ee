------------------------------ MODULE Trading ------------------------------
(***************************************************************************)
(* The trading engine (app/core/trading.py, called by app/api/trade.py)    *)
(* and the liquidity recalibration worker (app/workers/calibration.py) on  *)
(* the rows they share.                                                    *)
(*                                                                         *)
(* Every HTTP request and every Celery run is a PostgreSQL READ COMMITTED  *)
(* transaction: SELECT ... FOR UPDATE and UPDATE take the row lock, which  *)
(* is kept to the end of the transaction; flushed writes are private until *)
(* the commit; a plain SELECT reads the last committed row.  One action    *)
(* stands for the code between two awaits that another transaction could   *)
(* tell apart.                                                             *)
(*                                                                         *)
(* Amounts are integers.  Points are counted in the units of the ledger    *)
(* (NUMERIC(14,6)); a portfolio stores only multiples of Step of them      *)
(* (NUMERIC(12,4)).  What the LS-LMSR formulas return is not computed: a   *)
(* buy obtains some number of shares in ShareOutcomes and a sell some      *)
(* refund in RefundOutcomes.                                               *)
(***************************************************************************)
EXTENDS Integers, FiniteSets, FiniteSetsExt

CONSTANTS
    Users,               \* accounts, each with its portfolio row
    Players,             \* players with a market row: naturals, in primary-key order
    Catalog,             \* player ids a request may name, known or not
    Requests,            \* buy and sell requests, each made once
    Workers,             \* runs of the recalibration task
    NoTxn,               \* the holder of a free row lock
    Budgets,             \* budgets a buy may offer
    SellSizes,           \* share counts a sell may offer
    ShareOutcomes,       \* shares a budget may be worth, after the 6-decimal cut
    RefundOutcomes,      \* points a sell may return
    StartPoints,         \* opening balance of a portfolio
    Step,                \* ledger units in one unit of the portfolio column
    Dust,                \* the dust buffer: q may fall to -Dust
    InitialQ,            \* q vector of a freshly initialised market
    InitialB,            \* b_min of a freshly initialised market
    Targets,             \* b_min targets calibrate_b_min may return
    BStep,               \* target units in one unit of the b_min column
    QuietRecalibration   \* TRUE: operators keep trades and recalibration apart

Dirs == {"UP", "DOWN"}

ASSUME UsersAssumption == IsFiniteSet(Users)
ASSUME PlayersAssumption == Players \subseteq Nat
ASSUME TxnAssumption ==
    Requests \cap Workers = {} /\ NoTxn \notin Requests \cup Workers
ASSUME AmountsAssumption ==
    /\ Budgets \subseteq Nat \ {0} /\ SellSizes \subseteq Nat \ {0}
    /\ ShareOutcomes \subseteq Nat /\ RefundOutcomes \subseteq Nat
ASSUME ColumnsAssumption ==
    /\ Step \in Nat \ {0} /\ Dust \in Nat
    /\ StartPoints \in Nat
    /\ InitialQ \in [Dirs -> Nat]
    /\ BStep \in Nat \ {0}
    /\ InitialB \in Nat /\ InitialB >= BStep /\ Targets \subseteq Nat
ASSUME QuietAssumption == QuietRecalibration \in BOOLEAN

VARIABLES
    points,        \* portfolios.available_points
    owned,         \* positions.shares_owned, 0 where there is no row
    q,             \* lmsr_market_state.q_up and q_down
    bMin,          \* lmsr_market_state.b_min
    active,        \* players.is_active
    ledgerShares,  \* trades: shares bought less shares sold
    ledgerCash,    \* trades: refunds less costs
    ledgerRows,    \* trades: number of rows
    job,           \* what each request asks for
    pc,            \* where each request is, or how it was answered
    seen,          \* portfolio and position as the request read them
    writes,        \* flushed, uncommitted row values of a request
    pLock,         \* holder of each portfolio row lock
    mLock,         \* holder of each market row lock
    wpc,           \* where each recalibration run is
    wTarget,       \* its b_min target
    wSeen,         \* the market rows its SELECT returned
    wTodo          \* markets it has still to update

tables   == <<points, owned, q, bMin, ledgerShares, ledgerCash, ledgerRows>>
requests == <<job, pc, seen, writes, pLock>>
workers  == <<wpc, wTarget, wSeen, wTodo>>
vars     == <<tables, active, requests, mLock, workers>>

Jobs ==
    [kind : {"buy"}, user : Users, player : Catalog, dir : Dirs, amount : Budgets]
        \cup
    [kind : {"sell"}, user : Users, player : Catalog, dir : Dirs, amount : SellSizes]

Refused  == {"notfound", "inactive", "nofunds", "noshares", "zero", "dust"}
Answered == Refused \cup {"committed", "aborted"}
InFlight == {"locked", "admitted", "flushed"}

User(r)   == job[r].user
Player(r) == job[r].player
Dir(r)    == job[r].dir
Amount(r) == job[r].amount

----------------------------------------------------------------------------
(* Conversions *)

\* PostgreSQL stores x in a NUMERIC column of unit Step: half away from zero.
Stored(x) == Step * ((2 * x + Step) \div (2 * Step))

\* Mutant of Rescaled: the factor upside down, b_min / b_min_new.
RescaledInverse(n, from, to) == (n * from) \div to

\* Decimal.quantize of n * to / from: half to even.
Rescaled(n, from, to) ==
    LET whole == (n * to) \div from
        rest  == (n * to) % from
        up    == 2 * rest > from \/ (2 * rest = from /\ whole % 2 = 1)
    IN  IF up THEN whole + 1 ELSE whole

\* How the b_min column keeps a target: quantize to its four decimals.
StoredB(t) == BStep * Rescaled(t, BStep, 1)

----------------------------------------------------------------------------
\* The objects of a session that is not open.
NothingSeen == [points |-> 0, owned |-> 0]
NoWrites == [points |-> 0, owned |-> 0, q |-> 0, shares |-> 0, cash |-> 0]

Init ==
    /\ points = [u \in Users |-> StartPoints]
    /\ owned = [u \in Users |-> [p \in Players |-> [d \in Dirs |-> 0]]]
    /\ q = [p \in Players |-> InitialQ]
    /\ bMin = [p \in Players |-> InitialB]
    /\ active = [p \in Players |-> TRUE]
    /\ ledgerShares = [u \in Users |-> [p \in Players |-> [d \in Dirs |-> 0]]]
    /\ ledgerCash = [u \in Users |-> 0]
    /\ ledgerRows = [u \in Users |-> 0]
    /\ job \in [Requests -> Jobs]
    /\ pc = [r \in Requests |-> "arrived"]
    /\ seen = [r \in Requests |-> NothingSeen]
    /\ writes = [r \in Requests |-> NoWrites]
    /\ pLock = [u \in Users |-> NoTxn]
    /\ mLock = [p \in Players |-> NoTxn]
    /\ wpc = [w \in Workers |-> "idle"]
    /\ wTarget = [w \in Workers |-> 0]
    /\ wSeen = [w \in Workers |-> [q |-> q, b |-> bMin]]
    /\ wTodo = [w \in Workers |-> {}]

NoWorkerRuns == \A w \in Workers : wpc[w] # "updating"
NoTradeRuns  == \A r \in Requests : pc[r] \notin InFlight

----------------------------------------------------------------------------
(* Requests *)

\* Mutant of ReleaseTo: an answered request's session stays open on its portfolio.
ReleaseMarketOnly(r, outcome) ==
    /\ pc' = [pc EXCEPT ![r] = outcome]
    /\ mLock' = [p \in Players |-> IF mLock[p] = r THEN NoTxn ELSE mLock[p]]
    /\ UNCHANGED <<job, seen, writes, pLock>>

\* The session is closed: its objects and its locks go.
ReleaseTo(r, outcome) ==
    /\ pc' = [pc EXCEPT ![r] = outcome]
    /\ pLock' = [u \in Users |-> IF pLock[u] = r THEN NoTxn ELSE pLock[u]]
    /\ mLock' = [p \in Players |-> IF mLock[p] = r THEN NoTxn ELSE mLock[p]]
    /\ seen' = [seen EXCEPT ![r] = NothingSeen]
    /\ writes' = [writes EXCEPT ![r] = NoWrites]
    /\ UNCHANGED job

\* Mutant of PortfolioReady: the SELECT without FOR UPDATE.
PortfolioUnlocked(r) == pc[r] = "arrived"

PortfolioReady(r) == pc[r] = "arrived" /\ pLock[User(r)] = NoTxn

\* SELECT ... FROM portfolios ... FOR UPDATE: waits for the row, then reads it.
LockPortfolio(r) ==
    /\ PortfolioReady(r)
    /\ QuietRecalibration => NoWorkerRuns
    /\ pLock' = [pLock EXCEPT ![User(r)] = r]
    /\ pc' = [pc EXCEPT ![r] = "locked"]
    /\ seen' = [seen EXCEPT ![r] = [points |-> points[User(r)], owned |-> 0]]
    /\ UNCHANGED <<tables, active, job, writes, mLock, workers>>

\* execute_buy, steps 2 and 3: the player is known and active, the budget is there.
AdmitBuy(r) ==
    /\ pc[r] = "locked" /\ job[r].kind = "buy"
    /\ Player(r) \in Players
    /\ active[Player(r)]
    /\ Amount(r) <= seen[r].points
    /\ pc' = [pc EXCEPT ![r] = "admitted"]
    /\ seen' = [seen EXCEPT ![r].owned = owned[User(r)][Player(r)][Dir(r)]]
    /\ UNCHANGED <<tables, active, job, writes, pLock, mLock, workers>>

RefuseBuy(r) ==
    /\ pc[r] = "locked" /\ job[r].kind = "buy"
    /\ \/ Player(r) \notin Players /\ ReleaseTo(r, "notfound")
       \/ /\ Player(r) \in Players /\ ~active[Player(r)]
          /\ ReleaseTo(r, "inactive")
       \/ /\ Player(r) \in Players /\ active[Player(r)]
          /\ Amount(r) > seen[r].points
          /\ ReleaseTo(r, "nofunds")
    /\ UNCHANGED <<tables, active, workers>>

\* Mutant of Holds: one share more than owned passes.
HoldsNearly(u, p, d, n) == p \in Players /\ owned[u][p][d] >= n - 1

\* execute_sell, step 2: only the position is checked, never is_active.
Holds(u, p, d, n) == p \in Players /\ owned[u][p][d] >= n

AdmitSell(r) ==
    /\ pc[r] = "locked" /\ job[r].kind = "sell"
    /\ Holds(User(r), Player(r), Dir(r), Amount(r))
    /\ pc' = [pc EXCEPT ![r] = "admitted"]
    /\ seen' = [seen EXCEPT ![r].owned = owned[User(r)][Player(r)][Dir(r)]]
    /\ UNCHANGED <<tables, active, job, writes, pLock, mLock, workers>>

RefuseSell(r) ==
    /\ pc[r] = "locked" /\ job[r].kind = "sell"
    /\ ~Holds(User(r), Player(r), Dir(r), Amount(r))
    /\ ReleaseTo(r, "noshares")
    /\ UNCHANGED <<tables, active, workers>>

\* Mutant of MarketReady: the SELECT without FOR UPDATE.
MarketUnlocked(r) == pc[r] = "admitted"

\* The market row is free: FOR UPDATE returns its last committed value.
MarketReady(r) == pc[r] = "admitted" /\ mLock[Player(r)] = NoTxn

Flush(r, shares, cash) ==
    /\ mLock' = [mLock EXCEPT ![Player(r)] = r]
    /\ pc' = [pc EXCEPT ![r] = "flushed"]
    /\ writes' = [writes EXCEPT ![r] =
           [points |-> Stored(seen[r].points + cash),
            owned  |-> seen[r].owned + shares,
            q      |-> q[Player(r)][Dir(r)] + shares,
            shares |-> shares,
            cash   |-> cash]]
    /\ UNCHANGED <<tables, active, job, seen, pLock, workers>>

\* execute_buy, steps 4 to 12.
FlushBuy(r) ==
    /\ MarketReady(r) /\ job[r].kind = "buy"
    /\ \E shares \in ShareOutcomes \ {0} : Flush(r, shares, -Amount(r))

\* INV-10: the budget is worth no share; nothing has been written.
RefuseZeroShares(r) ==
    /\ MarketReady(r) /\ job[r].kind = "buy"
    /\ 0 \in ShareOutcomes
    /\ ReleaseTo(r, "zero")
    /\ UNCHANGED <<tables, active, workers>>

\* INV-06: the sell would drive q below the dust buffer.
BelowDust(r) == q[Player(r)][Dir(r)] - Amount(r) < -Dust

\* execute_sell, steps 3 to 10.
FlushSell(r) ==
    /\ MarketReady(r) /\ job[r].kind = "sell"
    /\ ~BelowDust(r)
    /\ \E refund \in RefundOutcomes : Flush(r, -Amount(r), refund)

RefuseDust(r) ==
    /\ MarketReady(r) /\ job[r].kind = "sell"
    /\ BelowDust(r)
    /\ ReleaseTo(r, "dust")
    /\ UNCHANGED <<tables, active, workers>>

\* await db.commit() in the endpoint: the row values and the trade row appear.
Commit(r) ==
    /\ pc[r] = "flushed"
    /\ LET u == User(r)
           p == Player(r)
           d == Dir(r)
           w == writes[r]
       IN  /\ points' = [points EXCEPT ![u] = w.points]
           /\ owned' = [owned EXCEPT ![u][p][d] = w.owned]
           /\ q' = [q EXCEPT ![p][d] = w.q]
           /\ ledgerShares' = [ledgerShares EXCEPT ![u][p][d] = @ + w.shares]
           /\ ledgerCash' = [ledgerCash EXCEPT ![u] = @ + w.cash]
           /\ ledgerRows' = [ledgerRows EXCEPT ![u] = @ + 1]
    /\ ReleaseTo(r, "committed")
    /\ UNCHANGED <<bMin, active, workers>>

\* The connection or the process is lost before the commit: rollback.
Abort(r) ==
    /\ pc[r] \in InFlight
    /\ ReleaseTo(r, "aborted")
    /\ UNCHANGED <<tables, active, workers>>

----------------------------------------------------------------------------
(* Squad synchronisation (app/workers/player_import.py) flips is_active. *)

SetActive(p) ==
    /\ active' = [active EXCEPT ![p] = ~@]
    /\ UNCHANGED <<tables, requests, mLock, workers>>

----------------------------------------------------------------------------
(* Recalibration runs *)

BelowTarget(t) == {p \in Players : bMin[p] < t}

\* The plain SELECT of every market; nothing is locked.
RecalRead(w) ==
    /\ wpc[w] = "idle"
    /\ QuietRecalibration => NoWorkerRuns /\ NoTradeRuns
    /\ \E t \in Targets :
          /\ wTarget' = [wTarget EXCEPT ![w] = t]
          /\ wTodo' = [wTodo EXCEPT ![w] = BelowTarget(t)]
          /\ wpc' = [wpc EXCEPT ![w] = IF BelowTarget(t) = {} THEN "done"
                                       ELSE "updating"]
    /\ wSeen' = [wSeen EXCEPT ![w] = [q |-> q, b |-> bMin]]
    /\ UNCHANGED <<tables, active, requests, mLock>>

ScaledQ(w, p, d) == Rescaled(wSeen[w].q[p][d], wSeen[w].b[p], wTarget[w])

\* The UPDATE of market p, the first one left, is not waiting for a row lock.
UpdateReaches(w, p) ==
    /\ wpc[w] = "updating"
    /\ p \in wTodo[w] /\ \A o \in wTodo[w] : p <= o
    /\ mLock[p] = NoTxn

\* Mutant of RecalUpdate: the tables have no CHECK on q_up and q_down.
RecalUpdateUnchecked(w) ==
    /\ \E p \in Players :
          /\ UpdateReaches(w, p)
          /\ mLock' = [mLock EXCEPT ![p] = w]
          /\ wTodo' = [wTodo EXCEPT ![w] = @ \ {p}]
    /\ UNCHANGED <<tables, active, requests, wpc, wTarget, wSeen>>

\* One UPDATE of the flush, in primary-key order, once the row is free.
RecalUpdate(w) ==
    /\ \E p \in Players :
          /\ UpdateReaches(w, p)
          /\ \A d \in Dirs : ScaledQ(w, p, d) >= -Dust
          /\ mLock' = [mLock EXCEPT ![p] = w]
          /\ wTodo' = [wTodo EXCEPT ![w] = @ \ {p}]
    /\ UNCHANGED <<tables, active, requests, wpc, wTarget, wSeen>>

WorkerEnds(w, outcome) ==
    /\ wpc' = [wpc EXCEPT ![w] = outcome]
    /\ wTodo' = [wTodo EXCEPT ![w] = {}]
    /\ mLock' = [p \in Players |-> IF mLock[p] = w THEN NoTxn ELSE mLock[p]]
    /\ UNCHANGED <<requests, active, wTarget, wSeen>>

\* The CHECK on q_up or q_down refuses the UPDATE: the whole batch rolls back.
RecalCheckFails(w) ==
    /\ \E p \in Players :
          UpdateReaches(w, p) /\ \E d \in Dirs : ScaledQ(w, p, d) < -Dust
    /\ WorkerEnds(w, "failed")
    /\ UNCHANGED tables

\* The UPDATE of liquidity_config, whose row only these runs write, and the commit: the
\* ORM has sent only the columns whose value changed.  A target rounded down leaves a
\* b_min that the next run still finds below it.
RecalCommit(w) ==
    /\ wpc[w] = "updating" /\ wTodo[w] = {}
    /\ q' = [p \in Players |-> [d \in Dirs |->
                IF mLock[p] = w /\ ScaledQ(w, p, d) # wSeen[w].q[p][d]
                THEN ScaledQ(w, p, d) ELSE q[p][d]]]
    /\ bMin' = [p \in Players |-> IF mLock[p] = w THEN StoredB(wTarget[w]) ELSE bMin[p]]
    /\ WorkerEnds(w, "done")
    /\ UNCHANGED <<points, owned, ledgerShares, ledgerCash, ledgerRows>>

RecalCrash(w) ==
    /\ wpc[w] = "updating"
    /\ WorkerEnds(w, "failed")
    /\ UNCHANGED tables

----------------------------------------------------------------------------
RequestStep(r) ==
    \/ LockPortfolio(r)
    \/ AdmitBuy(r) \/ RefuseBuy(r)
    \/ AdmitSell(r) \/ RefuseSell(r)
    \/ FlushBuy(r) \/ RefuseZeroShares(r)
    \/ FlushSell(r) \/ RefuseDust(r)
    \/ Commit(r)

WorkerStep(w) ==
    RecalRead(w) \/ RecalUpdate(w) \/ RecalCheckFails(w) \/ RecalCommit(w)

Next ==
    \/ \E r \in Requests : RequestStep(r) \/ Abort(r)
    \/ \E w \in Workers : WorkerStep(w) \/ RecalCrash(w)
    \/ \E p \in Players \cap Catalog : SetActive(p)   \* the flags a request reads

Spec == Init /\ [][Next]_vars

\* A handler or task that can go on does: the event loop and PostgreSQL's lock
\* queues run every enabled statement.  Losing a connection is never owed.
Fairness ==
    /\ \A r \in Requests : WF_vars(RequestStep(r))
    /\ \A w \in Workers : WF_vars(WorkerStep(w))

FairSpec == Spec /\ Fairness

----------------------------------------------------------------------------
(* Properties *)

\* What the b_min column holds: whole units, one or more.
Bs == {b \in Nat : b >= BStep}

TypeOK ==
    /\ points \in [Users -> Nat]
    /\ owned \in [Users -> [Players -> [Dirs -> Nat]]]
    /\ q \in [Players -> [Dirs -> Int]]
    /\ bMin \in [Players -> Bs]
    /\ active \in [Players -> BOOLEAN]
    /\ ledgerShares \in [Users -> [Players -> [Dirs -> Int]]]
    /\ ledgerCash \in [Users -> Int]
    /\ ledgerRows \in [Users -> Nat]
    /\ job \in [Requests -> Jobs]
    /\ pc \in [Requests -> {"arrived"} \cup InFlight \cup Answered]
    /\ seen \in [Requests -> [points : Nat, owned : Nat]]
    /\ writes \in [Requests -> [points : Nat, owned : Nat, q : Int,
                                shares : Int, cash : Int]]
    /\ pLock \in [Users -> Requests \cup {NoTxn}]
    /\ mLock \in [Players -> Requests \cup Workers \cup {NoTxn}]
    /\ wpc \in [Workers -> {"idle", "updating", "done", "failed"}]
    /\ wTarget \in [Workers -> Nat]
    /\ wSeen \in [Workers -> [q : [Players -> [Dirs -> Int]],
                              b : [Players -> Bs]]]
    /\ wTodo \in [Workers -> SUBSET Players]

\* The positions table and the trades ledger never disagree: whatever the
\* interleaving of a user's own requests, of rollbacks and of recalibration,
\* shares_owned is the sum of the BUY rows less the SELL rows.
LedgerMatchesPositions ==
    \A u \in Users, p \in Players, d \in Dirs :
        owned[u][p][d] = ledgerShares[u][p][d]

\* The balance differs from what the ledger rows add up to by at most the
\* rounding of available_points, half a column unit per trade.
BalanceFollowsLedger ==
    \A u \in Users :
        LET drift == points[u] - (StartPoints + ledgerCash[u])
            bound == ledgerRows[u] * (Step \div 2)
        IN  -bound <= drift /\ drift <= bound

\* Every market can absorb the sale of everything held in it: the q of a side
\* is never below the shares all users own on that side.
Holding(p, d) == [u \in Users |-> owned[u][p][d]]
MarketCoversPositions ==
    \A p \in Players, d \in Dirs : q[p][d] >= SumFunctionOnSet(Holding(p, d), Users)

\* INV-06: no committed q is below the dust buffer, not even when a stale
\* recalibration has overwritten it.
DustBufferHolds == \A p \in Players, d \in Dirs : q[p][d] >= -Dust

\* "Selling an inactive player's shares MUST always be allowed": an owner's
\* sell is never refused by the dust guard.
SellAlwaysPermitted == \A r \in Requests : pc[r] # "dust"

\* Locking makes the engine serial: the committed rows change only as trades and
\* recalibrations executed one at a time would change them.  Requests, locks, snapshots
\* and private writes are hidden.
Atomic == INSTANCE AtomicMarket WITH points <- points, owned <- owned, q <- q, bMin <- bMin
TradesAreAtomic == Atomic!Spec

\* Every request is answered: no order of row locks leaves transactions
\* waiting for each other, and no error path keeps a lock.
RequestsAnswered == \A r \in Requests : <>(pc[r] \in Answered)

----------------------------------------------------------------------------
(* The inductive invariant behind these properties *)

\* An open request holds the locks its next statements rely on.
LockInv ==
    \A r \in Requests :
        /\ pc[r] \in InFlight => pLock[User(r)] = r
        /\ pc[r] \in {"admitted", "flushed"} => Player(r) \in Players
        /\ pc[r] = "flushed" => mLock[Player(r)] = r

\* What a request has to give: points to buy with, shares to sell.
Means(r) ==
    IF job[r].kind = "buy" THEN points[User(r)]
    ELSE owned[User(r)][Player(r)][Dir(r)]

\* What an open request has read is still the committed value.
SeenInv ==
    \A r \in Requests :
        /\ pc[r] \in InFlight => seen[r].points = points[User(r)]
        /\ pc[r] \in {"admitted", "flushed"} =>
              /\ seen[r].owned = owned[User(r)][Player(r)][Dir(r)]
              /\ Amount(r) <= Means(r)

\* The pending writes of a trade are the committed rows moved by the trade.
WritesInv ==
    \A r \in Requests : pc[r] = "flushed" =>
        LET w == writes[r]
        IN  /\ w.points = Stored(points[User(r)] + w.cash)
            /\ w.owned = owned[User(r)][Player(r)][Dir(r)] + w.shares
            /\ w.q = q[Player(r)][Dir(r)] + w.shares
            /\ w.q >= -Dust
            /\ job[r].kind = "buy" =>
                  w.cash = -Amount(r) /\ w.shares \in ShareOutcomes \ {0}
            /\ job[r].kind = "sell" =>
                  w.shares = -Amount(r) /\ w.cash \in RefundOutcomes

\* A run updates, and keeps locked, only markets below its target.
RecalInv ==
    \A w \in Workers, p \in Players :
        /\ mLock[p] = w \/ p \in wTodo[w] =>
              wpc[w] = "updating" /\ wSeen[w].b[p] < wTarget[w]
        /\ mLock[p] = w => \A d \in Dirs : ScaledQ(w, p, d) >= -Dust

\* With trades and recalibration kept apart, a run's snapshot stays current.
QuietInv ==
    QuietRecalibration => \A w \in Workers : wpc[w] = "updating" =>
        /\ NoTradeRuns
        /\ \A v \in Workers : wpc[v] = "updating" => v = w
        /\ wSeen[w].q = q /\ wSeen[w].b = bMin /\ wTarget[w] \in Targets
        /\ \A p \in Players :
              bMin[p] < wTarget[w] <=> mLock[p] = w \/ p \in wTodo[w]

\* What every step keeps: open requests work on current rows under their locks,
\* and balances, positions and markets agree with the ledger and the dust buffer.
IInv ==
    /\ TypeOK
    /\ LockInv /\ SeenInv /\ WritesInv
    /\ RecalInv /\ QuietInv
    /\ LedgerMatchesPositions /\ BalanceFollowsLedger /\ DustBufferHolds
=============================================================================
