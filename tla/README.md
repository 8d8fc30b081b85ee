# LineUp: TLA+ models and proofs of the backend

LineUp is a football market: users buy and sell UP and DOWN shares of players,
prices follow an LS-LMSR market maker, custom tournaments compare what users
earned, and Celery workers keep fixtures, ratings, squads and liquidity up to
date. The backend is a FastAPI application and a set of Celery tasks over one
PostgreSQL database; Redis holds caches, one-time tickets and a pub/sub channel.

The interesting correctness of this code is in its transactions: which rows are
locked, what is read before a lock or an `await` and used after it, what one
commit contains, and what is left when a step fails. Those are modelled here as
TLA+ modules, checked by TLC on small instances, and, for the safety properties,
proved with TLAPS for all values of the constants.

Paths below are relative to the repository.

## 1. Inventory

| Component | Source | State it keeps | Operations | Module | Status |
|---|---|---|---|---|---|
| Trading engine | `app/core/trading.py`, `app/api/trade.py` | `portfolios`, `positions`, `trades`, `lmsr_market_state`, `rating_history` | buy, sell (preview reads only) | `Trading`, `AtomicMarket` | modelled |
| Liquidity recalibration | `app/workers/calibration.py` | `b_min`, `q_up`, `q_down`, `liquidity_config` | one batch over all markets | `Trading` | modelled |
| Tournaments | `app/api/tournament.py`, `app/workers/tournaments.py` | `tournaments`, `tournament_members`, `tournament_snapshots` | create, join, activate, freeze | `Tournaments` | modelled |
| Accounts | `app/dependencies.py`, `app/api/webhooks.py` | `users`, `portfolios` | provisioning, user.created/updated/deleted | `Accounts` | modelled |
| Oracle update | `app/workers/oracle_update.py`, `app/core/oracle.py` | `player_match_ratings`, `oracle_rating`, `rating_history` | one run over the newly finished fixtures | `OracleUpdates` | modelled |
| Squad import | `app/workers/player_import.py` | `players`, markets, seed ratings | import, sync of new players | `SquadImport` | modelled |
| Fixtures, match ratings | `app/workers/fixture_sync.py`, `player_import.py` | `fixtures`, `player_match_ratings` | daily upsert, daily refresh | `MatchData`, `OracleUpdates` | modelled |
| Oracle formulas | `app/core/oracle.py`, `app/services/sportmonks.py` | none | three layers, parsing of statistics | `OracleFormulas` | modelled |
| Liquidity-floor cache | `app/services/redis_cache.py`, `app/core/lmsr.py` | `user_count_cache`, `lmsr_b_floor` | read through, refresh | `FloorCache` | modelled |
| Volatility tiers | `app/services/redis_cache.py`, `app/core/lmsr.py`, `app/api/market.py` | one key per player | compute, deferred write | `VolatilityTiers` | modelled |
| Valuation, snapshots | `app/core/portfolio.py`, `app/api/portfolio.py`, `app/workers/snapshot.py`, `app/api/leaderboard.py` | `portfolio_snapshots` | total value, hourly snapshot, leaderboard | `Valuation`, `Tournaments` | modelled |
| Waitlist | `app/api/waitlist.py` | `waitlist_signups` | join, refer | `Waitlist` | modelled |
| LS-LMSR formulas | `app/core/lmsr.py`, `app/core/calibration.py` | none | cost, rating, shares for a budget | as inputs of `Trading`; floor and tiers in full | partly |
| Sportmonks client | `app/services/sportmonks.py` | none | HTTP; parsing | parsing in `OracleFormulas`, else an answer or a failure | partly |
| Reads | `app/api/market.py`, `fixtures.py`, `leaderboard.py` | none | queries | their tier writes and the leaderboard values | partly |
| Beat schedule | `app/workers/celery_app.py` | none | periodic tasks | justifies overlap and repetition; ticks and days of `MatchData` | partly |
| Schema | `alembic/`, `app/models/` | constraints | | guards of the models | partly |
| Rating feed | `app/services/redis_pubsub.py`, `app/api/websocket.py` | tickets, subscriptions | ticket, connect, publish | | not modelled |
| Watchlist | `app/api/watchlist.py` | `watchlist` | add, remove | | not modelled |
| Auth, shell, settings | `app/core/auth.py`, `app/main.py`, ... | key set cache | token verification | | not modelled |
| Operations scripts | `scripts/`, `deploy.sh` | | by hand | | not modelled |

**How the components interact.** Everything meets in PostgreSQL rows. A trade
locks its portfolio row and then its market row. Recalibration and the oracle
task write market rows they read without a lock. Tournaments read portfolios,
positions and markets to value a user. Accounts create the portfolio row trades
lock. The squad import flips `is_active`, which `execute_buy` reads, and inserts
the markets that are traded. The fixture synchronisation and the refresh of match
ratings decide which fixtures the oracle task sees. Every trade takes its
liquidity floor from Redis, which the floor refresh and other trades fill. Redis
is otherwise written after (or, in the oracle task, before) the commit and
nothing depends on its answer.

**What is hard.** Requests run concurrently in the event loop and in several
processes; `docker-compose.yml` starts the Celery worker with `--concurrency=4`
and `celery_app.py` sets late acknowledgement, so a task may run twice or
overlap itself. Endpoints are READ COMMITTED, the tournament tasks REPEATABLE
READ. A dependency (`get_db`) closes the session without a commit, so every
handler has to commit itself. Webhooks are delivered at least once and in any
order. Stored amounts are rounded to the scale of their column.

**What makes each component correct.**

- Trading: positions, balances and the ledger of trades agree; a market can
  absorb every position in it; `q` never passes the dust buffer; trades behave as
  if executed one at a time; every request is answered.
- Tournaments: a starting value is locked once, at one instant for all members;
  a board is final, has a place for everybody who was in time, and ranks by
  profits of one instant; a tournament starts and ends.
- Accounts: a user row has exactly one portfolio; nothing resets a balance; each
  event is processed in the end.
- Oracle: a fixture is rated wholly or not at all (up to the first entry whose
  computation raises); a published rating rests on
  committed ones; prices are not touched (INV-09); nobody waits for ever.
- Squad import: markets are initialised once; the clean-up of a league relies on
  committed players, spares those just imported and never empties a league.
- Match data: nothing is stored before the end of a match; a finished fixture is
  reopened only by a run it overlaps, and leaves the look-back unprocessed only
  through failures; in the end a match keeps its own rating.
- Oracle formulas: a rating lies within its evidence, treats "less is better" as
  the mirror of "more is better", and is monotone in what it is computed from.
- Floor and tiers: what is cached was true within a lifetime that can be named.
- Valuation: what is reported is what selling would fetch.
- Waitlist: places stay within the queue; a referral needs a signup.

`PROJECT.json` lists every hazard with its source line and the properties that
would catch it. Section 5 has those no property covers.

## 2. Modules

| Module | Contents |
|---|---|
| `Trading` | requests, recalibration runs and their shared rows; properties; `IInv` |
| `AtomicMarket` | abstract specification: trades and recalibrations, one atomic step each |
| `TradingProofs` | theorems about `Trading`, and its refinement of `AtomicMarket` |
| `Tournaments`, `TournamentProofs` | endpoints and beat tasks of tournaments; theorems |
| `Accounts` | provisioning and webhook events |
| `OracleUpdates`, `OracleProofs` | oracle runs, with recalibrations and trades as lock holders; theorems |
| `OracleFormulas` | the three layers of an oracle rating as exact rationals, on parsed statistics |
| `SquadImport` | both squad tasks as sessions, against trades |
| `MatchData` | the three tasks that write fixtures and match ratings, over days and ticks |
| `SyncProofs` | theorems about `SquadImport` and `MatchData` |
| `FloorCache` | user count and floor in Redis, command by command |
| `VolatilityTiers` | tiers of a set of rows and their cache |
| `CacheProofs` | theorems about `FloorCache` and `VolatilityTiers` |
| `Valuation` | total value, snapshot and leaderboard as reads of several statements |
| `Waitlist` | overlapping joins |
| `AccountProofs` | theorems about `Accounts` and `Waitlist` |
| `Sums` | lemmas about sums over finite sets, with the inductions they rest on |
| `ValueProofs` | theorems about `Valuation` and `OracleFormulas` |
| `MCTrading`, `MCTournaments`, `MCAccounts`, `MCOracleUpdates` | constants and symmetry for TLC |
| `MCServices` | one instance of each of the seven modules that share no rows |

No module that is proved about uses a RECURSIVE operator. In every module an
operator whose comment begins "Mutant of" is a plausible error in the definition
that follows it: exchanging the two must break a property (`PROJECT.json`,
`mutants`), and does. Nothing else refers to them.

### The transaction model

One action is the code between two points at which another transaction could
tell the difference: a statement that may wait for a row lock, a plain SELECT
whose result is used later, a commit. A row lock is a variable that names its
holder (`pLock`, `mLock`, `rLock`, `lock`) and is released when the session
ends. Flushed but uncommitted values are kept apart from the tables (`writes`,
`own`) and appear at the commit. An UPDATE sends the columns the ORM saw
change, so a stale column that is not sent is not overwritten, and one that is,
is.

### Trading

`job` and `pc` follow a request through `execute_buy` or `execute_sell`:

| `pc` | Code | Action out of it |
|---|---|---|
| `arrived` | before `SELECT portfolio FOR UPDATE` | `LockPortfolio` |
| `locked` | portfolio read; player, activity, funds or position tested | `AdmitBuy`, `AdmitSell`, `RefuseBuy`, `RefuseSell` |
| `admitted` | before `SELECT market FOR UPDATE` | `FlushBuy`, `FlushSell`, `RefuseZeroShares`, `RefuseDust` |
| `flushed` | `db.flush()` done | `Commit` |
| an answer | the session is closed | |

`Abort` loses a connection at any point before the commit. A sell never looks at
`is_active`: only a buy does. A recalibration run (`wpc`) reads all markets
without a lock (`RecalRead`), UPDATEs those below its target in key order
(`RecalUpdate`) and commits (`RecalCommit`); the CHECK on `q` or a crash rolls
it back.

Amounts are integers in ledger units, with `Stored` the rounding of the
portfolio column (half away from zero) and `Rescaled` the `Decimal.quantize` of
a scaled `q` (half to even). `StoredB` is the same quantization of `b_min`, in
units of `BStep`: a target rounded down is found below itself again by the next
run, which then scales once more. The row of `liquidity_config` is updated and
committed with the markets; its lock is left out because only recalibration runs
take it, all in the same order. The LS-LMSR formulas are real-valued; a buy obtains
any number of shares of a set and a sell any refund of a set, so nothing depends
on the prices.

`QuietRecalibration` separates two questions. With TRUE, a recalibration runs
only when no trade is in flight, as if operators paused trading: the engine then
implements `AtomicMarket`. With FALSE, the shipped behaviour, it overlaps
trades; the ledger properties still hold and `q` may lose trades.

### Tournaments

Each tournament has a phase of time (`clock`), a `status` and members with a
`starting` value. A join is three reads and an insert (`JoinRead`, `JoinPoints`,
`JoinPositions`, `JoinInsert`), each of which sees the rows of its own moment. A
task takes a snapshot at its first statement (`TaskReads`), values the members
from it (`TaskValues`) and ends in `Activate` or `Freeze`, or in
`TaskConflicts` when a row it must update has changed. A user is worth `cash`
plus `stock`; trades and price moves, which `Trading` models, are the
environment. `worths` remembers every committed vector of values, so that
"computed at one instant" can be stated.

`punctual` remembers who was a member when the time of a tournament ran out:
they are owed a place on the board. A join that read "active" may insert later,
and then has a place only if the freeze still reads it (section 5).

`ActivationCommits` is FALSE for the shipped code: the activation only flushes
and the Celery wrapper closes its session without a commit. TRUE is the same
code with a commit by the caller, as a reader of the freeze, which commits, would
expect it. The properties after an activation are checked and proved for both values;
the run `tournament_never_active` shows what FALSE means.

### Accounts

A handler serves one call: a first request or a delivery of an event. `Lookup`
and the upsert of `get_current_user` are separate steps, and so are the upsert,
the SELECT and the INSERT of the webhook's portfolio; the row lock of the upsert
holds in between. A user claims names, an address and a username, each unique
in `users`; an upsert whose name belongs to another row fails. `Redeliver` is
Svix, `Spend`, `FoundTournament` and `RankMember` the rest of the application: the
last two insert rows that refer to a user without a cascade.

### OracleUpdates

`tpc`, `cur` and `at` follow a run through the fixtures and their lineup
entries: `ReadRow` decides between INSERT and UPDATE of the match rating, `Rate`
flushes it and computes the oracle rating, `UpdateMarket` flushes the market
row, `Commit` ends the run if some fixture was completed with an update.
`HitsDuplicate` is the unique constraint, `EntryRaises` the exception that the
loop swallows, `Fails` any other failure. `Malformed` marks entries whose
statistics raise: the client copies several of them unconverted. What such a
fixture has flushed by then stays in the session and is committed with the next
ones (`oracle_update.py:257`). Which fixtures
are "newly finished" is left open at each run. A rating is the set of fixtures
it was computed from, the five newest of the player (`Newest`; more than five
exist only beyond the instance of TLC, where the proofs hold), and `q` the number
of trades it contains. The recalibration and the trades appear with their locks
on market rows; `DetectorAborts` is PostgreSQL's deadlock detector.

### OracleFormulas

`AddMatch` is a match that enters the five newest of a player, `Collect` the
statistics of a peer as the client returns them: `Parsed` loses a total of 0
where the code takes `total or ...` (`sportmonks.py:268`). `Reprocess` is a match
that is processed again: its row takes the new value and the first place. The
`Pool` of a percentile is the peers the lineup puts in the group of the rated
player; the code looks that group up under his *stored* position, so he may be
outside it, and the pool may be empty. Layer 1 renormalises
its weights over the matches that have a rating, layer 2 over the statistics
that are present; percentiles count ties half. All are exact rationals. The
statistics are collected only where no match has a rating, since the code does
not look at them otherwise.

### SquadImport

A run is a session: `mine` is what it sees of `players`, `fresh` the markets it
has inserted, `broken` that a flush has failed, after which every statement
raises. The import collects a group per league (`CollectLeague`), upserts it
(`ImportPlayer`, or `SkipPlayer` when the loop swallows an exception), commits
(`CommitLeague`) and deactivates the others of the league in a transaction of its
own (`CleanUp`). The synchronisation commits once. `RunAborts` is everything that
ends a run: an exception outside the loop, the commit of a broken session, a lost
worker. Trades of other sessions (`BuyOrSell`) move committed markets.

### MatchData

Three tasks of the beat write about a match. `sync_fixtures` fetches a league
(`SyncFetches`), later writes what it has fetched into its session (`SyncStores`)
and commits at the end; its rows carry the time of its start (`syncAge`). A match
may end, and its row be inserted by the refresh, between the fetch and the write:
the write does not look at the status it replaces. `_STATUS_MAP` has more ways to
be finished than `FINISHED_STATE_IDS` of the refresh: "decided" stands for those
the refresh passes over. `refresh_match_ratings` fetches per team and commits per team; rows
it inserts while the synchronisation has an uncommitted one make it wait for the
unique key (`RefreshStores`) and then fail (`RefreshAborts`). The check is one
step, its details are in `OracleUpdates`. Time has two scales, since the tasks
have: a tick is ten minutes, and a day passes when its daily tasks have run and
no row is within the look-back of twenty minutes.

### FloorCache, VolatilityTiers

Both count ticks of the lifetime of a key. `ago` (`right`) remembers how long ago
each user count (tier) was true, so that "stale by at most" can be stated. A call
of `get_b_floor` is at `count`, `query`, `cache` or `floor`, one Redis command or
query each, and may be passed by others at any of them; `refresh_b_floor` begins
with its DEL. Tier writes are tasks that run after the answer: `pending` is the
set of those that wait, with the tier each has computed and its age. Any number
may wait (`MaxTasks` bounds them for TLC; the theorems do not need it), and they write
in any order. One key stands for each player's, because no command reads two.

### Valuation

Each read takes two or three statements, in the order of the code (the snapshot
reads positions before markets, the leaderboard after). Trades and deletions
happen between them. The price of a trade depends on `b`, and `b` on the shares
outstanding at that trade, so what a sale fetches depends on the order of the
trades before it; the cost is the LS-LMSR cost up to its second order. `movers`
are the users who traded, or were deleted, since the read began, `instants` the
vectors of what selling would have fetched everybody at each moment since.
`BFloor` is the floor trades apply and valuations do not.

### Waitlist

`PassDuplicate`, `CountSignups`, `ReadReferrer`, `CommitJoin` are the four
statements of a join; the referrer is written back as it was read.

### MCServices

Squad import, match data, formulas, floor, tiers, valuation and waitlist share no
state with each other as modelled, so one run holds all seven: `part` says which of them moves, and the
others rest in one initial state. Their state spaces are added, not multiplied.

## 3. Runs

| Run | Kind | Checks | Shows |
|---|---|---|---|
| `trading_quiet` | pass | `IInv`, `MarketCoversPositions`, `TradesAreAtomic` | three requests of two users and a recalibration kept apart: locking makes them serial, and everything held could be sold |
| `trading_overlap` | pass | `LedgerMatchesPositions`, `BalanceFollowsLedger`, `DustBufferHolds`, `RequestsAnswered` | two overlapping recalibrations cannot break the ledger or the dust buffer, no lock order blocks requests, no error path keeps a lock |
| `trading_lost_buy` | violation | `SellAlwaysPermitted` | a recalibration overwrites a buy, whose owner cannot sell |
| `tournament_runs` | pass | `FrozenBoardIsConsistent`, `StartIsLocked`, `FrozenIsFinal`, `ActivatedAtOneInstant` | two task processes, joins and trades around one tournament |
| `tournament_lifecycle` | pass | `TournamentsStart`, `TournamentsEnd` | if the activation commits, every tournament starts and ends |
| `tournament_never_active` | violation | `TournamentsStart` | with the shipped wrapper none ever starts |
| `accounts` | pass | `PortfolioUnlessUpdated`, `PortfolioCheckStaysValid`, `BalanceNeverReset`, `EventsProcessed` | requests and events in any order, delivered again and again: user and portfolio come and go together unless a `user.updated` arrives, and every deliverable event is processed |
| `account_without_portfolio` | violation | `UserHasPortfolio` | `user.updated` first, or after a deletion, makes a user without a portfolio |
| `oracle_update` | pass | `WholeFixtures`, `PricesUntouched`, `OracleFromCommitted`, `NobodyWaitsForEver` | two overlapping runs, a recalibration and a trade |
| `services` | pass | four properties of `SquadImport`, four of `MatchData`, four of `OracleFormulas`, two each of `FloorCache`, `VolatilityTiers` and `Waitlist`, one of `Valuation` | the seven services of `MCServices`, with overlaps and failures |
| `fixture_missed` | violation | `EndedIsProcessed` | without any failure, a match that ends after the daily synchronisation is never processed by the check |
| `valuation_floor` | violation | `ValuedAtSale` | while the floor binds, a portfolio is not worth what it is said to be |

The five violation runs are the findings of `PROJECT.json`, each with the line
of the repository it disagrees with. `fixture_missed` and `tournament_never_active`
refute a liveness statement under a specification with fairness; `valuation_floor` and
`trading_lost_buy` differ from a passing run in what their name says: a floor
above `b_min` (`BFloor`), and a recalibration that overlaps a trade
(`QuietRecalibration`).

The properties of `services`, by hazard:

- `TradesSurviveImport`: an import repeated while users trade initialises no
  market again. `ImportedAreCommitted`: a failed flush cannot leave a player in
  `imported_ids` who is not in the database, because the commit of a broken
  session raises. `ImportedStayActive`: a player selected in a run stays active
  whatever fails, but for one case it spells out: his row still names a league he
  has left, and the clean-up of that league takes him for one who was not
  selected (section 5). `NeverDeactivatesEveryone`: league by league, a step of
  the import that deactivates leaves somebody active with a market, but for the
  same case again: all who were imported for the league are in rows of others.
- `NothingBeforeTheEnd`, `OnlyOverlapReopens`, `MissedOnlyByFailures`: three tasks
  that read a match at different times, two of which insert its row. A
  synchronisation may write back a status it fetched before the end, over a row
  inserted as finished since it began; no run reopens a row that was finished
  when it began.
  `RatingsConverge` (liveness): the check overwrites the rating of a match by that
  of the season, and the refresh of the following days restores it, as long as
  fewer runs fail than the window has days less one.
- `OracleWithinEvidence`, `DirectionMirrors`, `BetterIsNotRatedLower`,
  `NewestMatchDecides`: renormalised weights, ties, statistics of which less is
  better, missing ones, a rated player outside the pool, and the match that
  leaves the window or is processed again.
- `FloorIsRecent`, `RefreshRecounts`: how old the user count of a cached floor
  can be, whatever overlaps; and that a refresh whose DEL worked does not restore
  an old count, although another call may refill the key in between.
- `TiersFollowLiquidity` on every set of rows a list may select; `TierWasTrue`:
  late, failed and competing writes leave no tier in the cache that is older than
  a lifetime and a delay. It is the tier among the active players of *some* list;
  that it is the one among all of them is documented and false (section 5).
- `ValuedAtSale`: there is one moment of the read at which all users who do not
  themselves trade before it has everything would have fetched, by selling, what
  they are said to be worth, although others trade what they hold. Of a user who
  trades in between it says nothing: his value may mix two moments.
- `PlacesInQueue`, `ReferralsAreSignups`: what overlapping joins cannot break,
  although they may share a place and lose a referral.

### Bounds, and why they are enough

- *Trading.* `BStep` is 2 in the passing runs (1 in `trading_lost_buy`), and
  `trading_quiet` has the targets 2 and 5, so that one is rounded. Two users and three requests give every pair of conflicts (same
  user, same market, a buy against a sell) with a third to observe the result.
  `Step = 2` makes the portfolio column coarser than the ledger, so rounding
  happens; `Dust = 1` and an initial `q` of 1 and 0 put sells on both sides of
  the dust guard. Requests of `trading_quiet` may name a player who does not
  exist (`Catalog`). Two workers are needed for a stale run to overwrite a newer
  one. `trading_overlap` has one user and two requests, and liveness is checked
  with it; it has two markets, since lock order needs two, but the requests name
  only the second. Its amounts let a run overwrite a buy, the owner then be refused
  a sell of 4 by the dust guard, or sell 3 down to the buffer (`q = -1`) so that
  the other run, with twice the target, meets the CHECK. `SetActive` flips the flag
  of players in `Catalog` only: no other flag is read.
- *Tournaments.* Two tasks cover activate against activate and against freeze;
  `MaxMoves = 2` lets a value change between two reads and once more afterwards;
  `MaxCrashes` bounds lost runs, which fairness could not. Of the four users one
  founds the tournament and does not play, two have portfolios, and a fourth asks
  to join without one; two requests let one of them come late.
- *Accounts.* Two users, who may share an address and a username, and three calls:
  one that creates, one that disturbs, one that deletes or repeats. One of the
  users may found a tournament or be ranked in one, which blocks his deletion.
- *Oracle.* Two fixtures whose lineups lead to opposite lock orders across a
  run, a player without a market, one without a row and one that makes the
  computation raise between two entries that do not. One trade (`MaxTrades`) is enough to be lost.

- *Squad import.* Two leagues with a team each and two players are enough for a
  player who changes leagues, for a group whose first or second player fails, and
  for a clean-up that would meet a player of the other group; `MaxTrades = 1`
  trade can be lost.
- *Match data.* One fixture with two teams (so that the refresh sees it twice),
  `Lookback = 2` ticks as in the code, `DaysBack = 3` in place of seven, and
  `MaxFailures = 1` failure of the refresh, the most after which three days still suffice:
  the check may hit the rating on the day of the match and on the next. With more
  fixtures of one run nothing new meets but `seenFixtures`. In `fixture_missed`
  nothing fails.
- *Formulas.* Three grades and every sequence of five newest matches; three peers,
  of whom two are the pool and all three are rated, and two statistics (one of which less is better and whose 0 is lost), three values.
- *Floor.* Two calls, one of them a refresh, `TTL = 2` and `Delay = 1` tick: a call
  may begin before and end after another, and a key expire within one. The
  theorems hold for all numbers of them.
- *Tiers.* Four players, two levels: populations below three, ties, and thirds
  that do not divide four; one filter, which leaves out a player; `MaxTasks = 2`
  writes that wait at once, with `WriteDelay = 1` and `TierTTL = 1`.
- *Valuation.* Two users, two markets, `MaxShares = 2` outstanding shares of each
  and `MaxMoves = 4` trades and deletions: one user can buy, the other buy beside
  him, and one of them sell during a read of both. `BMin = 1`; `BFloor` is 1 where
  it must not bind and 4 in `valuation_floor`. 64 forty-eighths of a point pay for
  two shares.
- *Waitlist.* Three addresses and three joins: two referrals of one referrer at
  once, and a third join that has counted before both.

Symmetry is used on users, requests, tasks and handlers in safety runs only,
where no constant names one of them.

`CHECK_DEADLOCK FALSE` stands where the modelled calls are finite and the system
then rests (tournaments, accounts, waitlist and trades of `services`), and in the oracle run, whose lock
waits are the subject of a liveness property. In `Trading` the squad
synchronisation can always act, so TLC's deadlock check would say nothing there.

### Fairness

Weak fairness on the steps of a request, of a recalibration run and of a task
process: the event loop and the Celery pool run what is ready. Strong fairness
on steps that need a row lock others keep taking (accounts, oracle):
PostgreSQL serves the waiters of a row in the order they came, so a statement
that finds its row free again and again is not passed over for ever. Beat starts
a task again and again, and some of those runs are not lost, hence strong
fairness on `TaskReads`. Svix repeats a delivery that failed, hence fairness on
`Redeliver`, and strong fairness on the steps of a delivery says that its
connection is not lost at every attempt. The deadlock detector is fair. In
`MatchData` the beat sends its tasks, workers run them, days pass and a match
that is played ends and is rated: weak fairness on `Tick`, `Check`, `NextDay`, the
steps of both tasks and on the course of a match that has begun. No
failure, crash, trade or arrival is ever owed.

## 4. Theorems

All are proved from the named assumptions on the constants (disjoint process
names, amounts that are naturals, finite sets of users, peers and statistics) and
hold for any number of users, requests, tasks, fixtures and markets. Some state
a further hypothesis, and a run shows why it is needed: `QuietRecalibration` (no
recalibration overlaps a trade) for `TradesSerializable`, `MarketsCover` and
`SellsNeverRefused`, where `trading_lost_buy` is the counterexample; no
`user.updated` for `PortfolioForEveryUser` (`account_without_portfolio`);
`BFloor <= BMin` for `AlwaysValuedAtSale` (`valuation_floor`). Every safety property and every action property of a passing
run is a theorem. Each follows from an inductive invariant. Those of trades,
tournaments and oracle runs are called `IInv`; that of `Trading` is checked by a
run as well. Those of the services are in their proof modules.

**Sums and induction** (`Sums`). Several properties add up positions, lots
or weights with `SumFunctionOnSet`, a recursive function over the
subsets of a set. The induction rules of the library take an operator as a
parameter and cannot be instantiated here, so `SetInduction` and `UpFromZero` say
the same of a *set*: one that holds the empty set, and each set that it holds
without one of its elements, holds every finite set. They rest on the
well-foundedness of strict inclusion and of `<`, both in the library.
`SumExists` and `SumUnique` show that the recursion has one solution, and `SumApart`
that the order in which it takes the elements does not matter; the other lemmas
(monotone, equal term by term, changed in one term, zero) follow by
induction. `TotalsInduction` and `RatedUpTo` in `ValueProofs` do the same for totals
of rationals, of which no order need be shown irrelevant, and for the list of the
ratings of a window.

- **Trading** (`TradingProofs`). `IInv` adds to the ledger properties that an
  open request holds the locks of what it has read (`LockInv`), that what it has
  read is still the committed value (`SeenInv`), that its pending writes are the
  committed rows moved by one trade (`WritesInv`), and that a recalibration keeps
  only markets below its target (`RecalInv`). Without `SeenInv`, "positions equal
  the ledger" is not inductive: the commit writes an absolute number of shares.
  `TypeCorrect`, `LedgerCorrect`, `BalanceCorrect` and `DustCorrect` hold whatever
  recalibrations overlap. `TradesSerializable` proves the refinement: with
  `QuietRecalibration`, `Spec` implements `AtomicMarket!Spec` under the mapping of
  `Atomic == INSTANCE AtomicMarket WITH points <- points, ...`, which shows the
  abstract market the committed tables and hides locks, program counters and
  pending writes; `QuietInv` says that a run's snapshot stays current.
  `MarketsCover` rests on the refinement: every step is one of the abstract market,
  whose trades move `q` and one position by the same amount (`TradeKeepsCover`) and
  whose recalibrations scale a `q` up (`RecalibrationKeepsCover`). `SellsNeverRefused` is its
  consequence for the dust guard, the documented promise of
  `app/core/trading.py` with the condition it needs.
- **Tournaments** (`TournamentProofs`). `IInv` says that a running task's snapshot
  is one committed state (`SnapInv`), that a freeze has in its snapshot everybody
  who was punctual, that these stay members (`PunctualStay`), and that only
  completed tournaments have a board. From it `StartLocked`, `FrozenFinal` and `ActivatedTogether` (action
  properties) and `BoardsConsistent`; the last needs `SnapshotRowsAreRanked`,
  a lemma about what a freeze writes, with a counting argument.
- **Accounts** (`AccountProofs`). `PortfolioForEveryUser` is about the users of
  whom no `user.updated` arrives, the exact condition the violation run shows to be
  needed; `CheckStaysValid` and `BalanceKept` need no such condition.
- **Oracle** (`OracleProofs`). `IInv` says that a run holds the locks of what it
  has flushed, that of each fixture it has flushed nothing, what it can reach
  (everything, or all up to the first entry that raises), or what comes before the
  current entry (`OwnInv`, `EntryInv`), that computed ratings rest on
  ratings the run sees (`FromInv`), and that a locked market's pending `q` is the
  committed one (`VersionInv`). `FixturesStayWhole`, `PricesStayUntouched` and
  `OraclesRestOnCommitted` follow. The heart of the first is that what is reached in
  a fixture is the same in every run, so that a commit adds it to nothing or to
  itself; a fixture with an entry that raises is kept up to that entry.

- **Squad import** (`SyncProofs`). `AlwaysTradesSurviveImport`,
  `AlwaysImportedAreCommitted`, `AlwaysImportedStayActive` and
  `DeactivatesNotEveryone`. `SquadInv` says that between two upserts a session
  equals the tables unless it is in a synchronisation (`StageInv`), that an import
  only adds until its clean-up and that everybody imported has an active row and a
  market in it (`ImportInv`), and that the group of a league is used up once
  upserted (`DoneInv`): no later clean-up in the run is of that league. The last
  is what makes `ImportedStayActive` inductive.
- **Match data** (`SyncProofs`). `AlwaysNothingBeforeTheEnd`,
  `AlwaysMissedOnlyByFailures`, `OnlyOverlapsReopen`. `EndInv` extends the first
  to what a task has fetched or flushed and not committed; `SyncInv` says that no
  synchronisation holds an earlier status of a fixture whose row was finished when
  it began; `MissInv` counts a check for every
  tick since the commit of a row but the one that is due.
- **Liquidity floor** (`CacheProofs`). `AlwaysFloorIsRecent` and
  `AlwaysRefreshRecounts`, for any number of calls and any lifetime. The invariant
  gives each place a value can be (key, call, floor) an age it cannot exceed, by
  the time left of the key or the time since the call began. `DropInv` covers the
  refill of the key after a DEL: it can only come from a call that counted less
  than `Delay` before.
- **Volatility tiers** (`CacheProofs`). `AlwaysTierWasTrue` and
  `AlwaysTiersFollowLiquidity`, for any number of waiting writes. `AgeInv` says that
  each tier on its way to the cache was right when it was computed, and one in the cache within the delay of its write and
  the time the key has lived. The second is a counting argument about the two cuts
  of the sorted rows, for any number of them.
- **Waitlist** (`AccountProofs`). `AlwaysPlacesInQueue` and
  `AlwaysReferralsAreSignups`. What a join has read stays within what there is now
  (`ReadInv`); somebody is first because no request has read another place for
  the signup that was alone (`FirstInv`).
- **Valuation** (`ValueProofs`). `AlwaysValuedAtSale`, for `BFloor <= BMin`
  (`FloorNeverBinds`: both sides then take the same `b`). Of a user who has not moved
  a read knows what is still true (`SeenInv`); the markets it has read are those of
  a moment in `instants`, and with them the positions of all who have not moved
  are theirs at that moment, whether read before or after (`ValuedInv`).
- **Oracle formulas** (`ValueProofs`), for any weights, statistics, lineup and
  history. `FormulaInv` gives the types and the limit of the window.
  - `AlwaysWithinEvidence`: the renormalised average of one to five ratings lies
    between two of them; each percentile lies between 4 and 9 because those below
    and those level are disjoint, and `PartKeepsBounds` carries the bounds through
    the total of rationals.
  - `AlwaysNewestMatchDecides`: `RatedAfter` shows what the query's limit keeps of a
    window with unrated matches in it, `RatedMoved` what a match processed again does
    to it; what is left is nine inequalities between
    averages of up to five ratings.
  - `AlwaysBetterIsNotRatedLower`: whoever is below or level with the worse of two
    peers is below the better, so ranks are monotone, over one denominator.
  - `AlwaysDirectionMirrors`: those below, level and above make up the pool
    (`SidesAreAll`), so the two ranks of an amount add up to twice its size, and
    where all are level, or nobody is in the pool, both ratings are 6.5.

**Only model-checked.** The liveness properties (`RequestsAnswered`,
`TournamentsStart`, `TournamentsEnd`, `EventsProcessed`, `NobodyWaitsForEver`,
`RatingsConverge`): the provers do not reach fairness. The violations, which are
counterexamples.

## 5. Divergences and limits met while modelling that have no run of their own

Trades and recalibration:

- The "one-way ratchet" of `b_min` (`app/workers/calibration.py:7`, `:80`) can be
  undone by two overlapping runs with different targets: the later commit writes
  the target of the older count.
- A buy that read `is_active` (`app/core/trading.py:140`) before a squad
  synchronisation deactivates the player commits after it; close-only is not
  enforced at the commit.
- `publish_rating_update` is said to swallow its failures
  (`app/services/redis_pubsub.py`) but has no except clause, and the oracle task
  publishes before its commit (`app/workers/oracle_update.py:208`): a client may be
  told of a rating that is then rolled back.

Tournaments and accounts:

- A join of an active tournament reads points and positions in two statements;
  a trade in between gives a starting value the user never had.
- A join that read "pending" keeps its placeholder 0 if the activation commits
  before its insert (`app/api/tournament.py:257`; the comment at `:220` says the
  placeholder is overwritten): its whole portfolio then counts as profit.
- The cap on open tournaments (`app/api/tournament.py:90`) is a count followed by
  an insert; two concurrent creations both pass it.
- A join that read "active" may insert after the freeze: the member of the
  completed tournament is then in no board. `FrozenBoardIsConsistent` is about those
  who were members when the time ran out.
- `get_current_user` overwrites an address a webhook has just written by the
  placeholder address when it provisions without an address in the token, and a
  token that outlives its account creates the user a `user.deleted` has just
  removed (`app/dependencies.py:63`).
- `user.deleted` fails for ever for a user who founded a tournament or is ranked in
  a frozen one (the foreign keys have no cascade), although `AUTH.md:62` describes
  the deletion; and an event that brings an address or username another row holds
  fails for as long as that row does. `EventsProcessed` excludes exactly these. It
  also assumes that Svix repeats a failed delivery without end, which is more
  than Svix promises.
- Watchlist handlers flush and never commit (`app/api/watchlist.py:55`, `:73`), and
  `get_db` closes the session (`app/dependencies.py:23`): nothing is stored.

Match data and squads:

- A synchronisation that fetched a league before a match ended writes "live" over
  the "finished" row a refresh has inserted meanwhile (`app/workers/fixture_sync.py:152`):
  the check then passes the fixture over until a later synchronisation.
- An exception that is no database error is swallowed per fixture
  (`app/workers/oracle_update.py:257`), and the ratings flushed before it are
  committed with the next fixtures: a fixture with such an entry is rated up to
  it. `WholeFixtures` states exactly this.
- A player who has changed leagues keeps the league of his old row
  (`app/workers/player_import.py:237`), so the clean-up of that league deactivates
  him though he has just been selected; a league all of whose imports are in rows
  of others loses all its own. Both are the exceptions named in
  `ImportedStayActive` and `NeverDeactivatesEveryone`.
- The lineup position decides the peers of a percentile
  (`app/workers/oracle_update.py:98`), the stored position whose pool a player is
  rated in (`:127`): he may be compared with a pool he is not in, or with nobody.

- An oracle rating may lack a match rating that an overlapping run committed
  while this one waited for the market row (`app/workers/oracle_update.py:159`).
- `sync_new_players` deactivates every player of a league whose squads come back
  empty (`app/workers/player_import.py:529`); only the import is guarded, which is
  why `NeverDeactivatesEveryone` is about the import.
- The client returns a total of 0 as missing (`app/services/sportmonks.py:260-275`),
  which changes the peers a percentile is computed from; no property compares
  those who have a 0 with those who have more. The docstring of
  `percentile_to_rating` (`app/core/oracle.py:88`) describes the fraction of values
  at most as large, the code takes the middle rank of ties; the documented rank is
  the mutant `RankAtMost`, which breaks `DirectionMirrors`, so it is the code that
  the property supports. The ratings of layers 1 and 2 are said to be
  clamped to [3, 10], and layer 1 is not.

Caches and reads:

- Lists with a filter write the tiers among their own rows to the cache
  (`app/api/market.py:312-331`), while `app/services/redis_cache.py:7`,
  `app/core/lmsr.py:241` and `README.md:182` speak of all active players. `TierWasTrue` therefore only says
  that a cached tier was that of some list; with "all active players" in its place
  the list of three in the instance breaks it.
- `get_b_floor` falls back to the floor of `n_min` users when the count fails, the
  docstring (`app/services/redis_cache.py:153`) says to `b_base`; that floor is
  cached for a whole lifetime.
- The trending sort treats a change of exactly 0.0 like a missing history
  (`app/api/market.py:283-288`).
- Overlapping joins of the waitlist may share a place, lose a referral, or move a
  referrer back to a place he has left.

## 6. Not modelled, and why

- Real exponentials and logarithms (LS-LMSR cost, rating, shares for a budget):
  outside TLC's and the provers' arithmetic. Their results are arbitrary members
  of sets in `Trading`, and the cost up to its second order in `Valuation`. The
  rational formulas are modelled exactly.
- Rounding of tournament values, formatting, logging, HTTP details, token
  verification: no property is about them.
- Rating feed: no code of the repository reads a message back, clients reload
  what they show, and delivery and order are those of Redis pub/sub. A ticket is
  one GET and one DEL in Redis; the module would restate them.
- Watchlist: two statements whose effect is never committed (section 5).
- Read-only endpoints but for the values and tiers they compute: they change
  nothing.
- `rating_history`, `updated_at`, trade identifiers, and the Redis messages:
  written and never read back by the modelled code.
- Operations scripts and migrations: run by hand, one at a time.

## 7. What could follow

1. `Trading` with the floor of `FloorCache` as an input that may change between
   two trades of a market: what a round trip can gain.
2. An abstract tournament (pending, active with values, completed with a board)
   implemented by `Tournaments`, and an abstract rating table implemented by
   `OracleUpdates`.
3. A safety form of `RequestsAnswered`, freedom from wait cycles between trades,
   as a theorem.
4. An abstract rating of one number per match and player that both `OracleUpdates`
   and `MatchData` implement.
