--------------------------- MODULE OracleUpdates ---------------------------
(***************************************************************************)
(* The oracle task (app/workers/oracle_update.py): one READ COMMITTED      *)
(* transaction that goes through the newly finished fixtures, writes a     *)
(* match rating for every player of a lineup and, from the ratings of the  *)
(* player, the oracle columns of the market; it commits once, at the end.  *)
(* Between two fixtures it waits for the Sportmonks API with its row locks *)
(* held, so runs overlap each other, the recalibration and the trades.     *)
(*                                                                         *)
(* A rating is what it is computed from: an oracle rating is the set of    *)
(* the fixtures whose match ratings went into it, and q is the number of   *)
(* trades that reached it.  Of the recalibration and the trades only their *)
(* locks on market rows matter here.  The rating_history rows and the      *)
(* messages to Redis are never read back and are left out.                 *)
(***************************************************************************)
EXTENDS Integers, Sequences, FiniteSets

CONSTANTS
    Fixtures,     \* fixtures of the calendar
    Ids,          \* player ids of the lineups: naturals, in the key order of markets
    Players,      \* ids with a player row
    Markets,      \* players with a market row
    Lineup,       \* fixture -> its players, in the order of the API
    Malformed,    \* pairs of player and fixture whose statistics cannot be computed with
    Tasks,        \* processes that run the oracle task
    Recals,       \* processes that run the recalibration
    Traders,      \* trades in progress
    NoTxn,        \* the holder of a free row
    NoFixture,    \* cur of a run between two fixtures
    MaxTrades     \* trades of a market after which none arrives, a bound

ASSUME IdsAssumption == Ids \subseteq Nat /\ Players \subseteq Ids /\ Markets \subseteq Players
ASSUME LineupAssumption ==
    /\ Lineup \in [Fixtures -> Seq(Ids)] /\ Malformed \subseteq Ids \X Fixtures
    /\ NoFixture \notin Fixtures
ASSUME TxnAssumption ==
    /\ Tasks \cap Recals = {} /\ Tasks \cap Traders = {} /\ Recals \cap Traders = {}
    /\ NoTxn \notin Tasks \cup Recals \cup Traders
ASSUME BoundAssumption == MaxTrades \in Nat

VARIABLES
    rated,     \* player_match_ratings: pairs of player and fixture
    oracle,    \* lmsr_market_state.oracle_rating: the fixtures it was computed from
    q,         \* lmsr_market_state.q_up and q_down: the trades they contain
    trades,    \* committed trades of each market
    tpc,       \* where each run is
    todo,      \* fixtures it has not begun
    cur,       \* the fixture it is processing
    at,        \* the lineup entry it is at
    total,     \* whether a completed fixture has updated a market
    seen,      \* the rating it has computed and the q of the market as it read it
    own,       \* its flushed, uncommitted match ratings
    writes,    \* its flushed, uncommitted version of each market row
    rLock,     \* holder of each match-rating row, inserted or not
    mLock,     \* holder of each market row
    cTodo,     \* markets a recalibration has still to update
    cpc,       \* where each recalibration is
    tr         \* where each trade is, and in which market

tables == <<rated, oracle, q, trades>>
run    == <<tpc, todo, cur, at, total, seen, own, writes>>
locks  == <<rLock, mLock>>
others == <<cTodo, cpc, tr>>
vars   == <<tables, run, locks, others>>

Pairs == Ids \X Fixtures
Txns == Tasks \cup Recals \cup Traders

\* The players of a fixture that have a row; the others are skipped.
Expected(f) == {p \in Players : \E i \in DOMAIN Lineup[f] : Lineup[f][i] = p}

NoTrade == [pc |-> "idle", market |-> 0]
NothingSeen == [from |-> {}, q |-> 0]

Init ==
    /\ rated = {}
    /\ oracle = [p \in Markets |-> {}]
    /\ q = [p \in Markets |-> 0] /\ trades = [p \in Markets |-> 0]
    /\ tpc = [w \in Tasks |-> "idle"]
    /\ todo = [w \in Tasks |-> {}]
    /\ cur = [w \in Tasks |-> NoFixture]
    /\ at = [w \in Tasks |-> 1]
    /\ total = [w \in Tasks |-> FALSE]
    /\ seen = [w \in Tasks |-> NothingSeen]
    /\ own = [w \in Tasks |-> {}]
    /\ writes = [w \in Tasks |-> [p \in Markets |-> NothingSeen]]
    /\ rLock = [r \in Pairs |-> NoTxn]
    /\ mLock = [p \in Markets |-> NoTxn]
    /\ cTodo = [c \in Recals |-> {}]
    /\ cpc = [c \in Recals |-> "idle"]
    /\ tr = [t \in Traders |-> NoTrade]

----------------------------------------------------------------------------
(* Runs of the oracle task *)

Entry(w) == Lineup[cur[w]][at[w]]
AtEntry(w) == tpc[w] = "player" /\ at[w] <= Len(Lineup[cur[w]])

\* Mutant of RunEnds: the session stays open after the last statement.
RunEndsUnclosed(w) ==
    /\ tpc' = [tpc EXCEPT ![w] = "idle"]
    /\ todo' = [todo EXCEPT ![w] = {}]
    /\ cur' = [cur EXCEPT ![w] = NoFixture] /\ at' = [at EXCEPT ![w] = 1]
    /\ total' = [total EXCEPT ![w] = FALSE]
    /\ seen' = [seen EXCEPT ![w] = NothingSeen]
    /\ UNCHANGED <<own, writes, locks, others>>

\* The session closes: what it has flushed goes, and so do its locks.
RunEnds(w) ==
    /\ tpc' = [tpc EXCEPT ![w] = "idle"]
    /\ todo' = [todo EXCEPT ![w] = {}]
    /\ cur' = [cur EXCEPT ![w] = NoFixture] /\ at' = [at EXCEPT ![w] = 1]
    /\ total' = [total EXCEPT ![w] = FALSE]
    /\ seen' = [seen EXCEPT ![w] = NothingSeen]
    /\ own' = [own EXCEPT ![w] = {}]
    /\ writes' = [writes EXCEPT ![w] = [p \in Markets |-> NothingSeen]]
    /\ rLock' = [r \in Pairs |-> IF rLock[r] = w THEN NoTxn ELSE rLock[r]]
    /\ mLock' = [p \in Markets |-> IF mLock[p] = w THEN NoTxn ELSE mLock[p]]
    /\ UNCHANGED others

\* check_finished_fixtures: the SELECT of the fixtures that are finished and synced
\* within the look-back.  Any may be: they come and go with the synchronisation.
Select(w) ==
    /\ tpc[w] = "idle"
    /\ tpc' = [tpc EXCEPT ![w] = "next"]
    /\ \E new \in (SUBSET Fixtures) \ {{}} : todo' = [todo EXCEPT ![w] = new]
    /\ UNCHANGED <<tables, cur, at, total, seen, own, writes, locks, others>>

\* The fixture cannot be fetched, or has no lineups.
SkipFixture(w) ==
    /\ tpc[w] = "next"
    /\ \E f \in todo[w] : todo' = [todo EXCEPT ![w] = @ \ {f}]
    /\ UNCHANGED <<tables, tpc, cur, at, total, seen, own, writes, locks, others>>

\* Pass 1 has fetched the statistics; pass 2 begins with the first entry.
StartFixture(w) ==
    /\ tpc[w] = "next"
    /\ \E f \in todo[w] :
          /\ todo' = [todo EXCEPT ![w] = @ \ {f}]
          /\ cur' = [cur EXCEPT ![w] = f]
    /\ at' = [at EXCEPT ![w] = 1]
    /\ tpc' = [tpc EXCEPT ![w] = "player"]
    /\ UNCHANGED <<tables, total, seen, own, writes, locks, others>>

\* total += updated: every player of the lineup with a market was updated.
EndFixture(w) ==
    /\ tpc[w] = "player" /\ at[w] > Len(Lineup[cur[w]])
    /\ tpc' = [tpc EXCEPT ![w] = "next"]
    /\ total' = [total EXCEPT ![w] = @ \/ Expected(cur[w]) \cap Markets # {}]
    /\ cur' = [cur EXCEPT ![w] = NoFixture] /\ at' = [at EXCEPT ![w] = 1]
    /\ UNCHANGED <<tables, todo, seen, own, writes, locks, others>>

SkipUnknown(w) ==
    /\ AtEntry(w) /\ Entry(w) \notin Players
    /\ at' = [at EXCEPT ![w] = @ + 1]
    /\ UNCHANGED <<tables, tpc, todo, cur, total, seen, own, writes, locks, others>>

\* SELECT of the match rating: it decides between INSERT and UPDATE.
ReadRow(w) ==
    /\ AtEntry(w) /\ Entry(w) \in Players
    /\ tpc' = [tpc EXCEPT ![w] =
           IF <<Entry(w), cur[w]>> \in rated \cup own[w] THEN "update" ELSE "insert"]
    /\ UNCHANGED <<tables, todo, cur, at, total, seen, own, writes, locks, others>>

\* uq_pmr_player_fixture: another run has committed the row since the SELECT.
Duplicate(w) == tpc[w] = "insert" /\ <<Entry(w), cur[w]>> \in rated

\* The flush of the match rating goes through: no other transaction holds the row.
FlushRow(w) ==
    /\ tpc[w] \in {"insert", "update"}
    /\ rLock[<<Entry(w), cur[w]>>] \in {w, NoTxn}
    /\ ~Duplicate(w)
    /\ own' = [own EXCEPT ![w] = @ \cup {<<Entry(w), cur[w]>>}]
    /\ rLock' = [rLock EXCEPT ![<<Entry(w), cur[w]>>] = w]

\* The fixtures of the match ratings of p that run w sees: committed and its own.
RatingsOf(w, p) == {f \in Fixtures : <<p, f>> \in rated \cup own[w]}

\* The newest Recent of them: recorded_at is the clock of the run that wrote the
\* row, so which ones are newest is open.
Recent == 5
Newest(S) == {r \in SUBSET S :
    IF Cardinality(S) > Recent THEN Cardinality(r) = Recent ELSE r = S}

\* The match rating is flushed; the oracle rating is computed from the SELECT that
\* follows, and the market row is read, without a lock.
Rate(w) ==
    /\ FlushRow(w)
    /\ <<Entry(w), cur[w]>> \notin Malformed /\ Entry(w) \in Markets
    /\ \E from \in Newest(RatingsOf(w, Entry(w)) \cup {cur[w]}) :
          seen' = [seen EXCEPT ![w] = [from |-> from, q |-> q[Entry(w)]]]
    /\ tpc' = [tpc EXCEPT ![w] = "market"]
    /\ UNCHANGED <<tables, todo, cur, at, total, writes, mLock, others>>

\* No market state: continue.
RateOnly(w) ==
    /\ FlushRow(w)
    /\ <<Entry(w), cur[w]>> \notin Malformed /\ Entry(w) \notin Markets
    /\ tpc' = [tpc EXCEPT ![w] = "player"]
    /\ at' = [at EXCEPT ![w] = @ + 1]
    /\ UNCHANGED <<tables, todo, cur, total, seen, writes, mLock, others>>

\* Mutant of EntryRaises: the handler takes back the ratings of the fixture only.
EntryRaisesDropsRatings(w) ==
    /\ tpc[w] \in {"insert", "update"} /\ <<Entry(w), cur[w]>> \in Malformed
    /\ tpc' = [tpc EXCEPT ![w] = "next"]
    /\ own' = [own EXCEPT ![w] = {r \in @ : r[2] # cur[w]}]
    /\ cur' = [cur EXCEPT ![w] = NoFixture] /\ at' = [at EXCEPT ![w] = 1]
    /\ UNCHANGED <<tables, todo, total, seen, writes, locks, others>>

\* An exception outside the database is logged and the next fixture follows: what
\* the fixture has flushed stays in the transaction, and is not counted in total.
EntryRaises(w) ==
    /\ FlushRow(w)
    /\ <<Entry(w), cur[w]>> \in Malformed
    /\ tpc' = [tpc EXCEPT ![w] = "next"]
    /\ cur' = [cur EXCEPT ![w] = NoFixture] /\ at' = [at EXCEPT ![w] = 1]
    /\ UNCHANGED <<tables, todo, total, seen, writes, mLock, others>>

\* Mutant of QWritten: the whole row is sent, q as it was read.
QAsRead(w) == seen[w].q

\* INV-09: the UPDATE names the oracle columns; q is the one of the latest version.
QWritten(w) == q[Entry(w)]

\* The UPDATE of the market row and the INSERT of the history row.
UpdateMarket(w) ==
    /\ tpc[w] = "market" /\ mLock[Entry(w)] \in {w, NoTxn}
    /\ writes' = [writes EXCEPT ![w][Entry(w)] =
           [from |-> seen[w].from, q |-> QWritten(w)]]
    /\ mLock' = [mLock EXCEPT ![Entry(w)] = w]
    /\ seen' = [seen EXCEPT ![w] = NothingSeen]
    /\ at' = [at EXCEPT ![w] = @ + 1]
    /\ tpc' = [tpc EXCEPT ![w] = "player"]
    /\ UNCHANGED <<tables, todo, cur, total, own, rLock, others>>

Written(w) == {p \in Markets : mLock[p] = w}

\* The single commit, after the last fixture.
Commit(w) ==
    /\ tpc[w] = "next" /\ todo[w] = {} /\ total[w]
    /\ rated' = rated \cup own[w]
    /\ oracle' = [p \in Markets |->
           IF p \in Written(w) THEN writes[w][p].from ELSE oracle[p]]
    /\ q' = [p \in Markets |-> IF p \in Written(w) THEN writes[w][p].q ELSE q[p]]
    /\ RunEnds(w)
    /\ UNCHANGED trades

\* total = 0: no commit.
Discard(w) ==
    /\ tpc[w] = "next" /\ todo[w] = {} /\ ~total[w]
    /\ RunEnds(w)
    /\ UNCHANGED tables

\* A failed flush leaves a session whose every object is expired, and the handler
\* that logs fixture.id raises again: the run is over.
HitsDuplicate(w) ==
    /\ Duplicate(w)
    /\ RunEnds(w)
    /\ UNCHANGED tables

\* Mutant of Fails: the ratings flushed so far are saved.
FailsSaving(w) ==
    /\ tpc[w] # "idle"
    /\ rated' = rated \cup own[w]
    /\ RunEnds(w)
    /\ UNCHANGED <<oracle, q, trades>>

\* Any other statement fails, or the worker is lost.
Fails(w) ==
    /\ tpc[w] # "idle"
    /\ RunEnds(w)
    /\ UNCHANGED tables

----------------------------------------------------------------------------
(* The other writers of market rows *)

\* The UPDATEs of a recalibration, in key order, and its end.
RecalStart(c) ==
    /\ cpc[c] = "idle"
    /\ cpc' = [cpc EXCEPT ![c] = "updating"]
    /\ cTodo' = [cTodo EXCEPT ![c] = Markets]
    /\ UNCHANGED <<tables, run, locks, tr>>

NextMarket(c) == CHOOSE p \in cTodo[c] : \A o \in cTodo[c] : p <= o

RecalUpdate(c) ==
    /\ cpc[c] = "updating" /\ cTodo[c] # {}
    /\ mLock[NextMarket(c)] = NoTxn
    /\ mLock' = [mLock EXCEPT ![NextMarket(c)] = c]
    /\ cTodo' = [cTodo EXCEPT ![c] = @ \ {NextMarket(c)}]
    /\ UNCHANGED <<tables, run, rLock, cpc, tr>>

FreeMarkets(a) ==
    mLock' = [p \in Markets |-> IF mLock[p] = a THEN NoTxn ELSE mLock[p]]

\* Its commit, or a rollback before it is through.
RecalEnds(c) ==
    /\ cpc[c] = "updating"
    /\ cpc' = [cpc EXCEPT ![c] = "idle"]
    /\ cTodo' = [cTodo EXCEPT ![c] = {}]
    /\ FreeMarkets(c)
    /\ UNCHANGED <<tables, run, rLock, tr>>

TradeArrives(t) ==
    /\ tr[t].pc = "idle"
    /\ \A p \in Markets : trades[p] < MaxTrades
    /\ \E p \in Markets : tr' = [tr EXCEPT ![t] = [pc |-> "waiting", market |-> p]]
    /\ UNCHANGED <<tables, run, locks, cTodo, cpc>>

\* SELECT ... FOR UPDATE of the market row.
TradeLocks(t) ==
    /\ tr[t].pc = "waiting" /\ mLock[tr[t].market] = NoTxn
    /\ mLock' = [mLock EXCEPT ![tr[t].market] = t]
    /\ tr' = [tr EXCEPT ![t].pc = "holding"]
    /\ UNCHANGED <<tables, run, rLock, cTodo, cpc>>

TradeCommits(t) ==
    /\ tr[t].pc = "holding"
    /\ q' = [q EXCEPT ![tr[t].market] = @ + 1]
    /\ trades' = [trades EXCEPT ![tr[t].market] = @ + 1]
    /\ tr' = [tr EXCEPT ![t] = NoTrade]
    /\ FreeMarkets(t)
    /\ UNCHANGED <<rated, oracle, run, rLock, cTodo, cpc>>

----------------------------------------------------------------------------
(* PostgreSQL's deadlock detector *)

\* The holder of the row transaction a waits for; NoTxn when it waits for none.
Blocker(a) ==
    CASE a \in Tasks /\ tpc[a] \in {"insert", "update"} -> rLock[<<Entry(a), cur[a]>>]
      [] a \in Tasks /\ tpc[a] = "market" -> mLock[Entry(a)]
      [] a \in Recals /\ cTodo[a] # {} -> mLock[NextMarket(a)]
      [] OTHER -> NoTxn

\* Each member of S waits for another one, and each is waited for.
WaitCycle(S) ==
    /\ S # {} /\ {Blocker(a) : a \in S} = S
    /\ \A a \in S : Blocker(a) # a

\* It aborts a member of a cycle.
DetectorAborts(a) ==
    /\ \E S \in SUBSET Txns : a \in S /\ WaitCycle(S)
    /\ \/ a \in Tasks /\ Fails(a)
       \/ a \in Recals /\ RecalEnds(a)

----------------------------------------------------------------------------
RunStep(w) ==
    \/ SkipFixture(w) \/ StartFixture(w) \/ EndFixture(w)
    \/ SkipUnknown(w) \/ ReadRow(w) \/ HitsDuplicate(w)
    \/ Rate(w) \/ RateOnly(w) \/ EntryRaises(w) \/ UpdateMarket(w)
    \/ Commit(w) \/ Discard(w)

Next ==
    \/ \E w \in Tasks : Select(w) \/ RunStep(w) \/ Fails(w)
    \/ \E c \in Recals : RecalStart(c) \/ RecalUpdate(c) \/ RecalEnds(c)
    \/ \E t \in Traders : TradeArrives(t) \/ TradeLocks(t) \/ TradeCommits(t)
    \/ \E a \in Tasks \cup Recals : DetectorAborts(a)

Spec == Init /\ [][Next]_vars

\* The statements of a transaction go on.  PostgreSQL serves the waiters of a row
\* in order, so a statement that keeps finding its row free is not passed over for
\* ever; and it always ends a cycle of waiters.  No failure is owed.
Fairness ==
    /\ \A w \in Tasks : SF_vars(RunStep(w))
    /\ \A c \in Recals : SF_vars(RecalUpdate(c) \/ (cTodo[c] = {} /\ RecalEnds(c)))
    /\ \A t \in Traders : SF_vars(TradeLocks(t) \/ TradeCommits(t))
    /\ WF_vars(\E a \in Tasks \cup Recals : DetectorAborts(a))

FairSpec == Spec /\ Fairness

----------------------------------------------------------------------------
(* Properties *)

Version == [from : SUBSET Fixtures, q : Nat]
AtRow == {"insert", "update", "market"}

TypeOK ==
    /\ rated \in SUBSET Pairs
    /\ oracle \in [Markets -> SUBSET Fixtures]
    /\ q \in [Markets -> Nat] /\ trades \in [Markets -> Nat]
    /\ tpc \in [Tasks -> {"idle", "next", "player"} \cup AtRow]
    /\ todo \in [Tasks -> SUBSET Fixtures]
    /\ cur \in [Tasks -> Fixtures \cup {NoFixture}]
    /\ at \in [Tasks -> Nat \ {0}]
    /\ total \in [Tasks -> BOOLEAN]
    /\ seen \in [Tasks -> Version]
    /\ own \in [Tasks -> SUBSET Pairs]
    /\ writes \in [Tasks -> [Markets -> Version]]
    /\ rLock \in [Pairs -> Tasks \cup {NoTxn}]
    /\ mLock \in [Markets -> Txns \cup {NoTxn}]
    /\ cTodo \in [Recals -> SUBSET Markets]
    /\ cpc \in [Recals -> {"idle", "updating"}]
    /\ tr \in [Traders -> [pc : {"idle", "waiting", "holding"}, market : Nat]]
    /\ \A t \in Traders : tr[t].pc # "idle" => tr[t].market \in Markets

\* No entry of f before the i-th makes the computation raise.
Reaches(f, i) ==
    \A j \in 1 .. i - 1 : Lineup[f][j] \in Players => <<Lineup[f][j], f>> \notin Malformed

\* The players of f that have a row, up to the first one that makes it raise.
Reached(f) == {p \in Players : \E i \in DOMAIN Lineup[f] : Lineup[f][i] = p /\ Reaches(f, i)}

RatedIn(ratings, f) == {p \in Ids : <<p, f>> \in ratings}

WholeIn(ratings, f) == RatedIn(ratings, f) \in {{}, Reached(f)}

\* A fixture is rated for none of its players or for all; where the computation raises
\* for one of them, for none or for exactly those up to him: the handler that swallows
\* the exception leaves that part to the commit.  No other part is ever saved, not when
\* two runs collide on the unique constraint, at a deadlock, or when a worker is lost.
WholeFixtures == \A f \in Fixtures : WholeIn(rated, f)

\* INV-09: the task does not disturb the price.  q holds exactly the trades that
\* were committed, although the runs read market rows without locking them and
\* update them after waits in which trades go through.
PricesUntouched == q = trades

\* A published oracle rating never rests on a match rating that was rolled back or
\* not committed yet, although it is computed from flushed rows.
OracleFromCommitted ==
    \A p \in Markets : \A f \in oracle[p] : <<p, f>> \in rated

\* Row locks held across API calls do not stop the system: every run of the task
\* and of the recalibration ends, and every trade gets its market row.
NobodyWaitsForEver ==
    /\ \A w \in Tasks : []<>(tpc[w] = "idle")
    /\ \A c \in Recals : []<>(cpc[c] = "idle")
    /\ \A t \in Traders : []<>(tr[t].pc = "idle")

----------------------------------------------------------------------------
(* The inductive invariant behind the safety properties *)

\* A session holds the locks of what it has flushed, a trade the one of its market.
LockInv ==
    /\ \A w \in Tasks, r \in Pairs : r \in own[w] => rLock[r] = w
    /\ \A w \in Tasks : tpc[w] = "idle" => \A p \in Markets : mLock[p] # w
    /\ \A t \in Traders : tr[t].pc = "holding" => mLock[tr[t].market] = t

\* A run at an entry is at one it has not skipped; its rating is flushed before
\* anything is computed from it, and a market follows only where nothing has raised.
EntryInv ==
    \A w \in Tasks :
        /\ tpc[w] \in {"player"} \cup AtRow => cur[w] \in Fixtures
        /\ tpc[w] \in AtRow => at[w] <= Len(Lineup[cur[w]]) /\ Entry(w) \in Players
        /\ tpc[w] = "market" => /\ Entry(w) \in Markets
                               /\ <<Entry(w), cur[w]>> \in own[w] \ Malformed

\* The fixture in progress is rated up to the current entry, any other one wholly.
OwnInv ==
    \A w \in Tasks, f \in Fixtures :
        IF tpc[w] \in {"player"} \cup AtRow /\ cur[w] = f
        THEN /\ RatedIn(own[w], f) \subseteq Reached(f)
             /\ Reaches(f, at[w])
             /\ \A i \in 1 .. at[w] - 1 :
                    i \in DOMAIN Lineup[f] /\ Lineup[f][i] \in Players =>
                        <<Lineup[f][i], f>> \in own[w]
        ELSE WholeIn(own[w], f)

\* Computed and pending oracle ratings rest on ratings the run commits or has seen
\* committed.
FromInv ==
    \A w \in Tasks :
        /\ tpc[w] = "market" => seen[w].from \subseteq RatingsOf(w, Entry(w))
        /\ \A p \in Written(w) : writes[w][p].from \subseteq RatingsOf(w, p)

\* While its row is locked, a pending version of a market has the committed q.
VersionInv ==
    \A w \in Tasks : \A p \in Written(w) : writes[w][p].q = q[p]

IInv ==
    /\ TypeOK
    /\ LockInv /\ EntryInv /\ OwnInv /\ FromInv /\ VersionInv
    /\ WholeFixtures /\ PricesUntouched /\ OracleFromCommitted
=============================================================================
