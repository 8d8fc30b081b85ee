---------------------------- MODULE SquadImport ----------------------------
(***************************************************************************)
(* The squad import (app/workers/player_import.py): initial_player_import  *)
(* and sync_new_players, run one at a time while users trade.  A run works *)
(* in a session: what it has flushed is its own until it commits.  The     *)
(* import commits the players of a league and then, in a transaction of    *)
(* its own, deactivates the other players of the league; it goes on when   *)
(* a player fails.  The synchronisation commits once, at the end, and      *)
(* fails with the first player who does.                                   *)
(*                                                                         *)
(* A player row is its league and whether he is active.  Of a market only  *)
(* its existence and the number of trades its q vector contains are kept.  *)
(***************************************************************************)
EXTENDS Integers, FiniteSets

CONSTANTS
    Leagues,      \* the leagues of a run
    Teams,        \* the teams
    LeagueOf,     \* team -> its league
    Ids,          \* player ids
    Standings,    \* positions in the table that occur, NoStanding among them
    NoStanding,   \* a team without a position
    NoRow,        \* a player who is not in the database
    NoLeague,     \* cur between two leagues
    TopCap,       \* players selected of a team in positions 1 to 10: 4
    LowCap,       \* players selected of any other: 2
    MaxTrades     \* trades of a market after which none arrives, a bound

ASSUME SquadAssumption ==
    /\ LeagueOf \in [Teams -> Leagues]
    /\ Standings \subseteq Nat \cup {NoStanding}
    /\ NoStanding \notin Nat /\ NoLeague \notin Leagues
    /\ NoRow \notin [league : Leagues, active : BOOLEAN]
    /\ IsFiniteSet(Ids) /\ MaxTrades \in Nat /\ TopCap \in Nat /\ LowCap \in Nat

VARIABLES
    players,    \* players, as committed
    markets,    \* players with a committed lmsr_market_state row
    moved,      \* the trades the q vector of each market contains
    bought,     \* the trades of each market that have been committed
    mode,       \* what runs: "none", "import" or "sync"
    stage,      \* where the run is
    waiting,    \* leagues it has still to collect or to synchronise
    groups,     \* import: league_groups, the players to upsert of each league
    cur,        \* the league being upserted
    queue,      \* players of that league still to upsert
    squad,      \* sync: current_ids of the league
    imported,   \* import: imported_ids of the league
    done,       \* import: pairs of player and league imported in this run
    mine,       \* the session's version of players
    fresh,      \* markets the session has inserted
    broken      \* a flush of the session has failed

squadTables == <<players, markets, moved, bought>>
session     == <<mine, fresh, broken>>
progress    == <<mode, stage, waiting, groups, cur, queue, squad, imported, done>>
squadVars   == <<squadTables, progress, session>>

Row == [league : Leagues, active : BOOLEAN]

SquadInit ==
    /\ players = [p \in Ids |-> NoRow] /\ markets = {}
    /\ moved = [p \in Ids |-> 0] /\ bought = [p \in Ids |-> 0]
    /\ mode = "none" /\ stage = "idle"
    /\ waiting = {} /\ groups = [l \in Leagues |-> {}]
    /\ cur = NoLeague /\ queue = {} /\ squad = {} /\ imported = {} /\ done = {}
    /\ mine = players /\ fresh = {} /\ broken = FALSE

\* A trade of another session, on a market it can see.
BuyOrSell(p) ==
    /\ p \in markets /\ bought[p] < MaxTrades
    /\ moved' = [moved EXCEPT ![p] = @ + 1]
    /\ bought' = [bought EXCEPT ![p] = @ + 1]
    /\ UNCHANGED <<players, markets, progress, session>>

----------------------------------------------------------------------------
(* Sessions *)

\* Mutant of Flushed: the market row is written whether or not there is one.
FlushedAlways(p) ==
    /\ fresh' = fresh \cup {p}
    /\ UNCHANGED broken

\* The market is initialised only if the session sees none.
Flushed(p) ==
    /\ fresh' = IF p \in markets THEN fresh ELSE fresh \cup {p}
    /\ UNCHANGED broken

\* Player row of an upsert: the league of an existing row is not updated.
Upserted(p, l) ==
    [mine EXCEPT ![p] = [league |-> IF @ = NoRow THEN l ELSE @.league, active |-> TRUE]]

\* _upsert_player returns the player: rows of the player, of his seed rating and of
\* his market are flushed.
UpsertWorks(p, l) ==
    /\ ~broken
    /\ mine' = Upserted(p, l)
    /\ Flushed(p)

\* An exception that is not a database error.  An unusable name raises before the row
\* is changed; unusable statistics do after its flush, and it stays flushed.
UpsertRaises(p, l) ==
    /\ \/ mine[p] # NoRow /\ mine' = mine
       \/ mine' = Upserted(p, l)
    /\ ~broken
    /\ UNCHANGED <<fresh, broken>>

\* Mutant of FlushFails: the except clause rolls the session back and goes on with it.
FlushFailsRollback ==
    /\ mine' = players /\ fresh' = {}
    /\ UNCHANGED broken

\* A flush fails, or an earlier one has: every later statement of the session raises.
FlushFails ==
    /\ broken' = TRUE
    /\ UNCHANGED <<mine, fresh>>

Committed ==
    /\ players' = mine
    /\ markets' = markets \cup fresh
    /\ moved' = [p \in Ids |-> IF p \in fresh THEN 0 ELSE moved[p]]
    /\ fresh' = {}
    /\ UNCHANGED <<bought, mine, broken>>

\* The session is closed without a commit, and the run ends.
RunAborts ==
    /\ mode # "none"
    /\ mode' = "none" /\ stage' = "idle"
    /\ waiting' = {} /\ groups' = [l \in Leagues |-> {}]
    /\ cur' = NoLeague /\ queue' = {} /\ squad' = {} /\ imported' = {} /\ done' = {}
    /\ mine' = players /\ fresh' = {} /\ broken' = FALSE
    /\ UNCHANGED squadTables

----------------------------------------------------------------------------
(* initial_player_import *)

\* The seed fixture exists and the setup is committed; leagues are fetched next.
StartImport ==
    /\ mode = "none"
    /\ mode' = "import" /\ stage' = "collect"
    /\ waiting' = Leagues
    /\ UNCHANGED <<squadTables, session, groups, cur, queue, squad, imported, done>>

TeamCap(pos) == IF pos # NoStanding /\ pos <= 10 THEN TopCap ELSE LowCap

\* Who of a team is selected, given the rank of each player by average rating and
\* minutes (0 when he has neither): only players with data, unless nobody has any; the
\* best of them, ties in the order of the API.
Candidates(members, rank) ==
    LET withData == {p \in members : rank[p] > 0}
    IN  IF withData = {} THEN members ELSE withData

Selections(members, rank, pos) ==
    LET pool == Candidates(members, rank)
    IN  {s \in SUBSET pool :
            /\ Cardinality(s) = IF Cardinality(pool) <= TeamCap(pos)
                                THEN Cardinality(pool) ELSE TeamCap(pos)
            /\ \A p \in s, o \in pool \ s : rank[p] >= rank[o]}

TeamsOf(l) == {t \in Teams : LeagueOf[t] = l}

\* Pass 1: squads, statistics and recent fixtures of a league.
CollectLeague(l) ==
    /\ stage = "collect" /\ l \in waiting
    /\ \E members \in [TeamsOf(l) -> SUBSET Ids], pos \in [TeamsOf(l) -> Standings],
          rank \in [Ids -> 0..1] :
       \E chosen \in [TeamsOf(l) -> SUBSET Ids] :
          /\ \A t \in TeamsOf(l) : chosen[t] \in Selections(members[t], rank, pos[t])
          /\ groups' = [groups EXCEPT ![l] = UNION {chosen[t] : t \in TeamsOf(l)}]
    /\ waiting' = waiting \ {l}
    /\ UNCHANGED <<squadTables, session, mode, stage, cur, queue, squad, imported, done>>

\* The season or the teams of the league cannot be fetched: no group, no clean-up.
SkipLeague(l) ==
    /\ stage = "collect" /\ l \in waiting
    /\ waiting' = waiting \ {l}
    /\ UNCHANGED <<squadTables, session, mode, stage, groups, cur, queue, squad, imported, done>>

\* Pass 2, league by league.
NextGroup ==
    /\ \/ stage = "collect" /\ waiting = {}
       \/ stage = "league"
    /\ \E l \in {l \in Leagues : groups[l] # {}} :
          /\ cur' = l /\ queue' = groups[l]
          /\ groups' = [groups EXCEPT ![l] = {}]
    /\ stage' = "upsert" /\ imported' = {}
    /\ UNCHANGED <<squadTables, session, mode, waiting, squad, done>>

ImportPlayer(p) ==
    /\ stage = "upsert" /\ mode = "import" /\ p \in queue
    /\ UpsertWorks(p, cur)
    /\ queue' = queue \ {p}
    /\ imported' = imported \cup {p} /\ done' = done \cup {<<p, cur>>}
    /\ UNCHANGED <<squadTables, mode, stage, waiting, groups, cur, squad>>

\* Failed to upsert player in league, skipping.
SkipPlayer(p) ==
    /\ stage = "upsert" /\ mode = "import" /\ p \in queue
    /\ \/ UpsertRaises(p, cur)
       \/ FlushFails
    /\ queue' = queue \ {p}
    /\ UNCHANGED <<squadTables, mode, stage, waiting, groups, cur, squad, imported, done>>

\* The commit of the league raises when the session is broken (RunAborts).
CommitLeague ==
    /\ stage = "upsert" /\ mode = "import" /\ queue = {} /\ ~broken
    /\ Committed
    /\ stage' = "committed"
    /\ UNCHANGED <<mode, waiting, groups, cur, queue, squad, imported, done>>

\* Mutant of CleanUp: the guard against deactivating everyone is missing.
CleanUpUnguarded ==
    /\ stage = "committed"
    /\ mine' = [p \in Ids |->
           IF players[p] # NoRow /\ players[p] = [league |-> cur, active |-> TRUE]
              /\ p \notin imported
           THEN [players[p] EXCEPT !.active = FALSE] ELSE players[p]]
    /\ players' = mine'
    /\ stage' = "league" /\ cur' = NoLeague /\ imported' = {}
    /\ UNCHANGED <<markets, moved, bought, fresh, broken, mode, waiting, groups, queue,
                   squad, done>>

\* Mutant of CleanUp: the league of the run is not a condition of the UPDATE.
CleanUpEverywhere ==
    /\ stage = "committed"
    /\ mine' = [p \in Ids |->
           IF players[p] # NoRow /\ imported # {} /\ p \notin imported
           THEN [players[p] EXCEPT !.active = FALSE] ELSE players[p]]
    /\ players' = mine'
    /\ stage' = "league" /\ cur' = NoLeague /\ imported' = {}
    /\ UNCHANGED <<markets, moved, bought, fresh, broken, mode, waiting, groups, queue,
                   squad, done>>

\* The active players of the league outside imported_ids are deactivated and that is
\* committed; skipped when nothing was imported.
CleanUp ==
    /\ stage = "committed"
    /\ mine' = [p \in Ids |->
           IF imported # {} /\ players[p] = [league |-> cur, active |-> TRUE]
              /\ p \notin imported
           THEN [players[p] EXCEPT !.active = FALSE] ELSE players[p]]
    /\ players' = mine'
    /\ stage' = "league" /\ cur' = NoLeague /\ imported' = {}
    /\ UNCHANGED <<markets, moved, bought, fresh, broken, mode, waiting, groups, queue,
                   squad, done>>

ImportReturns ==
    /\ mode = "import"
    /\ \/ stage = "collect" /\ waiting = {}
       \/ stage = "league"
    /\ \A l \in Leagues : groups[l] = {}
    /\ mode' = "none" /\ stage' = "idle" /\ done' = {}
    /\ UNCHANGED <<squadTables, session, waiting, groups, cur, queue, squad, imported>>

----------------------------------------------------------------------------
(* sync_new_players *)

StartSync ==
    /\ mode = "none"
    /\ mode' = "sync" /\ stage' = "league"
    /\ waiting' = Leagues
    /\ UNCHANGED <<squadTables, session, groups, cur, queue, squad, imported, done>>

\* A league is fetched; only the players of its squads without a row are upserted.
SyncLeague(l) ==
    /\ mode = "sync" /\ stage = "league" /\ l \in waiting
    /\ waiting' = waiting \ {l}
    /\ \E ids \in SUBSET Ids :
          /\ squad' = ids
          /\ queue' = {p \in ids : mine[p] = NoRow}
    /\ cur' = l /\ stage' = "upsert"
    /\ UNCHANGED <<squadTables, session, mode, groups, imported, done>>

SyncSkipsLeague(l) ==
    /\ mode = "sync" /\ stage = "league" /\ l \in waiting
    /\ waiting' = waiting \ {l}
    /\ UNCHANGED <<squadTables, session, mode, stage, groups, cur, queue, squad, imported, done>>

\* No exception is caught here: when the upsert raises, the run does (RunAborts).
SyncPlayer(p) ==
    /\ mode = "sync" /\ stage = "upsert" /\ p \in queue
    /\ UpsertWorks(p, cur)
    /\ queue' = queue \ {p}
    /\ UNCHANGED <<squadTables, mode, stage, waiting, groups, cur, squad, imported, done>>

\* Players of the league who are not in its squads.
SyncDeactivates ==
    /\ mode = "sync" /\ stage = "upsert" /\ queue = {}
    /\ mine' = [p \in Ids |->
           IF mine[p] = [league |-> cur, active |-> TRUE] /\ p \notin squad
           THEN [mine[p] EXCEPT !.active = FALSE] ELSE mine[p]]
    /\ stage' = "league" /\ cur' = NoLeague /\ squad' = {}
    /\ UNCHANGED <<squadTables, fresh, broken, mode, waiting, groups, queue, imported, done>>

SyncReturns ==
    /\ mode = "sync" /\ stage = "league" /\ waiting = {}
    /\ Committed
    /\ mode' = "none" /\ stage' = "idle"
    /\ UNCHANGED <<waiting, groups, cur, queue, squad, imported, done>>

----------------------------------------------------------------------------

SquadNext ==
    \/ \E p \in Ids : BuyOrSell(p) \/ ImportPlayer(p) \/ SkipPlayer(p) \/ SyncPlayer(p)
    \/ \E l \in Leagues :
          CollectLeague(l) \/ SkipLeague(l) \/ SyncLeague(l) \/ SyncSkipsLeague(l)
    \/ StartImport \/ NextGroup \/ CommitLeague \/ CleanUp \/ ImportReturns
    \/ StartSync \/ SyncDeactivates \/ SyncReturns
    \/ RunAborts

SquadSpec == SquadInit /\ [][SquadNext]_squadVars

----------------------------------------------------------------------------
(* Properties *)

\* A session never inserts a market that exists: q vectors are initialised once, and a
\* repeated import takes back no trade (the condition at line 294).
TradesSurviveImport == \A p \in markets : moved[p] = bought[p]

\* What the import counts as imported is in the database when it deactivates the rest of
\* the league: a failed flush cannot take back a player already in imported_ids, because
\* the commit of a broken session raises.
ImportedAreCommitted ==
    stage = "committed" =>
        \A p \in imported : p \in markets /\ players[p] # NoRow /\ players[p].active

ActiveOf(l)    == {p \in Ids : players[p] = [league |-> l, active |-> TRUE]}
ImportedFor(l) == {p \in Ids : <<p, l>> \in done}

\* A player selected in a run stays active, whatever the order of the leagues and whoever
\* fails, with the one exception of a player whose row still names a league he has left
\* (its update is missing at line 237): the clean-up of that league takes him for
\* one who was not selected, as long as somebody else was.
ImportedStayActive ==
    mode = "import" /\ stage = "league" =>
        \A pair \in done :
            LET p == pair[1]
                l == players[p].league
            IN  players[p].active \/ (p \notin ImportedFor(l) /\ ImportedFor(l) # {})

\* "Skip if nothing was imported (total failure) to avoid deactivating everyone" (line
\* 452), for each league: a step that deactivates players of a league leaves one active
\* there with a market, unless all who were imported for it are in the rows of others.
NeverDeactivatesEveryone ==
    [][\A l \in Leagues : mode = "import" /\ ~(ActiveOf(l) \subseteq ActiveOf(l)')
          => \/ \E p \in ActiveOf(l)' : p \in markets'
             \/ /\ ImportedFor(l) # {}
                /\ \A p \in ImportedFor(l) : players[p].league # l]_squadVars
============================================================================
