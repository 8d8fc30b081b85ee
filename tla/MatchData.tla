----------------------------- MODULE MatchData -----------------------------
(***************************************************************************)
(* How a match reaches the database.  Three tasks of the beat write about  *)
(* it: sync_fixtures (daily, from today on), refresh_match_ratings (daily, *)
(* over the last DaysBack days) and check_finished_fixtures (every ten     *)
(* minutes, over the finished fixtures synced in the last Lookback ticks). *)
(* The check is one step here; OracleUpdates has its details.              *)
(*                                                                         *)
(* Time has two scales.  A day passes when its daily tasks have run and no *)
(* row is recent; a tick is the ten minutes between two checks.  A fixture *)
(* has one match rating, which stands for those of its known players: of   *)
(* the match, or of the season where the check has written it.             *)
(***************************************************************************)
EXTENDS Integers, Sequences

CONSTANTS
    Fixtures,     \* the fixtures
    FixtureLeagues, \* the leagues
    TeamOrder,    \* the teams, in the order refresh_match_ratings goes through them
    LeagueOfFixture, \* fixture -> its league
    Sides,        \* fixture -> its two teams
    DaysBack,     \* MATCH_RATING_DAYS_BACK
    Lookback,     \* _LOOKBACK_MINUTES, in ticks
    MaxFailures   \* failures of the refresh, a bound; with 0 no task ever fails

ASSUME MatchAssumption ==
    /\ LeagueOfFixture \in [Fixtures -> FixtureLeagues]
    /\ TeamOrder \in Seq(UNION {Sides[f] : f \in Fixtures})
    /\ DaysBack \in Nat /\ Lookback \in Nat \ {0} /\ MaxFailures \in Nat

VARIABLES
    match,      \* a fixture as Sportmonks has it
    age,        \* days since its kick-off date
    row,        \* fixtures.status, or "absent"
    stamp,      \* ticks since fixtures.last_synced_at
    rating,     \* player_match_ratings.sportmonks_rating
    processed,  \* fixtures the check has processed
    misses,     \* the checks that have failed to process it since it was committed
    late,       \* the ticks between its stamp and that commit
    syncing,    \* the synchronisation: "due", "runs" or "done" for today
    syncAge,    \* ticks since it took its now
    syncTodo,   \* leagues it has still to fetch
    syncGot,    \* the statuses of a league it has fetched and not yet written
    syncRows,   \* its flushed statuses, "same" where it has none
    before,     \* the rows that were finished when it started (history)
    refreshing, \* the refresh: "due", "runs" or "done" for today
    teamAt,     \* the team it is at
    seenFixtures, \* seen_fixture_ids
    got,        \* what it has fetched and not yet stored
    failures,   \* failures so far
    checkDue    \* the check of this tick has still to run

world     == <<match, age>>
fixtureTables == <<row, stamp, rating>>
notes     == <<processed, misses, late>>
sync      == <<syncing, syncAge, syncTodo, syncGot, syncRows, before>>
refresh   == <<refreshing, teamAt, seenFixtures, got, failures>>
matchVars == <<world, fixtureTables, notes, sync, refresh, checkDue>>

MayFail == MaxFailures > 0
Ended(f) == match[f] \in {"ended", "rated", "decided"}
Unchanged == [f \in Fixtures |-> "same"]
NothingFetched == [f \in Fixtures |-> "no"]

MatchInit ==
    /\ match = [f \in Fixtures |-> "planned"] /\ age = [f \in Fixtures |-> -1]
    /\ row = [f \in Fixtures |-> "absent"]
    /\ stamp = [f \in Fixtures |-> Lookback + 1]
    /\ rating = [f \in Fixtures |-> "absent"]
    /\ processed = {}
    /\ misses = [f \in Fixtures |-> 0] /\ late = [f \in Fixtures |-> 0]
    /\ syncing = "due" /\ syncAge = 0 /\ syncTodo = {} /\ syncGot = Unchanged /\ syncRows = Unchanged
    /\ before = {}
    /\ refreshing = "due" /\ teamAt = 1 /\ seenFixtures = {} /\ got = NothingFetched
    /\ failures = 0 /\ checkDue = FALSE

----------------------------------------------------------------------------
(* The matches, and time *)

\* A match is played on its day; its rating is published later, and no later than the
\* day after (NextDay).  A match may be called off, or decided by penalties or a walkover.
Play(f) ==
    /\ \/ match[f] = "planned" /\ age[f] = 0 /\ match' = [match EXCEPT ![f] = "live"]
       \/ match[f] = "planned" /\ match' = [match EXCEPT ![f] = "off"]
       \/ match[f] = "live" /\ match' = [match EXCEPT ![f] = "ended"]
       \/ match[f] = "live" /\ match' = [match EXCEPT ![f] = "decided"]
       \/ match[f] = "ended" /\ match' = [match EXCEPT ![f] = "rated"]
    /\ UNCHANGED <<age, fixtureTables, notes, sync, refresh, checkDue>>

Capped(n) == IF n > Lookback THEN Lookback + 1 ELSE n

\* Ten minutes pass: the beat sends a check.
Tick ==
    /\ ~checkDue
    /\ checkDue' = TRUE
    /\ stamp' = [f \in Fixtures |-> Capped(stamp[f] + 1)]
    /\ syncAge' = IF syncing = "runs" THEN Capped(syncAge + 1) ELSE syncAge
    /\ UNCHANGED <<world, row, rating, notes, syncing, syncTodo, syncGot, syncRows, before,
                   refresh>>

\* A day has many ticks: its runs have ended, and no row is recent any more.
NextDay ==
    /\ syncing = "done" /\ refreshing = "done"
    /\ \A f \in Fixtures : stamp[f] > Lookback
    /\ \A f \in Fixtures : age[f] = 0 => match[f] # "live"
    /\ \A f \in Fixtures : age[f] = 1 => match[f] # "ended"
    /\ age' \in [Fixtures -> -1..DaysBack + 1]
    /\ \A f \in Fixtures :
          \/ age[f] = -1 /\ age'[f] \in {-1, 0}
          \/ age[f] >= 0 /\ age'[f] = IF age[f] <= DaysBack THEN age[f] + 1 ELSE age[f]
    /\ syncing' = "due" /\ refreshing' = "due"
    /\ UNCHANGED <<match, fixtureTables, notes, syncAge, syncTodo, syncGot, syncRows, before,
                   teamAt, seenFixtures, got, failures, checkDue>>

----------------------------------------------------------------------------
(* sync_fixtures *)

SyncStarts ==
    /\ syncing = "due"
    /\ syncing' = "runs" /\ syncAge' = 0 /\ syncTodo' = FixtureLeagues
    /\ before' = {f \in Fixtures : row[f] = "finished"}
    /\ UNCHANGED <<world, fixtureTables, notes, syncGot, syncRows, refresh, checkDue>>

\* Mutant of StatusOf: a match that ends in time is not in the map.
StatusOfPenalties(m) ==
    CASE m = "decided" -> "finished"
      [] m = "live" -> "live"
      [] m = "off" -> "postponed"
      [] OTHER -> "scheduled"

\* _STATUS_MAP; a state that is not in it is "scheduled".
StatusOf(m) ==
    CASE m \in {"ended", "rated", "decided"} -> "finished"
      [] m = "live" -> "live"
      [] m = "off" -> "postponed"
      [] OTHER -> "scheduled"

\* The fixtures of the league between today and 30 days from now, as Sportmonks has them.
SyncFetches(l) ==
    /\ syncing = "runs" /\ l \in syncTodo /\ syncGot = Unchanged
    /\ syncTodo' = syncTodo \ {l}
    /\ syncGot' = [f \in Fixtures |->
           IF LeagueOfFixture[f] = l /\ age[f] <= 0 THEN StatusOf(match[f]) ELSE "same"]
    /\ UNCHANGED <<world, fixtureTables, notes, syncing, syncAge, syncRows, before, refresh,
                   checkDue>>

\* Their rows are read, written, whatever they say by now, and flushed.
SyncStores ==
    /\ syncGot # Unchanged
    /\ syncRows' = [f \in Fixtures |-> IF syncGot[f] = "same" THEN syncRows[f] ELSE syncGot[f]]
    /\ syncGot' = Unchanged
    /\ UNCHANGED <<world, fixtureTables, notes, syncing, syncAge, syncTodo, before, refresh,
                   checkDue>>

\* Could not fetch fixtures for league; skipping.
SyncSkips(l) ==
    /\ MayFail
    /\ syncing = "runs" /\ l \in syncTodo /\ syncGot = Unchanged
    /\ syncTodo' = syncTodo \ {l}
    /\ UNCHANGED <<world, fixtureTables, notes, syncing, syncAge, syncGot, syncRows, before,
                   refresh, checkDue>>

SyncCommits ==
    /\ syncing = "runs" /\ syncTodo = {} /\ syncGot = Unchanged
    /\ row' = [f \in Fixtures |-> IF syncRows[f] = "same" THEN row[f] ELSE syncRows[f]]
    /\ stamp' = [f \in Fixtures |-> IF syncRows[f] = "same" THEN stamp[f] ELSE syncAge]
    /\ misses' = [f \in Fixtures |-> IF syncRows[f] = "same" THEN misses[f] ELSE 0]
    /\ late' = [f \in Fixtures |-> IF syncRows[f] = "same" THEN late[f] ELSE syncAge]
    /\ syncing' = "done" /\ syncAge' = 0 /\ syncRows' = Unchanged /\ before' = {}
    /\ UNCHANGED <<world, rating, processed, syncTodo, syncGot, refresh, checkDue>>

\* A database error takes back all leagues of the run.
SyncAborts ==
    /\ MayFail
    /\ syncing = "runs"
    /\ syncing' = "done" /\ syncAge' = 0 /\ syncTodo' = {}
    /\ syncGot' = Unchanged /\ syncRows' = Unchanged /\ before' = {}
    /\ UNCHANGED <<world, fixtureTables, notes, refresh, checkDue>>

----------------------------------------------------------------------------
(* refresh_match_ratings_task *)

RefreshStarts ==
    /\ refreshing = "due"
    /\ refreshing' = "runs" /\ teamAt' = 1 /\ seenFixtures' = {}
    /\ UNCHANGED <<world, fixtureTables, notes, sync, got, failures, checkDue>>

\* Mutant of InWindow: one day is missing from the window.
InWindowShort(f) == age[f] >= 0 /\ age[f] < DaysBack - 1

\* From today minus days_back to today.
InWindow(f) == age[f] >= 0 /\ age[f] <= DaysBack

\* Mutant of Fetched: the state of the fixture is not looked at.
FetchedAnyState(f) ==
    CASE match[f] = "rated" -> "rated"
      [] match[f] \in {"ended", "live"} -> "unrated"
      [] OTHER -> "no"

\* Only fixtures in FINISHED_STATE_IDS are looked at: those that have ended in time, after
\* extra time or by award, and not those decided by penalties or a walkover.
Fetched(f) ==
    CASE match[f] = "rated" -> "rated"
      [] match[f] = "ended" -> "unrated"
      [] OTHER -> "no"

\* The fixtures of a team with their lineups; those seen with the other team are skipped.
RefreshFetches ==
    /\ refreshing = "runs" /\ got = NothingFetched /\ teamAt <= Len(TeamOrder)
    /\ LET new == {f \in Fixtures : TeamOrder[teamAt] \in Sides[f] /\ InWindow(f)
                                    /\ f \notin seenFixtures}
       IN  /\ seenFixtures' = seenFixtures \cup new
           /\ got' = [f \in Fixtures |-> IF f \in new THEN Fetched(f) ELSE "no"]
    /\ teamAt' = teamAt + 1
    /\ UNCHANGED <<world, fixtureTables, notes, sync, refreshing, failures, checkDue>>

\* Could not fetch fixtures for team.
RefreshSkipsTeam ==
    /\ refreshing = "runs" /\ got = NothingFetched /\ teamAt <= Len(TeamOrder)
    /\ failures < MaxFailures
    /\ failures' = failures + 1
    /\ teamAt' = teamAt + 1
    /\ UNCHANGED <<world, fixtureTables, notes, sync, refreshing, seenFixtures, got, checkDue>>

\* A new row takes what there is; an existing one is only overwritten with a rating.
StoredRating(f) ==
    IF got[f] = "rated" THEN "match"
    ELSE IF rating[f] = "absent" THEN "none" ELSE rating[f]

\* Fixtures without a row are inserted as finished, with last_synced_at defaulting to
\* now; the status of an existing row stays.  Then the ratings, and the commit of the team.
RefreshStores ==
    /\ refreshing = "runs" /\ got # NothingFetched
    /\ LET have == {f \in Fixtures : got[f] # "no"}
           new  == {f \in have : row[f] = "absent"}
       IN  /\ \A f \in new : syncRows[f] = "same"
           /\ row' = [f \in Fixtures |-> IF f \in new THEN "finished" ELSE row[f]]
           /\ stamp' = [f \in Fixtures |-> IF f \in new THEN 0 ELSE stamp[f]]
           /\ misses' = [f \in Fixtures |-> IF f \in new THEN 0 ELSE misses[f]]
           /\ late' = [f \in Fixtures |-> IF f \in new THEN 0 ELSE late[f]]
           /\ rating' = [f \in Fixtures |-> IF f \in have THEN StoredRating(f) ELSE rating[f]]
    /\ got' = NothingFetched
    /\ UNCHANGED <<world, processed, sync, refreshing, teamAt, seenFixtures, failures, checkDue>>

RefreshEnds ==
    /\ refreshing = "runs" /\ got = NothingFetched /\ teamAt > Len(TeamOrder)
    /\ refreshing' = "done" /\ teamAt' = 1 /\ seenFixtures' = {}
    /\ UNCHANGED <<world, fixtureTables, notes, sync, got, failures, checkDue>>

\* A league whose season or teams cannot be fetched, or a database error (a row that
\* another session has inserted meanwhile): the leagues and teams after it are not done.
RefreshAborts ==
    /\ refreshing = "runs" /\ failures < MaxFailures
    /\ failures' = failures + 1
    /\ refreshing' = "done" /\ teamAt' = 1 /\ seenFixtures' = {} /\ got' = NothingFetched
    /\ UNCHANGED <<world, fixtureTables, notes, sync, checkDue>>

----------------------------------------------------------------------------
(* check_finished_fixtures_task *)

\* Mutant of Recent: the look-back is one tick shorter.
RecentShort(f) == row[f] = "finished" /\ stamp[f] < Lookback

Recent(f) == row[f] = "finished" /\ stamp[f] <= Lookback

\* The rating of the match is replaced by the one in the season statistics, or by NULL;
\* a fixture that fails, or has no lineups yet, is left for the next check.
Check ==
    /\ checkDue
    /\ checkDue' = FALSE
    /\ \E ok \in SUBSET {f \in Fixtures : Recent(f)},
          value \in [Fixtures -> {"season", "none"}] :
          /\ MayFail \/ ok = {f \in Fixtures : Recent(f)}
          /\ processed' = processed \cup ok
          /\ rating' = [f \in Fixtures |-> IF f \in ok THEN value[f] ELSE rating[f]]
          /\ misses' = [f \in Fixtures |->
                 IF Recent(f) /\ f \notin ok THEN misses[f] + 1 ELSE misses[f]]
    /\ UNCHANGED <<world, row, stamp, late, sync, refresh>>

----------------------------------------------------------------------------

SyncSteps == SyncStarts \/ SyncStores \/ SyncCommits
             \/ \E l \in FixtureLeagues : SyncFetches(l) \/ SyncSkips(l)
RefreshSteps == RefreshStarts \/ RefreshFetches \/ RefreshStores \/ RefreshEnds

MatchNext ==
    \/ \E f \in Fixtures : Play(f)
    \/ Tick \/ NextDay
    \/ SyncSteps \/ SyncAborts
    \/ RefreshSteps \/ RefreshSkipsTeam \/ RefreshAborts
    \/ Check

MatchSpec == MatchInit /\ [][MatchNext]_matchVars

\* The beat sends every task on its schedule and a worker runs it to its end; days
\* pass, and a match that is played ends and gets its rating.
MatchFair ==
    /\ WF_matchVars(Tick) /\ WF_matchVars(Check) /\ WF_matchVars(NextDay)
    /\ WF_matchVars(SyncSteps) /\ WF_matchVars(RefreshSteps)
    /\ \A f \in Fixtures : WF_matchVars(match[f] \in {"live", "ended"} /\ Play(f))

MatchFairSpec == MatchSpec /\ MatchFair

----------------------------------------------------------------------------
(* Properties *)

\* Two tasks insert fixtures and two write ratings; none of them does so before the
\* match has ended.
NothingBeforeTheEnd ==
    \A f \in Fixtures : row[f] = "finished" \/ rating[f] # "absent" => Ended(f)

\* check_finished_fixtures "on the first or second run": a finished row leaves the
\* look-back unprocessed only if the two checks within it failed, each tick its commit
\* came late counting as one.
MissedOnlyByFailures ==
    \A f \in Fixtures :
        row[f] = "finished" /\ stamp[f] > Lookback /\ f \notin processed
        => misses[f] + late[f] >= Lookback

\* A synchronisation that has its answer from before the end of a match writes that status
\* over a row the refresh has meanwhile inserted as finished.  This is the only way back:
\* no run reopens a row that was finished when it began.
OnlyOverlapReopens ==
    [][\A f \in Fixtures : row[f] = "finished" /\ row'[f] # "finished"
          => syncing = "runs" /\ f \notin before]_matchVars

\* Whatever the check overwrites and whichever runs fail, as long as they are fewer than
\* the days of the window less one: in the end a match that ended in time, after extra
\* time or by award keeps its own rating.
RatingsConverge ==
    \A f \in Fixtures : <>[](match[f] \in {"ended", "rated"} => rating[f] = "match")

\* "this window ensures we process the fixture on the first or second run after it
\* ends" (oracle_update.py:234).
EndedIsProcessed == \A f \in Fixtures : Ended(f) ~> f \in processed
============================================================================
