--------------------------- MODULE VolatilityTiers ---------------------------
(***************************************************************************)
(* Volatility tiers (compute_volatility_tiers in app/core/lmsr.py) and     *)
(* their cache, one Redis key per player (app/services/redis_cache.py).    *)
(* The tier of a player is relative to the players it is computed with.    *)
(* Lists of players compute the tiers of their own rows and write them in  *)
(* a task of their own, after the answer: any number of these tasks wait   *)
(* at the same time and write in any order.  The page of a player reads    *)
(* the cache, and on a miss computes the tiers of all active players       *)
(* (app/api/market.py).                                                    *)
(*                                                                         *)
(* No command touches two keys, and their pipeline is no transaction: the  *)
(* key of one player, Watched, stands for each of them.                    *)
(***************************************************************************)
EXTENDS Integers, FiniteSets

CONSTANTS
    Players,      \* the players
    Watched,      \* the one whose key is modelled
    Levels,       \* values of b_effective
    Filters,      \* sets of players a league_id or a search selects
    TierTTL,      \* VOLATILITY_TIER_TTL, in ticks
    WriteDelay,   \* ticks from the read of the rows to the write at most, a bound
    MaxTasks,     \* different writes that wait at the same time, a bound
    NoTier        \* a key that does not exist

ASSUME TierAssumption ==
    /\ IsFiniteSet(Players) /\ Watched \in Players /\ Levels \subseteq Nat /\ Filters \subseteq SUBSET Players
    /\ TierTTL \in Nat \ {0} /\ WriteDelay \in Nat /\ MaxTasks \in Nat
    /\ NoTier \notin {"low", "medium", "high"}

VARIABLES
    liquidity,    \* b_effective of each market
    listed,       \* active players
    tierKey,      \* volatility_tier:{Watched}
    pending,      \* the tasks still to write: a tier and the ticks they have waited
    right         \* for each tier, ticks since Watched had it in some list; capped

tierVars == <<liquidity, listed, tierKey, pending, right>>

Tiers      == {"low", "medium", "high"}
OldestTier == TierTTL - 1 + WriteDelay
NoKey      == [tier |-> NoTier, ttl |-> 0]
Task       == [tier : Tiers, age : 0..WriteDelay]

\* The rows by ascending b_effective; rows of equal value come in any order.
Ranks(S, b) ==
    {r \in [S -> 0..Cardinality(S) - 1] :
        \A p, q \in S : p # q => r[p] # r[q] /\ (r[p] < r[q] => b[p] <= b[q])}

\* Mutant of TierOfRank: the two ends are exchanged.
TierOfRankReversed(r, n) ==
    IF r < n \div 3 THEN "low" ELSE IF r < (2 * n) \div 3 THEN "medium" ELSE "high"

TierOfRank(r, n) ==
    IF r < n \div 3 THEN "high" ELSE IF r < (2 * n) \div 3 THEN "medium" ELSE "low"

\* The maps compute_volatility_tiers may return for the rows of S.
compute_volatility_tiers(S, b) ==
    IF Cardinality(S) < 3 \/ \A p, q \in S : b[p] = b[q]
    THEN {[p \in S |-> "medium"]}
    ELSE {[p \in S |-> TierOfRank(r[p], Cardinality(S))] : r \in Ranks(S, b)}

\* The tiers Watched may have among the players of S; none when he is not one.
WatchedTiers(S, b) ==
    IF Watched \in S THEN {m[Watched] : m \in compute_volatility_tiers(S, b)} ELSE {}

OlderTier(n) == IF n > OldestTier THEN n ELSE n + 1

\* What GET /players and GET /trending may list.
Lists == Filters \cup {Players}

\* The tiers some list gives Watched now are 0 ticks old.
Known(S, b, was) ==
    LET now == UNION {WatchedTiers(L \cap S, b) : L \in Lists}
    IN  [t \in Tiers |-> IF t \in now THEN 0 ELSE was[t]]

TierInit ==
    /\ liquidity \in [Players -> Levels] /\ listed = Players
    /\ tierKey = NoKey
    /\ pending = {}
    /\ right = Known(listed, liquidity, [t \in Tiers |-> OldestTier + 1])

----------------------------------------------------------------------------

\* A trade or a recalibration changes b_effective.
LiquidityMoves(p, v) ==
    /\ v # liquidity[p]
    /\ liquidity' = [liquidity EXCEPT ![p] = v]
    /\ right' = Known(listed, liquidity', right)
    /\ UNCHANGED <<listed, tierKey, pending>>

\* The squad import deactivates a player.
Delist(p) ==
    /\ p \in listed
    /\ listed' = listed \ {p}
    /\ right' = Known(listed', liquidity, right)
    /\ UNCHANGED <<liquidity, tierKey, pending>>

TierTick ==
    /\ \A t \in pending : t.age < WriteDelay
    /\ pending' = {[t EXCEPT !.age = @ + 1] : t \in pending}
    /\ tierKey' = IF tierKey.ttl <= 1 THEN NoKey ELSE [tierKey EXCEPT !.ttl = @ - 1]
    /\ right' = Known(listed, liquidity, [t \in Tiers |-> OlderTier(right[t])])
    /\ UNCHANGED <<liquidity, listed>>

\* The tiers of the rows selected are computed, and their write is left to a task
\* of its own, however many tasks wait already.
WriteLater(S) ==
    /\ Cardinality(pending) < MaxTasks
    /\ \E t \in WatchedTiers(S \cap listed, liquidity) :
          pending' = pending \cup {[tier |-> t, age |-> 0]}
    /\ UNCHANGED <<liquidity, listed, tierKey, right>>

\* GET /players, with or without a filter, and GET /trending.
get_players          == WriteLater(Players)
get_players_filtered == \E S \in Filters : WriteLater(S)

\* GET /players/{id}: on a hit nothing changes; a miss or a failed read is made good
\* from the whole population.
get_player == WriteLater(Players)

\* The task t is done; another with the same tier and age may be left.
Written(t) == pending' = pending \ {t} \/ pending' = pending

\* Mutant of WriteTiers: SET without ex.
WriteTiersForever(t) ==
    /\ Written(t)
    /\ tierKey' = [tier |-> t.tier, ttl |-> 3 * OldestTier + 3]
    /\ UNCHANGED <<liquidity, listed, right>>

\* write_volatility_tier_cache: a failure of the pipeline is swallowed, and may leave
\* this key as it was.
WriteTiers(t) ==
    /\ Written(t)
    /\ \/ tierKey' = [tier |-> t.tier, ttl |-> TierTTL]
       \/ UNCHANGED tierKey
    /\ UNCHANGED <<liquidity, listed, right>>

TierNext ==
    \/ \E p \in Players : Delist(p) \/ \E v \in Levels : LiquidityMoves(p, v)
    \/ TierTick
    \/ get_players \/ get_players_filtered \/ get_player
    \/ \E t \in pending : WriteTiers(t)

TierSpec == TierInit /\ [][TierNext]_tierVars

----------------------------------------------------------------------------
(* Properties *)

\* Whatever rows a list selects: a player with less liquidity never gets a calmer tier
\* than one with more, and no tier holds more than one player more than another.
TiersFollowLiquidity ==
    \A L \in Lists : \A m \in compute_volatility_tiers(L \cap listed, liquidity) :
        LET S     == L \cap listed
            In(t) == Cardinality({p \in S : m[p] = t})
            Split == \E p \in S : m[p] # "medium"
        IN  /\ \A p, q \in S : liquidity[p] < liquidity[q] =>
                  /\ m[p] = "low" => m[q] = "low"
                  /\ m[q] = "high" => m[p] = "high"
            /\ Split => \A t, u \in Tiers : In(t) - In(u) \in -1..1

\* The cache holds a tier the player had, among the active players of some list (not, as
\* redis_cache.py:7-9 and lmsr.py:241 have it, among all active players), within
\* the TTL and the delay of a write: no order in which waiting tasks write, no expiry
\* or failed pipeline, and no list of others, leaves an older one.
TierWasTrue ==
    tierKey.tier # NoTier => right[tierKey.tier] <= OldestTier
=============================================================================
