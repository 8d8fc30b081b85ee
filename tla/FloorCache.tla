----------------------------- MODULE FloorCache -----------------------------
(***************************************************************************)
(* The liquidity floor (app/services/redis_cache.py, b_floor_for_users in  *)
(* app/core/lmsr.py).  Two Redis keys with a TTL, user_count_cache and     *)
(* lmsr_b_floor, are filled lazily by every trade (get_b_floor) and anew   *)
(* by an hourly task (refresh_b_floor).  No reader holds a lock: what one  *)
(* has counted it may write much later.  A Redis command may fail at any   *)
(* time and is then swallowed.                                             *)
(*                                                                         *)
(* A tick is a unit of the TTL; a call lasts at most Delay of them.        *)
(***************************************************************************)
EXTENDS Integers

CONSTANTS
    Callers,   \* calls of get_b_floor and refresh_b_floor
    Refreshers, \* those of refresh_b_floor: runs of the hourly task
    Counts,    \* user counts that occur
    BBase,     \* lmsr_b_base
    NTarget,   \* lmsr_n_target
    NMin,      \* lmsr_n_min
    TTL,       \* USER_COUNT_TTL and B_FLOOR_TTL
    Delay,     \* ticks a call lasts at most, a bound
    Missing    \* no value

ASSUME FloorAssumption ==
    /\ Refreshers \subseteq Callers
    /\ Counts \subseteq Nat /\ NMin \in Nat \ {0} /\ NTarget \in Nat \ {0}
    /\ BBase \in Nat /\ TTL \in Nat \ {0} /\ Delay \in Nat
    /\ Missing \notin Nat

VARIABLES
    users,      \* COUNT(DISTINCT user_id) FROM portfolios
    countKey,   \* user_count_cache
    floorKey,   \* lmsr_b_floor
    at,         \* where each call is
    since,      \* ticks since it began
    counted,    \* its n_users
    dropped,    \* calls of refresh_b_floor whose DEL has worked
    ago,        \* ticks since each count was the true one, capped
    dbFailed    \* ticks since a count failed, capped

floorVars == <<users, countKey, floorKey, at, since, counted, dropped, ago, dbFailed>>
calls     == <<at, since, counted, dropped>>

\* A value counted is stored within Delay, read for less than TTL ticks, turned into a
\* floor within Delay, and that is read for less than TTL ticks by a call of Delay.
OldestFloor == 2 * (TTL - 1) + 2 * Delay
Older(n)    == IF n > OldestFloor THEN n ELSE n + 1

Empty   == [val |-> Missing, ttl |-> 0]
Key(v)  == [val |-> v, ttl |-> TTL]
Aged(k) == IF k.ttl <= 1 THEN Empty ELSE [k EXCEPT !.ttl = @ - 1]

FloorInit ==
    /\ users \in Counts
    /\ countKey = Empty /\ floorKey = Empty
    /\ at = [c \in Callers |-> "idle"] /\ since = [c \in Callers |-> 0]
    /\ counted = [c \in Callers |-> Missing] /\ dropped = {}
    /\ ago = [n \in Counts |-> IF n = users THEN 0 ELSE OldestFloor + 1]
    /\ dbFailed = OldestFloor + 1

----------------------------------------------------------------------------
(* The environment *)

\* A user signs up or is deleted.
UsersChange(n) ==
    /\ n # users /\ users' = n
    /\ ago' = [ago EXCEPT ![n] = 0]
    /\ UNCHANGED <<countKey, floorKey, calls, dbFailed>>

FloorTick ==
    /\ \A c \in Callers : at[c] = "idle" \/ since[c] < Delay
    /\ since' = [c \in Callers |-> IF at[c] = "idle" THEN 0 ELSE since[c] + 1]
    /\ countKey' = Aged(countKey) /\ floorKey' = Aged(floorKey)
    /\ ago' = [n \in Counts |-> IF n = users THEN 0 ELSE Older(ago[n])]
    /\ dbFailed' = Older(dbFailed)
    /\ UNCHANGED <<users, at, counted, dropped>>

\* Redis restarts empty: it holds caches only.
RedisRestarts ==
    /\ countKey' = Empty /\ floorKey' = Empty
    /\ UNCHANGED <<users, calls, ago, dbFailed>>

----------------------------------------------------------------------------
(* The calls *)

\* B_FLOOR = b_base * max(1, n_target / max(n_min, n_users))
b_floor_for_users(n) ==
    LET safe_n == IF n > NMin THEN n ELSE NMin
    IN  IF NTarget > safe_n THEN (BBase * NTarget) \div safe_n ELSE BBase

\* get_b_floor: a hit is returned and changes nothing; a miss, or a read that fails,
\* recomputes.
ReadFloor(c) ==
    /\ at[c] = "idle" /\ c \notin Refreshers
    /\ at' = [at EXCEPT ![c] = "count"]
    /\ UNCHANGED <<users, countKey, floorKey, since, counted, dropped, ago, dbFailed>>

\* Mutant of DropCount: refresh_b_floor does not invalidate the count.
DropCountNot(c) ==
    /\ at[c] = "idle" /\ c \in Refreshers
    /\ at' = [at EXCEPT ![c] = "count"]
    /\ dropped' = dropped \cup {c}
    /\ UNCHANGED <<users, countKey, floorKey, since, counted, ago, dbFailed>>

\* refresh_b_floor deletes the count first; a failed DEL is passed over.
DropCount(c) ==
    /\ at[c] = "idle" /\ c \in Refreshers
    /\ at' = [at EXCEPT ![c] = "count"]
    /\ \/ countKey' = Empty /\ dropped' = dropped \cup {c}
       \/ UNCHANGED <<countKey, dropped>>
    /\ UNCHANGED <<users, floorKey, since, counted, ago, dbFailed>>

\* get_cached_user_count: the key, or the database.
ReadCount(c) ==
    /\ at[c] = "count"
    /\ \/ /\ countKey.val # Missing
          /\ counted' = [counted EXCEPT ![c] = countKey.val]
          /\ at' = [at EXCEPT ![c] = "floor"]
       \/ UNCHANGED counted /\ at' = [at EXCEPT ![c] = "query"]
    /\ UNCHANGED <<users, countKey, floorKey, since, dropped, ago, dbFailed>>

CountUsers(c) ==
    /\ at[c] = "query"
    /\ \/ /\ counted' = [counted EXCEPT ![c] = users]
          /\ at' = [at EXCEPT ![c] = "cache"] /\ UNCHANGED dbFailed
       \/ /\ counted' = [counted EXCEPT ![c] = NMin]
          /\ at' = [at EXCEPT ![c] = "floor"] /\ dbFailed' = 0
    /\ UNCHANGED <<users, countKey, floorKey, since, dropped, ago>>

\* Mutant of CacheCount: the key never expires.
CacheCountForever(c) ==
    /\ at[c] = "cache"
    /\ countKey' = [val |-> counted[c], ttl |-> TTL + 2 * OldestFloor]
    /\ at' = [at EXCEPT ![c] = "floor"]
    /\ UNCHANGED <<users, floorKey, since, counted, dropped, ago, dbFailed>>

CacheCount(c) ==
    /\ at[c] = "cache"
    /\ \/ countKey' = Key(counted[c])
       \/ UNCHANGED countKey
    /\ at' = [at EXCEPT ![c] = "floor"]
    /\ UNCHANGED <<users, floorKey, since, counted, dropped, ago, dbFailed>>

\* The floor is stored and returned, the one of the fallback count too.
CacheFloor(c) ==
    /\ at[c] = "floor"
    /\ \/ floorKey' = Key(b_floor_for_users(counted[c]))
       \/ UNCHANGED floorKey
    /\ at' = [at EXCEPT ![c] = "idle"]
    /\ since' = [since EXCEPT ![c] = 0]
    /\ counted' = [counted EXCEPT ![c] = Missing]
    /\ dropped' = dropped \ {c}
    /\ UNCHANGED <<users, countKey, ago, dbFailed>>

----------------------------------------------------------------------------

FloorNext ==
    \/ \E n \in Counts : UsersChange(n)
    \/ FloorTick \/ RedisRestarts
    \/ \E c \in Callers :
          \/ ReadFloor(c) \/ DropCount(c)
          \/ ReadCount(c) \/ CountUsers(c) \/ CacheCount(c) \/ CacheFloor(c)

FloorSpec == FloorInit /\ [][FloorNext]_floorVars

----------------------------------------------------------------------------
(* Properties *)

WasCount(n, age) == n \in Counts /\ ago[n] <= age

\* However calls, expiries, failures and restarts interleave, a cached floor is that of
\* a user count which was true not long ago: staleness does not feed on itself.  Only a
\* failed count puts another floor, that of n_min users, into the cache.
FloorIsRecent ==
    floorKey.val # Missing =>
        \/ \E n \in Counts : WasCount(n, OldestFloor) /\ floorKey.val = b_floor_for_users(n)
        \/ dbFailed <= TTL - 1 + Delay /\ floorKey.val = b_floor_for_users(NMin)

\* A refresh whose DEL has worked recomputes from a count that was true after it began
\* or less than the duration of one other call before: a reader that counted earlier
\* may refill the key in between, but an old key cannot survive.
RefreshRecounts ==
    \A c \in dropped : at[c] = "floor" =>
        \/ WasCount(counted[c], 2 * Delay)
        \/ counted[c] = NMin /\ dbFailed <= Delay
=============================================================================
