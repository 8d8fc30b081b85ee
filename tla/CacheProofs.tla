---------------------------- MODULE CacheProofs -----------------------------
(***************************************************************************)
(* Theorems about the two caches in Redis: FloorCache, for any number of   *)
(* calls, any user counts and any TTL and duration of a call, and          *)
(* VolatilityTiers, for any population, lists, lifetime and delay of a write. *)
(***************************************************************************)
EXTENDS FloorCache, VolatilityTiers, FiniteSetTheorems, FunctionTheorems, TLAPS

(* The liquidity floor *)

Floors == {b_floor_for_users(n) : n \in Counts \cup {NMin}}

\* Types of the keys and of what the calls hold.
FloorTypeOK ==
    /\ users \in Counts
    /\ countKey \in [val : Counts \cup {Missing}, ttl : 0..TTL]
    /\ floorKey \in [val : Floors \cup {Missing}, ttl : 0..TTL]
    /\ at \in [Callers -> {"idle", "count", "query", "cache", "floor"}]
    /\ since \in [Callers -> 0..Delay]
    /\ counted \in [Callers -> Counts \cup {NMin, Missing}]
    /\ dropped \subseteq Callers
    /\ ago \in [Counts -> Nat] /\ dbFailed \in Nat
    /\ ago[users] = 0

\* A cached count was true when it was counted, within the call that stored it.
CountKeyInv ==
    countKey.val # Missing =>
        /\ countKey.ttl >= 1
        /\ WasCount(countKey.val, Delay + TTL - countKey.ttl)

\* So is the count a call works with, or it is the fallback of a count that failed in it.
CallInv ==
    \A c \in Callers :
        /\ at[c] = "cache" => WasCount(counted[c], since[c])
        /\ at[c] = "floor" =>
              \/ WasCount(counted[c], since[c] + Delay + TTL - 1)
              \/ counted[c] = NMin /\ dbFailed <= since[c]

\* A cached floor ages from there.
FloorKeyInv ==
    floorKey.val # Missing =>
        /\ floorKey.ttl >= 1
        /\ \/ \E n \in Counts : /\ ago[n] <= 2 * Delay + TTL - 1 + TTL - floorKey.ttl
                                /\ floorKey.val = b_floor_for_users(n)
           \/ dbFailed <= Delay + TTL - floorKey.ttl /\ floorKey.val = b_floor_for_users(NMin)

\* What a call finds after its DEL was stored since, by a call that counted not long before.
DropInv ==
    \A c \in dropped :
        /\ at[c] # "idle"
        /\ at[c] = "count" /\ countKey.val # Missing => WasCount(countKey.val, Delay + since[c])
        /\ at[c] = "floor" => \/ WasCount(counted[c], Delay + since[c])
                              \/ counted[c] = NMin /\ dbFailed <= since[c]

FloorInv == FloorTypeOK /\ CountKeyInv /\ CallInv /\ FloorKeyInv /\ DropInv

----------------------------------------------------------------------------

\* The facts about the constants in one place.
LEMMA Numbers ==
    /\ TTL \in Nat /\ TTL >= 1 /\ Delay \in Nat /\ Counts \subseteq Nat /\ NMin \in Nat
    /\ OldestFloor \in Nat /\ OldestFloor = 2 * (TTL - 1) + 2 * Delay
    /\ Missing \notin Counts /\ Missing # NMin
<1>1. /\ TTL \in Nat /\ TTL >= 1 /\ Delay \in Nat /\ Counts \subseteq Nat /\ NMin \in Nat
      /\ Missing \notin Nat
  BY FloorAssumption
<1>2. OldestFloor \in Nat /\ OldestFloor = 2 * (TTL - 1) + 2 * Delay
  BY <1>1 DEF OldestFloor
<1>3. Missing \notin Counts /\ Missing # NMin
  BY <1>1
<1> QED BY <1>1, <1>2, <1>3

\* An empty Redis, no call.
LEMMA InitFloorInv == FloorInit => FloorInv
<1> SUFFICES ASSUME FloorInit PROVE FloorInv
  OBVIOUS
<1>1. FloorTypeOK
  BY Numbers DEF FloorInit, FloorTypeOK, Empty
<1> QED BY <1>1 DEF FloorInit, FloorInv, Empty, CountKeyInv, CallInv, FloorKeyInv, DropInv

\* A user count that returns makes it true again; no other fact moves.
LEMMA UsersChangeKeepsInv ==
    ASSUME FloorInv, NEW n \in Counts, UsersChange(n)
    PROVE  FloorInv'
<1> USE DEF FloorInv
<1>1. \A k \in Counts : ago'[k] \in Nat /\ ago'[k] <= ago[k]
  BY Numbers DEF UsersChange, FloorTypeOK
<1>2. \A v, k : k \in Int => (WasCount(v, k) => WasCount(v, k)')
  BY <1>1 DEF WasCount, FloorTypeOK
<1>3. FloorTypeOK'
  BY Numbers DEF UsersChange, FloorTypeOK, calls
<1>4. CountKeyInv' /\ CallInv' /\ DropInv'
  BY <1>1, Numbers DEF UsersChange, calls, CountKeyInv, CallInv, DropInv, FloorTypeOK, WasCount
<1>5. FloorKeyInv'
  <2> SUFFICES ASSUME floorKey.val # Missing PROVE FloorKeyInv'
    BY DEF FloorKeyInv, UsersChange
  <2>1. CASE \E k \in Counts : /\ ago[k] <= 2 * Delay + TTL - 1 + TTL - floorKey.ttl
                               /\ floorKey.val = b_floor_for_users(k)
    <3>1. PICK k \in Counts : /\ ago[k] <= 2 * Delay + TTL - 1 + TTL - floorKey.ttl
                              /\ floorKey.val = b_floor_for_users(k)
      BY <2>1
    <3>2. ago'[k] <= 2 * Delay + TTL - 1 + TTL - floorKey.ttl
      BY <1>1, <3>1, Numbers DEF FloorTypeOK
    <3> QED BY <3>1, <3>2 DEF FloorKeyInv, UsersChange
  <2>2. CASE dbFailed <= Delay + TTL - floorKey.ttl /\ floorKey.val = b_floor_for_users(NMin)
    BY <2>2 DEF FloorKeyInv, UsersChange
  <2> QED BY <2>1, <2>2 DEF FloorKeyInv
<1> QED BY <1>3, <1>4, <1>5

\* A tick makes counts and calls older and takes one off each TTL.
LEMMA TickKeepsInv ==
    ASSUME FloorInv, FloorTick
    PROVE  FloorInv'
<1> USE DEF FloorInv
<1>1. \A k \in Counts : ago'[k] \in Nat /\ ago'[k] <= ago[k] + 1
  BY Numbers DEF FloorTick, FloorTypeOK, Older
<1>2. dbFailed' \in Nat /\ dbFailed' <= dbFailed + 1
  BY Numbers DEF FloorTick, FloorTypeOK, Older
<1>3. \A c \in Callers : /\ since'[c] \in 0..Delay
                         /\ at[c] # "idle" => since'[c] = since[c] + 1
  BY Numbers DEF FloorTick, FloorTypeOK
<1>4. /\ countKey' \in [val : Counts \cup {Missing}, ttl : 0..TTL]
      /\ countKey'.val # Missing => /\ countKey'.val = countKey.val
                                    /\ countKey'.ttl = countKey.ttl - 1 /\ countKey'.ttl >= 1
  <2>1. CASE countKey.ttl <= 1
    BY <2>1, Numbers DEF FloorTick, Aged, Empty
  <2>2. CASE ~(countKey.ttl <= 1)
    BY <2>2, Numbers DEF FloorTick, Aged, FloorTypeOK
  <2> QED BY <2>1, <2>2
<1>5. /\ floorKey' \in [val : Floors \cup {Missing}, ttl : 0..TTL]
      /\ floorKey'.val # Missing => /\ floorKey'.val = floorKey.val
                                    /\ floorKey'.ttl = floorKey.ttl - 1 /\ floorKey'.ttl >= 1
  <2>1. CASE floorKey.ttl <= 1
    BY <2>1, Numbers DEF FloorTick, Aged, Empty
  <2>2. CASE ~(floorKey.ttl <= 1)
    BY <2>2, Numbers DEF FloorTick, Aged, FloorTypeOK
  <2> QED BY <2>1, <2>2
<1>6. FloorTypeOK'
  BY <1>1, <1>2, <1>3, <1>4, <1>5, Numbers DEF FloorTick, FloorTypeOK
<1>a. \A v : \A k \in Int : WasCount(v, k) => v \in Counts /\ ago'[v] <= k + 1
  BY <1>1 DEF WasCount, FloorTypeOK
<1>b. \A c \in Callers : since[c] \in Int /\ at'[c] = at[c] /\ counted'[c] = counted[c]
  BY Numbers DEF FloorTick, FloorTypeOK
<1>7. CountKeyInv'
  <2> SUFFICES ASSUME countKey'.val # Missing
               PROVE  /\ countKey'.ttl >= 1 /\ countKey'.val \in Counts
                      /\ ago'[countKey'.val] <= Delay + TTL - countKey'.ttl
    BY DEF CountKeyInv, WasCount
  <2>1. countKey'.ttl \in Int /\ countKey.ttl \in Int /\ countKey'.ttl = countKey.ttl - 1
        /\ countKey'.val = countKey.val /\ countKey'.ttl >= 1
    BY <1>4 DEF FloorTypeOK
  <2>2. WasCount(countKey.val, Delay + TTL - countKey.ttl) /\ Delay + TTL - countKey.ttl \in Int
    BY <2>1, Numbers DEF CountKeyInv
  <2>3. countKey.val \in Counts /\ ago'[countKey.val] <= (Delay + TTL - countKey.ttl) + 1
    BY <1>a, <2>2
  <2>4. ago'[countKey.val] \in Int
    BY <1>1, <2>3
  <2> QED BY <2>1, <2>3, <2>4, Numbers
<1>8. CallInv'
  <2> SUFFICES ASSUME NEW c \in Callers
               PROVE  /\ at[c] = "cache" => /\ counted[c] \in Counts
                                            /\ ago'[counted[c]] <= since'[c]
                      /\ at[c] = "floor" =>
                            \/ /\ counted[c] \in Counts
                               /\ ago'[counted[c]] <= since'[c] + Delay + TTL - 1
                            \/ counted[c] = NMin /\ dbFailed' <= since'[c]
    BY <1>b DEF CallInv, WasCount
  <2>1. since[c] \in Int /\ (at[c] # "idle" => since'[c] = since[c] + 1)
    BY <1>3, <1>b
  <2>2. ASSUME at[c] = "cache" PROVE counted[c] \in Counts /\ ago'[counted[c]] <= since'[c]
    BY <1>a, <2>1, <2>2 DEF CallInv
  <2>3. ASSUME at[c] = "floor", WasCount(counted[c], since[c] + Delay + TTL - 1)
        PROVE  counted[c] \in Counts /\ ago'[counted[c]] <= since'[c] + Delay + TTL - 1
    <3>1. /\ counted[c] \in Counts
          /\ ago'[counted[c]] <= (since[c] + Delay + TTL - 1) + 1
      BY <1>a, <2>1, <2>3, Numbers
    <3> QED BY <1>1, <2>1, <2>3, <3>1, Numbers
  <2>4. ASSUME at[c] = "floor", dbFailed <= since[c] PROVE dbFailed' <= since'[c]
    BY <1>2, <2>1, <2>4 DEF FloorTypeOK
  <2> QED BY <2>2, <2>3, <2>4 DEF CallInv
<1>9. DropInv'
  <2>0. dropped' = dropped /\ dropped \subseteq Callers
    BY DEF FloorTick, FloorTypeOK
  <2> SUFFICES ASSUME NEW c \in dropped
               PROVE  /\ at[c] # "idle"
                      /\ at[c] = "count" /\ countKey'.val # Missing =>
                            /\ countKey'.val \in Counts
                            /\ ago'[countKey'.val] <= Delay + since'[c]
                      /\ at[c] = "floor" =>
                            \/ counted[c] \in Counts /\ ago'[counted[c]] <= Delay + since'[c]
                            \/ counted[c] = NMin /\ dbFailed' <= since'[c]
    BY <1>b, <2>0 DEF DropInv, WasCount
  <2>1. at[c] # "idle" /\ since[c] \in Int /\ since'[c] = since[c] + 1
    BY <1>3, <1>b, <2>0 DEF DropInv
  <2>2. ASSUME at[c] = "count", countKey'.val # Missing
        PROVE  countKey'.val \in Counts /\ ago'[countKey'.val] <= Delay + since'[c]
    <3>1. countKey'.val = countKey.val /\ WasCount(countKey.val, Delay + since[c])
      BY <1>4, <2>2 DEF DropInv
    <3>2. countKey.val \in Counts /\ ago'[countKey.val] <= (Delay + since[c]) + 1
      BY <1>a, <2>1, <3>1, Numbers
    <3> QED BY <1>1, <2>1, <3>1, <3>2, Numbers
  <2>3. ASSUME at[c] = "floor", WasCount(counted[c], Delay + since[c])
        PROVE  counted[c] \in Counts /\ ago'[counted[c]] <= Delay + since'[c]
    <3>1. counted[c] \in Counts /\ ago'[counted[c]] <= (Delay + since[c]) + 1
      BY <1>a, <2>1, <2>3, Numbers
    <3> QED BY <1>1, <2>1, <3>1, Numbers
  <2>4. ASSUME dbFailed <= since[c] PROVE dbFailed' <= since'[c]
    BY <1>2, <2>1, <2>4 DEF FloorTypeOK
  <2> QED BY <2>1, <2>2, <2>3, <2>4 DEF DropInv
<1>10. FloorKeyInv'
  <2> SUFFICES ASSUME floorKey'.val # Missing PROVE FloorKeyInv'
    BY DEF FloorKeyInv
  <2>0. floorKey.val # Missing /\ floorKey.val = floorKey'.val
        /\ floorKey.ttl = floorKey'.ttl + 1 /\ floorKey.ttl \in Int /\ floorKey'.ttl >= 1
        /\ floorKey'.ttl \in Int
    BY <1>5 DEF FloorTypeOK
  <2>1. CASE \E k \in Counts : /\ ago[k] <= 2 * Delay + TTL - 1 + TTL - floorKey.ttl
                               /\ floorKey.val = b_floor_for_users(k)
    <3>1. PICK k \in Counts : /\ ago[k] <= 2 * Delay + TTL - 1 + TTL - floorKey.ttl
                              /\ floorKey.val = b_floor_for_users(k)
      BY <2>1
    <3>2. ago'[k] <= 2 * Delay + TTL - 1 + TTL - floorKey'.ttl
      BY <1>1, <2>0, <3>1, Numbers DEF FloorTypeOK
    <3> QED BY <2>0, <3>1, <3>2 DEF FloorKeyInv
  <2>2. CASE dbFailed <= Delay + TTL - floorKey.ttl /\ floorKey.val = b_floor_for_users(NMin)
    <3>1. dbFailed' <= Delay + TTL - floorKey'.ttl
      BY <1>2, <2>0, <2>2, Numbers DEF FloorTypeOK
    <3> QED BY <2>0, <2>2, <3>1 DEF FloorKeyInv
  <2> QED BY <2>0, <2>1, <2>2 DEF FloorKeyInv
<1> QED BY <1>6, <1>7, <1>8, <1>9, <1>10

\* A restart leaves no key to read.
LEMMA RestartKeepsInv ==
    ASSUME FloorInv, RedisRestarts
    PROVE  FloorInv'
<1>1. FloorTypeOK'
  BY Numbers DEF FloorInv, RedisRestarts, FloorTypeOK, calls, Empty
<1> QED BY <1>1 DEF FloorInv, RedisRestarts, Empty, calls, CountKeyInv, CallInv, FloorKeyInv,
                    DropInv, WasCount

\* A call before it has counted: get_b_floor, or refresh_b_floor with its DEL.
LEMMA CallBeginsKeepsInv ==
    ASSUME FloorInv, NEW c \in Callers, ReadFloor(c) \/ DropCount(c)
    PROVE  FloorInv'
<1> USE DEF FloorInv
<1>1. /\ at' = [at EXCEPT ![c] = "count"]
      /\ \/ countKey' = Empty /\ dropped' = dropped \cup {c}
         \/ UNCHANGED <<countKey, dropped>>
      /\ UNCHANGED <<users, floorKey, since, counted, ago, dbFailed>>
      /\ at[c] = "idle"
  BY DEF ReadFloor, DropCount
<1>2. FloorTypeOK'
  BY <1>1, Numbers DEF FloorTypeOK, Empty
<1>3. CountKeyInv' /\ FloorKeyInv'
  BY <1>1 DEF CountKeyInv, FloorKeyInv, WasCount, Empty
<1>4. CallInv'
  BY <1>1 DEF CallInv, FloorTypeOK, WasCount
<1>5. DropInv'
  <2>0. c \notin dropped
    BY <1>1 DEF DropInv
  <2> SUFFICES ASSUME NEW o \in dropped'
               PROVE  /\ at'[o] # "idle"
                      /\ at'[o] = "count" /\ countKey'.val # Missing =>
                            WasCount(countKey'.val, Delay + since[o])
                      /\ at'[o] = "floor" => \/ WasCount(counted[o], Delay + since[o])
                                             \/ counted[o] = NMin /\ dbFailed <= since[o]
    BY <1>1 DEF DropInv, WasCount
  <2>1. CASE o = c
    BY <1>1, <2>0, <2>1 DEF FloorTypeOK, Empty
  <2>2. CASE o # c
    <3>1. o \in dropped /\ at'[o] = at[o]
      BY <1>1, <2>2 DEF FloorTypeOK
    <3>2. countKey'.val # Missing => countKey'.val = countKey.val
      BY <1>1 DEF Empty
    <3> QED BY <3>1, <3>2 DEF DropInv
  <2> QED BY <2>1, <2>2
<1> QED BY <1>2, <1>3, <1>4, <1>5

\* The count of a call comes from the key, or from the database, or is the fallback.
LEMMA CountKeepsInv ==
    ASSUME FloorInv, NEW c \in Callers, ReadCount(c) \/ CountUsers(c)
    PROVE  FloorInv'
<1> USE DEF FloorInv
<1>1. /\ UNCHANGED <<users, countKey, floorKey, since, dropped, ago>>
      /\ dbFailed' \in {dbFailed, 0}
      /\ at[c] \in {"count", "query"}
  BY DEF ReadCount, CountUsers
<1>2. /\ \A o \in Callers \ {c} : at'[o] = at[o] /\ counted'[o] = counted[o]
      /\ FloorTypeOK'
  BY Numbers DEF ReadCount, CountUsers, FloorTypeOK
<1>3. /\ at'[c] = "cache" => counted'[c] = users
      /\ at'[c] = "floor" =>
            \/ at[c] = "count" /\ countKey.val # Missing /\ counted'[c] = countKey.val
            \/ counted'[c] = NMin /\ dbFailed' = 0
      /\ at'[c] \notin {"idle", "count"}
  BY DEF ReadCount, CountUsers, FloorTypeOK
<1>4. CountKeyInv'
  BY <1>1 DEF CountKeyInv, WasCount
<1>5. CallInv'
  <2> SUFFICES ASSUME NEW o \in Callers
               PROVE  /\ at'[o] = "cache" => WasCount(counted'[o], since[o])
                      /\ at'[o] = "floor" =>
                            \/ WasCount(counted'[o], since[o] + Delay + TTL - 1)
                            \/ counted'[o] = NMin /\ dbFailed' <= since[o]
    BY <1>1 DEF CallInv, WasCount
  <2>1. CASE o = c
    <3>1. since[c] \in Nat
      BY Numbers DEF FloorTypeOK
    <3>2. at'[c] = "cache" => WasCount(counted'[c], since[c])
      BY <1>3, <3>1 DEF FloorTypeOK, WasCount
    <3>3. ASSUME countKey.val # Missing
          PROVE  WasCount(countKey.val, since[c] + Delay + TTL - 1)
      <4> DEFINE v == countKey.val
                 t == countKey.ttl
      <4>1. v \in Counts /\ ago[v] <= Delay + TTL - t /\ t >= 1
        BY <3>3 DEF CountKeyInv, WasCount
      <4>2. ago[v] \in Nat /\ t \in Int
        BY <4>1 DEF FloorTypeOK
      <4> HIDE DEF v, t
      <4>3. ago[v] <= since[c] + Delay + TTL - 1
        BY <3>1, <4>1, <4>2, Numbers
      <4> QED BY <4>1, <4>3 DEF WasCount, v
    <3>4. at'[c] = "floor" => \/ WasCount(counted'[c], since[c] + Delay + TTL - 1)
                              \/ counted'[c] = NMin /\ dbFailed' <= since[c]
      BY <1>3, <3>1, <3>3
    <3> QED BY <2>1, <3>2, <3>4
  <2>2. CASE o # c
    BY <1>1, <1>2, <2>2, Numbers DEF CallInv, FloorTypeOK
  <2> QED BY <2>1, <2>2
<1>6. FloorKeyInv'
  <2> SUFFICES ASSUME floorKey.val # Missing PROVE FloorKeyInv'
    BY <1>1 DEF FloorKeyInv
  <2>1. dbFailed <= Delay + TTL - floorKey.ttl => dbFailed' <= Delay + TTL - floorKey.ttl
    BY <1>1, Numbers DEF FloorTypeOK
  <2> QED BY <1>1, <2>1 DEF FloorKeyInv
<1>7. DropInv'
  <2> SUFFICES ASSUME NEW o \in dropped
               PROVE  /\ at'[o] # "idle"
                      /\ at'[o] = "count" /\ countKey.val # Missing =>
                            WasCount(countKey.val, Delay + since[o])
                      /\ at'[o] = "floor" => \/ WasCount(counted'[o], Delay + since[o])
                                             \/ counted'[o] = NMin /\ dbFailed' <= since[o]
    BY <1>1 DEF DropInv, WasCount
  <2>1. CASE o = c
    BY <1>1, <1>3, <2>1, Numbers DEF DropInv, FloorTypeOK
  <2>2. CASE o # c
    BY <1>1, <1>2, <2>2, Numbers DEF DropInv, FloorTypeOK
  <2> QED BY <2>1, <2>2
<1> QED BY <1>2, <1>4, <1>5, <1>6, <1>7

\* The count is stored while it is at most as old as the call.
LEMMA CacheCountKeepsInv ==
    ASSUME FloorInv, NEW c \in Callers, CacheCount(c)
    PROVE  FloorInv'
<1> USE DEF FloorInv
<1>1. /\ UNCHANGED <<users, floorKey, since, counted, dropped, ago, dbFailed>>
      /\ at' = [at EXCEPT ![c] = "floor"] /\ at[c] = "cache"
      /\ countKey' = [val |-> counted[c], ttl |-> TTL] \/ countKey' = countKey
  BY DEF CacheCount, Key
<1>2. WasCount(counted[c], since[c]) /\ since[c] \in 0..Delay
  BY <1>1 DEF CallInv, FloorTypeOK
<1>3. FloorTypeOK'
  BY <1>1, <1>2, Numbers DEF FloorTypeOK, WasCount
<1>a. counted[c] \in Counts /\ ago[counted[c]] <= since[c] /\ ago[counted[c]] \in Nat
  BY <1>2 DEF FloorTypeOK, WasCount
<1>b. \A k \in Nat : WasCount(counted[c], since[c] + k)
  BY <1>2, <1>a, Numbers DEF WasCount
<1>4. CountKeyInv'
  <2>1. CASE countKey' = countKey
    BY <1>1, <2>1 DEF CountKeyInv, WasCount
  <2>2. CASE countKey' = [val |-> counted[c], ttl |-> TTL]
    <3>1. countKey'.val = counted[c] /\ countKey'.ttl = TTL
      BY <2>2
    <3>2. ago[counted[c]] <= Delay + TTL - TTL
      BY <1>2, <1>a, Numbers
    <3> QED BY <1>1, <1>a, <3>1, <3>2, Numbers DEF CountKeyInv, WasCount
  <2> QED BY <1>1, <2>1, <2>2
<1>5. CallInv'
  <2> SUFFICES ASSUME NEW o \in Callers
               PROVE  /\ at'[o] = "cache" => WasCount(counted[o], since[o])
                      /\ at'[o] = "floor" =>
                            \/ WasCount(counted[o], since[o] + Delay + TTL - 1)
                            \/ counted[o] = NMin /\ dbFailed <= since[o]
    BY <1>1 DEF CallInv, WasCount
  <2>1. CASE o = c
    <3>1. /\ Delay + TTL - 1 \in Nat
          /\ since[c] + (Delay + TTL - 1) = since[c] + Delay + TTL - 1
      BY <1>2, Numbers
    <3> QED BY <1>1, <1>b, <2>1, <3>1 DEF FloorTypeOK
  <2>2. CASE o # c
    BY <1>1, <2>2 DEF CallInv, FloorTypeOK
  <2> QED BY <2>1, <2>2
<1>6. DropInv'
  <2> SUFFICES ASSUME NEW o \in dropped
               PROVE  /\ at'[o] # "idle"
                      /\ at'[o] = "count" /\ countKey'.val # Missing =>
                            WasCount(countKey'.val, Delay + since[o])
                      /\ at'[o] = "floor" => \/ WasCount(counted[o], Delay + since[o])
                                             \/ counted[o] = NMin /\ dbFailed <= since[o]
    BY <1>1 DEF DropInv, WasCount
  <2>0. since[o] \in Nat /\ o \in Callers
    BY Numbers DEF FloorTypeOK
  <2>1. ago[counted[c]] <= Delay + since[o]
    BY <1>2, <1>a, <2>0, Numbers
  <2>2. WasCount(counted[c], Delay + since[o])
    BY <1>a, <2>1 DEF WasCount
  <2>3. countKey' # countKey => countKey'.val = counted[c]
    BY <1>1
  <2>4. CASE o = c
    BY <1>1, <2>2, <2>4 DEF FloorTypeOK
  <2>5. CASE o # c
    <3>1. at'[o] = at[o]
      BY <1>1, <2>5 DEF FloorTypeOK
    <3> QED BY <2>2, <2>3, <3>1 DEF DropInv
  <2> QED BY <2>4, <2>5
<1> QED BY <1>1, <1>3, <1>4, <1>5, <1>6 DEF FloorKeyInv

\* The floor of the count is stored, and the call returns.
LEMMA CacheFloorKeepsInv ==
    ASSUME FloorInv, NEW c \in Callers, CacheFloor(c)
    PROVE  FloorInv'
<1> USE DEF FloorInv
<1> DEFINE n == counted[c]
<1>1. /\ UNCHANGED <<users, countKey, ago, dbFailed>>
      /\ at' = [at EXCEPT ![c] = "idle"] /\ at[c] = "floor"
      /\ since' = [since EXCEPT ![c] = 0]
      /\ counted' = [counted EXCEPT ![c] = Missing]
      /\ dropped' = dropped \ {c}
      /\ floorKey' = [val |-> b_floor_for_users(n), ttl |-> TTL] \/ floorKey' = floorKey
  BY DEF CacheFloor, Key
<1>2. /\ \/ n \in Counts /\ ago[n] <= since[c] + Delay + TTL - 1
         \/ n = NMin /\ dbFailed <= since[c]
      /\ since[c] \in 0..Delay
  BY <1>1 DEF CallInv, WasCount, FloorTypeOK
<1>3. b_floor_for_users(n) \in Floors
  BY <1>2 DEF Floors
<1>4. FloorTypeOK'
  BY <1>1, <1>3, Numbers DEF FloorTypeOK
<1>5. CountKeyInv'
  BY <1>1 DEF CountKeyInv, WasCount
<1>6. CallInv' /\ DropInv'
  BY <1>1 DEF CallInv, DropInv, WasCount, FloorTypeOK
<1>7. FloorKeyInv'
  <2>1. CASE floorKey' = floorKey
    BY <1>1, <2>1 DEF FloorKeyInv
  <2>2. CASE floorKey' = [val |-> b_floor_for_users(n), ttl |-> TTL]
    <3>1. floorKey'.ttl = TTL /\ floorKey'.val = b_floor_for_users(n)
      BY <2>2
    <3>2. CASE n \in Counts /\ ago[n] <= since[c] + Delay + TTL - 1
      <4>1. ago[n] <= 2 * Delay + TTL - 1 + TTL - TTL
        <5>0. since[c] \in Nat /\ since[c] <= Delay
          BY <1>2, Numbers
        <5> HIDE DEF n
        <5>1. ago[n] \in Nat
          BY <3>2 DEF FloorTypeOK
        <5>2. ASSUME NEW x \in Nat, NEW y \in Nat, x <= y + Delay + TTL - 1, y <= Delay
              PROVE  x <= 2 * Delay + TTL - 1 + TTL - TTL
          BY <5>2, Numbers
        <5>3. ago[n] <= since[c] + Delay + TTL - 1
          BY <3>2
        <5> QED BY <5>0, <5>1, <5>2, <5>3
      <4> QED BY <1>1, <3>1, <3>2, <4>1, Numbers DEF FloorKeyInv
    <3>3. CASE n = NMin /\ dbFailed <= since[c]
      <4>1. dbFailed <= Delay + TTL - TTL
        BY <1>2, <3>3, Numbers DEF FloorTypeOK
      <4> QED BY <1>1, <3>1, <3>3, <4>1, Numbers DEF FloorKeyInv
    <3> QED BY <1>2, <3>2, <3>3
  <2> QED BY <1>1, <2>1, <2>2
<1> QED BY <1>4, <1>5, <1>6, <1>7

\* Every step keeps the ages.
LEMMA NextKeepsFloorInv == FloorInv /\ [FloorNext]_floorVars => FloorInv'
<1> SUFFICES ASSUME FloorInv, [FloorNext]_floorVars PROVE FloorInv'
  OBVIOUS
<1>1. CASE UNCHANGED floorVars
  BY <1>1 DEF floorVars, FloorInv, FloorTypeOK, CountKeyInv, CallInv, FloorKeyInv, DropInv, WasCount
<1> QED BY <1>1, UsersChangeKeepsInv, TickKeepsInv, RestartKeepsInv, CallBeginsKeepsInv,
           CountKeepsInv, CacheCountKeepsInv, CacheFloorKeepsInv DEF FloorNext

\* The inductive invariant of the floor holds in every reachable state.
LEMMA FloorInvariant == FloorSpec => []FloorInv
  BY InitFloorInv, NextKeepsFloorInv, PTL DEF FloorSpec

\* Whatever expires, fails or overlaps: a cached floor is that of a recent user count,
\* or of the fallback of a count that failed recently.
THEOREM AlwaysFloorIsRecent == FloorSpec => []FloorIsRecent
<1>1. ASSUME FloorInv, floorKey.val # Missing
      PROVE  \/ \E n \in Counts : WasCount(n, OldestFloor) /\ floorKey.val = b_floor_for_users(n)
             \/ dbFailed <= TTL - 1 + Delay /\ floorKey.val = b_floor_for_users(NMin)
  <2>1. floorKey.ttl \in 1..TTL
    BY <1>1, Numbers DEF FloorInv, FloorTypeOK, FloorKeyInv
  <2>2. CASE \E k \in Counts : /\ ago[k] <= 2 * Delay + TTL - 1 + TTL - floorKey.ttl
                               /\ floorKey.val = b_floor_for_users(k)
    <3>1. PICK k \in Counts : /\ ago[k] <= 2 * Delay + TTL - 1 + TTL - floorKey.ttl
                              /\ floorKey.val = b_floor_for_users(k)
      BY <2>2
    <3>2. WasCount(k, OldestFloor)
      BY <1>1, <2>1, <3>1, Numbers DEF WasCount, FloorInv, FloorTypeOK
    <3> QED BY <3>1, <3>2
  <2>3. CASE dbFailed <= Delay + TTL - floorKey.ttl /\ floorKey.val = b_floor_for_users(NMin)
    <3>1. dbFailed <= TTL - 1 + Delay
      BY <1>1, <2>1, <2>3, Numbers DEF FloorInv, FloorTypeOK
    <3> QED BY <2>3, <3>1
  <2> QED BY <1>1, <2>2, <2>3 DEF FloorInv, FloorKeyInv
<1>2. FloorInv => FloorIsRecent
  BY <1>1 DEF FloorIsRecent
<1> QED BY <1>2, FloorInvariant, PTL

\* Whoever refills the key in between: a refresh recomputes from a recent count.
THEOREM AlwaysRefreshRecounts == FloorSpec => []RefreshRecounts
<1>1. FloorInv => RefreshRecounts
  <2> SUFFICES ASSUME FloorInv, NEW c \in dropped, at[c] = "floor"
               PROVE  \/ WasCount(counted[c], 2 * Delay)
                      \/ counted[c] = NMin /\ dbFailed <= Delay
    BY DEF RefreshRecounts
  <2>1. since[c] \in Nat /\ since[c] <= Delay /\ dbFailed \in Nat
    BY Numbers DEF FloorInv, FloorTypeOK
  <2>2. ASSUME WasCount(counted[c], Delay + since[c]) PROVE WasCount(counted[c], 2 * Delay)
    <3>1. counted[c] \in Counts /\ ago[counted[c]] <= Delay + since[c]
          /\ ago[counted[c]] \in Nat
      BY <2>2 DEF WasCount, FloorInv, FloorTypeOK
    <3>2. ago[counted[c]] <= 2 * Delay
      BY <2>1, <3>1, Numbers
    <3> QED BY <3>1, <3>2 DEF WasCount
  <2>3. dbFailed <= since[c] => dbFailed <= Delay
    BY <2>1, Numbers
  <2> QED BY <2>2, <2>3 DEF FloorInv, DropInv
<1> QED BY <1>1, FloorInvariant, PTL

----------------------------------------------------------------------------
(* The volatility tiers *)

\* Types of the rows, of the key and of the tasks.
TierTypeOK ==
    /\ liquidity \in [Players -> Levels] /\ listed \subseteq Players
    /\ tierKey \in [tier : Tiers \cup {NoTier}, ttl : 0..TierTTL]
    /\ pending \subseteq Task
    /\ right \in [Tiers -> 0..OldestTier + 1]

\* A tier that some list gives Watched now is right now.
RightInv ==
    \A t \in Tiers, L \in Lists : t \in WatchedTiers(L \cap listed, liquidity) => right[t] = 0

\* A tier on its way was right when it was computed, a stored one within the delay
\* of its write.
AgeInv ==
    /\ \A t \in pending : right[t.tier] <= t.age
    /\ tierKey.tier # NoTier =>
          /\ tierKey.ttl >= 1
          /\ right[tierKey.tier] <= WriteDelay + TierTTL - tierKey.ttl

TierInv == TierTypeOK /\ RightInv /\ AgeInv

\* The assumptions, and the numbers they bound.
LEMMA TierNumbers ==
    /\ TierTTL \in Nat /\ TierTTL >= 1 /\ WriteDelay \in Nat /\ Levels \subseteq Nat
    /\ OldestTier \in Nat /\ OldestTier = TierTTL - 1 + WriteDelay
    /\ NoTier \notin Tiers /\ Watched \in Players /\ IsFiniteSet(Players)
    /\ \A L \in Lists : L \subseteq Players
BY TierAssumption DEF OldestTier, Tiers, Lists

\* The tier of a player is one of the three.
LEMMA WatchedTierType ==
    ASSUME NEW S \in SUBSET Players, NEW b
    PROVE  WatchedTiers(S, b) \subseteq Tiers
<1> SUFFICES ASSUME Watched \in S, NEW m \in compute_volatility_tiers(S, b)
             PROVE  m[Watched] \in Tiers
  BY DEF WatchedTiers
<1>1. CASE m = [p \in S |-> "medium"]
  BY <1>1 DEF Tiers
<1>2. ASSUME NEW r \in Ranks(S, b), m = [p \in S |-> TierOfRank(r[p], Cardinality(S))]
      PROVE  m[Watched] \in Tiers
  BY <1>2 DEF Tiers, TierOfRank
<1> QED BY <1>1, <1>2 DEF compute_volatility_tiers

\* What is known afterwards: a tier that is right now is, no other is older than before.
LEMMA KnownFacts ==
    ASSUME NEW S, NEW b, NEW was \in [Tiers -> 0..OldestTier + 1]
    PROVE  /\ Known(S, b, was) \in [Tiers -> 0..OldestTier + 1]
           /\ \A t \in Tiers : Known(S, b, was)[t] <= was[t]
           /\ \A t \in Tiers, L \in Lists : t \in WatchedTiers(L \cap S, b) => Known(S, b, was)[t] = 0
<1>1. Known(S, b, was) =
        [t \in Tiers |-> IF \E L \in Lists : t \in WatchedTiers(L \cap S, b) THEN 0 ELSE was[t]]
  BY DEF Known
<1>2. \A t \in Tiers : was[t] \in 0..OldestTier + 1 /\ 0 \in 0..OldestTier + 1
  BY TierNumbers
<1>3. \A t \in Tiers : /\ Known(S, b, was)[t] \in 0..OldestTier + 1
                      /\ Known(S, b, was)[t] \in {was[t], 0}
  BY <1>1, <1>2
<1>4. \A t \in Tiers : Known(S, b, was)[t] <= was[t]
  BY <1>2, <1>3, TierNumbers
<1>5. Known(S, b, was) \in [Tiers -> 0..OldestTier + 1]
  <2> DEFINE Right(t) == IF \E L \in Lists : t \in WatchedTiers(L \cap S, b) THEN 0 ELSE was[t]
  <2>1. \A t \in Tiers : Right(t) \in 0..OldestTier + 1
    BY <1>2
  <2>2. Known(S, b, was) = [t \in Tiers |-> Right(t)]
    BY <1>1
  <2> HIDE DEF Right
  <2> QED BY <2>1, <2>2
<1>6. ASSUME NEW t \in Tiers, NEW L \in Lists, t \in WatchedTiers(L \cap S, b)
      PROVE  Known(S, b, was)[t] = 0
  BY <1>1, <1>6
<1> QED BY <1>4, <1>5, <1>6

\* No key and no tasks: nothing is old.
LEMMA InitTierInv == TierInit => TierInv
<1> SUFFICES ASSUME TierInit PROVE TierInv
  OBVIOUS
<1> USE DEF TierInit
<1>1. [t \in Tiers |-> OldestTier + 1] \in [Tiers -> 0..OldestTier + 1]
  BY TierNumbers
<1>2. TierTypeOK
  BY <1>1, KnownFacts, TierNumbers DEF TierTypeOK, NoKey
<1>3. RightInv
  BY <1>1, KnownFacts DEF RightInv
<1>4. AgeInv
  BY DEF AgeInv, NoKey
<1> QED BY <1>2, <1>3, <1>4 DEF TierInv

\* Trades, recalibrations and deactivations change what is right, not what was.
LEMMA MovesKeepTierInv ==
    ASSUME TierInv,
           \/ \E p \in Players, v \in Levels : LiquidityMoves(p, v)
           \/ \E p \in Players : Delist(p)
    PROVE  TierInv'
<1> USE DEF TierInv
<1>1. /\ liquidity' \in [Players -> Levels] /\ listed' \subseteq Players
      /\ right' = Known(listed', liquidity', right)
      /\ UNCHANGED <<tierKey, pending>>
  BY DEF LiquidityMoves, Delist, TierTypeOK
<1>2. /\ right' \in [Tiers -> 0..OldestTier + 1]
      /\ \A t \in Tiers : right'[t] <= right[t]
      /\ \A t \in Tiers, L \in Lists : t \in WatchedTiers(L \cap listed', liquidity') => right'[t] = 0
  BY <1>1, KnownFacts DEF TierTypeOK
<1>3. TierTypeOK' /\ RightInv'
  BY <1>1, <1>2 DEF TierTypeOK, RightInv
<1>4. AgeInv'
  <2>1. \A t \in Tiers : right[t] \in Int /\ right'[t] \in Int
    BY <1>2 DEF TierTypeOK
  <2>2. \A t \in pending : t.tier \in Tiers /\ t.age \in Int
    BY DEF TierTypeOK, Task
  <2>3. \A t \in pending : right'[t.tier] <= t.age
    BY <1>2, <2>1, <2>2 DEF AgeInv
  <2>4. ASSUME tierKey.tier # NoTier
        PROVE  tierKey.ttl >= 1 /\ right'[tierKey.tier] <= WriteDelay + TierTTL - tierKey.ttl
    <3>1. tierKey.tier \in Tiers /\ tierKey.ttl \in Int
      BY <2>4 DEF TierTypeOK
    <3> QED BY <1>2, <2>1, <2>4, <3>1, TierNumbers DEF AgeInv
  <2> QED BY <1>1, <2>3, <2>4 DEF AgeInv
<1> QED BY <1>3, <1>4

\* A tick ages what was right, the tasks and the key alike.
LEMMA TickKeepsTierInv ==
    ASSUME TierInv, TierTick
    PROVE  TierInv'
<1> USE DEF TierInv
<1> DEFINE older == [t \in Tiers |-> OlderTier(right[t])]
<1>1. UNCHANGED <<liquidity, listed>> /\ right' = Known(listed, liquidity, older)
  BY DEF TierTick
<1>2. /\ older \in [Tiers -> 0..OldestTier + 1]
      /\ \A t \in Tiers : older[t] <= right[t] + 1
  BY TierNumbers DEF OlderTier, TierTypeOK
<1> HIDE DEF older
<1>3. /\ right' \in [Tiers -> 0..OldestTier + 1]
      /\ \A t \in Tiers : right'[t] <= right[t] + 1
      /\ \A t \in Tiers, L \in Lists : t \in WatchedTiers(L \cap listed, liquidity) => right'[t] = 0
  <2>1. /\ right' \in [Tiers -> 0..OldestTier + 1]
        /\ \A t \in Tiers : right'[t] <= older[t]
        /\ \A t \in Tiers, L \in Lists : t \in WatchedTiers(L \cap listed, liquidity) => right'[t] = 0
    BY <1>1, <1>2, KnownFacts
  <2>2. ASSUME NEW t \in Tiers PROVE right'[t] <= right[t] + 1
    <3>1. right'[t] \in Int /\ older[t] \in Int /\ right[t] \in Int
      BY <1>2, <2>1 DEF TierTypeOK
    <3> QED BY <1>2, <2>1, <3>1
  <2> QED BY <2>1, <2>2
<1>4. /\ pending' \subseteq Task
      /\ \A t \in pending' : \E u \in pending : t.tier = u.tier /\ t.age = u.age + 1
  <2> SUFFICES ASSUME NEW t \in pending'
               PROVE  t \in Task /\ \E u \in pending : t.tier = u.tier /\ t.age = u.age + 1
    OBVIOUS
  <2>1. PICK u \in pending : t = [u EXCEPT !.age = @ + 1] /\ u.age < WriteDelay
    BY DEF TierTick
  <2>2. u.tier \in Tiers /\ u.age \in 0..WriteDelay /\ u = [tier |-> u.tier, age |-> u.age]
    BY DEF TierTypeOK, Task
  <2>3. t = [tier |-> u.tier, age |-> u.age + 1]
    BY <2>1, <2>2
  <2>4. u.age + 1 \in 0..WriteDelay
    BY <2>1, <2>2, TierNumbers
  <2> QED BY <2>2, <2>3, <2>4 DEF Task
<1>5. \/ tierKey' = NoKey
      \/ tierKey.ttl > 1 /\ tierKey' = [tierKey EXCEPT !.ttl = @ - 1]
  BY DEF TierTick, TierTypeOK
<1>6. tierKey' \in [tier : Tiers \cup {NoTier}, ttl : 0..TierTTL]
  BY <1>5, TierNumbers DEF NoKey, TierTypeOK
<1>7. TierTypeOK'
  BY <1>1, <1>3, <1>4, <1>6 DEF TierTypeOK
<1>8. RightInv'
  BY <1>1, <1>3 DEF RightInv
<1>9. AgeInv'
  <2>1. ASSUME NEW t \in pending' PROVE right'[t.tier] <= t.age
    <3>1. PICK u \in pending : t.tier = u.tier /\ t.age = u.age + 1
      BY <1>4
    <3>2. right[u.tier] <= u.age /\ u.tier \in Tiers /\ u.age \in Int
      BY DEF AgeInv, TierTypeOK, Task
    <3>3. right'[u.tier] <= right[u.tier] + 1
          /\ right[u.tier] \in Int /\ right'[u.tier] \in Int
      BY <1>3, <3>2 DEF TierTypeOK
    <3> QED BY <3>1, <3>2, <3>3
  <2>2. ASSUME tierKey'.tier # NoTier
        PROVE  tierKey'.ttl >= 1 /\ right'[tierKey'.tier] <= WriteDelay + TierTTL - tierKey'.ttl
    <3>1. /\ tierKey.ttl > 1 /\ tierKey'.ttl = tierKey.ttl - 1 /\ tierKey'.tier = tierKey.tier
          /\ tierKey.tier \in Tiers /\ tierKey.ttl \in Nat
      BY <1>5, <2>2, TierNumbers DEF NoKey, TierTypeOK
    <3>2. right[tierKey.tier] <= WriteDelay + TierTTL - tierKey.ttl
      BY <3>1, TierNumbers DEF AgeInv
    <3>3. right'[tierKey.tier] <= right[tierKey.tier] + 1
          /\ right[tierKey.tier] \in Int /\ right'[tierKey.tier] \in Int
      BY <1>3, <3>1 DEF TierTypeOK
    <3> QED BY <3>1, <3>2, <3>3, TierNumbers
  <2> QED BY <2>1, <2>2 DEF AgeInv
<1> QED BY <1>7, <1>8, <1>9

\* A list hands a task of its own a tier that is right now.
LEMMA ListingKeepsTierInv ==
    ASSUME TierInv, NEW L \in Lists, WriteLater(L)
    PROVE  TierInv'
<1> USE DEF TierInv
<1>1. PICK t \in WatchedTiers(L \cap listed, liquidity) :
          pending' = pending \cup {[tier |-> t, age |-> 0]}
  BY DEF WriteLater
<1>2. UNCHANGED <<liquidity, listed, tierKey, right>>
  BY DEF WriteLater
<1>3. t \in Tiers
  <2>1. L \cap listed \in SUBSET Players
    BY DEF TierTypeOK
  <2> QED BY <1>1, <2>1, WatchedTierType
<1>4. right[t] = 0
  BY <1>1, <1>3 DEF RightInv
<1>5. TierTypeOK' /\ RightInv'
  BY <1>1, <1>2, <1>3, TierNumbers DEF TierTypeOK, RightInv, Task
<1>6. AgeInv'
  BY <1>1, <1>2, <1>4 DEF AgeInv
<1> QED BY <1>5, <1>6

\* In whatever order the tasks write: a write starts the lifetime of a tier that has
\* waited WriteDelay at most.
LEMMA WriteKeepsTierInv ==
    ASSUME TierInv, NEW t \in pending, WriteTiers(t)
    PROVE  TierInv'
<1> USE DEF TierInv
<1>1. /\ pending' \subseteq pending
      /\ tierKey' = [tier |-> t.tier, ttl |-> TierTTL] \/ UNCHANGED tierKey
      /\ UNCHANGED <<liquidity, listed, right>>
  BY DEF WriteTiers, Written
<1>2. t.tier \in Tiers /\ right[t.tier] <= WriteDelay /\ right[t.tier] \in Nat
  <2>1. t.tier \in Tiers /\ t.age \in 0..WriteDelay /\ right[t.tier] <= t.age
    BY DEF AgeInv, TierTypeOK, Task
  <2>2. right[t.tier] \in Nat
    BY <2>1, TierNumbers DEF TierTypeOK
  <2> QED BY <2>1, <2>2, TierNumbers
<1>3. TierTypeOK' /\ RightInv'
  BY <1>1, <1>2, TierNumbers DEF TierTypeOK, RightInv
<1>4. AgeInv'
  BY <1>1, <1>2, TierNumbers DEF AgeInv
<1> QED BY <1>3, <1>4

\* Every action of the lists, the page, the writes and the clock keeps the invariant.
LEMMA NextKeepsTierInv == TierInv /\ [TierNext]_tierVars => TierInv'
<1> SUFFICES ASSUME TierInv, [TierNext]_tierVars PROVE TierInv'
  OBVIOUS
<1>1. CASE \E p \in Players : Delist(p) \/ \E v \in Levels : LiquidityMoves(p, v)
  BY <1>1, MovesKeepTierInv
<1>2. CASE TierTick
  BY <1>2, TickKeepsTierInv
<1>3. CASE get_players \/ get_players_filtered \/ get_player
  BY <1>3, ListingKeepsTierInv DEF get_players, get_players_filtered, get_player, Lists
<1>4. CASE \E t \in pending : WriteTiers(t)
  BY <1>4, WriteKeepsTierInv
<1>5. CASE UNCHANGED tierVars
  BY <1>5 DEF tierVars, TierInv, TierTypeOK, RightInv, AgeInv
<1> QED BY <1>1, <1>2, <1>3, <1>4, <1>5 DEF TierNext

\* The inductive invariant holds in every reachable state.
THEOREM TierInvariant == TierSpec => []TierInv
<1> QED BY InitTierInv, NextKeepsTierInv, PTL DEF TierSpec

\* For any lists and population, any number of tasks that write in any order, any
\* lifetime and any delay of the writes.
THEOREM AlwaysTierWasTrue == TierSpec => []TierWasTrue
<1>1. TierInv => TierWasTrue
  <2> SUFFICES ASSUME TierInv, tierKey.tier # NoTier
               PROVE  right[tierKey.tier] <= OldestTier
    BY DEF TierWasTrue
  <2>1. tierKey.ttl >= 1 /\ right[tierKey.tier] <= WriteDelay + TierTTL - tierKey.ttl
    BY DEF TierInv, AgeInv
  <2>2. tierKey.ttl \in Int /\ right[tierKey.tier] \in Int
    BY TierNumbers DEF TierInv, TierTypeOK
  <2> QED BY <2>1, <2>2, TierNumbers
<1> QED BY <1>1, TierInvariant, PTL

----------------------------------------------------------------------------
(* How the tiers share out the players *)

\* Ranks are distinct and there are as many as players: k of them are below k.
LEMMA RanksBelow ==
    ASSUME NEW S, IsFiniteSet(S), NEW b, NEW r \in Ranks(S, b), NEW k \in 0..Cardinality(S)
    PROVE  /\ IsFiniteSet({p \in S : r[p] < k})
           /\ Cardinality({p \in S : r[p] < k}) = k
<1> DEFINE n == Cardinality(S)
           N == 0..n - 1
           Low == {p \in S : r[p] < k}
<1>1. n \in Nat /\ IsFiniteSet(N) /\ Cardinality(N) = n
  <2>1. n \in Nat
    BY FS_CardinalityType
  <2>2. 0 \in Int /\ n - 1 \in Int
    BY <2>1
  <2>3. IsFiniteSet(0..n - 1) /\ Cardinality(0..n - 1) = IF 0 > n - 1 THEN 0 ELSE n - 1 - 0 + 1
    <3> HIDE DEF n
    <3> QED BY <2>2, FS_Interval
  <2> QED BY <2>1, <2>3
<1>2. r \in [S -> N] /\ \A p, q \in S : p # q => r[p] # r[q]
  BY DEF Ranks
<1>3. r \in Injection(S, N)
  <2> HIDE DEF N
  <2> QED BY <1>2, Fun_IsInj
<1>4. r \in Surjection(S, N)
  <2> HIDE DEF N, n
  <2> QED BY <1>1, <1>3, FS_Injection DEF n
<1> DEFINE f == [p \in Low |-> r[p]]
<1>5. f \in Bijection(Low, 0..k - 1)
  <2>1. f \in [Low -> 0..k - 1]
    BY <1>1, <1>2
  <2>2. \A p, q \in Low : p # q => f[p] # f[q]
    BY <1>2
  <2>3. \A i \in 0..k - 1 : \E p \in Low : f[p] = i
    <3> TAKE i \in 0..k - 1
    <3>1. i \in N
      BY <1>1
    <3>2. PICK p \in S : r[p] = i
      <4> HIDE DEF N
      <4> QED BY <1>4, <3>1 DEF Surjection
    <3> QED BY <1>1, <3>2
  <2> HIDE DEF f, Low
  <2> QED BY <2>1, <2>2, <2>3, Fun_IsBij
<1>6. IsFiniteSet(Low)
  BY FS_Subset
<1>7. Cardinality(0..k - 1) = k
  <2>1. k \in Int
    BY <1>1
  <2> QED BY <1>1, <2>1, FS_Interval
<1>8. ExistsBijection(Low, 0..k - 1)
  <2> HIDE DEF f, Low
  <2> QED BY <1>5 DEF ExistsBijection
<1>9. Cardinality(0..k - 1) = Cardinality(Low)
  <2> HIDE DEF Low
  <2> QED BY <1>6, <1>8, FS_Bijection
<1> QED BY <1>6, <1>7, <1>9

\* So k - j of them are between j and k.
LEMMA RanksBetween ==
    ASSUME NEW S, IsFiniteSet(S), NEW b, NEW r \in Ranks(S, b),
           NEW k \in 0..Cardinality(S), NEW j \in 0..k
    PROVE  Cardinality({p \in S : j <= r[p] /\ r[p] < k}) = k - j
<1> DEFINE Below(i) == {p \in S : r[p] < i}
<1>1. Cardinality(S) \in Nat
  BY FS_CardinalityType
<1>2. \A p \in S : r[p] \in Int
  BY <1>1 DEF Ranks
<1>3. /\ IsFiniteSet(Below(k)) /\ Cardinality(Below(k)) = k
      /\ Cardinality(Below(j)) = j
  BY <1>1, RanksBelow
<1>4. Below(k) \cap Below(j) = Below(j)
  BY <1>1, <1>2
<1>5. Cardinality(Below(k) \ Below(j)) = Cardinality(Below(k)) - Cardinality(Below(k) \cap Below(j))
  <2> HIDE DEF Below
  <2> QED BY <1>3, FS_Difference
<1>6. {p \in S : j <= r[p] /\ r[p] < k} = Below(k) \ Below(j)
  BY <1>1, <1>2
<1> HIDE DEF Below
<1> QED BY <1>3, <1>4, <1>5, <1>6

\* The two cuts of a list of n divide it into parts of equal size, but for one.
LEMMA Thirds ==
    ASSUME NEW n \in Nat
    PROVE  LET a == n \div 3
               c == (2 * n) \div 3
           IN  /\ a \in 0..n /\ c \in a..n
               /\ a - (c - a) \in -1..1 /\ (c - a) - (n - c) \in -1..1 /\ a - (n - c) \in -1..1
OBVIOUS

\* How many players of S the map m gives tier t.
Share(S, m, t) == Cardinality({p \in S : m[p] = t})

\* The shares of the three tiers.
LEMMA TierSizes ==
    ASSUME NEW S, IsFiniteSet(S), NEW b, NEW r \in Ranks(S, b),
           NEW m, \A p \in S : m[p] = TierOfRank(r[p], Cardinality(S))
    PROVE  /\ Share(S, m, "high") = Cardinality(S) \div 3
           /\ Share(S, m, "medium") = (2 * Cardinality(S)) \div 3 - Cardinality(S) \div 3
           /\ Share(S, m, "low") = Cardinality(S) - (2 * Cardinality(S)) \div 3
<1> DEFINE n == Cardinality(S)
           a == n \div 3
           c == (2 * n) \div 3
<1>1. n \in Nat
  BY FS_CardinalityType
<1>2. a \in 0..n /\ c \in a..n /\ a \in Int /\ c \in Int
  BY <1>1, Thirds
<1>3. \A p \in S : r[p] \in 0..n - 1 /\ m[p] = TierOfRank(r[p], n)
  BY DEF Ranks
<1>4. \A p \in S : /\ m[p] = "high" <=> 0 <= r[p] /\ r[p] < a
                   /\ m[p] = "medium" <=> a <= r[p] /\ r[p] < c
                   /\ m[p] = "low" <=> c <= r[p] /\ r[p] < n
  <2> TAKE p \in S
  <2>1. m[p] = IF r[p] < a THEN "high" ELSE IF r[p] < c THEN "medium" ELSE "low"
    BY <1>3 DEF TierOfRank
  <2>2. r[p] \in Int /\ 0 <= r[p] /\ r[p] < n
    BY <1>1, <1>3
  <2> HIDE DEF n, a, c
  <2> QED BY <1>1, <1>2, <2>1, <2>2
<1>5. /\ {p \in S : m[p] = "high"} = {p \in S : 0 <= r[p] /\ r[p] < a}
      /\ {p \in S : m[p] = "medium"} = {p \in S : a <= r[p] /\ r[p] < c}
      /\ {p \in S : m[p] = "low"} = {p \in S : c <= r[p] /\ r[p] < n}
  <2> HIDE DEF n, a, c
  <2> QED BY <1>4
<1>6. Cardinality({p \in S : 0 <= r[p] /\ r[p] < a}) = a - 0
  <2>1. a \in 0..Cardinality(S) /\ 0 \in 0..a
    BY <1>1, <1>2
  <2> HIDE DEF a
  <2> QED BY <2>1, RanksBetween
<1>7. Cardinality({p \in S : a <= r[p] /\ r[p] < c}) = c - a
  <2>1. c \in 0..Cardinality(S) /\ a \in 0..c
    BY <1>1, <1>2
  <2> HIDE DEF a, c
  <2> QED BY <2>1, RanksBetween
<1>8. Cardinality({p \in S : c <= r[p] /\ r[p] < n}) = n - c
  <2>1. n \in 0..Cardinality(S) /\ c \in 0..n
    BY <1>1, <1>2
  <2> HIDE DEF c
  <2> QED BY <2>1, RanksBetween
<1>9. a - 0 = a
  BY <1>2
<1>10. /\ Cardinality({p \in S : m[p] = "high"}) = a
       /\ Cardinality({p \in S : m[p] = "medium"}) = c - a
       /\ Cardinality({p \in S : m[p] = "low"}) = n - c
  <2> HIDE DEF n, a, c
  <2> QED BY <1>5, <1>6, <1>7, <1>8, <1>9
<1> QED BY <1>10 DEF Share

\* A player with less liquidity has a lower rank.
LEMMA RanksFollowLiquidity ==
    ASSUME NEW S, IsFiniteSet(S), NEW b, \A p \in S : b[p] \in Int,
           NEW r \in Ranks(S, b), NEW p \in S, NEW q \in S, b[p] < b[q]
    PROVE  r[p] < r[q]
<1>1. Cardinality(S) \in Nat
  BY FS_CardinalityType
<1>2. r[p] \in Int /\ r[q] \in Int /\ p # q
  BY <1>1 DEF Ranks
<1>3. r[p] # r[q] /\ (r[q] < r[p] => b[q] <= b[p])
  BY <1>2 DEF Ranks
<1> QED BY <1>2, <1>3

\* For any population and any list of it.
THEOREM AlwaysTiersFollowLiquidity == TierSpec => []TiersFollowLiquidity
<1>1. ASSUME TierInv PROVE TiersFollowLiquidity
  <2> SUFFICES ASSUME NEW S \in SUBSET listed,
                      NEW m \in compute_volatility_tiers(S, liquidity)
               PROVE  LET In(t) == Cardinality({p \in S : m[p] = t})
                          Split == \E p \in S : m[p] # "medium"
                      IN  /\ \A p, q \in S : liquidity[p] < liquidity[q] =>
                                /\ m[p] = "low" => m[q] = "low"
                                /\ m[q] = "high" => m[p] = "high"
                          /\ Split => \A t, u \in Tiers : In(t) - In(u) \in -1..1
    BY DEF TiersFollowLiquidity
  <2>1. IsFiniteSet(S) /\ \A p \in S : liquidity[p] \in Int
    <3>1. S \in SUBSET Players
      BY <1>1 DEF TierInv, TierTypeOK
    <3>2. IsFiniteSet(S)
      BY <3>1, FS_Subset, TierNumbers
    <3>3. \A p \in Players : liquidity[p] \in Int
      <4>1. liquidity \in [Players -> Levels]
        BY <1>1 DEF TierInv, TierTypeOK
      <4>2. \A v \in Levels : v \in Int
        BY TierNumbers
      <4> QED BY <4>1, <4>2
    <3> QED BY <3>1, <3>2, <3>3
  <2>2. CASE m = [p \in S |-> "medium"]
    BY <2>2
  <2>3. ASSUME NEW r \in Ranks(S, liquidity),
               m = [p \in S |-> TierOfRank(r[p], Cardinality(S))]
        PROVE  /\ \A p, q \in S : liquidity[p] < liquidity[q] =>
                     /\ m[p] = "low" => m[q] = "low"
                     /\ m[q] = "high" => m[p] = "high"
               /\ \A t, u \in Tiers :
                     Cardinality({p \in S : m[p] = t}) - Cardinality({p \in S : m[p] = u}) \in -1..1
    <3> DEFINE n == Cardinality(S)
               a == n \div 3
               c == (2 * n) \div 3
               In(t) == Cardinality({p \in S : m[p] = t})
    <3>1. n \in Nat
      BY <2>1, FS_CardinalityType
    <3>2. ASSUME NEW p \in S, NEW q \in S, liquidity[p] < liquidity[q]
          PROVE  /\ m[p] = "low" => m[q] = "low"
                 /\ m[q] = "high" => m[p] = "high"
      <4>1. r[p] < r[q] /\ r[p] \in Int /\ r[q] \in Int
        BY <2>1, <2>3, <3>1, <3>2, RanksFollowLiquidity DEF Ranks
      <4>2. a \in Int /\ c \in Int
        BY <3>1
      <4>3. /\ m[p] = IF r[p] < a THEN "high" ELSE IF r[p] < c THEN "medium" ELSE "low"
            /\ m[q] = IF r[q] < a THEN "high" ELSE IF r[q] < c THEN "medium" ELSE "low"
        BY <2>3 DEF TierOfRank
      <4> HIDE DEF a, c
      <4> QED BY <4>1, <4>2, <4>3
    <3>3. In("high") = a /\ In("medium") = c - a /\ In("low") = n - c
      <4>1. \A p \in S : m[p] = TierOfRank(r[p], Cardinality(S))
        BY <2>3
      <4>2. /\ Share(S, m, "high") = Cardinality(S) \div 3
            /\ Share(S, m, "medium") = (2 * Cardinality(S)) \div 3 - Cardinality(S) \div 3
            /\ Share(S, m, "low") = Cardinality(S) - (2 * Cardinality(S)) \div 3
        <5> HIDE DEF n, a, c, In
        <5> QED BY <2>1, <4>1, TierSizes
      <4> QED BY <4>2 DEF Share
    <3>4. /\ a \in Int /\ c \in Int
          /\ a - (c - a) \in -1..1 /\ (c - a) - (n - c) \in -1..1 /\ a - (n - c) \in -1..1
      BY <3>1, Thirds
    <3>5. \A t, u \in Tiers : In(t) - In(u) \in -1..1
      <4> HIDE DEF In, a, c, n
      <4> QED BY <3>1, <3>3, <3>4 DEF Tiers
    <3> QED BY <3>2, <3>5
  <2> QED BY <2>2, <2>3 DEF compute_volatility_tiers
<1> QED BY <1>1, TierInvariant, PTL
=============================================================================
