--------------------------- MODULE OracleProofs ---------------------------
(***************************************************************************)
(* Theorems about OracleUpdates, for any calendar and lineups, any number  *)
(* of overlapping runs, recalibrations and trades.                         *)
(***************************************************************************)
EXTENDS OracleUpdates, TLAPS

\* Nobody rated is a whole.
LEMMA NoneIsWhole == \A f : WholeIn({}, f)
BY DEF WholeIn, RatedIn

\* Nothing has run yet.
LEMMA InitIInv == Init => IInv
<1> SUFFICES ASSUME Init PROVE IInv
  OBVIOUS
<1> USE IdsAssumption, LineupAssumption, TxnAssumption DEF Init
<1>1. TypeOK
  BY DEF TypeOK, NothingSeen, NoTrade, Version, Pairs, Txns, AtRow
<1>2. LockInv
  BY DEF LockInv, NoTrade, Pairs
<1>3. EntryInv /\ OwnInv /\ FromInv /\ VersionInv
  BY NoneIsWhole DEF EntryInv, OwnInv, FromInv, VersionInv, AtRow, Written
<1>4. WholeFixtures /\ PricesUntouched /\ OracleFromCommitted
  BY NoneIsWhole DEF WholeFixtures, PricesUntouched, OracleFromCommitted
<1> QED BY <1>1, <1>2, <1>3, <1>4 DEF IInv

\* The end of a run, whatever it commits: the other sessions' flushed rows still
\* rest on what they rested on, since match ratings are only ever added and the
\* locked q's stay.
LEMMA RunEndsKeepsIInv ==
    ASSUME IInv, NEW w \in Tasks, RunEnds(w),
           rated \subseteq rated', rated' \subseteq Pairs,
           oracle' \in [Markets -> SUBSET Fixtures],
           q' = q, trades' = trades,
           WholeFixtures', OracleFromCommitted'
    PROVE  IInv'
<1> USE TxnAssumption DEF IInv
<1>1. TypeOK'
  BY DEF TypeOK, RunEnds, others, NothingSeen, Version, AtRow, Txns
<1>2. LockInv'
  BY DEF TypeOK, LockInv, RunEnds, others, Txns
<1>3. EntryInv'
  BY DEF TypeOK, EntryInv, RunEnds, Entry, AtRow
<1>4. OwnInv'
  <2> SUFFICES ASSUME NEW v \in Tasks, NEW f \in Fixtures
               PROVE  IF tpc'[v] \in {"player"} \cup AtRow /\ cur'[v] = f
                      THEN /\ RatedIn(own'[v], f) \subseteq Reached(f)
                           /\ Reaches(f, at'[v])
                           /\ \A i \in 1 .. at'[v] - 1 :
                                  i \in DOMAIN Lineup[f] /\ Lineup[f][i] \in Players =>
                                      <<Lineup[f][i], f>> \in own'[v]
                      ELSE WholeIn(own'[v], f)
    BY DEF OwnInv, WholeIn, RatedIn, Reached, Reaches
  <2>1. CASE v = w
    BY <2>1, NoneIsWhole DEF TypeOK, RunEnds, AtRow
  <2>2. CASE v # w
    BY <2>2 DEF TypeOK, OwnInv, RunEnds
  <2> QED BY <2>1, <2>2
<1>5. FromInv'
  <2> SUFFICES ASSUME NEW v \in Tasks
               PROVE  /\ tpc'[v] = "market" => seen'[v].from \subseteq RatingsOf(v, Entry(v))'
                      /\ \A p \in Written(v)' : writes'[v][p].from \subseteq RatingsOf(v, p)'
    BY DEF FromInv
  <2>1. CASE v = w
    BY <2>1 DEF TypeOK, RunEnds, Written
  <2>2. CASE v # w
    BY <2>2 DEF TypeOK, RunEnds, Written, FromInv, RatingsOf, Entry
  <2> QED BY <2>1, <2>2
<1>6. VersionInv'
  BY DEF TypeOK, VersionInv, RunEnds, Written
<1>7. PricesUntouched'
  BY DEF PricesUntouched
<1> QED BY <1>1, <1>2, <1>3, <1>4, <1>5, <1>6, <1>7

\* A run moves on to another fixture or entry; nothing is flushed.
LEMMA MovingKeepsIInv ==
    ASSUME IInv, NEW w \in Tasks,
           \/ Select(w) \/ SkipFixture(w) \/ StartFixture(w)
           \/ EndFixture(w) \/ SkipUnknown(w) \/ ReadRow(w)
    PROVE  IInv'
<1> USE LineupAssumption DEF IInv
<1>1. UNCHANGED <<tables, seen, own, writes, locks, others>>
  BY DEF Select, SkipFixture, StartFixture, EndFixture, SkipUnknown, ReadRow
<1>2. TypeOK'
  <2>1. /\ tpc' \in [Tasks -> {"idle", "next", "player"} \cup AtRow]
        /\ todo' \in [Tasks -> SUBSET Fixtures]
        /\ cur' \in [Tasks -> Fixtures \cup {NoFixture}]
        /\ at' \in [Tasks -> Nat \ {0}]
        /\ total' \in [Tasks -> BOOLEAN]
    <3> USE DEF TypeOK, AtRow
    <3>1. CASE Select(w)
      <4>1. PICK new \in SUBSET Fixtures : todo' = [todo EXCEPT ![w] = new]
        BY <3>1 DEF Select
      <4>2. todo' \in [Tasks -> SUBSET Fixtures]
        BY <4>1
      <4> QED BY <3>1, <4>2 DEF Select
    <3>6. CASE SkipFixture(w)
      <4>1. PICK f \in Fixtures : todo' = [todo EXCEPT ![w] = @ \ {f}]
        BY <3>6 DEF SkipFixture
      <4>2. todo' \in [Tasks -> SUBSET Fixtures]
        BY <4>1
      <4> QED BY <3>6, <4>2 DEF SkipFixture
    <3>2. CASE StartFixture(w)
      BY <3>2 DEF StartFixture
    <3>3. CASE EndFixture(w)
      BY <3>3 DEF EndFixture
    <3>4. CASE SkipUnknown(w)
      BY <3>4 DEF SkipUnknown
    <3>5. CASE ReadRow(w)
      BY <3>5 DEF ReadRow
    <3> QED BY <3>1, <3>2, <3>3, <3>4, <3>5, <3>6
  <2> QED BY <1>1, <2>1 DEF TypeOK, tables, locks, others
<1>3. LockInv'
  <2>1. \A v \in Tasks : tpc'[v] = "idle" => tpc[v] = "idle"
    BY DEF TypeOK, Select, SkipFixture, StartFixture, EndFixture, SkipUnknown, ReadRow
  <2> QED BY <1>1, <2>1 DEF LockInv, locks, others
<1>4. EntryInv'
  <2> USE DEF TypeOK, EntryInv, Entry, AtRow
  <2>1. CASE Select(w) \/ SkipFixture(w)
    BY <1>1, <2>1 DEF Select, SkipFixture
  <2>2. CASE StartFixture(w)
    <3>1. tpc'[w] = "player" /\ cur'[w] \in Fixtures
      BY <2>2 DEF StartFixture
    <3>2. \A v \in Tasks \ {w} : tpc'[v] = tpc[v] /\ cur'[v] = cur[v] /\ at'[v] = at[v]
      BY <2>2 DEF StartFixture
    <3> QED BY <1>1, <3>1, <3>2
  <2>3. CASE EndFixture(w)
    <3>1. tpc'[w] = "next"
      BY <2>3 DEF EndFixture
    <3>2. \A v \in Tasks \ {w} : tpc'[v] = tpc[v] /\ cur'[v] = cur[v] /\ at'[v] = at[v]
      BY <2>3 DEF EndFixture
    <3> QED BY <1>1, <3>1, <3>2
  <2>4. CASE SkipUnknown(w) \/ ReadRow(w)
    BY <1>1, <2>4 DEF SkipUnknown, ReadRow, AtEntry
  <2> QED BY <2>1, <2>2, <2>3, <2>4
<1>5. OwnInv'
  <2> SUFFICES ASSUME NEW v \in Tasks, NEW f \in Fixtures
               PROVE  IF tpc'[v] \in {"player"} \cup AtRow /\ cur'[v] = f
                      THEN /\ RatedIn(own'[v], f) \subseteq Reached(f)
                           /\ Reaches(f, at'[v])
                           /\ \A i \in 1 .. at'[v] - 1 :
                                  i \in DOMAIN Lineup[f] /\ Lineup[f][i] \in Players =>
                                      <<Lineup[f][i], f>> \in own'[v]
                      ELSE WholeIn(own'[v], f)
    BY DEF OwnInv, WholeIn, RatedIn, Reached, Reaches
  <2>1. own' = own
    BY <1>1
  <2>2. CASE v # w
    BY <2>1, <2>2 DEF TypeOK, OwnInv, Select, SkipFixture, StartFixture, EndFixture,
                      SkipUnknown, ReadRow
  <2>3. CASE v = w /\ (Select(w) \/ SkipFixture(w))
    <3>1. tpc[w] \notin {"player"} \cup AtRow /\ tpc'[w] \notin {"player"} \cup AtRow
      BY <2>3 DEF TypeOK, AtRow, Select, SkipFixture
    <3> QED BY <2>1, <2>3, <3>1 DEF OwnInv
  <2>4. CASE v = w /\ StartFixture(w)
    <3>1. tpc[w] = "next" /\ tpc'[w] = "player" /\ at'[w] = 1
      BY <2>4 DEF TypeOK, StartFixture
    <3>2. WholeIn(own[w], f)
      BY <3>1 DEF OwnInv, AtRow
    <3>3. RatedIn(own[w], f) \subseteq Reached(f) /\ Reaches(f, 1)
      BY <3>2 DEF WholeIn, Reaches
    <3> QED BY <2>1, <2>4, <3>1, <3>2, <3>3
  <2>5. CASE v = w /\ EndFixture(w)
    <3>1. Lineup[f] \in Seq(Ids)
      OBVIOUS
    <3>2. CASE cur[w] = f
      <4>1. \A i \in DOMAIN Lineup[f] : Lineup[f][i] \in Players =>
                <<Lineup[f][i], f>> \in own[w]
        BY <2>5, <3>1, <3>2 DEF TypeOK, OwnInv, EndFixture
      <4>3. RatedIn(own[w], f) \subseteq Reached(f)
        BY <2>5, <3>2 DEF OwnInv, EndFixture
      <4>4. Reached(f) \subseteq RatedIn(own[w], f)
        BY <4>1, IdsAssumption DEF Reached, RatedIn
      <4>2. WholeIn(own[w], f)
        BY <4>3, <4>4 DEF WholeIn
      <4> QED BY <2>1, <2>5, <4>2 DEF TypeOK, EndFixture, AtRow
    <3>3. CASE cur[w] # f
      BY <2>1, <2>5, <3>3 DEF TypeOK, OwnInv, EndFixture, AtRow
    <3> QED BY <3>2, <3>3
  <2>6. CASE v = w /\ (SkipUnknown(w) \/ ReadRow(w))
    <3>1. CASE cur[w] # f
      BY <2>1, <2>6, <3>1 DEF TypeOK, OwnInv, AtEntry, AtRow, SkipUnknown, ReadRow
    <3>2. CASE cur[w] = f
      <4>1. /\ RatedIn(own[w], f) \subseteq Reached(f) /\ Reaches(f, at[w])
            /\ \A i \in 1 .. at[w] - 1 : i \in DOMAIN Lineup[f] /\ Lineup[f][i] \in Players =>
                    <<Lineup[f][i], f>> \in own[w]
            /\ cur'[w] = f /\ tpc'[w] \in {"player"} \cup AtRow
        BY <2>6, <3>2 DEF TypeOK, OwnInv, AtEntry, AtRow, SkipUnknown, ReadRow
      <4>2. CASE ReadRow(w)
        BY <2>1, <2>6, <3>2, <4>1, <4>2 DEF TypeOK, ReadRow
      <4>3. CASE SkipUnknown(w)
        <5>1. at'[w] = at[w] + 1 /\ at[w] \in Nat /\ Lineup[f][at[w]] \notin Players
          BY <3>2, <4>3 DEF TypeOK, SkipUnknown, Entry
        <5>2. \A i \in 1 .. at'[w] - 1 : i \in 1 .. at[w] - 1 \/ i = at[w]
          BY <5>1
        <5> QED BY <2>1, <2>6, <4>1, <5>1, <5>2 DEF Reaches
      <4> QED BY <2>6, <4>2, <4>3
    <3> QED BY <3>1, <3>2
  <2> QED BY <2>2, <2>3, <2>4, <2>5, <2>6
<1>6. FromInv'
  <2>1. \A v \in Tasks : tpc'[v] = "market" =>
            tpc[v] = "market" /\ Entry(v)' = Entry(v)
    BY DEF TypeOK, Entry, AtEntry, Select, SkipFixture, StartFixture, EndFixture,
           SkipUnknown, ReadRow
  <2> QED BY <1>1, <2>1 DEF FromInv, Written, RatingsOf, tables, locks
<1>7. VersionInv'
  BY <1>1 DEF VersionInv, Written, tables, locks
<1>8. WholeFixtures' /\ PricesUntouched' /\ OracleFromCommitted'
  BY <1>1 DEF WholeFixtures, PricesUntouched, OracleFromCommitted, tables
<1> QED BY <1>2, <1>3, <1>4, <1>5, <1>6, <1>7, <1>8

\* The flush of a match rating: the run has one more rating of its own, which it
\* may rest on.
LEMMA RatingKeepsIInv ==
    ASSUME IInv, NEW w \in Tasks, Rate(w) \/ RateOnly(w) \/ EntryRaises(w)
    PROVE  IInv'
<1> USE LineupAssumption, TxnAssumption DEF IInv
<1> DEFINE r == <<Entry(w), cur[w]>>
<1>1. /\ FlushRow(w)
      /\ UNCHANGED <<tables, todo, total, writes, mLock, others>>
  BY DEF Rate, RateOnly, EntryRaises
<1>2. /\ cur[w] \in Fixtures /\ at[w] \in DOMAIN Lineup[cur[w]]
      /\ Entry(w) \in Players /\ r \in Pairs
      /\ tpc[w] \in {"insert", "update"}
  <2>1. Lineup[cur[w]] \in Seq(Ids) /\ at[w] \in Nat \ {0} /\ at[w] <= Len(Lineup[cur[w]])
        /\ cur[w] \in Fixtures /\ Entry(w) \in Players
    BY <1>1 DEF FlushRow, EntryInv, AtRow, TypeOK
  <2>2. at[w] \in DOMAIN Lineup[cur[w]]
    BY <2>1
  <2>3. r \in Pairs
    BY <2>1, IdsAssumption DEF Pairs
  <2> QED BY <1>1, <2>1, <2>2, <2>3 DEF FlushRow
<1>3. /\ own' = [own EXCEPT ![w] = @ \cup {r}]
      /\ rLock' = [rLock EXCEPT ![r] = w]
      /\ rLock[r] \in {w, NoTxn}
  BY <1>1 DEF FlushRow
<1>4. /\ tpc' \in [Tasks -> {"idle", "next", "player"} \cup AtRow]
      /\ at' \in [Tasks -> Nat \ {0}]
      /\ cur' \in [Tasks -> Fixtures \cup {NoFixture}]
      /\ seen' \in [Tasks -> Version]
      /\ tpc'[w] # "idle"
      /\ \A v \in Tasks \ {w} : /\ tpc'[v] = tpc[v] /\ at'[v] = at[v]
                                /\ cur'[v] = cur[v] /\ seen'[v] = seen[v]
  <2>1. CASE Rate(w)
    <3>1. PICK from \in Newest(RatingsOf(w, Entry(w)) \cup {cur[w]}) :
             seen' = [seen EXCEPT ![w] = [from |-> from, q |-> q[Entry(w)]]]
      BY <2>1 DEF Rate
    <3>2. from \subseteq RatingsOf(w, Entry(w)) \cup {cur[w]}
      BY DEF Newest
    <3>3. from \subseteq Fixtures
      BY <1>2, <3>2 DEF RatingsOf
    <3>4. [from |-> from, q |-> q[Entry(w)]] \in Version
      BY <2>1, <3>3 DEF TypeOK, Rate, Version
    <3> QED BY <2>1, <3>1, <3>4 DEF TypeOK, Rate, AtRow
  <2>2. CASE RateOnly(w)
    BY <2>2 DEF TypeOK, RateOnly, AtRow
  <2>3. CASE EntryRaises(w)
    BY <2>3 DEF TypeOK, EntryRaises, AtRow
  <2> QED BY <2>1, <2>2, <2>3
<1>5. TypeOK'
  <2>1. own' \in [Tasks -> SUBSET Pairs] /\ rLock' \in [Pairs -> Tasks \cup {NoTxn}]
    <3>1. own[w] \cup {r} \in SUBSET Pairs
      BY <1>2 DEF TypeOK
    <3>2. own' \in [Tasks -> SUBSET Pairs]
      BY <1>3, <3>1 DEF TypeOK
    <3>3. rLock' \in [Pairs -> Tasks \cup {NoTxn}]
      BY <1>2, <1>3 DEF TypeOK
    <3> QED BY <3>2, <3>3
  <2>2. UNCHANGED <<rated, oracle, q, trades, todo, total, writes, mLock, cTodo, cpc, tr>>
    BY <1>1 DEF tables, others
  <2> HIDE DEF IInv, r
  <2> QED BY <1>4, <2>1, <2>2 DEF TypeOK, IInv
<1>6. LockInv'
  <2>1. \A v \in Tasks, x \in Pairs : x \in own'[v] => rLock'[x] = v
    <3> SUFFICES ASSUME NEW v \in Tasks, NEW x \in Pairs, x \in own'[v]
                 PROVE  rLock'[x] = v
      OBVIOUS
    <3>1. CASE x = r
      <4>1. rLock'[x] = w
        BY <1>2, <1>3, <3>1 DEF TypeOK
      <4>2. v # w => v = NoTxn
        BY <1>2, <1>3, <3>1 DEF TypeOK, LockInv
      <4> QED BY <4>1, <4>2
    <3>2. CASE x # r
      BY <1>2, <1>3, <3>2 DEF TypeOK, LockInv
    <3> QED BY <3>1, <3>2
  <2>2. \A v \in Tasks : tpc'[v] = "idle" => \A p \in Markets : mLock'[p] # v
    BY <1>1, <1>4 DEF LockInv
  <2>3. \A t \in Traders : tr'[t].pc = "holding" => mLock'[tr'[t].market] = t
    BY <1>1 DEF LockInv, others
  <2> QED BY <2>1, <2>2, <2>3 DEF LockInv
<1>7. EntryInv'
  <2> SUFFICES ASSUME NEW v \in Tasks
               PROVE  /\ tpc'[v] \in {"player"} \cup AtRow => cur'[v] \in Fixtures
                      /\ tpc'[v] \in AtRow => /\ at'[v] <= Len(Lineup[cur'[v]])
                                              /\ Entry(v)' \in Players
                      /\ tpc'[v] = "market" => /\ Entry(v)' \in Markets
                                               /\ <<Entry(v)', cur'[v]>> \in own'[v] \ Malformed
    BY DEF EntryInv
  <2>1. CASE v # w
    BY <1>3, <1>4, <2>1 DEF TypeOK, EntryInv, Entry
  <2>2. CASE v = w /\ Rate(w)
    <3>1. /\ tpc'[w] = "market" /\ Entry(w) \in Markets /\ <<Entry(w), cur[w]>> \notin Malformed
          /\ UNCHANGED <<cur, at>>
      BY <2>2 DEF TypeOK, Rate
    <3>2. r \in own'[w] /\ at[w] <= Len(Lineup[cur[w]])
      BY <1>2, <1>3 DEF TypeOK
    <3>3. Entry(w)' = Entry(w)
      BY <3>1 DEF Entry
    <3> QED BY <1>2, <2>2, <3>1, <3>2, <3>3
  <2>3. CASE v = w /\ (RateOnly(w) \/ EntryRaises(w))
    BY <1>2, <2>3 DEF TypeOK, RateOnly, EntryRaises, AtRow
  <2> QED BY <2>1, <2>2, <2>3
<1>8. OwnInv'
  <2> SUFFICES ASSUME NEW v \in Tasks, NEW f \in Fixtures
               PROVE  IF tpc'[v] \in {"player"} \cup AtRow /\ cur'[v] = f
                      THEN /\ RatedIn(own'[v], f) \subseteq Reached(f)
                           /\ Reaches(f, at'[v])
                           /\ \A i \in 1 .. at'[v] - 1 :
                                  i \in DOMAIN Lineup[f] /\ Lineup[f][i] \in Players =>
                                      <<Lineup[f][i], f>> \in own'[v]
                      ELSE WholeIn(own'[v], f)
    BY DEF OwnInv, WholeIn, RatedIn, Reached, Reaches
  <2>1. CASE v # w
    BY <1>3, <1>4, <2>1 DEF TypeOK, OwnInv
  <2>2. own'[w] = own[w] \cup {r}
    BY <1>3 DEF TypeOK
  <2>3. CASE v = w /\ cur[w] # f
    <3>1. WholeIn(own[w], f)
      BY <2>3 DEF OwnInv
    <3>2. WholeIn(own'[w], f)
      <4>1. RatedIn(own'[w], f) = RatedIn(own[w], f)
        BY <2>2, <2>3 DEF RatedIn
      <4> QED BY <3>1, <4>1 DEF WholeIn
    <3>3. cur'[w] # f
      BY <2>3 DEF TypeOK, Rate, RateOnly, EntryRaises
    <3> QED BY <2>3, <3>2, <3>3
  <2>4. CASE v = w /\ cur[w] = f
    <3>1. /\ RatedIn(own[w], f) \subseteq Reached(f) /\ Reaches(f, at[w])
          /\ \A i \in 1 .. at[w] - 1 : i \in DOMAIN Lineup[f] /\ Lineup[f][i] \in Players =>
                  <<Lineup[f][i], f>> \in own[w]
      BY <1>2, <2>4 DEF OwnInv, AtRow
    <3>2. /\ <<Lineup[f][at[w]], f>> \in own'[w] /\ Lineup[f][at[w]] \in Players
          /\ at[w] \in DOMAIN Lineup[f] /\ DOMAIN Lineup[f] = 1 .. Len(Lineup[f])
      BY <1>2, <2>2, <2>4 DEF Entry, TypeOK
    <3>3. at[w] \in Nat
      BY DEF TypeOK
    <3>4. RatedIn(own'[w], f) \subseteq Reached(f)
      <4>1. Lineup[f][at[w]] \in Reached(f)
        BY <3>1, <3>2 DEF Reached
      <4>2. \A p \in RatedIn(own'[w], f) : p \in RatedIn(own[w], f) \/ p = Lineup[f][at[w]]
        BY <2>2, <2>4 DEF RatedIn, Entry
      <4> QED BY <3>1, <4>1, <4>2
    <3>5. CASE EntryRaises(w)
      <4>1. ASSUME NEW i \in DOMAIN Lineup[f], Reaches(f, i), Lineup[f][i] \in Players
            PROVE  <<Lineup[f][i], f>> \in own'[w]
        <5>1. ~(at[w] < i)
          <6>1. at[w] < i => at[w] \in 1 .. i - 1
            BY <3>2, <3>3
          <6>2. <<Lineup[f][at[w]], f>> \in Malformed
            BY <2>4, <3>5 DEF EntryRaises, Entry
          <6> QED BY <3>2, <4>1, <6>1, <6>2 DEF Reaches
        <5>2. i \in 1 .. at[w] - 1 \/ i = at[w]
          BY <3>2, <3>3, <5>1
        <5> QED BY <2>2, <3>1, <3>2, <4>1, <5>2
      <4>2. Reached(f) \subseteq RatedIn(own'[w], f)
        BY <4>1, IdsAssumption DEF Reached, RatedIn
      <4>3. tpc'[w] = "next"
        BY <3>5 DEF TypeOK, EntryRaises
      <4>4. WholeIn(own'[w], f) /\ tpc'[w] \notin {"player"} \cup AtRow
        BY <3>4, <4>2, <4>3 DEF WholeIn, AtRow
      <4> QED BY <2>4, <4>4
    <3>6. CASE Rate(w) \/ RateOnly(w)
      <4>1. /\ cur' = cur /\ tpc'[w] \in {"player"} \cup AtRow
            /\ at'[w] = at[w] \/ at'[w] = at[w] + 1
            /\ <<Lineup[f][at[w]], f>> \notin Malformed
        BY <2>4, <3>6 DEF TypeOK, Rate, RateOnly, AtRow, Entry
      <4>2. \A i \in 1 .. at'[w] - 1 : i \in 1 .. at[w] - 1 \/ i = at[w]
        BY <3>3, <4>1
      <4>3. Reaches(f, at'[w])
        BY <3>1, <4>1, <4>2 DEF Reaches
      <4>4. \A i \in 1 .. at'[w] - 1 : i \in DOMAIN Lineup[f] /\ Lineup[f][i] \in Players =>
                <<Lineup[f][i], f>> \in own'[w]
        BY <2>2, <3>1, <3>2, <4>2
      <4> QED BY <2>4, <3>4, <4>1, <4>3, <4>4
    <3> QED BY <3>5, <3>6
  <2> QED BY <2>1, <2>3, <2>4
<1>9. FromInv'
  <2>1. \A v \in Tasks, p \in Ids : RatingsOf(v, p) \subseteq RatingsOf(v, p)'
    BY <1>1, <1>3 DEF TypeOK, RatingsOf, tables
  <2> SUFFICES ASSUME NEW v \in Tasks
               PROVE  /\ tpc'[v] = "market" => seen'[v].from \subseteq RatingsOf(v, Entry(v))'
                      /\ \A p \in Written(v)' : writes'[v][p].from \subseteq RatingsOf(v, p)'
    BY DEF FromInv
  <2>2. \A p \in Written(v)' : writes'[v][p].from \subseteq RatingsOf(v, p)'
    BY <1>1, <2>1, IdsAssumption DEF FromInv, Written
  <2>3. CASE v # w
    <3>1. Entry(v)' = Entry(v)
      BY <1>4, <2>3 DEF Entry
    <3>2. tpc[v] = "market" => Entry(v) \in Ids
      BY IdsAssumption DEF EntryInv
    <3> QED BY <1>4, <2>1, <2>2, <2>3, <3>1, <3>2 DEF FromInv
  <2>4. CASE v = w /\ tpc'[w] = "market"
    <3>1. Rate(w)
      BY <2>4 DEF TypeOK, RateOnly, EntryRaises
    <3>2. /\ seen'[w].from \subseteq RatingsOf(w, Entry(w)) \cup {cur[w]}
          /\ UNCHANGED <<cur, at>>
      <4>1. PICK from \in Newest(RatingsOf(w, Entry(w)) \cup {cur[w]}) :
               seen' = [seen EXCEPT ![w] = [from |-> from, q |-> q[Entry(w)]]]
        BY <3>1 DEF Rate
      <4> QED BY <3>1, <4>1 DEF TypeOK, Rate, Newest
    <3>3. Entry(w)' = Entry(w)
      BY <3>2 DEF Entry
    <3>4. cur[w] \in RatingsOf(w, Entry(w))'
      BY <1>2, <1>3, <3>3 DEF TypeOK, RatingsOf
    <3>5. RatingsOf(w, Entry(w)) \subseteq RatingsOf(w, Entry(w))'
      BY <1>1, <1>3, <3>3 DEF TypeOK, RatingsOf, tables
    <3> QED BY <2>2, <2>4, <3>2, <3>4, <3>5
  <2> QED BY <2>2, <2>3, <2>4
<1>10. VersionInv'
  BY <1>1 DEF VersionInv, Written, tables
<1>11. WholeFixtures' /\ PricesUntouched' /\ OracleFromCommitted'
  BY <1>1 DEF WholeFixtures, PricesUntouched, OracleFromCommitted, tables
<1> QED BY <1>5, <1>6, <1>7, <1>8, <1>9, <1>10, <1>11

\* The UPDATE of the market row, once no other transaction holds it.
LEMMA UpdateKeepsIInv ==
    ASSUME IInv, NEW w \in Tasks, UpdateMarket(w)
    PROVE  IInv'
<1> USE LineupAssumption, TxnAssumption DEF IInv
<1> DEFINE p == Entry(w)
<1>1. /\ tpc[w] = "market" /\ mLock[p] \in {w, NoTxn}
      /\ p \in Markets /\ cur[w] \in Fixtures
      /\ <<p, cur[w]>> \in own[w] \ Malformed
      /\ seen[w].from \subseteq RatingsOf(w, p)
  BY DEF UpdateMarket, EntryInv, FromInv, AtRow
<1>2. /\ UNCHANGED <<tables, todo, cur, total, own, rLock, others>>
      /\ tpc' = [tpc EXCEPT ![w] = "player"]
      /\ at' = [at EXCEPT ![w] = @ + 1]
      /\ seen' = [seen EXCEPT ![w] = NothingSeen]
      /\ mLock' = [mLock EXCEPT ![p] = w]
      /\ writes' = [writes EXCEPT ![w][p] = [from |-> seen[w].from, q |-> q[p]]]
  BY DEF UpdateMarket, QWritten
<1>3. TypeOK'
  <2>1. [from |-> seen[w].from, q |-> q[p]] \in Version
    BY <1>1 DEF TypeOK, Version
  <2>2. writes' \in [Tasks -> [Markets -> Version]]
    BY <1>1, <1>2, <2>1 DEF TypeOK
  <2>3. /\ tpc' \in [Tasks -> {"idle", "next", "player"} \cup AtRow]
        /\ at' \in [Tasks -> Nat \ {0}]
        /\ seen' \in [Tasks -> Version]
        /\ mLock' \in [Markets -> Txns \cup {NoTxn}]
    BY <1>1, <1>2 DEF TypeOK, NothingSeen, Version, Txns
  <2> QED BY <1>2, <2>2, <2>3 DEF TypeOK, tables, others
<1>4. LockInv'
  <2>1. \A t \in Traders : tr[t].pc = "holding" => tr[t].market # p
    BY <1>1 DEF LockInv
  <2> QED BY <1>1, <1>2, <2>1 DEF TypeOK, LockInv, others
<1>5. EntryInv'
  BY <1>1, <1>2 DEF TypeOK, EntryInv, Entry, AtRow
<1>6. OwnInv'
  <2> SUFFICES ASSUME NEW v \in Tasks, NEW f \in Fixtures
               PROVE  IF tpc'[v] \in {"player"} \cup AtRow /\ cur'[v] = f
                      THEN /\ RatedIn(own'[v], f) \subseteq Reached(f)
                           /\ Reaches(f, at'[v])
                           /\ \A i \in 1 .. at'[v] - 1 :
                                  i \in DOMAIN Lineup[f] /\ Lineup[f][i] \in Players =>
                                      <<Lineup[f][i], f>> \in own'[v]
                      ELSE WholeIn(own'[v], f)
    BY DEF OwnInv, WholeIn, RatedIn, Reached, Reaches
  <2>1. CASE v # w
    BY <1>2, <2>1 DEF TypeOK, OwnInv
  <2>2. CASE v = w /\ cur[w] # f
    BY <1>2, <2>2 DEF OwnInv
  <2>3. CASE v = w /\ cur[w] = f
    <3>1. /\ RatedIn(own[w], f) \subseteq Reached(f) /\ Reaches(f, at[w])
          /\ \A i \in 1 .. at[w] - 1 : i \in DOMAIN Lineup[f] /\ Lineup[f][i] \in Players =>
                  <<Lineup[f][i], f>> \in own[w]
      BY <1>1, <2>3 DEF OwnInv, AtRow
    <3>2. at[w] \in Nat /\ at'[w] = at[w] + 1
      BY <1>2 DEF TypeOK
    <3>3. \A i \in 1 .. at'[w] - 1 : i \in 1 .. at[w] - 1 \/ i = at[w]
      BY <3>2
    <3>4. <<Lineup[f][at[w]], f>> \in own[w] /\ <<Lineup[f][at[w]], f>> \notin Malformed
      BY <1>1, <2>3 DEF Entry
    <3>5. tpc'[w] = "player"
      BY <1>2 DEF TypeOK
    <3>6. Reaches(f, at'[w])
      BY <3>1, <3>3, <3>4 DEF Reaches
    <3> QED BY <1>2, <2>3, <3>1, <3>3, <3>4, <3>5, <3>6
  <2> QED BY <2>1, <2>2, <2>3
<1>7. FromInv' /\ VersionInv'
  <2> SUFFICES ASSUME NEW v \in Tasks
               PROVE  /\ tpc'[v] = "market" => seen'[v].from \subseteq RatingsOf(v, Entry(v))'
                      /\ \A m \in Written(v)' : /\ writes'[v][m].from \subseteq RatingsOf(v, m)'
                                                /\ writes'[v][m].q = q'[m]
    BY DEF FromInv, VersionInv
  <2>1. \A m \in Markets : RatingsOf(v, m)' = RatingsOf(v, m)
    BY <1>2 DEF RatingsOf, tables
  <2>2. q' = q
    BY <1>2 DEF tables
  <2>3. CASE v # w
    <3>1. Written(v)' \subseteq Written(v)
      BY <1>1, <1>2, <2>3 DEF TypeOK, Written
    <3>2. writes'[v] = writes[v] /\ tpc'[v] = tpc[v] /\ seen'[v] = seen[v]
          /\ Entry(v)' = Entry(v)
      BY <1>2, <2>3 DEF TypeOK, Entry
    <3>3. RatingsOf(v, Entry(v))' = RatingsOf(v, Entry(v))
      BY <1>2, <3>2 DEF RatingsOf, tables
    <3> QED BY <2>1, <2>2, <3>1, <3>2, <3>3 DEF FromInv, VersionInv, Written
  <2>4. CASE v = w
    <3>1. tpc'[w] = "player"
      BY <1>2 DEF TypeOK
    <3>2. ASSUME NEW m \in Written(w)'
          PROVE  writes'[w][m].from \subseteq RatingsOf(w, m) /\ writes'[w][m].q = q[m]
      <4>1. CASE m = p
        BY <1>1, <1>2, <4>1 DEF TypeOK
      <4>2. CASE m # p
        BY <1>1, <1>2, <3>2, <4>2 DEF TypeOK, FromInv, VersionInv, Written
      <4> QED BY <4>1, <4>2
    <3>3. Written(w)' \subseteq Markets
      BY DEF Written
    <3> QED BY <2>1, <2>2, <2>4, <3>1, <3>2, <3>3
  <2> QED BY <2>3, <2>4
<1>8. WholeFixtures' /\ PricesUntouched' /\ OracleFromCommitted'
  BY <1>2 DEF WholeFixtures, PricesUntouched, OracleFromCommitted, tables
<1> QED BY <1>3, <1>4, <1>5, <1>6, <1>7, <1>8

\* The commit: whole fixtures are added to whole fixtures, the oracle ratings come
\* with the ratings they rest on, and every q that is written is the one there.
LEMMA CommitKeepsIInv ==
    ASSUME IInv, NEW w \in Tasks, Commit(w)
    PROVE  IInv'
<1> USE DEF IInv
<1>1. RunEnds(w) /\ rated' = rated \cup own[w] /\ trades' = trades
  BY DEF Commit
<1>2. q' = q
  BY DEF Commit, TypeOK, VersionInv, Written
<1>3. oracle' \in [Markets -> SUBSET Fixtures] /\ rated' \subseteq Pairs
  BY <1>1 DEF Commit, TypeOK, Version
<1>4. WholeFixtures'
  <2>1. ASSUME NEW f \in Fixtures PROVE WholeIn(rated', f)
    <3>1. WholeIn(own[w], f) /\ WholeIn(rated, f)
      BY DEF Commit, OwnInv, AtRow, WholeFixtures
    <3>2. RatedIn(rated', f) = RatedIn(rated, f) \cup RatedIn(own[w], f)
      BY <1>1 DEF RatedIn
    <3> QED BY <3>1, <3>2 DEF WholeIn
  <2> QED BY <2>1 DEF WholeFixtures, WholeIn, RatedIn, Reached, Reaches
<1>5. OracleFromCommitted'
  <2>1. ASSUME NEW p \in Markets, NEW f \in oracle'[p] PROVE <<p, f>> \in rated'
    <3>1. CASE p \in Written(w)
      BY <1>1, <2>1, <3>1 DEF Commit, FromInv, RatingsOf
    <3>2. CASE p \notin Written(w)
      BY <1>1, <2>1, <3>2 DEF Commit, OracleFromCommitted
    <3> QED BY <3>1, <3>2
  <2> QED BY <2>1 DEF OracleFromCommitted
<1> QED BY <1>1, <1>2, <1>3, <1>4, <1>5, RunEndsKeepsIInv

\* The recalibrations and trades change only market rows whose lock they hold.
LEMMA OthersKeepIInv ==
    ASSUME IInv,
           \/ \E c \in Recals : RecalStart(c) \/ RecalUpdate(c) \/ RecalEnds(c)
           \/ \E t \in Traders : TradeArrives(t) \/ TradeLocks(t) \/ TradeCommits(t)
    PROVE  IInv'
<1> USE TxnAssumption DEF IInv
<1>1. UNCHANGED <<rated, oracle, run, rLock>>
  BY DEF RecalStart, RecalUpdate, RecalEnds, TradeArrives, TradeLocks, TradeCommits, tables, locks
<1>2. \A v \in Tasks : Written(v)' = Written(v)
  <2>1. ASSUME NEW c \in Recals, RecalStart(c) \/ RecalUpdate(c) \/ RecalEnds(c),
               NEW v \in Tasks
        PROVE  Written(v)' = Written(v)
    <3>1. CASE RecalStart(c)
      BY <3>1 DEF RecalStart, locks, Written
    <3>2. CASE RecalUpdate(c)
      BY <3>2 DEF RecalUpdate, TypeOK, Written
    <3>3. CASE RecalEnds(c)
      BY <3>3 DEF RecalEnds, FreeMarkets, TypeOK, Written
    <3> QED BY <2>1, <3>1, <3>2, <3>3
  <2>2. ASSUME NEW t \in Traders, TradeArrives(t) \/ TradeLocks(t) \/ TradeCommits(t),
               NEW v \in Tasks
        PROVE  Written(v)' = Written(v)
    <3>1. CASE TradeArrives(t)
      BY <3>1 DEF TradeArrives, locks, Written
    <3>2. CASE TradeLocks(t)
      BY <3>2 DEF TradeLocks, TypeOK, Written
    <3>3. CASE TradeCommits(t)
      BY <3>3 DEF TradeCommits, FreeMarkets, TypeOK, Written
    <3> QED BY <2>2, <3>1, <3>2, <3>3
  <2> QED BY <2>1, <2>2
<1>3. PricesUntouched' /\ \A v \in Tasks : \A p \in Written(v) : q'[p] = q[p]
  <2>1. CASE UNCHANGED <<q, trades>>
    BY <2>1 DEF PricesUntouched
  <2>2. ASSUME NEW t \in Traders, TradeCommits(t)
        PROVE  PricesUntouched' /\ \A v \in Tasks : \A p \in Written(v) : q'[p] = q[p]
    <3>1. mLock[tr[t].market] = t
      BY <2>2 DEF TradeCommits, LockInv
    <3>2. \A v \in Tasks : tr[t].market \notin Written(v)
      BY <3>1 DEF Written
    <3> QED BY <2>2, <3>2 DEF TradeCommits, PricesUntouched, TypeOK, Written
  <2> QED BY <2>1, <2>2 DEF RecalStart, RecalUpdate, RecalEnds, TradeArrives, TradeLocks, tables
<1>4. TypeOK' /\ LockInv'
  <2>1. ASSUME NEW c \in Recals, RecalStart(c) PROVE TypeOK' /\ LockInv'
    BY <2>1 DEF RecalStart, TypeOK, LockInv, tables, run, locks
  <2>2. ASSUME NEW c \in Recals, RecalUpdate(c) PROVE TypeOK' /\ LockInv'
    <3>1. mLock' \in [Markets -> Txns \cup {NoTxn}] /\ cTodo' \in [Recals -> SUBSET Markets]
      BY <2>2 DEF RecalUpdate, TypeOK, Txns
    <3>2. UNCHANGED <<tables, run, rLock, cpc, tr>>
      BY <2>2 DEF RecalUpdate
    <3>3. TypeOK'
      BY <3>1, <3>2 DEF TypeOK, tables, run
    <3>4. \A t \in Traders : tr[t].pc = "holding" => NextMarket(c) # tr[t].market
      BY <2>2 DEF RecalUpdate, LockInv
    <3>5. LockInv'
      BY <2>2, <3>2, <3>4 DEF RecalUpdate, TypeOK, LockInv, run
    <3> QED BY <3>3, <3>5
  <2>3. ASSUME NEW c \in Recals, RecalEnds(c) PROVE TypeOK' /\ LockInv'
    <3>1. /\ cpc' \in [Recals -> {"idle", "updating"}]
          /\ cTodo' \in [Recals -> SUBSET Markets]
          /\ mLock' \in [Markets -> Txns \cup {NoTxn}]
      BY <2>3 DEF RecalEnds, FreeMarkets, TypeOK, Txns
    <3>2. UNCHANGED <<tables, run, rLock, tr>>
      BY <2>3 DEF RecalEnds
    <3>3. TypeOK'
      BY <3>1, <3>2 DEF TypeOK, tables, run
    <3>4. LockInv'
      BY <2>3, <3>2 DEF RecalEnds, FreeMarkets, TypeOK, LockInv, run
    <3> QED BY <3>3, <3>4
  <2>4. ASSUME NEW t \in Traders, TradeArrives(t) PROVE TypeOK' /\ LockInv'
    <3>1. PICK p \in Markets : tr' = [tr EXCEPT ![t] = [pc |-> "waiting", market |-> p]]
      BY <2>4 DEF TradeArrives
    <3>2. UNCHANGED <<tables, run, locks, cTodo, cpc>>
      BY <2>4 DEF TradeArrives
    <3>3. TypeOK'
      BY <3>1, <3>2, IdsAssumption DEF TypeOK, tables, run, locks
    <3>4. LockInv'
      BY <3>1, <3>2 DEF TypeOK, LockInv, run, locks
    <3> QED BY <3>3, <3>4
  <2>5. ASSUME NEW t \in Traders, TradeLocks(t) PROVE TypeOK' /\ LockInv'
    <3>1. /\ tr' = [tr EXCEPT ![t].pc = "holding"] /\ tr[t].market \in Markets
          /\ mLock[tr[t].market] = NoTxn /\ mLock' = [mLock EXCEPT ![tr[t].market] = t]
      BY <2>5 DEF TradeLocks, TypeOK
    <3>2. UNCHANGED <<tables, run, rLock, cTodo, cpc>>
      BY <2>5 DEF TradeLocks
    <3>3. mLock' \in [Markets -> Txns \cup {NoTxn}]
      BY <3>1 DEF TypeOK, Txns
    <3>4. TypeOK'
      <4>1. tr' \in [Traders -> [pc : {"idle", "waiting", "holding"}, market : Nat]]
        BY <3>1 DEF TypeOK
      <4>2. \A s \in Traders : tr'[s].pc # "idle" => tr'[s].market \in Markets
        BY <3>1 DEF TypeOK
      <4> QED BY <3>2, <3>3, <4>1, <4>2 DEF TypeOK, tables, run
    <3>5. \A s \in Traders \ {t} : tr[s].pc = "holding" => tr[s].market # tr[t].market
      BY <3>1 DEF LockInv
    <3>6. LockInv'
      BY <3>1, <3>2, <3>5 DEF TypeOK, LockInv, run
    <3> QED BY <3>4, <3>6
  <2>6. ASSUME NEW t \in Traders, TradeCommits(t) PROVE TypeOK' /\ LockInv'
    <3>1. tr' = [tr EXCEPT ![t] = NoTrade] /\ FreeMarkets(t)
      BY <2>6 DEF TradeCommits
    <3>2. UNCHANGED <<rated, oracle, run, rLock, cTodo, cpc>>
      BY <2>6 DEF TradeCommits
    <3>3. /\ q' \in [Markets -> Nat] /\ trades' \in [Markets -> Nat]
          /\ mLock' \in [Markets -> Txns \cup {NoTxn}]
      <4>1. q' \in [Markets -> Nat] /\ trades' \in [Markets -> Nat]
        BY <2>6 DEF TradeCommits, TypeOK
      <4>2. mLock' \in [Markets -> Txns \cup {NoTxn}]
        BY <3>1 DEF FreeMarkets, TypeOK
      <4> QED BY <4>1, <4>2
    <3>4. TypeOK'
      <4>1. tr' \in [Traders -> [pc : {"idle", "waiting", "holding"}, market : Nat]]
        BY <3>1 DEF TypeOK, NoTrade
      <4>2. \A s \in Traders : tr'[s].pc # "idle" => tr'[s].market \in Markets
        BY <3>1 DEF TypeOK, NoTrade
      <4> QED BY <3>2, <3>3, <4>1, <4>2 DEF TypeOK, run
    <3>5. \A s \in Traders \ {t} : tr[s].pc = "holding" => mLock'[tr[s].market] = s
      BY <3>1, TxnAssumption DEF TypeOK, LockInv, FreeMarkets
    <3>6. LockInv'
      BY <3>1, <3>2, <3>5 DEF TypeOK, LockInv, FreeMarkets, NoTrade, run
    <3> QED BY <3>4, <3>6
  <2> QED BY <2>1, <2>2, <2>3, <2>4, <2>5, <2>6
<1>5. EntryInv' /\ OwnInv' /\ FromInv' /\ VersionInv'
  BY <1>1, <1>2, <1>3 DEF EntryInv, OwnInv, FromInv, VersionInv, RatingsOf, Entry, run
<1>6. WholeFixtures' /\ OracleFromCommitted'
  BY <1>1 DEF WholeFixtures, OracleFromCommitted
<1> QED BY <1>3, <1>4, <1>5, <1>6

----------------------------------------------------------------------------
(* Theorems *)

\* Every reachable state satisfies the inductive invariant.
THEOREM InductiveInvariant == Spec => []IInv
<1>1. ASSUME IInv, [Next]_vars PROVE IInv'
  <2>1. ASSUME NEW w \in Tasks, Discard(w) \/ HitsDuplicate(w) \/ Fails(w) PROVE IInv'
    <3>1. RunEnds(w) /\ UNCHANGED tables
      BY <2>1 DEF Discard, HitsDuplicate, Fails
    <3>2. /\ rated \subseteq rated' /\ rated' \subseteq Pairs
          /\ oracle' \in [Markets -> SUBSET Fixtures]
          /\ q' = q /\ trades' = trades
          /\ WholeFixtures' /\ OracleFromCommitted'
      BY <1>1, <3>1 DEF IInv, TypeOK, tables, WholeFixtures, OracleFromCommitted
    <3> QED BY <1>1, <3>1, <3>2, RunEndsKeepsIInv
  <2>2. ASSUME NEW w \in Tasks, Select(w) \/ RunStep(w) PROVE IInv'
    BY <1>1, <2>1, <2>2, MovingKeepsIInv, RatingKeepsIInv, UpdateKeepsIInv, CommitKeepsIInv
       DEF RunStep
  <2>3. ASSUME \/ \E c \in Recals : RecalStart(c) \/ RecalUpdate(c) \/ RecalEnds(c)
               \/ \E t \in Traders : TradeArrives(t) \/ TradeLocks(t) \/ TradeCommits(t)
        PROVE  IInv'
    BY <1>1, <2>3, OthersKeepIInv
  <2>4. ASSUME NEW a \in Tasks \cup Recals, DetectorAborts(a) PROVE IInv'
    BY <2>1, <2>3, <2>4 DEF DetectorAborts
  <2>5. CASE UNCHANGED vars
    <3> USE <1>1, <2>5 DEF vars, tables, run, locks, others, IInv
    <3>1. TypeOK' /\ LockInv'
      BY DEF TypeOK, LockInv
    <3>2. EntryInv' /\ OwnInv'
      BY DEF EntryInv, OwnInv, Entry
    <3>3. FromInv' /\ VersionInv'
      BY DEF FromInv, VersionInv, Written, RatingsOf, Entry
    <3>4. WholeFixtures' /\ PricesUntouched' /\ OracleFromCommitted'
      BY DEF WholeFixtures, PricesUntouched, OracleFromCommitted
    <3> QED BY <3>1, <3>2, <3>3, <3>4
  <2> QED BY <1>1, <2>1, <2>2, <2>3, <2>4, <2>5 DEF Next
<1> QED BY <1>1, InitIInv, PTL DEF Spec

\* Whatever fails or overlaps, a fixture is rated for none of its known players or for
\* exactly those up to the first one whose computation raises: all, where none does.
THEOREM FixturesStayWhole == Spec => []WholeFixtures
<1>1. IInv => WholeFixtures
  BY DEF IInv
<1> QED BY <1>1, InductiveInvariant, PTL

\* INV-09: q holds exactly the committed trades, however runs and trades interleave.
THEOREM PricesStayUntouched == Spec => []PricesUntouched
<1>1. IInv => PricesUntouched
  BY DEF IInv
<1> QED BY <1>1, InductiveInvariant, PTL

\* A published oracle rating rests on committed match ratings only.
THEOREM OraclesRestOnCommitted == Spec => []OracleFromCommitted
<1>1. IInv => OracleFromCommitted
  BY DEF IInv
<1> QED BY <1>1, InductiveInvariant, PTL
=============================================================================
