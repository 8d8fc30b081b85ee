---------------------------- MODULE SyncProofs ------------------------------
(***************************************************************************)
(* Theorems about what is synchronised with Sportmonks: SquadImport, for any *)
(* number of leagues, teams, players and runs, and MatchData, for any      *)
(* fixtures, teams, windows, numbers of failures and overlaps of its tasks. *)
(***************************************************************************)
EXTENDS SquadImport, MatchData, TLAPS

(* Squads *)

Table == [Ids -> Row \cup {NoRow}]

Active(table, p) == table[p] # NoRow /\ table[p].active

\* Types of the tables and of the session.
SquadTypeOK ==
    /\ players \in Table /\ mine \in Table
    /\ markets \subseteq Ids /\ fresh \subseteq Ids
    /\ moved \in [Ids -> Nat] /\ bought \in [Ids -> Nat]
    /\ mode \in {"none", "import", "sync"}
    /\ stage \in {"idle", "collect", "league", "upsert", "committed"}
    /\ groups \in [Leagues -> SUBSET Ids]
    /\ cur \in Leagues \cup {NoLeague}
    /\ queue \subseteq Ids /\ squad \subseteq Ids /\ imported \subseteq Ids
    /\ done \subseteq Ids \X Leagues
    /\ broken \in BOOLEAN

\* A market is initialised before anybody can trade on it, and only once.
MarketInv ==
    /\ fresh \cap markets = {}
    /\ \A p \in Ids \ markets : bought[p] = 0
    /\ TradesSurviveImport

\* Where a run is, and what its session then holds.
StageInv ==
    /\ mode = "none" <=> stage = "idle"
    /\ stage \in {"collect", "committed"} => mode = "import"
    /\ mode # "import" => done = {} /\ ~broken /\ \A l \in Leagues : groups[l] = {}
    /\ stage = "collect" => done = {}
    /\ cur = NoLeague <=> stage \notin {"upsert", "committed"}
    /\ mode # "sync" /\ stage # "upsert" => mine = players /\ fresh = {} /\ ~broken
    /\ mode # "import" => imported = {}
    /\ stage \in {"collect", "league"} => imported = {}

\* The import adds rows and activates, and keeps what is active, until the clean-up, and everybody imported
\* has an active row and a market, committed or in the session.
ImportInv ==
    mode = "import" =>
        /\ \A p \in Ids : Active(players, p) => mine[p] = players[p]
        /\ \A p \in imported : p \in markets \cup fresh /\ Active(mine, p)

\* l has been cleaned up in this run, after others than p were imported for it.
CleanedUp(l, p) == l # cur /\ groups[l] = {} /\ p \notin ImportedFor(l) /\ ImportedFor(l) # {}

\* A league is upserted once in a run, so no later clean-up is of its league; who is
\* inactive was deactivated with the league of his row.
DoneInv ==
    mode = "import" =>
        /\ cur # NoLeague => groups[cur] = {}
        /\ \A p \in imported : <<p, cur>> \in done
        /\ \A pair \in done :
              /\ \/ pair[2] = cur /\ pair[1] \in imported
                 \/ pair[2] # cur /\ groups[pair[2]] = {}
              /\ mine[pair[1]] # NoRow
              /\ mine[pair[1]].active \/ CleanedUp(mine[pair[1]].league, pair[1])

SquadInv == SquadTypeOK /\ MarketInv /\ StageInv /\ ImportInv /\ DoneInv

----------------------------------------------------------------------------

\* The row a deactivation leaves.
LEMMA Deactivated ==
    ASSUME NEW old \in Row
    PROVE  /\ [old EXCEPT !.active = FALSE] \in Row
           /\ [old EXCEPT !.active = FALSE].league = old.league
  BY DEF Row

\* An upsert leaves its player active, in the league he had if he had one.
LEMMA UpsertedFacts ==
    ASSUME SquadTypeOK, NEW p \in Ids, NEW l \in Leagues
    PROVE  /\ Upserted(p, l) \in Table
           /\ Active(Upserted(p, l), p)
           /\ mine[p] # NoRow => Upserted(p, l)[p].league = mine[p].league
           /\ Active(mine, p) => Upserted(p, l)[p] = mine[p]
           /\ \A o \in Ids \ {p} : Upserted(p, l)[o] = mine[o]
<1> DEFINE league == IF mine[p] = NoRow THEN l ELSE mine[p].league
           new == [league |-> league, active |-> TRUE]
<1>1. Upserted(p, l) = [mine EXCEPT ![p] = new]
  BY DEF Upserted
<1>2. mine[p] # NoRow => mine[p] \in Row
  BY DEF SquadTypeOK, Table
<1>3. league \in Leagues
  BY <1>2 DEF Row
<1>4. new \in Row /\ new # NoRow /\ new.active /\ (mine[p] # NoRow => new.league = mine[p].league)
  <2>1. NoRow \notin Row
    BY SquadAssumption DEF Row
  <2>2. new \in Row
    BY <1>3 DEF Row
  <2> QED BY <2>1, <2>2
<1>5. Active(mine, p) => new = mine[p]
  BY <1>2 DEF Active, Row
<1> HIDE DEF new
<1> QED BY <1>1, <1>4, <1>5 DEF SquadTypeOK, Table, Active

\* Nothing runs, nobody is known.
LEMMA InitSquadInv == SquadInit => SquadInv
<1> SUFFICES ASSUME SquadInit PROVE SquadInv
  OBVIOUS
<1>1. SquadTypeOK
  BY DEF SquadInit, SquadTypeOK, Table
<1>2. MarketInv
  BY DEF SquadInit, MarketInv, TradesSurviveImport
<1> QED BY <1>1, <1>2 DEF SquadInit, SquadInv, StageInv, ImportInv, DoneInv

\* A trade meets a market that is committed.
LEMMA TradeKeepsInv ==
    ASSUME SquadInv, NEW p \in Ids, BuyOrSell(p)
    PROVE  SquadInv'
<1> USE DEF SquadInv
<1>1. SquadTypeOK'
  BY DEF BuyOrSell, SquadTypeOK, progress, session
<1>2. MarketInv'
  BY DEF BuyOrSell, MarketInv, SquadTypeOK, TradesSurviveImport, session
<1> QED BY <1>1, <1>2 DEF BuyOrSell, StageInv, ImportInv, DoneInv, CleanedUp, ImportedFor,
                        progress, session, Active

\* A player is upserted, or his upsert fails after its flush or before.
LEMMA UpsertKeepsInv ==
    ASSUME SquadInv, NEW p \in Ids, ImportPlayer(p) \/ SkipPlayer(p) \/ SyncPlayer(p)
    PROVE  SquadInv'
<1> USE DEF SquadInv
<1>1. /\ cur \in Leagues /\ stage = "upsert" /\ mode \in {"import", "sync"}
      /\ UNCHANGED <<players, markets, moved, bought, mode, stage, waiting, groups, cur, squad>>
      /\ queue' \subseteq Ids
  BY DEF ImportPlayer, SkipPlayer, SyncPlayer, SquadTypeOK, StageInv, squadTables
<1>2. /\ mine' \in {mine, Upserted(p, cur)}
      /\ fresh' \in {fresh, fresh \cup ({p} \ markets)}
      /\ broken' \in BOOLEAN /\ (mode # "import" => broken' = broken)
  BY DEF ImportPlayer, SkipPlayer, SyncPlayer, UpsertWorks, UpsertRaises, FlushFails, Flushed,
         SquadTypeOK
<1>3. \/ UNCHANGED <<imported, done>>
      \/ /\ imported' = imported \cup {p} /\ done' = done \cup {<<p, cur>>}
         /\ mine' = Upserted(p, cur) /\ p \in markets \cup fresh' /\ mode = "import"
  BY DEF ImportPlayer, SkipPlayer, SyncPlayer, UpsertWorks, Flushed
<1>4. /\ Upserted(p, cur) \in Table /\ Active(Upserted(p, cur), p)
      /\ mine[p] # NoRow => Upserted(p, cur)[p].league = mine[p].league
      /\ Active(mine, p) => Upserted(p, cur)[p] = mine[p]
      /\ \A o \in Ids \ {p} : Upserted(p, cur)[o] = mine[o]
  BY <1>1, UpsertedFacts
<1>5. \A o \in Ids :
         /\ Active(mine, o) => mine'[o] = mine[o]
         /\ mine[o] # NoRow =>
               /\ mine'[o] # NoRow /\ mine'[o].league = mine[o].league
               /\ mine[o].active => mine'[o].active
  BY <1>2, <1>4 DEF Active
<1>6. SquadTypeOK'
  BY <1>1, <1>2, <1>3, <1>4 DEF SquadTypeOK
<1>7. MarketInv'
  BY <1>1, <1>2 DEF MarketInv, TradesSurviveImport
<1>8. StageInv'
  BY <1>1, <1>2, <1>3 DEF StageInv
<1>9. ImportInv'
  <2> SUFFICES ASSUME mode = "import"
               PROVE  /\ \A o \in Ids : Active(players, o) => mine'[o] = players[o]
                      /\ \A o \in imported' : o \in markets \cup fresh' /\ Active(mine', o)
    BY <1>1 DEF ImportInv, Active
  <2>1. imported \subseteq Ids /\ fresh \subseteq fresh'
    BY <1>2 DEF SquadTypeOK
  <2>2. \A o \in imported : o \in markets \cup fresh' /\ Active(mine', o)
    BY <1>5, <2>1 DEF ImportInv, Active
  <2>3. \A o \in Ids : Active(players, o) => mine'[o] = players[o]
    <3>1. \A o \in Ids : Active(players, o) => mine[o] = players[o] /\ Active(mine, o)
      BY DEF ImportInv, Active
    <3> QED BY <1>5, <3>1
  <2> QED BY <1>3, <1>4, <2>2, <2>3
<1>10. DoneInv'
  <2> SUFFICES ASSUME mode = "import", NEW pair \in done'
               PROVE  /\ \/ pair[2] = cur /\ pair[1] \in imported'
                         \/ pair[2] # cur /\ groups[pair[2]] = {}
                      /\ mine'[pair[1]] # NoRow
                      /\ mine'[pair[1]].active \/ CleanedUp(mine[pair[1]].league, pair[1])'
    <3>1. (groups[cur] = {} /\ cur # NoLeague) \/ mode # "import"
      BY <1>1, SquadAssumption DEF DoneInv
    <3>2. mode = "import" => \A o \in imported' : <<o, cur>> \in done'
      BY <1>3 DEF DoneInv
    <3> QED BY <1>1, <3>1, <3>2 DEF DoneInv
  <2>1. CASE pair \in done
    <3>1. /\ pair[1] \in Ids /\ mine[pair[1]] # NoRow
          /\ \/ pair[2] = cur /\ pair[1] \in imported
             \/ pair[2] # cur /\ groups[pair[2]] = {}
          /\ mine[pair[1]].active \/ CleanedUp(mine[pair[1]].league, pair[1])
      BY <2>1 DEF DoneInv, SquadTypeOK
    <3>2. CASE mine[pair[1]].active
      BY <1>3, <1>5, <3>1, <3>2
    <3>3. CASE CleanedUp(mine[pair[1]].league, pair[1])
      <4> DEFINE l == mine[pair[1]].league
      <4>1. mine'[pair[1]] # NoRow /\ mine'[pair[1]].league = l
        BY <1>5, <3>1
      <4>2. \A o \in Ids : <<o, l>> \in done' <=> <<o, l>> \in done
        BY <1>3, <3>3 DEF CleanedUp
      <4>3. CleanedUp(mine[pair[1]].league, pair[1])'
        BY <1>1, <3>1, <3>3, <4>1, <4>2 DEF CleanedUp, ImportedFor
      <4> QED BY <1>3, <3>1, <4>1, <4>3
    <3> QED BY <3>1, <3>2, <3>3
  <2>2. CASE pair \notin done
    BY <1>3, <1>4, <2>2 DEF Active
  <2> QED BY <2>1, <2>2
<1> QED BY <1>6, <1>7, <1>8, <1>9, <1>10

\* What a session has written is committed; its new markets hold no trade yet.
LEMMA CommittedFacts ==
    ASSUME SquadInv, Committed
    PROVE  /\ players' = mine /\ markets' = markets \cup fresh /\ fresh' = {}
           /\ UNCHANGED <<mine, bought, broken>>
           /\ moved' \in [Ids -> Nat] /\ MarketInv'
<1>1. moved' \in [Ids -> Nat]
  BY DEF Committed, SquadInv, SquadTypeOK
<1>2. \A p \in markets \cup fresh : moved'[p] = bought[p]
  BY DEF Committed, SquadInv, SquadTypeOK, MarketInv, TradesSurviveImport
<1> QED BY <1>1, <1>2 DEF Committed, SquadInv, MarketInv, TradesSurviveImport

\* A commit publishes the rows of the session, the markets of the new players among them.
LEMMA CommitKeepsInv ==
    ASSUME SquadInv, CommitLeague \/ SyncReturns
    PROVE  SquadInv'
<1> USE DEF SquadInv
<1>1. Committed
  BY DEF CommitLeague, SyncReturns
<1>2. SquadTypeOK'
  BY <1>1, CommittedFacts DEF CommitLeague, SyncReturns, SquadTypeOK
<1>3. CASE CommitLeague
  <2>1. StageInv'
    BY <1>1, <1>3, CommittedFacts DEF CommitLeague, StageInv
  <2>2. ImportInv'
    BY <1>1, <1>3, CommittedFacts DEF CommitLeague, ImportInv, Active
  <2>3. DoneInv'
    BY <1>1, <1>3, CommittedFacts DEF CommitLeague, DoneInv, CleanedUp, ImportedFor
  <2> QED BY <1>1, <1>2, <2>1, <2>2, <2>3, CommittedFacts
<1>4. CASE SyncReturns
  <2>1. StageInv'
    BY <1>1, <1>4, CommittedFacts DEF SyncReturns, StageInv
  <2> QED BY <1>1, <1>2, <1>4, <2>1, CommittedFacts DEF SyncReturns, ImportInv, DoneInv
<1> QED BY <1>3, <1>4

\* Only active players of the league who were not imported are deactivated.
LEMMA CleanUpFacts ==
    ASSUME SquadInv, CleanUp
    PROVE  /\ mode = "import" /\ cur \in Leagues
           /\ players' = mine' /\ players' \in Table
           /\ \A p \in Ids :
                 \/ players'[p] = players[p]
                 \/ /\ imported # {} /\ p \notin imported /\ players[p] # NoRow
                    /\ players[p].league = cur
                    /\ players'[p] # NoRow /\ players'[p].league = cur
<1>1. mode = "import" /\ cur \in Leagues /\ players' = mine'
  BY DEF CleanUp, SquadInv, StageInv, SquadTypeOK
<1>2. ASSUME NEW p \in Ids
      PROVE  /\ players'[p] \in Row \cup {NoRow}
             /\ \/ players'[p] = players[p]
                \/ /\ imported # {} /\ p \notin imported /\ players[p] # NoRow
                   /\ players[p].league = cur
                   /\ players'[p] # NoRow /\ players'[p].league = cur
  <2>1. players[p] \in Row \cup {NoRow}
    BY DEF SquadInv, SquadTypeOK, Table
  <2>2. CASE imported # {} /\ players[p] = [league |-> cur, active |-> TRUE] /\ p \notin imported
    <3>1. players'[p] = [players[p] EXCEPT !.active = FALSE]
      BY <2>2 DEF CleanUp
    <3>2. players[p] \in Row /\ players[p].league = cur
      BY <1>1, <2>2 DEF Row
    <3>3. NoRow \notin Row
      BY SquadAssumption DEF Row
    <3> QED BY <2>2, <3>1, <3>2, <3>3, Deactivated
  <2>3. CASE ~(imported # {} /\ players[p] = [league |-> cur, active |-> TRUE] /\ p \notin imported)
    BY <2>1, <2>3 DEF CleanUp
  <2> QED BY <2>2, <2>3
<1>3. players' \in Table
  BY <1>1, <1>2 DEF CleanUp, Table
<1> QED BY <1>1, <1>2, <1>3

\* A clean-up deactivates only players of its own league.
LEMMA CleanUpKeepsInv ==
    ASSUME SquadInv, CleanUp
    PROVE  SquadInv'
<1> USE DEF SquadInv
<1>1. SquadTypeOK'
  BY CleanUpFacts DEF CleanUp, SquadTypeOK
<1>2. MarketInv'
  BY DEF CleanUp, MarketInv, TradesSurviveImport
<1>3. StageInv'
  BY CleanUpFacts DEF CleanUp, StageInv
<1>4. ImportInv'
  BY CleanUpFacts DEF CleanUp, ImportInv, Active
<1>5. DoneInv'
  <2> SUFFICES ASSUME NEW pair \in done
               PROVE  /\ pair[2] # NoLeague /\ groups[pair[2]] = {}
                      /\ mine'[pair[1]] # NoRow
                      /\ mine'[pair[1]].active \/ CleanedUp(mine[pair[1]].league, pair[1])'
    BY DEF CleanUp, DoneInv
  <2>1. pair[1] \in Ids /\ pair[2] \in Leagues
    BY DEF SquadTypeOK
  <2>2. mine = players
    BY DEF CleanUp, StageInv
  <2>3. /\ \/ pair[2] = cur /\ pair[1] \in imported
           \/ pair[2] # cur /\ groups[pair[2]] = {}
        /\ mine[pair[1]] # NoRow
        /\ mine[pair[1]].active \/ CleanedUp(mine[pair[1]].league, pair[1])
    BY CleanUpFacts DEF DoneInv
  <2>4. cur # NoLeague /\ groups[cur] = {} /\ \A p \in imported : <<p, cur>> \in done
    BY CleanUpFacts, SquadAssumption DEF DoneInv
  <2>5. UNCHANGED <<groups, done>> /\ cur' = NoLeague
    BY DEF CleanUp
  <2> DEFINE p == pair[1]
  <2>6. players[p] \in Row /\ players[p].league \in Leagues
    BY <2>1, <2>2, <2>3 DEF SquadTypeOK, Table, Row
  <2>7. CASE players'[p] = players[p]
    BY <2>1, <2>2, <2>3, <2>4, <2>5, <2>6, <2>7, CleanUpFacts, SquadAssumption
       DEF CleanedUp, ImportedFor
  <2>8. CASE /\ imported # {} /\ p \notin imported /\ players'[p] # NoRow
             /\ players'[p].league = cur
    <3>1. p \notin ImportedFor(cur)
      <4>1. ASSUME <<p, cur>> \in done PROVE FALSE
        BY <2>8, <4>1, CleanUpFacts DEF DoneInv
      <4> QED BY <4>1 DEF ImportedFor
    <3>2. ImportedFor(cur) # {}
      <4>1. PICK o \in imported : TRUE
        BY <2>8
      <4>2. o \in Ids /\ <<o, cur>> \in done
        BY <2>4, <4>1 DEF SquadTypeOK
      <4> QED BY <4>2 DEF ImportedFor
    <3>3. mine'[p] = players'[p]
      BY CleanUpFacts
    <3>4. CleanedUp(mine[p].league, p)'
      BY <2>4, <2>5, <2>8, <3>1, <3>2, <3>3 DEF CleanedUp, ImportedFor
    <3> QED BY <2>1, <2>3, <2>4, <2>5, <2>8, <3>3, <3>4, SquadAssumption
  <2> QED BY <2>1, <2>7, <2>8, CleanUpFacts
<1> QED BY <1>1, <1>2, <1>3, <1>4, <1>5

\* The steps that fetch, or that begin and end runs, change no table.
LEMMA RunKeepsInv ==
    ASSUME SquadInv,
           \/ \E l \in Leagues : CollectLeague(l) \/ SkipLeague(l) \/ SyncLeague(l) \/ SyncSkipsLeague(l)
           \/ StartImport \/ NextGroup \/ ImportReturns \/ StartSync \/ RunAborts
    PROVE  SquadInv'
<1> USE DEF SquadInv
<1>1. MarketInv'
  BY DEF CollectLeague, SkipLeague, SyncLeague, SyncSkipsLeague, StartImport, NextGroup,
         ImportReturns, StartSync, RunAborts, MarketInv, TradesSurviveImport, squadTables, session
<1>2. ASSUME NEW l \in Leagues, CollectLeague(l) PROVE SquadInv'
  <2>1. groups' \in [Leagues -> SUBSET Ids]
    <3>1. PICK members \in [TeamsOf(l) -> SUBSET Ids], pos \in [TeamsOf(l) -> Standings],
               rank \in [Ids -> 0..1], chosen \in [TeamsOf(l) -> SUBSET Ids] :
             groups' = [groups EXCEPT ![l] = UNION {chosen[t] : t \in TeamsOf(l)}]
      BY <1>2 DEF CollectLeague
    <3>2. UNION {chosen[t] : t \in TeamsOf(l)} \subseteq Ids
      OBVIOUS
    <3> QED BY <3>1, <3>2 DEF SquadTypeOK
  <2> QED BY <1>1, <1>2, <2>1
          DEF CollectLeague, SquadTypeOK, StageInv, ImportInv, DoneInv, squadTables, session, Active
<1>3. ASSUME NEW l \in Leagues, SkipLeague(l) \/ SyncSkipsLeague(l) PROVE SquadInv'
  BY <1>1, <1>3 DEF SkipLeague, SyncSkipsLeague, SquadTypeOK, StageInv, ImportInv, DoneInv,
                    squadTables, session, Active
<1>4. ASSUME NEW l \in Leagues, SyncLeague(l) PROVE SquadInv'
  <2>1. squad' \subseteq Ids /\ queue' \subseteq Ids
    BY <1>4 DEF SyncLeague
  <2> QED BY <1>1, <1>4, <2>1, SquadAssumption
          DEF SyncLeague, SquadTypeOK, StageInv, ImportInv, DoneInv, squadTables, session
<1>5. CASE StartImport \/ ImportReturns \/ StartSync
  BY <1>1, <1>5 DEF StartImport, ImportReturns, StartSync, SquadTypeOK, StageInv, ImportInv,
                    DoneInv, squadTables, session, Active
<1>6. CASE NextGroup
  <2>1. PICK l \in Leagues : /\ groups[l] # {} /\ cur' = l /\ queue' = groups[l]
                             /\ groups' = [groups EXCEPT ![l] = {}]
    BY <1>6 DEF NextGroup
  <2>2. SquadTypeOK'
    BY <1>6, <2>1 DEF NextGroup, SquadTypeOK, squadTables, session
  <2>3. StageInv'
    BY <1>6, <2>1, SquadAssumption DEF NextGroup, StageInv, squadTables, session
  <2>4. ImportInv'
    BY <1>6, <2>1 DEF NextGroup, ImportInv, squadTables, session, Active
  <2>5. DoneInv'
    <3>1. /\ cur = NoLeague /\ imported = {} /\ imported' = {}
          /\ UNCHANGED <<mode, mine, done>>
      BY <1>6 DEF NextGroup, StageInv, session
    <3>2. \A k \in Leagues : groups[k] = {} => groups'[k] = {} /\ k # l
      BY <2>1 DEF SquadTypeOK
    <3>3. ASSUME mode = "import", NEW pair \in done
          PROVE  /\ pair[2] # cur' /\ groups'[pair[2]] = {}
                 /\ mine[pair[1]] # NoRow
                 /\ mine[pair[1]].active \/ CleanedUp(mine[pair[1]].league, pair[1])'
      <4>1. pair[1] \in Ids /\ pair[2] \in Leagues /\ mine[pair[1]] # NoRow /\ groups[pair[2]] = {}
        BY <3>1, <3>3 DEF DoneInv, SquadTypeOK
      <4>2. mine[pair[1]].league \in Leagues
        BY <4>1 DEF SquadTypeOK, Table, Row
      <4>3. mine[pair[1]].active \/ CleanedUp(mine[pair[1]].league, pair[1])
        BY <3>3 DEF DoneInv
      <4> QED BY <2>1, <3>1, <3>2, <4>1, <4>2, <4>3 DEF CleanedUp, ImportedFor
    <3> QED BY <2>1, <3>1, <3>3 DEF DoneInv, SquadTypeOK
  <2> QED BY <1>1, <2>2, <2>3, <2>4, <2>5
<1>7. CASE RunAborts
  BY <1>1, <1>7 DEF RunAborts, SquadTypeOK, StageInv, ImportInv, DoneInv, squadTables
<1> QED BY <1>2, <1>3, <1>4, <1>5, <1>6, <1>7

\* The deactivation of the synchronisation stays in its session.
LEMMA SyncDeactivatesKeepsInv ==
    ASSUME SquadInv, SyncDeactivates
    PROVE  SquadInv'
<1> USE DEF SquadInv
<1>1. mine' \in Table
  <2>1. ASSUME NEW p \in Ids PROVE mine'[p] \in Row \cup {NoRow}
    <3>1. mine[p] \in Row \cup {NoRow}
      BY DEF SquadTypeOK, Table
    <3>2. CASE mine[p] = [league |-> cur, active |-> TRUE] /\ p \notin squad
      <4>1. mine'[p] = [mine[p] EXCEPT !.active = FALSE]
        BY <3>2 DEF SyncDeactivates
      <4>2. cur \in Leagues
        BY DEF SyncDeactivates, SquadTypeOK, StageInv
      <4>3. mine[p] \in Row
        BY <3>2, <4>2 DEF Row
      <4> QED BY <4>1, <4>3, Deactivated
    <3>3. CASE ~(mine[p] = [league |-> cur, active |-> TRUE] /\ p \notin squad)
      BY <3>1, <3>3 DEF SyncDeactivates
    <3> QED BY <3>2, <3>3
  <2> QED BY <2>1 DEF SyncDeactivates, Table
<1>2. SquadTypeOK'
  BY <1>1 DEF SyncDeactivates, SquadTypeOK, squadTables
<1> QED BY <1>2 DEF SyncDeactivates, MarketInv, TradesSurviveImport, StageInv, ImportInv, DoneInv,
                    squadTables

\* Every step keeps the invariant.
LEMMA NextKeepsSquadInv == SquadInv /\ [SquadNext]_squadVars => SquadInv'
<1> SUFFICES ASSUME SquadInv, [SquadNext]_squadVars PROVE SquadInv'
  OBVIOUS
<1>1. CASE UNCHANGED squadVars
  <2>1. UNCHANGED <<players, markets, moved, bought, mode, stage, waiting, groups, cur, queue, squad,
                    imported, done, mine, fresh, broken>>
    BY <1>1 DEF squadVars, squadTables, session, progress
  <2>2. SquadTypeOK' /\ MarketInv' /\ StageInv' /\ ImportInv'
    BY <2>1 DEF SquadInv, SquadTypeOK, MarketInv, TradesSurviveImport, StageInv, ImportInv, Active
  <2>3. DoneInv'
    BY <2>1 DEF SquadInv, DoneInv, CleanedUp, ImportedFor
  <2> QED BY <2>2, <2>3 DEF SquadInv
<1> QED BY <1>1, TradeKeepsInv, UpsertKeepsInv, CommitKeepsInv, CleanUpKeepsInv, RunKeepsInv,
           SyncDeactivatesKeepsInv DEF SquadNext

\* The inductive invariant of the squads holds in every reachable state.
LEMMA SquadInvariant == SquadSpec => []SquadInv
  BY InitSquadInv, NextKeepsSquadInv, PTL DEF SquadSpec

\* However imports, synchronisations, failures and trades interleave: no market is
\* initialised twice.
THEOREM AlwaysTradesSurviveImport == SquadSpec => []TradesSurviveImport
<1>1. SquadInv => TradesSurviveImport
  BY DEF SquadInv, MarketInv
<1> QED BY <1>1, SquadInvariant, PTL

\* Whoever fails in a league: the clean-up relies on players that are committed.
THEOREM AlwaysImportedAreCommitted == SquadSpec => []ImportedAreCommitted
<1>1. SquadInv => ImportedAreCommitted
  BY DEF SquadInv, StageInv, ImportInv, ImportedAreCommitted, Active
<1> QED BY <1>1, SquadInvariant, PTL

\* In whatever order the leagues are upserted and whoever fails: who has been imported is
\* deactivated only with the league his row still names, and only if he was not imported
\* for it and somebody was.
THEOREM AlwaysImportedStayActive == SquadSpec => []ImportedStayActive
<1>1. SquadInv => ImportedStayActive
  <2> SUFFICES ASSUME SquadInv, mode = "import", stage = "league", NEW pair \in done
               PROVE  \/ players[pair[1]].active
                      \/ /\ pair[1] \notin ImportedFor(players[pair[1]].league)
                         /\ ImportedFor(players[pair[1]].league) # {}
    BY DEF ImportedStayActive
  <2> QED BY DEF SquadInv, StageInv, DoneInv, CleanedUp
<1> QED BY <1>1, SquadInvariant, PTL

\* However leagues fail and overlap with trades: no step of an import leaves a league
\* without active players, unless all whom it imported for it are in the rows of others.
THEOREM DeactivatesNotEveryone == SquadSpec => NeverDeactivatesEveryone
<1> DEFINE Deactivates(l) == mode = "import" /\ ~(ActiveOf(l) \subseteq ActiveOf(l)')
           Leaves(l) == \/ \E p \in ActiveOf(l)' : p \in markets'
                        \/ /\ ImportedFor(l) # {}
                           /\ \A p \in ImportedFor(l) : players[p].league # l
<1>1. ASSUME SquadInv, [SquadNext]_squadVars, NEW l \in Leagues, Deactivates(l) PROVE Leaves(l)
  <2>1. PICK p \in Ids : players[p] = [league |-> l, active |-> TRUE] /\ players'[p] # players[p]
    BY <1>1 DEF ActiveOf
  <2>2. players' # players /\ players[p] # NoRow /\ players[p].league = l /\ players[p].active
    <3>1. players[p] \in Row
      BY <2>1 DEF Row
    <3>2. NoRow \notin Row
      BY SquadAssumption DEF Row
    <3>3. players[p].league = l /\ players[p].active
      BY <2>1
    <3> QED BY <2>1, <3>1, <3>2, <3>3
  <2>3. CommitLeague \/ CleanUp
    BY <1>1, <2>2 DEF SquadNext, squadVars, squadTables, BuyOrSell, ImportPlayer, SkipPlayer,
          SyncPlayer, CollectLeague, SkipLeague, SyncLeague, SyncSkipsLeague, StartImport,
          NextGroup, ImportReturns, StartSync, SyncDeactivates, SyncReturns, RunAborts
  <2>4. CASE CommitLeague
    <3>1. Active(players, p) /\ players' = mine /\ mode = "import"
      BY <1>1, <2>2, <2>4 DEF Active, CommitLeague, Committed
    <3> QED BY <1>1, <2>1, <3>1 DEF SquadInv, ImportInv
  <2>5. CASE CleanUp
    <3>1. imported # {} /\ imported \subseteq Ids /\ l = cur
      BY <1>1, <2>1, <2>2, <2>5, CleanUpFacts DEF SquadInv, SquadTypeOK
    <3>2. mode = "import" /\ mine = players /\ fresh = {} /\ markets' = markets
      BY <1>1, <2>5 DEF CleanUp, SquadInv, StageInv
    <3>3. \A o \in imported : /\ o \in markets /\ players[o] # NoRow /\ players[o].active
                              /\ o \in ImportedFor(l) /\ players'[o] = players[o]
      BY <1>1, <2>5, <3>1, <3>2, CleanUpFacts DEF SquadInv, ImportInv, DoneInv, Active, ImportedFor
    <3>4. CASE \E o \in imported : players[o].league = l
      <4>1. PICK o \in imported : players[o].league = l
        BY <3>4
      <4>2. o \in Ids /\ players[o] \in Row
        BY <1>1, <3>1, <3>3, <4>1 DEF SquadInv, SquadTypeOK, Table
      <4>3. players[o] = [league |-> l, active |-> TRUE]
        BY <3>3, <4>1, <4>2 DEF Row
      <4>4. o \in ActiveOf(l)' /\ o \in markets'
        BY <3>2, <3>3, <4>1, <4>2, <4>3 DEF ActiveOf
      <4> QED BY <4>4
    <3>5. CASE \A o \in imported : players[o].league # l
      <4>1. \A o \in ImportedFor(l) : o \in imported
        BY <1>1, <3>1, <3>2 DEF SquadInv, DoneInv, ImportedFor
      <4> QED BY <3>1, <3>3, <3>5, <4>1
    <3> QED BY <3>4, <3>5
  <2> QED BY <2>3, <2>4, <2>5
<1>2. SquadInv /\ [SquadNext]_squadVars
        => [\A l \in Leagues : Deactivates(l) => Leaves(l)]_squadVars
  BY <1>1
<1> QED BY <1>2, SquadInvariant, PTL DEF SquadSpec, NeverDeactivatesEveryone

----------------------------------------------------------------------------
(* Matches *)

Statuses == {"scheduled", "live", "postponed", "finished"}
MatchStates == {"planned", "live", "off", "ended", "rated", "decided"}

\* Types of what the proofs look at.
MatchTypeOK ==
    /\ match \in [Fixtures -> MatchStates]
    /\ row \in [Fixtures -> Statuses \cup {"absent"}]
    /\ stamp \in [Fixtures -> 0..Lookback + 1]
    /\ rating \in [Fixtures -> {"absent", "none", "match", "season"}]
    /\ misses \in [Fixtures -> Nat] /\ late \in [Fixtures -> Nat]
    /\ syncAge \in 0..Lookback + 1
    /\ syncGot \in [Fixtures -> Statuses \cup {"same"}]
    /\ syncRows \in [Fixtures -> Statuses \cup {"same"}]
    /\ got \in [Fixtures -> {"no", "unrated", "rated"}]
    /\ checkDue \in BOOLEAN

\* What a task knows of the end of a match, stored or still in its session, is true.
EndInv ==
    \A f \in Fixtures :
        \/ row[f] = "finished" \/ rating[f] # "absent"
        \/ syncGot[f] = "finished" \/ syncRows[f] = "finished" \/ got[f] # "no"
        \/ f \in before
        => Ended(f)

\* Only a running synchronisation holds statuses, and an earlier one only of a fixture whose
\* row was not finished when it started.
SyncInv ==
    \A f \in Fixtures :
        /\ syncGot[f] # "same" \/ syncRows[f] # "same" \/ f \in before => syncing = "runs"
        /\ \/ syncGot[f] \notin {"same", "finished"}
           \/ syncRows[f] \notin {"same", "finished"}
           => f \notin before

Due == IF checkDue THEN 1 ELSE 0

\* Each tick since the commit of a finished row has had its check, but for the one due.
MissInv ==
    \A f \in Fixtures :
        row[f] = "finished" /\ f \notin processed
        => \/ misses[f] + late[f] >= Lookback
           \/ misses[f] + late[f] + Due >= stamp[f]

MatchInv == MatchTypeOK /\ EndInv /\ SyncInv /\ MissInv

----------------------------------------------------------------------------

\* The bound of the look-back is a positive number.
LEMMA LookbackNat == Lookback \in Nat /\ Lookback >= 1
  BY MatchAssumption

\* Nothing is stored and no task runs at first.
LEMMA InitMatchInv == MatchInit => MatchInv
<1> SUFFICES ASSUME MatchInit PROVE MatchInv
  OBVIOUS
<1>1. MatchTypeOK
  <2>1. 0 \in 0..Lookback + 1 /\ Lookback + 1 \in 0..Lookback + 1
    BY LookbackNat
  <2>2. stamp \in [Fixtures -> 0..Lookback + 1] /\ syncAge \in 0..Lookback + 1
    BY <2>1 DEF MatchInit
  <2>3. misses \in [Fixtures -> Nat] /\ late \in [Fixtures -> Nat]
    BY DEF MatchInit
  <2>4. /\ match \in [Fixtures -> MatchStates]
        /\ row \in [Fixtures -> Statuses \cup {"absent"}]
        /\ rating \in [Fixtures -> {"absent", "none", "match", "season"}]
        /\ syncGot \in [Fixtures -> Statuses \cup {"same"}]
        /\ syncRows \in [Fixtures -> Statuses \cup {"same"}]
        /\ got \in [Fixtures -> {"no", "unrated", "rated"}]
        /\ checkDue \in BOOLEAN
    BY DEF MatchInit, NothingFetched, Unchanged, MatchStates
  <2> QED BY <2>2, <2>3, <2>4 DEF MatchTypeOK
<1>2. \A f \in Fixtures : /\ row[f] = "absent" /\ rating[f] = "absent"
                          /\ syncGot[f] = "same" /\ syncRows[f] = "same" /\ got[f] = "no"
                          /\ f \notin before
  BY DEF MatchInit, NothingFetched, Unchanged
<1>3. EndInv /\ SyncInv /\ MissInv
  BY <1>2 DEF EndInv, SyncInv, MissInv
<1> QED BY <1>1, <1>3 DEF MatchInv

\* An ended match stays ended.
LEMMA PlayKeepsInv ==
    ASSUME MatchInv, NEW f \in Fixtures, Play(f)
    PROVE  MatchInv'
<1> USE DEF MatchInv
<1>1. UNCHANGED <<row, stamp, rating, processed, misses, late, syncing, syncAge, syncGot,
                  syncRows, before, got, checkDue>>
  BY DEF Play, fixtureTables, notes, sync, refresh
<1>2. \A g \in Fixtures : Ended(g) => Ended(g)'
  BY DEF Play, Ended, MatchTypeOK
<1>3. match' \in [Fixtures -> MatchStates]
  BY DEF Play, MatchTypeOK, MatchStates
<1>4. MatchTypeOK'
  BY <1>1, <1>3 DEF MatchTypeOK
<1> QED BY <1>1, <1>2, <1>4 DEF EndInv, SyncInv, MissInv, Due

\* Every row gets older and its check is due.
LEMMA TickKeepsMatchInv ==
    ASSUME MatchInv, Tick
    PROVE  MatchInv'
<1> USE DEF MatchInv
<1>1. /\ UNCHANGED <<match, row, rating, processed, misses, late, syncing, syncGot, syncRows, got>>
      /\ checkDue = FALSE /\ checkDue' = TRUE /\ before' = before
  BY DEF Tick, world, notes, refresh, MatchTypeOK
<1>2. \A n \in 0..Lookback + 1 : Capped(n + 1) \in 0..Lookback + 1 /\ Capped(n + 1) <= n + 1
  BY LookbackNat DEF Capped
<1>3. /\ stamp' \in [Fixtures -> 0..Lookback + 1] /\ syncAge' \in 0..Lookback + 1
      /\ \A f \in Fixtures : stamp'[f] <= stamp[f] + 1
  BY <1>2 DEF Tick, MatchTypeOK
<1>4. MatchTypeOK'
  BY <1>1, <1>3 DEF MatchTypeOK
<1>5. MissInv'
  <2> SUFFICES ASSUME NEW f \in Fixtures, row[f] = "finished", f \notin processed
               PROVE  \/ misses[f] + late[f] >= Lookback
                      \/ misses[f] + late[f] + 1 >= stamp'[f]
    BY <1>1 DEF MissInv, Due
  <2>1. misses[f] \in Nat /\ late[f] \in Nat /\ stamp[f] \in Nat /\ stamp'[f] \in Nat
    BY <1>3, LookbackNat DEF MatchTypeOK
  <2>2. misses[f] + late[f] >= Lookback \/ misses[f] + late[f] >= stamp[f]
    BY <1>1, <2>1 DEF MissInv, Due
  <2> QED BY <1>3, <2>1, <2>2
<1>6. SyncInv'
  BY <1>1 DEF SyncInv
<1>7. EndInv'
  BY <1>1 DEF EndInv, Ended
<1> QED BY <1>4, <1>5, <1>6, <1>7

\* Steps that move no row: the day, the starts and ends of the two daily tasks.
LEMMA QuietKeepsInv ==
    ASSUME MatchInv,
           UNCHANGED <<match, row, stamp, rating, processed, misses, late, checkDue>>,
           \/ UNCHANGED <<syncing, syncAge, syncGot, syncRows, before>>
           \/ /\ syncAge' \in {0, syncAge} /\ syncGot' = Unchanged /\ syncRows' = Unchanged
              /\ \A f \in Fixtures : f \in before' => row[f] = "finished" /\ syncing' = "runs",
           got' \in {got, NothingFetched}
    PROVE  MatchInv'
<1> USE DEF MatchInv
<1>1. got' \in [Fixtures -> {"no", "unrated", "rated"}]
      /\ \A f \in Fixtures : got'[f] # "no" => got[f] # "no"
  BY DEF MatchTypeOK, NothingFetched
<1>2. /\ syncGot' \in [Fixtures -> Statuses \cup {"same"}]
      /\ syncRows' \in [Fixtures -> Statuses \cup {"same"}]
      /\ syncAge' \in 0..Lookback + 1
      /\ \A f \in Fixtures : syncGot'[f] \in {"same", syncGot[f]}
                            /\ syncRows'[f] \in {"same", syncRows[f]}
  BY LookbackNat DEF MatchTypeOK, Unchanged
<1>3. MatchTypeOK'
  BY <1>1, <1>2 DEF MatchTypeOK
<1>4. EndInv'
  BY <1>1, <1>2 DEF EndInv, Ended
<1>5. SyncInv'
  BY DEF SyncInv, Unchanged
<1>6. MissInv'
  BY DEF MissInv, Due
<1> QED BY <1>3, <1>4, <1>5, <1>6

\* Outside a run nothing is held.
LEMMA HoldsNothing ==
    ASSUME MatchInv, syncing # "runs"
    PROVE  syncGot = Unchanged /\ syncRows = Unchanged
<1>1. \A f \in Fixtures : syncGot[f] = "same" /\ syncRows[f] = "same"
  BY DEF MatchInv, SyncInv
<1>2. /\ syncGot = [f \in Fixtures |-> syncGot[f]]
      /\ syncRows = [f \in Fixtures |-> syncRows[f]]
  BY DEF MatchInv, MatchTypeOK
<1> QED BY <1>1, <1>2 DEF Unchanged

\* The statuses of a league are those of its matches now.
LEMMA SyncFetchesKeepsInv ==
    ASSUME MatchInv, NEW l \in FixtureLeagues, SyncFetches(l)
    PROVE  MatchInv'
<1> USE DEF MatchInv
<1>1. /\ UNCHANGED <<match, row, stamp, rating, processed, misses, late, syncing, syncAge,
                     syncRows, before, got, checkDue>>
      /\ syncing = "runs"
      /\ syncGot' = [f \in Fixtures |->
             IF LeagueOfFixture[f] = l /\ age[f] <= 0 THEN StatusOf(match[f]) ELSE "same"]
  BY DEF SyncFetches, world, fixtureTables, notes, refresh
<1>2. \A f \in Fixtures : /\ StatusOf(match[f]) \in Statuses
                          /\ StatusOf(match[f]) = "finished" <=> Ended(f)
  BY DEF StatusOf, Statuses, Ended, MatchTypeOK
<1>3. syncGot' \in [Fixtures -> Statuses \cup {"same"}]
  BY <1>1, <1>2
<1>4. MatchTypeOK'
  BY <1>1, <1>3 DEF MatchTypeOK
<1>5. EndInv'
  BY <1>1, <1>2 DEF EndInv, Ended
<1>6. SyncInv'
  <2>1. \A f \in Fixtures : f \in before => syncGot'[f] \in {"same", "finished"}
    BY <1>1, <1>2 DEF EndInv
  <2> QED BY <1>1, <2>1 DEF SyncInv
<1> QED BY <1>1, <1>4, <1>5, <1>6 DEF MissInv, Due

\* They go into the session as they were fetched.
LEMMA SyncStoresKeepsInv ==
    ASSUME MatchInv, SyncStores
    PROVE  MatchInv'
<1> USE DEF MatchInv
<1>1. /\ UNCHANGED <<match, row, stamp, rating, processed, misses, late, syncing, syncAge,
                     before, got, checkDue>>
      /\ syncRows' = [f \in Fixtures |-> IF syncGot[f] = "same" THEN syncRows[f] ELSE syncGot[f]]
      /\ syncGot' = [f \in Fixtures |-> "same"]
  BY DEF SyncStores, world, fixtureTables, notes, refresh, Unchanged
<1>2. MatchTypeOK'
  BY <1>1 DEF MatchTypeOK
<1>3. EndInv' /\ SyncInv'
  BY <1>1 DEF EndInv, SyncInv, Ended
<1> QED BY <1>1, <1>2, <1>3 DEF MissInv, Due

\* The commit stamps its rows with the time of the start, and is late by as much.
LEMMA SyncCommitsKeepsInv ==
    ASSUME MatchInv, SyncCommits
    PROVE  MatchInv'
<1> USE DEF MatchInv
<1>1. /\ UNCHANGED <<match, rating, processed, got, checkDue>>
      /\ row' = [f \in Fixtures |-> IF syncRows[f] = "same" THEN row[f] ELSE syncRows[f]]
      /\ stamp' = [f \in Fixtures |-> IF syncRows[f] = "same" THEN stamp[f] ELSE syncAge]
      /\ misses' = [f \in Fixtures |-> IF syncRows[f] = "same" THEN misses[f] ELSE 0]
      /\ late' = [f \in Fixtures |-> IF syncRows[f] = "same" THEN late[f] ELSE syncAge]
      /\ syncAge' = 0 /\ syncRows' = [f \in Fixtures |-> "same"] /\ before' = {}
      /\ syncGot = [f \in Fixtures |-> "same"] /\ syncGot' = syncGot
  BY DEF SyncCommits, world, refresh, Unchanged
<1>2. MatchTypeOK'
  BY <1>1, LookbackNat DEF MatchTypeOK
<1>3. EndInv' /\ SyncInv'
  BY <1>1 DEF EndInv, SyncInv, Ended
<1>4. MissInv'
  <2> SUFFICES ASSUME NEW f \in Fixtures, row'[f] = "finished", f \notin processed
               PROVE  \/ misses'[f] + late'[f] >= Lookback
                      \/ misses'[f] + late'[f] + Due >= stamp'[f]
    BY <1>1 DEF MissInv, Due
  <2>1. CASE syncRows[f] = "same"
    BY <1>1, <2>1 DEF MissInv
  <2>2. CASE syncRows[f] # "same"
    <3>1. misses'[f] = 0 /\ late'[f] = syncAge /\ stamp'[f] = syncAge /\ syncAge \in Nat
      BY <1>1, <2>2, LookbackNat DEF MatchTypeOK
    <3>2. Due \in {0, 1}
      BY DEF Due
    <3> QED BY <3>1, <3>2
  <2> QED BY <2>1, <2>2
<1> QED BY <1>2, <1>3, <1>4

\* Only ended matches are fetched.
LEMMA RefreshFetchesKeepsInv ==
    ASSUME MatchInv, RefreshFetches
    PROVE  MatchInv'
<1> USE DEF MatchInv
<1>1. UNCHANGED <<match, row, stamp, rating, processed, misses, late, syncing, syncAge,
                  syncGot, syncRows, before, checkDue>>
  BY DEF RefreshFetches, world, fixtureTables, notes, sync
<1>2. PICK new : got' = [f \in Fixtures |-> IF f \in new THEN Fetched(f) ELSE "no"]
  BY DEF RefreshFetches
<1>3. \A f \in Fixtures : /\ Fetched(f) \in {"no", "unrated", "rated"}
                          /\ Fetched(f) # "no" => Ended(f)
  BY DEF Fetched, Ended
<1>4. MatchTypeOK'
  BY <1>1, <1>2, <1>3 DEF MatchTypeOK
<1>5. EndInv'
  BY <1>1, <1>2, <1>3 DEF EndInv, Ended
<1> QED BY <1>1, <1>4, <1>5 DEF SyncInv, MissInv, Due

\* A row is inserted with the time of the transaction, where no synchronisation holds one.
LEMMA RefreshStoresKeepsInv ==
    ASSUME MatchInv, RefreshStores
    PROVE  MatchInv'
<1> USE DEF MatchInv
<1> DEFINE have == {f \in Fixtures : got[f] # "no"}
           new  == {f \in have : row[f] = "absent"}
<1>1. /\ UNCHANGED <<match, processed, syncing, syncAge, syncGot, syncRows, before, checkDue>>
      /\ \A f \in new : syncRows[f] = "same"
      /\ row' = [f \in Fixtures |-> IF f \in new THEN "finished" ELSE row[f]]
      /\ stamp' = [f \in Fixtures |-> IF f \in new THEN 0 ELSE stamp[f]]
      /\ misses' = [f \in Fixtures |-> IF f \in new THEN 0 ELSE misses[f]]
      /\ late' = [f \in Fixtures |-> IF f \in new THEN 0 ELSE late[f]]
      /\ rating' = [f \in Fixtures |-> IF f \in have THEN StoredRating(f) ELSE rating[f]]
      /\ got' = NothingFetched
  BY DEF RefreshStores, world, sync
<1>2. \A f \in Fixtures : f \in have => Ended(f)
  BY DEF EndInv
<1>3. \A f \in new : f \in have
  OBVIOUS
<1>4. \A f \in Fixtures : StoredRating(f) \in {"absent", "none", "match", "season"}
  BY DEF StoredRating, MatchTypeOK
<1> HIDE DEF have, new
<1>5. MatchTypeOK'
  BY <1>1, <1>4, LookbackNat DEF MatchTypeOK, Statuses, NothingFetched
<1>6. EndInv'
  BY <1>1, <1>2, <1>3 DEF EndInv, Ended, NothingFetched
<1>7. SyncInv'
  BY <1>1 DEF SyncInv, MatchTypeOK
<1>8. MissInv'
  <2> SUFFICES ASSUME NEW f \in Fixtures, row'[f] = "finished", f \notin processed
               PROVE  \/ misses'[f] + late'[f] >= Lookback
                      \/ misses'[f] + late'[f] + Due >= stamp'[f]
    BY <1>1 DEF MissInv, Due
  <2>1. CASE f \in new
    <3>1. misses'[f] = 0 /\ late'[f] = 0 /\ stamp'[f] = 0 /\ Due \in {0, 1}
      BY <1>1, <2>1 DEF Due
    <3> QED BY <3>1
  <2>2. CASE f \notin new
    BY <1>1, <2>2 DEF MissInv
  <2> QED BY <2>1, <2>2
<1> QED BY <1>5, <1>6, <1>7, <1>8

\* The check of a tick: a recent row is processed or missed.
LEMMA CheckKeepsInv ==
    ASSUME MatchInv, Check
    PROVE  MatchInv'
<1> USE DEF MatchInv
<1>1. /\ UNCHANGED <<match, row, stamp, late, syncing, syncAge, syncGot, syncRows, before, got>>
      /\ checkDue = TRUE /\ checkDue' = FALSE
  BY DEF Check, world, sync, refresh, MatchTypeOK
<1>2. PICK ok \in SUBSET {f \in Fixtures : Recent(f)},
           value \in [Fixtures -> {"season", "none"}] :
          /\ processed' = processed \cup ok
          /\ rating' = [f \in Fixtures |-> IF f \in ok THEN value[f] ELSE rating[f]]
          /\ misses' = [f \in Fixtures |->
                 IF Recent(f) /\ f \notin ok THEN misses[f] + 1 ELSE misses[f]]
  BY DEF Check
<1>3. MatchTypeOK'
  <2>1. rating' \in [Fixtures -> {"absent", "none", "match", "season"}]
    BY <1>2 DEF MatchTypeOK
  <2>2. misses' \in [Fixtures -> Nat]
    BY <1>2 DEF MatchTypeOK
  <2> QED BY <1>1, <2>1, <2>2 DEF MatchTypeOK
<1>4. EndInv'
  <2>1. \A f \in ok : row[f] = "finished"
    BY DEF Recent
  <2> QED BY <1>1, <1>2, <2>1 DEF EndInv, Ended
<1>5. MissInv'
  <2> SUFFICES ASSUME NEW f \in Fixtures, row[f] = "finished", f \notin processed, f \notin ok
               PROVE  \/ misses'[f] + late[f] >= Lookback
                      \/ misses'[f] + late[f] >= stamp[f]
    BY <1>1, <1>2, <1>3 DEF MissInv, Due, MatchTypeOK
  <2>1. misses[f] \in Nat /\ late[f] \in Nat /\ stamp[f] \in 0..Lookback + 1
    BY DEF MatchTypeOK
  <2>2. \/ misses[f] + late[f] >= Lookback
        \/ misses[f] + late[f] + 1 >= stamp[f]
    BY <1>1 DEF MissInv, Due
  <2>3. CASE Recent(f)
    BY <1>2, <2>1, <2>2, <2>3, LookbackNat
  <2>4. CASE ~Recent(f)
    <3>1. stamp[f] = Lookback + 1 /\ misses'[f] = misses[f]
      BY <1>2, <2>1, <2>4, LookbackNat DEF Recent
    <3> QED BY <2>1, <2>2, <3>1, LookbackNat
  <2> QED BY <2>3, <2>4
<1> QED BY <1>1, <1>3, <1>4, <1>5 DEF SyncInv

\* Every step keeps them.
LEMMA NextKeepsMatchInv == MatchInv /\ [MatchNext]_matchVars => MatchInv'
<1> SUFFICES ASSUME MatchInv, [MatchNext]_matchVars PROVE MatchInv'
  OBVIOUS
<1> USE DEF world, fixtureTables, notes, sync, refresh
<1>0. MatchTypeOK
  BY DEF MatchInv
<1>1. CASE UNCHANGED matchVars
  BY <1>0, <1>1, QuietKeepsInv DEF matchVars, MatchTypeOK
<1>2. CASE NextDay
  <2>1. /\ UNCHANGED <<match, row, stamp, rating, processed, misses, late, checkDue>>
        /\ UNCHANGED <<syncAge, syncGot, syncRows, before, got>> /\ syncing # "runs"
    BY <1>2 DEF NextDay
  <2>2. \A f \in Fixtures : f \notin before
    BY <2>1 DEF MatchInv, SyncInv
  <2> QED BY <2>1, <2>2, QuietKeepsInv, HoldsNothing
<1>3. CASE SyncStarts
  BY <1>3, QuietKeepsInv, HoldsNothing DEF SyncStarts
<1>4. CASE \E l \in FixtureLeagues : SyncSkips(l)
  BY <1>0, <1>4, QuietKeepsInv DEF SyncSkips, MatchTypeOK
<1>5. CASE SyncAborts
  BY <1>0, <1>5, QuietKeepsInv DEF SyncAborts, MatchTypeOK
<1>6. CASE RefreshStarts \/ RefreshSkipsTeam \/ RefreshEnds
  BY <1>0, <1>6, QuietKeepsInv DEF RefreshStarts, RefreshSkipsTeam, RefreshEnds, MatchTypeOK
<1>7. CASE RefreshAborts
  BY <1>0, <1>7, QuietKeepsInv DEF RefreshAborts, MatchTypeOK
<1> QED
  BY <1>1, <1>2, <1>3, <1>4, <1>5, <1>6, <1>7, PlayKeepsInv, TickKeepsMatchInv,
     SyncFetchesKeepsInv, SyncStoresKeepsInv, SyncCommitsKeepsInv, RefreshFetchesKeepsInv, RefreshStoresKeepsInv,
     CheckKeepsInv DEF MatchNext, SyncSteps, RefreshSteps

\* The inductive invariant of the matches holds in every reachable state.
LEMMA MatchInvariant == MatchSpec => []MatchInv
  BY InitMatchInv, NextKeepsMatchInv, PTL DEF MatchSpec

\* However the tasks interleave, none inserts a fixture as finished or writes a rating
\* before the match has ended.
THEOREM AlwaysNothingBeforeTheEnd == MatchSpec => []NothingBeforeTheEnd
<1>1. MatchInv => NothingBeforeTheEnd
  BY DEF MatchInv, EndInv, NothingBeforeTheEnd
<1> QED BY <1>1, MatchInvariant, PTL

\* A finished row leaves the look-back unprocessed only if the checks within it failed.
THEOREM AlwaysMissedOnlyByFailures == MatchSpec => []MissedOnlyByFailures
<1>1. MatchInv => MissedOnlyByFailures
  <2> SUFFICES ASSUME MatchInv, NEW f \in Fixtures, row[f] = "finished", stamp[f] > Lookback,
                      f \notin processed
               PROVE  misses[f] + late[f] >= Lookback
    BY DEF MissedOnlyByFailures
  <2>1. misses[f] \in Nat /\ late[f] \in Nat /\ stamp[f] \in 0..Lookback + 1
    BY DEF MatchInv, MatchTypeOK
  <2>2. Due \in {0, 1}
    BY DEF Due
  <2>3. misses[f] + late[f] >= Lookback \/ misses[f] + late[f] + Due >= stamp[f]
    BY DEF MatchInv, MissInv
  <2> QED BY <2>1, <2>2, <2>3, LookbackNat
<1> QED BY <1>1, MatchInvariant, PTL

\* A finished row is written back to an earlier status only by a synchronisation during
\* which it was inserted: not by the refresh, not by the check, and not by a run that
\* started on the finished row, however old its answer is when it commits.
THEOREM OnlyOverlapsReopen == MatchSpec => OnlyOverlapReopens
<1>1. ASSUME MatchInv, [MatchNext]_matchVars
      PROVE  [\A f \in Fixtures : row[f] = "finished" /\ row'[f] # "finished"
                 => syncing = "runs" /\ f \notin before]_matchVars
  <2> SUFFICES ASSUME NEW f \in Fixtures, row[f] = "finished", row'[f] # "finished", MatchNext
               PROVE  syncing = "runs" /\ f \notin before
    BY <1>1
  <2>1. CASE SyncCommits
    BY <1>1, <2>1 DEF SyncCommits, MatchInv, SyncInv
  <2>2. CASE RefreshStores
    BY <2>2 DEF RefreshStores
  <2>3. CASE UNCHANGED row
    BY <2>3
  <2> QED
    BY <2>1, <2>2, <2>3 DEF MatchNext, SyncSteps, RefreshSteps, Play, Tick, NextDay, SyncStarts,
       SyncFetches, SyncStores, SyncSkips, SyncAborts, RefreshStarts, RefreshFetches,
       RefreshEnds, RefreshSkipsTeam, RefreshAborts, Check, fixtureTables
<1> QED BY <1>1, MatchInvariant, PTL DEF MatchSpec, OnlyOverlapReopens
=============================================================================
