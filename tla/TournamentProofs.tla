------------------------- MODULE TournamentProofs -------------------------
(***************************************************************************)
(* Theorems about Tournaments, for any number of tournaments, users,       *)
(* requests and task processes, any amount of trading and any crashes.     *)
(***************************************************************************)
EXTENDS Tournaments, FiniteSetTheorems, TLAPS

----------------------------------------------------------------------------
(* The ranked snapshot *)

\* The rows a freeze writes for one tournament: one for each member it saw, with
\* distinct ranks from 1 on in the order of the profits.
LEMMA SnapshotRowsAreRanked ==
    ASSUME TypeOK, NEW w \in Tasks, NEW t \in Tours,
           NEW rank \in Rankings(w, t)
    PROVE  LET R == SnapshotRows(w, t, rank)
           IN  /\ R \subseteq SnapshotRow
               /\ \A row \in R :
                     /\ row.tour = t /\ row.total = totals[w][row.user]
                     /\ row.start = snap[w].starting[t][row.user]
                     /\ row.start # NotMember
                     /\ row.profit = row.total - row.start
                     /\ row.rank \in 1 .. Cardinality(R)
               /\ \A a, b \in R : a # b => a.user # b.user /\ a.rank # b.rank
               /\ \A a, b \in R : a.rank < b.rank => a.profit >= b.profit
               /\ \A u \in SeenMembers(w, t) : \E row \in R : row.user = u
<1> DEFINE M == SeenMembers(w, t)
           Row(u) == [tour |-> t, user |-> u, rank |-> rank[u],
                      total |-> totals[w][u], start |-> snap[w].starting[t][u],
                      profit |-> Profit(w, t, u)]
           R == SnapshotRows(w, t, rank)
<1>1. R = {Row(u) : u \in M}
  BY DEF SnapshotRows
<1>2. /\ M \subseteq Users /\ IsFiniteSet(M)
      /\ \A u \in M : snap[w].starting[t][u] \in Nat /\ totals[w][u] \in Nat
  BY UsersAssumption, FS_Subset DEF SeenMembers, TypeOK
<1>3. /\ rank \in [M -> 1 .. Cardinality(M)]
      /\ \A u, v \in M : rank[u] = rank[v] => u = v
      /\ \A u, v \in M : Profit(w, t, u) > Profit(w, t, v) => rank[u] < rank[v]
  BY DEF Rankings, Bijection, Injection, IsInjective
<1>4. Cardinality(M) \in Nat
  BY <1>2, FS_CardinalityType
<1>5. \A u \in M : Profit(w, t, u) \in Int /\ rank[u] \in Nat \ {0}
  BY <1>2, <1>3, <1>4 DEF Profit
<1>6. Cardinality(R) = Cardinality(M)
  <2> DEFINE f == [u \in M |-> Row(u)]
  <2>1. f \in Bijection(M, R)
    BY <1>1 DEF Bijection, Injection, Surjection, IsInjective
  <2>2. ExistsBijection(M, R)
    BY <2>1 DEF ExistsBijection
  <2> QED BY <2>2, <1>2, FS_Bijection
<1>7. R \subseteq SnapshotRow
  BY <1>1, <1>2, <1>5 DEF SnapshotRow
<1>8. ASSUME NEW row \in R
      PROVE  /\ row.tour = t /\ row.total = totals[w][row.user]
             /\ row.start = snap[w].starting[t][row.user]
             /\ row.start # NotMember
             /\ row.profit = row.total - row.start
             /\ row.rank \in 1 .. Cardinality(R)
  <2>1. PICK u \in M : row = Row(u)
    BY <1>1
  <2> QED BY <2>1, <1>2, <1>3, <1>6 DEF Profit, NotMember
<1>9. ASSUME NEW a \in R, NEW b \in R
      PROVE  /\ a # b => a.user # b.user /\ a.rank # b.rank
             /\ a.rank < b.rank => a.profit >= b.profit
  <2>1. PICK u \in M, v \in M : a = Row(u) /\ b = Row(v)
    BY <1>1
  <2>2. a # b => u # v
    BY <2>1
  <2>3. rank[u] < rank[v] => Profit(w, t, u) >= Profit(w, t, v)
    BY <1>3, <1>5
  <2> QED BY <2>1, <2>2, <2>3, <1>3
<1>10. ASSUME NEW u \in M PROVE \E row \in R : row.user = u
  <2>1. Row(u) \in R /\ Row(u).user = u
    BY <1>1
  <2> QED BY <2>1
<1> HIDE DEF R
<1>11. QED BY <1>7, <1>8, <1>9, <1>10 DEF R

----------------------------------------------------------------------------
(* The inductive invariant *)

\* No tournament has begun and nothing has been traded.
LEMMA InitIInv == Init => IInv
<1> SUFFICES ASSUME Init PROVE IInv
  OBVIOUS
<1> USE DEF Init, NothingRead, NotMember
<1>1. TypeOK
  <2>1. creator \in [Tours -> Users]
    OBVIOUS
  <2>2. worths \subseteq [Users -> Nat]
    BY BoundsAssumption DEF Worth
  <2> QED BY <2>1, <2>2, BoundsAssumption, AsksAssumption DEF TypeOK
<1>2. WorthInv
  BY DEF WorthInv
<1>3. SnapInv
  BY DEF SnapInv
<1>4. NoEarlyBoard
  BY DEF NoEarlyBoard
<1>5. FrozenBoardIsConsistent
  BY DEF FrozenBoardIsConsistent, BoardIsConsistent, EverybodyHasAPlace, Board
<1>6. PunctualStay
  BY DEF PunctualStay
<1> QED BY <1>1, <1>2, <1>3, <1>4, <1>5, <1>6 DEF IInv

\* Boards depend on the snapshot rows, the starting values of ranked members and
\* the history only: they stay consistent when these stay or grow.
LEMMA BoardsKept ==
    ASSUME IInv, frozen' = frozen, worths \subseteq worths',
           \A t \in Tours : status'[t] = "completed" =>
               status[t] = "completed" /\ punctual'[t] = punctual[t],
           \A row \in frozen :
               starting'[row.tour][row.user] = starting[row.tour][row.user]
    PROVE  FrozenBoardIsConsistent'
<1>1. \A t \in Tours : Board(t)' = Board(t)
  BY DEF Board
<1>2. FrozenBoardIsConsistent
  BY DEF IInv
<1>3. ASSUME NEW t \in Tours PROVE EverybodyHasAPlace(t)'
  <2>1. EverybodyHasAPlace(t)
    BY <1>2 DEF FrozenBoardIsConsistent, BoardIsConsistent
  <2> QED BY <1>1, <2>1 DEF EverybodyHasAPlace
<1>4. ASSUME NEW t \in Tours, NEW row \in Board(t)
      PROVE  row.user \in Members(t)' /\ starting'[t][row.user] = starting[t][row.user]
  <2>1. row \in frozen /\ row.tour = t
    BY DEF Board
  <2>2. row.user \in Members(t)
    BY <1>2 DEF FrozenBoardIsConsistent, BoardIsConsistent
  <2> QED BY <2>1, <2>2 DEF Members
<1>5. ASSUME NEW t \in Tours PROVE BoardIsConsistent(t)'
  <2>1. BoardIsConsistent(t)
    BY <1>2 DEF FrozenBoardIsConsistent
  <2> QED BY <1>1, <1>3, <1>4, <2>1 DEF BoardIsConsistent
<1> QED BY <1>5 DEF FrozenBoardIsConsistent

\* Time and trades: the history gains the new total values.
LEMMA EnvironmentKeepsIInv ==
    ASSUME IInv, \/ \E t \in Tours : TimePasses(t)
                 \/ \E u \in Users : Trade(u) \/ Reprice(u)
    PROVE  IInv'
<1> USE DEF IInv, time, rows, economy, requests, tasks
<1>1. CASE \E t \in Tours : TimePasses(t)
  <2>1. PICK t \in Tours : TimePasses(t)
    BY <1>1
  <2>2. TypeOK'
    <3>1. (IF clock[t] = "running" THEN Members(t) ELSE {}) \in SUBSET Users
      BY DEF Members
    <3>2. punctual' \in [Tours -> SUBSET Users]
      BY <2>1, <3>1 DEF TimePasses, TypeOK
    <3> QED BY <2>1, <3>2 DEF TimePasses, TypeOK
  <2>3. WorthInv' /\ SnapInv' /\ NoEarlyBoard' /\ PunctualStay'
    BY <2>1 DEF TimePasses, WorthInv, Worth, SnapInv, SeenMembers, NoEarlyBoard, PunctualStay, Members
  <2>4. FrozenBoardIsConsistent'
    <3>1. \A s \in Tours : status[s] = "completed" => punctual'[s] = punctual[s]
      BY <2>1 DEF TimePasses, NoEarlyBoard, TypeOK
    <3> QED BY <2>1, <3>1, BoardsKept DEF TimePasses
  <2> QED BY <2>2, <2>3, <2>4
<1>2. ASSUME NEW u \in Users, Trade(u) \/ Reprice(u) PROVE IInv'
  <2>1. /\ cash' \in [Users -> Nat] /\ stock' \in [Users -> Nat]
        /\ moves' \in Nat
    <3>0. cash \in [Users -> Nat] /\ stock \in [Users -> Nat] /\ moves \in Nat
      BY DEF TypeOK
    <3>1. CASE Trade(u)
      <4>1. cash[u] \in Nat /\ stock[u] \in Nat
        BY <3>0
      <4>2. CASE cash[u] > 0 /\ cash' = [cash EXCEPT ![u] = @ - 1]
                             /\ stock' = [stock EXCEPT ![u] = @ + 1]
        <5>1. cash[u] - 1 \in Nat /\ stock[u] + 1 \in Nat
          BY <4>1, <4>2
        <5> QED BY <5>1, <4>2, <3>0, <3>1 DEF Trade
      <4>3. CASE stock[u] > 0 /\ cash' = [cash EXCEPT ![u] = @ + 1]
                              /\ stock' = [stock EXCEPT ![u] = @ - 1]
        <5>1. cash[u] + 1 \in Nat /\ stock[u] - 1 \in Nat
          BY <4>1, <4>3
        <5> QED BY <5>1, <4>3, <3>0, <3>1 DEF Trade
      <4> QED BY <3>1, <4>2, <4>3 DEF Trade
    <3>2. CASE Reprice(u)
      <4>1. PICK n \in {stock[u] - 1, stock[u] + 1} : stock' = [stock EXCEPT ![u] = n]
        BY <3>2 DEF Reprice
      <4>2. n \in Nat
        BY <3>0, <3>2 DEF Reprice
      <4> QED BY <4>1, <4>2, <3>0, <3>2 DEF Reprice
    <3> QED BY <1>2, <3>1, <3>2
  <2>2. /\ worths' = worths \cup {Worth'}
        /\ UNCHANGED <<time, rows, requests, tasks, crashes>>
    BY <1>2 DEF Trade, Reprice
  <2>3. Worth' \in [Users -> Nat]
    BY <2>1 DEF Worth
  <2>4. TypeOK'
    BY <2>1, <2>2, <2>3 DEF TypeOK
  <2>5. \A v \in Users \ Portfolios : cash'[v] = 0 /\ stock'[v] = 0
    BY <1>2 DEF Trade, Reprice, WorthInv, TypeOK
  <2>6. WorthInv' /\ SnapInv' /\ NoEarlyBoard' /\ PunctualStay'
    BY <2>2, <2>5 DEF WorthInv, SnapInv, SeenMembers, NoEarlyBoard, PunctualStay, Members
  <2>7. FrozenBoardIsConsistent'
    BY <2>2, BoardsKept
  <2> QED BY <2>4, <2>6, <2>7
<1> QED BY <1>1, <1>2

\* Requests: only a creation and the insert of a new member change rows.
LEMMA RequestKeepsIInv ==
    ASSUME IInv, NEW r \in Requests, RequestStep(r)
    PROVE  IInv'
<1> USE DEF IInv, time, rows, economy, requests, tasks
<1>0. Tour(r) \in Tours /\ User(r) \in Users /\ value[r] \in Nat
  BY DEF TypeOK, Jobs, Tour, User
<1>1. CASE CreateCount(r) \/ JoinRead(r) \/ JoinPoints(r) \/ JoinPositions(r)
         \/ JoinConflicts(r)
  <2>1. UNCHANGED <<time, rows, economy, tasks, crashes, job>>
    BY <1>1 DEF CreateCount, JoinRead, JoinPoints, JoinPositions, JoinConflicts
  <2>2. pc' \in [Requests -> {"arrived", "counted", "valuing", "pointed", "valued",
                              "refused", "failed", "done"}]
    <3>1. \E c \in {"counted", "valuing", "pointed", "valued", "refused", "failed"} :
             pc' = [pc EXCEPT ![r] = c]
      BY <1>1 DEF CreateCount, JoinRead, JoinPoints, JoinPositions, JoinConflicts
    <3> QED BY <3>1 DEF TypeOK
  <2>3. value' \in [Requests -> Nat]
    <3>1. cash[User(r)] \in Nat /\ value[r] + stock[User(r)] \in Nat
      BY <1>0 DEF TypeOK
    <3>2. value' = value \/ \E n \in Nat : value' = [value EXCEPT ![r] = n]
      BY <1>1, <3>1 DEF CreateCount, JoinRead, JoinPoints, JoinPositions,
                        JoinConflicts
    <3> QED BY <3>2 DEF TypeOK
  <2>4. TypeOK'
    BY <2>1, <2>2, <2>3 DEF TypeOK
  <2>5. WorthInv' /\ SnapInv' /\ NoEarlyBoard' /\ PunctualStay'
    BY <2>1 DEF WorthInv, Worth, SnapInv, SeenMembers, NoEarlyBoard, PunctualStay, Members
  <2>6. FrozenBoardIsConsistent'
    BY <2>1, BoardsKept
  <2> QED BY <2>4, <2>5, <2>6
<1>2. CASE CreateInsert(r)
  <2> USE <1>2 DEF CreateInsert
  <2>1. TypeOK'
    BY <1>0 DEF TypeOK
  <2>2. WorthInv'
    BY DEF WorthInv, Worth
  <2>3. SnapInv' /\ NoEarlyBoard' /\ PunctualStay'
    BY DEF SnapInv, SeenMembers, NoEarlyBoard, PunctualStay, Members, TypeOK, SnapshotRow
  <2>4. FrozenBoardIsConsistent'
    BY BoardsKept
  <2> QED BY <2>1, <2>2, <2>3, <2>4
<1>3. CASE JoinInsert(r)
  <2> DEFINE T == Tour(r)
             U == User(r)
             n == value[r]
  <2>0. /\ starting[T][U] = NotMember /\ starting' = [starting EXCEPT ![T][U] = n]
        /\ pc' = [pc EXCEPT ![r] = "done"]
        /\ UNCHANGED <<time, status, creator, frozen, economy, job, value, tasks,
                       crashes>>
    BY <1>3 DEF JoinInsert, Vacant
  <2>1. TypeOK'
    <3>0. T \in Tours /\ U \in Users /\ n \in Nat
      BY <1>0
    <3> HIDE DEF T, U, n
    <3>1. starting \in [Tours -> [Users -> Nat \cup {NotMember}]]
      BY DEF TypeOK
    <3>2. [starting EXCEPT ![T][U] = n] \in [Tours -> [Users -> Nat \cup {NotMember}]]
      BY <3>0, <3>1
    <3>3. starting' \in [Tours -> [Users -> Nat \cup {NotMember}]]
      BY <2>0, <3>1, <3>2
    <3>4. pc' \in [Requests -> {"arrived", "counted", "valuing", "pointed", "valued",
                               "refused", "failed", "done"}]
      BY <2>0 DEF TypeOK
    <3> QED BY <2>0, <3>3, <3>4 DEF TypeOK
  <2>2. \A t \in Tours, u \in Users :
          starting'[t][u] = starting[t][u] \/ starting[t][u] = NotMember
    <3>1. T \in Tours /\ U \in Users
      BY <1>0
    <3> HIDE DEF T, U, n
    <3>2. starting \in [Tours -> [Users -> Nat \cup {NotMember}]]
      BY DEF TypeOK
    <3> SUFFICES ASSUME NEW t \in Tours, NEW u \in Users
                 PROVE  starting'[t][u] = starting[t][u] \/ starting[t][u] = NotMember
      OBVIOUS
    <3>3. starting'[t] = IF t = T THEN [starting[T] EXCEPT ![U] = n] ELSE starting[t]
      BY <2>0, <3>1, <3>2
    <3> QED BY <2>0, <3>1, <3>2, <3>3
  <2>3. WorthInv' /\ NoEarlyBoard' /\ PunctualStay'
    BY <2>0 DEF WorthInv, Worth, NoEarlyBoard, PunctualStay, Members
  <2>4. SnapInv'
    BY <2>0, <2>2 DEF SnapInv, SeenMembers, TypeOK
  <2>5. \A row \in frozen :
          starting'[row.tour][row.user] = starting[row.tour][row.user]
    <3> SUFFICES ASSUME NEW row \in frozen
                 PROVE  starting'[row.tour][row.user] = starting[row.tour][row.user]
      OBVIOUS
    <3>1. row.tour \in Tours /\ row.user \in Users /\ row.start \in Nat
      BY DEF TypeOK, SnapshotRow
    <3>2. row.start = starting[row.tour][row.user]
      BY <3>1 DEF FrozenBoardIsConsistent, BoardIsConsistent, Board
    <3> QED BY <3>1, <3>2, <2>2 DEF NotMember
  <2>6. FrozenBoardIsConsistent'
    BY <2>0, <2>5, BoardsKept
  <2> QED BY <2>1, <2>3, <2>4, <2>6
<1> QED BY <1>1, <1>2, <1>3 DEF RequestStep

\* A task that ends forgets its snapshot.
LEMMA TaskEndsKeepsTypes ==
    ASSUME TypeOK, NEW w \in Tasks, TaskEnds(w)
    PROVE  /\ tpc' \in [Tasks -> {"idle", "reading", "valued"}]
           /\ kind' = kind
           /\ snap' \in [Tasks -> [due : SUBSET Tours,
                                  starting : [Tours -> [Users -> Nat \cup {NotMember}]],
                                  cash : [Users -> Nat], stock : [Users -> Nat]]]
           /\ totals' \in [Tasks -> [Users -> Nat]]
           /\ tpc'[w] = "idle"
           /\ \A v \in Tasks : v # w =>
                 tpc'[v] = tpc[v] /\ snap'[v] = snap[v] /\ totals'[v] = totals[v]
<1>1. NothingRead \in [due : SUBSET Tours,
                       starting : [Tours -> [Users -> Nat \cup {NotMember}]],
                       cash : [Users -> Nat], stock : [Users -> Nat]]
  BY DEF NothingRead
<1> QED BY <1>1 DEF TaskEnds, TypeOK

\* The first read of a task is a committed state; its later reads are the same.
LEMMA TaskReadKeepsIInv ==
    ASSUME IInv, NEW w \in Tasks,
           TaskReads(w, "activate") \/ TaskReads(w, "freeze") \/ TaskValues(w)
    PROVE  IInv'
<1> USE DEF IInv, time, rows, economy, requests
<1>1. UNCHANGED <<time, rows, economy, requests, crashes>>
  BY DEF TaskReads, TaskValues
<1>2. WorthInv' /\ NoEarlyBoard' /\ PunctualStay'
  BY <1>1 DEF WorthInv, Worth, NoEarlyBoard, PunctualStay, Members
<1>3. FrozenBoardIsConsistent'
  BY <1>1, BoardsKept
<1>4. CASE TaskValues(w)
  <2>1. /\ tpc[w] = "reading" /\ UNCHANGED <<kind, snap>>
        /\ tpc' = [tpc EXCEPT ![w] = "valued"]
        /\ totals' = [totals EXCEPT ![w] = [u \in Users |->
               IF u \in Portfolios THEN snap[w].cash[u] + snap[w].stock[u] ELSE 0]]
    BY <1>4 DEF TaskValues, StockRead
  <2>2. snap[w].cash \in [Users -> Nat] /\ snap[w].stock \in [Users -> Nat]
    BY DEF TypeOK
  <2>3. totals'[w] = [u \in Users |-> snap[w].cash[u] + snap[w].stock[u]]
    <3>1. totals'[w] = [u \in Users |->
               IF u \in Portfolios THEN snap[w].cash[u] + snap[w].stock[u] ELSE 0]
      BY <2>1 DEF TypeOK
    <3>2. \A u \in Users \ Portfolios : snap[w].cash[u] = 0 /\ snap[w].stock[u] = 0
      BY <2>1 DEF SnapInv
    <3> QED BY <3>1, <3>2
  <2>4. totals' \in [Tasks -> [Users -> Nat]]
    <3>1. totals'[w] \in [Users -> Nat]
      BY <2>2, <2>3
    <3> QED BY <2>1, <3>1 DEF TypeOK
  <2>5. TypeOK'
    BY <1>1, <2>1, <2>4 DEF TypeOK
  <2>6. totals'[w] \in worths
    BY <2>1, <2>3 DEF SnapInv, SeenMembers
  <2>7. SnapInv'
    BY <1>1, <2>1, <2>6 DEF SnapInv, SeenMembers, TypeOK
  <2> QED BY <1>2, <1>3, <2>5, <2>7
<1>5. ASSUME NEW k \in {"activate", "freeze"}, TaskReads(w, k) PROVE IInv'
  <2>1. /\ tpc' = [tpc EXCEPT ![w] = "reading"]
        /\ kind' = [kind EXCEPT ![w] = k]
        /\ snap' = [snap EXCEPT ![w] = [due |-> Due(k), starting |-> starting,
                                        cash |-> cash, stock |-> stock]]
        /\ totals' = totals
    BY <1>5 DEF TaskReads
  <2>2. TypeOK'
    <3>1. [due |-> Due(k), starting |-> starting, cash |-> cash, stock |-> stock] \in
             [due : SUBSET Tours,
              starting : [Tours -> [Users -> Nat \cup {NotMember}]],
              cash : [Users -> Nat], stock : [Users -> Nat]]
      BY DEF TypeOK, Due
    <3> QED BY <1>1, <2>1, <3>1 DEF TypeOK
  <2>3. /\ snap'[w].due = Due(k) /\ snap'[w].starting = starting
        /\ snap'[w].cash = cash /\ snap'[w].stock = stock
        /\ tpc'[w] = "reading" /\ kind'[w] = k
    BY <2>1 DEF TypeOK
  <2>4. \A v \in Tasks : v # w =>
          tpc'[v] = tpc[v] /\ kind'[v] = kind[v] /\ snap'[v] = snap[v]
    BY <2>1 DEF TypeOK
  <2>5. k = "freeze" => \A t \in Due(k) : status[t] = "active"
    BY DEF Due, Wanted
  <2>6. [u \in Users |-> snap'[w].cash[u] + snap'[w].stock[u]] \in worths
    BY <2>3 DEF WorthInv, Worth
  <2>7. SnapInv'
    <3>1. k = "freeze" => \A t \in Due(k) :
             clock[t] = "over" /\ punctual[t] \subseteq {u \in Users : starting[t][u] # NotMember}
      BY DEF Due, DueClock, PunctualStay, Members
    <3>2. ASSUME NEW v \in Tasks, v # w, tpc[v] # "idle", kind[v] = "freeze",
                 NEW t \in snap[v].due
          PROVE  clock'[t] = "over" /\ punctual'[t] \subseteq SeenMembers(v, t)'
      <4>1. clock[t] = "over" /\ punctual[t] \subseteq SeenMembers(v, t)
        BY <3>2 DEF SnapInv
      <4>2. SeenMembers(v, t)' = SeenMembers(v, t)
        BY <2>4, <3>2 DEF SeenMembers
      <4> QED BY <1>1, <4>1, <4>2
    <3>3. ASSUME k = "freeze", NEW t \in Due(k)
          PROVE  clock'[t] = "over" /\ punctual'[t] \subseteq SeenMembers(w, t)'
      BY <1>1, <2>3, <3>1, <3>3 DEF SeenMembers
    <3>4. \A v \in Tasks : tpc'[v] # "idle" /\ kind'[v] = "freeze" =>
             \A t \in snap'[v].due :
                 clock'[t] = "over" /\ punctual'[t] \subseteq SeenMembers(v, t)'
      BY <2>3, <2>4, <3>2, <3>3
    <3>5. k = "freeze" => \A t \in Due(k) : status'[t] \in {"active", "completed"}
      BY <1>1, <2>5
    <3> QED BY <1>1, <2>1, <2>3, <2>4, <2>6, <3>4, <3>5 DEF SnapInv, WorthInv
  <2> QED BY <1>2, <1>3, <2>2, <2>7
<1> QED BY <1>4, <1>5

\* Activation touches pending tournaments only: no board and no freeze depends on them.
LEMMA ActivateKeepsIInv ==
    ASSUME IInv, NEW w \in Tasks, Activate(w)
    PROVE  IInv'
<1> USE DEF IInv, time, rows, economy, requests
<1> DEFINE D == snap[w].due
<1>1. TaskEnds(w) /\ UNCHANGED <<creator, frozen, crashes, time, economy, requests>>
  BY DEF Activate, TaskEnds
<1>2. \A t \in D : status[t] = "pending"
  BY DEF Activate, Stale, Wanted
<1>3. /\ starting' \in [Tours -> [Users -> Nat \cup {NotMember}]]
      /\ status' \in [Tours -> {"absent", "pending", "active", "completed"}]
      /\ \A t \in Tours \ D : status'[t] = status[t] /\ starting'[t] = starting[t]
      /\ \A t \in Tours : status'[t] = "completed" => t \notin D
      /\ \A t \in Tours, u \in Users :
            starting[t][u] # NotMember => starting'[t][u] # NotMember
  <2>1. CASE ActivationCommits
    <3>1. totals[w] \in [Users -> Nat]
      BY DEF TypeOK
    <3>2. /\ starting' = [t \in Tours |-> [u \in Users |->
                 IF t \in D /\ u \in SeenMembers(w, t) \cap Portfolios
                 THEN totals[w][u] ELSE starting[t][u]]]
          /\ status' = [t \in Tours |-> IF t \in D THEN "active" ELSE status[t]]
      BY <2>1 DEF Activate
    <3>3. starting \in [Tours -> [Users -> Nat \cup {NotMember}]]
      BY DEF TypeOK
    <3>4. starting' \in [Tours -> [Users -> Nat \cup {NotMember}]]
      BY <3>1, <3>2, <3>3
    <3>5. status' \in [Tours -> {"absent", "pending", "active", "completed"}]
      BY <3>2 DEF TypeOK
    <3>6. ASSUME NEW t \in Tours \ D
          PROVE  status'[t] = status[t] /\ starting'[t] = starting[t]
      BY <3>2, <3>3
    <3>7. \A t \in Tours : status'[t] = "completed" => t \notin D
      BY <3>2
    <3>8. ASSUME NEW t \in Tours, NEW u \in Users, starting[t][u] # NotMember
          PROVE  starting'[t][u] # NotMember
      BY <3>1, <3>2, <3>8 DEF NotMember
    <3> QED BY <3>4, <3>5, <3>6, <3>7, <3>8
  <2>2. CASE ~ActivationCommits
    BY <1>2, <2>2 DEF Activate, TypeOK
  <2> QED BY <2>1, <2>2
<1>4. TypeOK'
  BY <1>1, <1>3, TaskEndsKeepsTypes DEF TypeOK
<1>5. WorthInv'
  BY <1>1 DEF WorthInv, Worth
<1>6. SnapInv'
  <2>1. \A v \in Tasks : v # w =>
           /\ tpc'[v] = tpc[v] /\ snap'[v] = snap[v] /\ totals'[v] = totals[v]
           /\ kind'[v] = kind[v]
    BY <1>1, TaskEndsKeepsTypes
  <2>2. tpc'[w] = "idle"
    BY <1>1, TaskEndsKeepsTypes
  <2>3. \A v \in Tasks : snap[v].due \subseteq Tours
    BY DEF TypeOK
  <2>4. ASSUME NEW v \in Tasks, v # w, tpc[v] # "idle", kind[v] = "freeze",
               NEW t \in snap[v].due
        PROVE  status'[t] = status[t] /\ starting'[t] = starting[t]
    BY <1>2, <1>3, <2>3, <2>4 DEF SnapInv, SeenMembers
  <2> QED BY <1>1, <2>1, <2>2, <2>3, <2>4 DEF SnapInv, SeenMembers
<1>7. NoEarlyBoard' /\ PunctualStay' /\ FrozenBoardIsConsistent'
  <2>1. \A row \in frozen : row.tour \in Tours \ D
    BY <1>2 DEF NoEarlyBoard, TypeOK, SnapshotRow
  <2>2. NoEarlyBoard'
    BY <1>1, <1>3, <2>1 DEF NoEarlyBoard
  <2>3. PunctualStay'
    BY <1>1, <1>3 DEF PunctualStay, Members
  <2>4. FrozenBoardIsConsistent'
    BY <1>1, <1>3, <2>1, BoardsKept
  <2> QED BY <2>2, <2>3, <2>4
<1> QED BY <1>4, <1>5, <1>6, <1>7

\* A freeze gives each tournament that was due its first and only board.
LEMMA FreezeKeepsIInv ==
    ASSUME IInv, NEW w \in Tasks, Freeze(w)
    PROVE  IInv'
<1> USE DEF IInv, time, rows, economy, requests
<1> DEFINE D == snap[w].due
<1>1. /\ TaskEnds(w) /\ tpc[w] = "valued" /\ kind[w] = "freeze"
      /\ UNCHANGED <<creator, starting, crashes, time, economy, requests>>
  BY DEF Freeze, TaskEnds
<1>2. D \subseteq Tours /\ \A t \in D : status[t] = "active"
  BY <1>1 DEF Freeze, Stale, Wanted, TypeOK
<1>3. PICK rank \in [D -> UNION {Rankings(w, t) : t \in D}] :
          /\ \A t \in D : rank[t] \in Rankings(w, t)
          /\ frozen' = frozen \cup UNION {SnapshotRows(w, t, rank[t]) : t \in D}
  BY DEF Freeze
<1>4. status' = [t \in Tours |-> IF t \in D THEN "completed" ELSE status[t]]
  BY DEF Freeze
<1>5. \A t \in D : SnapshotRows(w, t, rank[t]) \subseteq SnapshotRow
                  /\ \A row \in SnapshotRows(w, t, rank[t]) : row.tour = t
  BY <1>2, <1>3, SnapshotRowsAreRanked
<1>6. TypeOK'
  <2>1. frozen' \subseteq SnapshotRow
    BY <1>3, <1>5 DEF TypeOK
  <2>2. status' \in [Tours -> {"absent", "pending", "active", "completed"}]
    BY <1>4 DEF TypeOK
  <2> QED BY <1>1, <2>1, <2>2, TaskEndsKeepsTypes DEF TypeOK
<1>7. WorthInv'
  BY <1>1 DEF WorthInv, Worth
<1>8. SnapInv'
  <2>1. \A v \in Tasks : v # w =>
           /\ tpc'[v] = tpc[v] /\ snap'[v] = snap[v] /\ totals'[v] = totals[v]
           /\ kind'[v] = kind[v]
    BY <1>1, TaskEndsKeepsTypes
  <2>2. tpc'[w] = "idle"
    BY <1>1, TaskEndsKeepsTypes
  <2>3. \A v \in Tasks : snap[v].due \subseteq Tours
    BY DEF TypeOK
  <2> QED BY <1>1, <1>4, <2>1, <2>2, <2>3 DEF SnapInv, SeenMembers
<1>9. NoEarlyBoard' /\ PunctualStay'
  <2>1. \A row \in frozen' : status'[row.tour] = "completed"
    BY <1>2, <1>3, <1>4, <1>5 DEF NoEarlyBoard, TypeOK, SnapshotRow
  <2>2. \A t \in Tours : status'[t] = "completed" => clock'[t] = "over"
    BY <1>1, <1>4 DEF NoEarlyBoard, SnapInv
  <2>3. PunctualStay'
    BY <1>1 DEF PunctualStay, Members
  <2> QED BY <2>1, <2>2, <2>3 DEF NoEarlyBoard
<1>10. FrozenBoardIsConsistent'
  <2>1. \A t \in Tours \ D : Board(t)' = Board(t)
    BY <1>3, <1>5 DEF Board
  <2>2. \A t \in D : Board(t)' = SnapshotRows(w, t, rank[t])
    BY <1>2, <1>3, <1>5 DEF Board, NoEarlyBoard
  <2>3. totals[w] \in worths'
    <3>1. totals[w] \in worths
      BY <1>1 DEF SnapInv
    <3>2. worths' = worths
      BY <1>1
    <3> QED BY <3>1, <3>2
  <2>4. \A t \in D : \A row \in SnapshotRows(w, t, rank[t]) :
           /\ row.total = totals[w][row.user]
           /\ row.start = starting'[t][row.user] /\ row.user \in Members(t)'
    <3> SUFFICES ASSUME NEW t \in D, NEW row \in SnapshotRows(w, t, rank[t])
                 PROVE  /\ row.total = totals[w][row.user]
                        /\ row.start = starting'[t][row.user]
                        /\ row.user \in Members(t)'
      OBVIOUS
    <3>1. /\ row.total = totals[w][row.user] /\ row.user \in Users
          /\ row.start = snap[w].starting[t][row.user] /\ row.start # NotMember
      BY <1>2, <1>3, SnapshotRowsAreRanked DEF SnapshotRow
    <3>2. row.start = starting'[t][row.user]
      BY <1>1, <3>1 DEF SnapInv
    <3> QED BY <3>1, <3>2 DEF Members
  <2>5. ASSUME NEW t \in D
        PROVE  LET R == SnapshotRows(w, t, rank[t])
               IN  /\ \A row \in R : /\ row.profit = row.total - row.start
                                     /\ row.rank \in 1 .. Cardinality(R)
                   /\ \A a, b \in R : a # b => a.user # b.user /\ a.rank # b.rank
                   /\ \A a, b \in R : a.rank < b.rank => a.profit >= b.profit
                   /\ \A u \in SeenMembers(w, t) : \E row \in R : row.user = u
    BY <1>2, <1>3, SnapshotRowsAreRanked
  <2>6. ASSUME NEW t \in Tours \ D
        PROVE  BoardIsConsistent(t)'
    <3>1. /\ BoardIsConsistent(t) /\ Board(t)' = Board(t) /\ Members(t)' = Members(t)
          /\ status'[t] = status[t] /\ starting' = starting
          /\ punctual' = punctual /\ worths' = worths
      BY <1>1, <1>4, <2>1 DEF FrozenBoardIsConsistent, Members
    <3>2. EverybodyHasAPlace(t)'
      BY <3>1 DEF BoardIsConsistent, EverybodyHasAPlace
    <3> QED BY <3>1, <3>2 DEF BoardIsConsistent
  <2>7. ASSUME NEW t \in D
        PROVE  BoardIsConsistent(t)'
    <3>1. punctual'[t] \subseteq SeenMembers(w, t)
      BY <1>1 DEF SnapInv
    <3>2. EverybodyHasAPlace(t)'
      BY <2>2, <2>5, <3>1 DEF EverybodyHasAPlace
    <3> QED BY <2>2, <2>3, <2>4, <2>5, <3>2 DEF BoardIsConsistent
  <2> QED BY <2>6, <2>7 DEF FrozenBoardIsConsistent
<1> QED BY <1>6, <1>7, <1>8, <1>9, <1>10

\* A run that conflicts or is lost changes no row.
LEMMA TaskLostKeepsIInv ==
    ASSUME IInv, NEW w \in Tasks, TaskConflicts(w) \/ TaskCrashes(w)
    PROVE  IInv'
<1> USE DEF IInv, time, rows, economy, requests
<1>1. TaskEnds(w) /\ UNCHANGED <<rows, time, economy, requests>> /\ crashes' \in Nat
  BY DEF TaskConflicts, TaskCrashes, TaskEnds, TypeOK
<1>2. TypeOK'
  BY <1>1, TaskEndsKeepsTypes DEF TypeOK
<1>3. WorthInv' /\ NoEarlyBoard' /\ PunctualStay'
  BY <1>1 DEF WorthInv, Worth, NoEarlyBoard, PunctualStay, Members
<1>4. SnapInv'
  <2>1. \A v \in Tasks : v # w =>
           /\ tpc'[v] = tpc[v] /\ snap'[v] = snap[v] /\ totals'[v] = totals[v]
           /\ kind'[v] = kind[v]
    BY <1>1, TaskEndsKeepsTypes
  <2>2. tpc'[w] = "idle"
    BY <1>1, TaskEndsKeepsTypes
  <2> QED BY <1>1, <2>1, <2>2 DEF SnapInv, SeenMembers
<1>5. FrozenBoardIsConsistent'
  BY <1>1, BoardsKept
<1> QED BY <1>2, <1>3, <1>4, <1>5

\* Every step keeps the invariant.
LEMMA NextKeepsIInv == IInv /\ [Next]_vars => IInv'
<1> SUFFICES ASSUME IInv, [Next]_vars PROVE IInv'
  OBVIOUS
<1>1. CASE \E t \in Tours : TimePasses(t)
  BY <1>1, EnvironmentKeepsIInv
<1>2. CASE \E u \in Users : Trade(u) \/ Reprice(u)
  BY <1>2, EnvironmentKeepsIInv
<1>3. CASE \E r \in Requests : RequestStep(r)
  BY <1>3, RequestKeepsIInv
<1>4. CASE \E w \in Tasks : TaskReads(w, "activate") \/ TaskReads(w, "freeze")
  BY <1>4, TaskReadKeepsIInv
<1>5. CASE \E w \in Tasks : TaskStep(w) \/ TaskCrashes(w)
  BY <1>5, TaskReadKeepsIInv, ActivateKeepsIInv, FreezeKeepsIInv,
     TaskLostKeepsIInv DEF TaskStep
<1>6. CASE UNCHANGED vars
  <2> USE <1>6 DEF vars, time, rows, economy, requests, tasks, IInv
  <2>1. TypeOK'
    BY DEF TypeOK
  <2>2. WorthInv' /\ SnapInv' /\ NoEarlyBoard' /\ PunctualStay'
    BY DEF WorthInv, Worth, SnapInv, SeenMembers, NoEarlyBoard, PunctualStay, Members
  <2>3. FrozenBoardIsConsistent'
    BY BoardsKept
  <2> QED BY <2>1, <2>2, <2>3
<1> QED BY <1>1, <1>2, <1>3, <1>4, <1>5, <1>6 DEF Next

----------------------------------------------------------------------------
(* The theorems *)

\* Every reachable state satisfies the inductive invariant.
THEOREM InductiveInvariant == Spec => []IInv
<1> QED BY InitIInv, NextKeepsIInv, PTL DEF Spec

\* Type correctness.
THEOREM TypeCorrect == Spec => []TypeOK
<1>1. IInv => TypeOK
  BY DEF IInv
<1> QED BY <1>1, InductiveInvariant, PTL

\* Every board the freeze task leaves ranks members only, each once, with a place for
\* everybody who was one when the time ran out, by the profits of one instant of the
\* market against the starting values of their memberships.
THEOREM BoardsConsistent == Spec => []FrozenBoardIsConsistent
<1>1. IInv => FrozenBoardIsConsistent
  BY DEF IInv
<1> QED BY <1>1, InductiveInvariant, PTL

\* No step moves the starting value of a member of a tournament that has begun:
\* joins insert and never overwrite, and an activation run that read the
\* tournament as pending fails once another has started it.
THEOREM StartLocked == Spec => StartIsLocked
<1>1. ASSUME TypeOK, [Next]_vars, NEW t \in Tours, NEW u \in Users,
             status[t] \in {"active", "completed"}, u \in Members(t)
      PROVE  starting'[t][u] = starting[t][u]
  <2> SUFFICES starting' = starting \/ starting'[t][u] = starting[t][u]
    OBVIOUS
  <2>1. ASSUME NEW r \in Requests, RequestStep(r) PROVE starting'[t][u] = starting[t][u]
    <3>1. CASE JoinInsert(r)
      <4> DEFINE T == Tour(r)
                 U == User(r)
                 n == value[r]
      <4>1. /\ starting[T][U] = NotMember
            /\ starting' = [starting EXCEPT ![T][U] = n]
        BY <3>1 DEF JoinInsert, Vacant
      <4>2. starting[t][u] # NotMember
        BY <1>1 DEF Members
      <4>3. starting \in [Tours -> [Users -> Nat \cup {NotMember}]]
        BY <1>1 DEF TypeOK
      <4>4. T \in Tours /\ U \in Users
        BY <1>1 DEF TypeOK, Jobs, Tour, User
      <4> HIDE DEF T, U, n
      <4>5. starting'[t] = IF t = T THEN [starting[T] EXCEPT ![U] = n] ELSE starting[t]
        BY <4>1, <4>3, <4>4
      <4> QED BY <4>1, <4>2, <4>3, <4>4, <4>5
    <3>2. CASE ~JoinInsert(r)
      BY <2>1, <3>2 DEF RequestStep, CreateCount, CreateInsert, JoinRead, JoinPoints,
                        JoinPositions, JoinConflicts, rows
    <3> QED BY <3>1, <3>2
  <2>2. ASSUME NEW w \in Tasks, Activate(w) PROVE starting'[t][u] = starting[t][u]
    <3>1. t \notin snap[w].due
      BY <1>1, <2>2 DEF Activate, Stale, Wanted
    <3> QED BY <2>2, <3>1 DEF Activate
  <2>3. ASSUME NEW w \in Tasks,
               \/ TaskReads(w, "activate") \/ TaskReads(w, "freeze")
               \/ TaskStep(w) \/ TaskCrashes(w),
               ~Activate(w)
        PROVE  starting' = starting
    BY <2>3 DEF TaskReads, TaskStep, TaskValues, Freeze, TaskConflicts, TaskCrashes, rows
  <2>4. ASSUME \/ \E s \in Tours : TimePasses(s)
               \/ \E v \in Users : Trade(v) \/ Reprice(v)
        PROVE  starting' = starting
    BY <2>4 DEF TimePasses, Trade, Reprice, rows
  <2>5. CASE UNCHANGED vars
    BY <2>5 DEF vars, time, rows
  <2> QED BY <1>1, <2>1, <2>2, <2>3, <2>4, <2>5 DEF Next, TaskStep
<1>2. TypeOK /\ [Next]_vars =>
        [\A t \in Tours, u \in Users :
            status[t] \in {"active", "completed"} /\ u \in Members(t)
                => starting'[t][u] = starting[t][u]]_vars
  BY <1>1
<1> QED BY <1>2, TypeCorrect, PTL DEF Spec, StartIsLocked

\* A completed tournament is never reopened and its board never grows, whatever
\* runs of the two tasks overlap.
THEOREM FrozenFinal == Spec => FrozenIsFinal
<1>1. ASSUME TypeOK, [Next]_vars, NEW t \in Tours, status[t] = "completed"
      PROVE  /\ status'[t] = "completed"
             /\ \A row \in frozen' : row.tour = t => row \in frozen
  <2>1. ASSUME NEW w \in Tasks, Activate(w) \/ Freeze(w) PROVE t \notin snap[w].due
    BY <1>1, <2>1 DEF Activate, Freeze, Stale, Wanted
  <2>2. ASSUME NEW w \in Tasks, Activate(w)
        PROVE  status'[t] = status[t] /\ frozen' = frozen
    BY <2>1, <2>2 DEF Activate
  <2>3. ASSUME NEW w \in Tasks, Freeze(w)
        PROVE  /\ status'[t] = status[t]
               /\ \A row \in frozen' : row.tour = t => row \in frozen
    <3>1. status'[t] = status[t]
      BY <2>1, <2>3 DEF Freeze
    <3>2. PICK rank : frozen' = frozen \cup
                         UNION {SnapshotRows(w, s, rank[s]) : s \in snap[w].due}
      BY <2>3 DEF Freeze
    <3> QED BY <2>1, <2>3, <3>1, <3>2 DEF SnapshotRows
  <2>4. ASSUME NEW r \in Requests, RequestStep(r)
        PROVE  status'[t] = status[t] /\ frozen' = frozen
    <3>1. CASE CreateInsert(r)
      BY <1>1, <3>1 DEF CreateInsert, TypeOK
    <3>2. CASE ~CreateInsert(r)
      BY <2>4, <3>2 DEF RequestStep, CreateCount, JoinRead, JoinPoints, JoinPositions,
                        JoinInsert, JoinConflicts, rows
    <3> QED BY <3>1, <3>2
  <2>5. ASSUME NEW w \in Tasks,
               \/ TaskReads(w, "activate") \/ TaskReads(w, "freeze")
               \/ TaskStep(w) \/ TaskCrashes(w),
               ~Activate(w), ~Freeze(w)
        PROVE  status' = status /\ frozen' = frozen
    BY <2>5 DEF TaskReads, TaskStep, TaskValues, TaskConflicts, TaskCrashes, rows
  <2>6. ASSUME \/ \E s \in Tours : TimePasses(s)
               \/ \E v \in Users : Trade(v) \/ Reprice(v)
        PROVE  status' = status /\ frozen' = frozen
    BY <2>6 DEF TimePasses, Trade, Reprice, rows
  <2>7. CASE UNCHANGED vars
    BY <1>1, <2>7 DEF vars, time, rows
  <2> QED BY <1>1, <2>2, <2>3, <2>4, <2>5, <2>6, <2>7 DEF Next, TaskStep
<1>2. TypeOK /\ [Next]_vars =>
        [\A t \in Tours : status[t] = "completed" =>
            /\ status'[t] = "completed"
            /\ \A row \in frozen' : row.tour = t => row \in frozen]_vars
  BY <1>1
<1> QED BY <1>2, TypeCorrect, PTL DEF Spec, FrozenIsFinal

\* However trades interleave with its reads, an activation run measures all the
\* members it starts against one committed state.
THEOREM ActivatedTogether == Spec => ActivatedAtOneInstant
<1>1. ASSUME IInv, [Next]_vars, NEW t \in Tours,
             status[t] = "pending", status'[t] = "active"
      PROVE  \E worth \in worths : \A u \in Users :
                 starting'[t][u] # starting[t][u] => starting'[t][u] = worth[u]
  <2> USE <1>1 DEF IInv
  <2>1. PICK w \in Tasks : Activate(w)
    <3>1. ASSUME NEW w \in Tasks, Freeze(w) PROVE FALSE
      BY <3>1 DEF Freeze, TypeOK
    <3>2. ASSUME NEW r \in Requests, RequestStep(r) PROVE FALSE
      BY <3>2 DEF RequestStep, CreateCount, CreateInsert, JoinRead, JoinPoints,
                  JoinPositions, JoinInsert, JoinConflicts, rows, TypeOK
    <3>3. ASSUME NEW w \in Tasks,
                 \/ TaskReads(w, "activate") \/ TaskReads(w, "freeze")
                 \/ TaskStep(w) \/ TaskCrashes(w)
          PROVE  Activate(w)
      BY <3>1, <3>3 DEF TaskReads, TaskStep, TaskValues, TaskConflicts, TaskCrashes, rows
    <3>4. ASSUME \/ \E s \in Tours : TimePasses(s)
                 \/ \E v \in Users : Trade(v) \/ Reprice(v)
          PROVE  FALSE
      BY <3>4 DEF TimePasses, Trade, Reprice, rows
    <3>5. CASE UNCHANGED vars
      BY <3>5 DEF vars, time, rows
    <3> QED BY <3>2, <3>3, <3>4, <3>5 DEF Next, TaskStep
  <2>2. totals[w] \in worths
    BY <2>1 DEF Activate, SnapInv
  <2>3. \A u \in Users : starting'[t][u] # starting[t][u] => starting'[t][u] = totals[w][u]
    BY <2>1 DEF Activate
  <2> QED BY <2>2, <2>3
<1>2. IInv /\ [Next]_vars =>
        [\A t \in Tours : status[t] = "pending" /\ status'[t] = "active" =>
            \E worth \in worths : \A u \in Users :
                starting'[t][u] # starting[t][u] => starting'[t][u] = worth[u]]_vars
  BY <1>1
<1> QED BY <1>2, InductiveInvariant, PTL DEF Spec, ActivatedAtOneInstant
=============================================================================
