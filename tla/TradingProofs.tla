--------------------------- MODULE TradingProofs ---------------------------
(***************************************************************************)
(* Theorems about Trading, for any number of users, players, requests and  *)
(* recalibration runs and any amounts.                                     *)
(***************************************************************************)
EXTENDS Trading, Sums

----------------------------------------------------------------------------
(* Conversions *)

\* Rounding to the column unit moves an amount by at most half a unit, and a
\* non-negative amount stays non-negative.
LEMMA StoredIsClose ==
    ASSUME NEW x \in Int
    PROVE  /\ Stored(x) \in Int
           /\ Stored(x) - x <= Step \div 2
           /\ x - Stored(x) <= Step \div 2
           /\ x >= 0 => Stored(x) >= 0
<1> DEFINE k == (2 * x + Step) \div (2 * Step)
           y == Step * k
<1>1. Step \in Nat /\ Step > 0
  BY ColumnsAssumption
<1>2. k \in Int /\ 2 * x + Step \in Int /\ 2 * Step \in Int /\ 2 * Step > 0
  BY <1>1
<1>3. (2 * Step) * k <= 2 * x + Step /\ 2 * x + Step < (2 * Step) * k + 2 * Step
  BY <1>1, <1>2
<1>4. y \in Int /\ (2 * Step) * k = 2 * y
  BY <1>1, <1>2
<1>5. 2 * y <= 2 * x + Step /\ 2 * x < 2 * y + Step
  BY <1>1, <1>2, <1>3, <1>4
<1>6. y - x <= Step \div 2 /\ x - y <= Step \div 2
  <2> HIDE DEF y
  <2> QED BY <1>1, <1>4, <1>5
<1>7. ASSUME x >= 0 PROVE y >= 0
  <2>1. k >= 0
    BY <1>1, <1>2, <1>7
  <2> QED BY <2>1, <1>1, <1>2
<1> QED BY <1>4, <1>6, <1>7 DEF Stored

\* A rescaled q is an integer number of column units.
LEMMA RescaledIsInt ==
    ASSUME NEW n \in Int, NEW from \in Nat \ {0}, NEW to \in Int
    PROVE  Rescaled(n, from, to) \in Int
<1>1. n * to \in Int
  OBVIOUS
<1>2. (n * to) \div from \in Int
  BY <1>1
<1> QED BY <1>2 DEF Rescaled

\* A b_min is positive.
LEMMA UnitsArePositive == Bs \subseteq Nat \ {0}
BY ColumnsAssumption DEF Bs

\* A target of a unit or more is kept as one.
LEMMA StoredBIsUnit ==
    ASSUME NEW t \in Int, t >= BStep
    PROVE  StoredB(t) \in Bs
<1>1. BStep \in Nat \ {0}
  BY ColumnsAssumption
<1> DEFINE whole == (t * 1) \div BStep
           k == Rescaled(t, BStep, 1)
<1>2. whole \in Int /\ whole >= 1
  BY <1>1
<1>3. k \in Int /\ k >= 1
  <2>1. k = whole + 1 \/ k = whole
    BY DEF Rescaled
  <2> HIDE DEF k, whole
  <2> QED BY <1>2, <2>1
<1> HIDE DEF k
<1>4. BStep * k \in Int /\ BStep * k >= BStep
  BY <1>1, <1>3
<1> QED BY <1>1, <1>4 DEF StoredB, Bs, k

\* A larger b_min never shrinks a q that is not negative: the truncated quotient is
\* already as large.
LEMMA RescaledGrows ==
    ASSUME NEW n \in Nat, NEW from \in Nat \ {0}, NEW to \in Int, from < to
    PROVE  Rescaled(n, from, to) >= n
<1>1. PICK more \in Nat \ {0} : to = from + more
  <2>1. to - from \in Nat \ {0} /\ to = from + (to - from)
    OBVIOUS
  <2> QED BY <2>1
<1>2. n * to = n * from + n * more /\ n * more >= 0
  BY <1>1
<1>3. n * to \in Int /\ n * from \in Int /\ n * to >= n * from
  BY <1>2
<1>4. (n * to) \div from \in Int /\ (n * to) \div from >= n
  BY <1>3
<1> QED BY <1>4 DEF Rescaled

----------------------------------------------------------------------------
(* The initial states *)

\* A fresh database with no open session satisfies the inductive invariant.
LEMMA InitIInv == Init => IInv
<1> SUFFICES ASSUME Init PROVE IInv
  OBVIOUS
<1> USE DEF Init, NothingSeen, NoWrites, InFlight, Answered, Refused
<1>1. TypeOK
  BY TxnAssumption, ColumnsAssumption DEF TypeOK, Bs
<1>2. LockInv /\ SeenInv /\ WritesInv
  BY DEF LockInv, SeenInv, WritesInv
<1>3. RecalInv /\ QuietInv
  BY TxnAssumption DEF RecalInv, QuietInv
<1>4. LedgerMatchesPositions
  BY DEF LedgerMatchesPositions
<1>5. BalanceFollowsLedger
  BY ColumnsAssumption DEF BalanceFollowsLedger
<1>6. DustBufferHolds
  BY ColumnsAssumption DEF DustBufferHolds
<1> QED BY <1>1, <1>2, <1>3, <1>4, <1>5, <1>6 DEF IInv

----------------------------------------------------------------------------
(* Requests *)

\* A session that is closed without a commit leaves the rows alone and drops
\* only its own locks.
LEMMA ReleaseKeepsIInv ==
    ASSUME IInv, NEW r \in Requests, NEW outcome \in Answered,
           ReleaseTo(r, outcome), UNCHANGED <<tables, active, workers>>
    PROVE  IInv'
<1> USE DEF IInv, ReleaseTo, tables, workers
<1>1. TypeOK'
  BY DEF TypeOK, NothingSeen, NoWrites
<1>2. \A s \in Requests : pc'[s] \in InFlight => s # r /\ pc'[s] = pc[s]
  BY DEF TypeOK, InFlight, Answered, Refused
<1>3. LockInv'
  <2> SUFFICES ASSUME NEW s \in Requests, pc'[s] \in InFlight
               PROVE  /\ pLock'[User(s)] = s
                      /\ pc[s] = "flushed" => mLock'[Player(s)] = s
                      /\ pc[s] \in {"admitted", "flushed"} => Player(s) \in Players
    BY <1>2 DEF LockInv, InFlight, User, Player
  <2>1. s # r /\ pc[s] \in InFlight /\ User(s) \in Users
    BY <1>2 DEF TypeOK, Jobs, User
  <2> QED BY <2>1, TxnAssumption DEF TypeOK, LockInv
<1>4. SeenInv'
  BY <1>2 DEF TypeOK, SeenInv, InFlight, User, Player, Dir, Amount, Means
<1>5. WritesInv'
  BY <1>2 DEF TypeOK, WritesInv, InFlight, User, Player, Dir, Amount
<1>6. RecalInv'
  BY TxnAssumption DEF TypeOK, RecalInv, ScaledQ
<1>7. QuietInv'
  BY <1>2, TxnAssumption DEF TypeOK, QuietInv, NoTradeRuns
<1>8. LedgerMatchesPositions' /\ BalanceFollowsLedger' /\ DustBufferHolds'
  BY DEF LedgerMatchesPositions, BalanceFollowsLedger, DustBufferHolds
<1> QED BY <1>1, <1>3, <1>4, <1>5, <1>6, <1>7, <1>8

\* The portfolio lock makes what the request reads current and keeps it so.
LEMMA LockPortfolioKeepsIInv ==
    ASSUME IInv, NEW r \in Requests, LockPortfolio(r)
    PROVE  IInv'
<1> USE DEF IInv, LockPortfolio, PortfolioReady, tables, workers
<1>0. User(r) \in Users
  BY DEF TypeOK, Jobs, User
<1>1. TypeOK'
  BY <1>0 DEF TypeOK, InFlight
<1>2. \A s \in Requests : s # r => pc'[s] = pc[s] /\ seen'[s] = seen[s]
  BY DEF TypeOK
<1>3. \A s \in Requests : s # r /\ pc[s] \in InFlight => User(s) # User(r)
  BY TxnAssumption DEF TypeOK, LockInv
<1>4. LockInv'
  BY <1>0, <1>2, <1>3 DEF TypeOK, LockInv, InFlight, User, Player
<1>5. SeenInv'
  BY <1>0, <1>2 DEF TypeOK, SeenInv, InFlight, User, Player, Dir, Amount, Means
<1>6. WritesInv'
  BY <1>2 DEF TypeOK, WritesInv, User, Player, Dir, Amount
<1>7. RecalInv'
  BY DEF RecalInv, ScaledQ
<1>8. QuietInv'
  BY <1>2 DEF QuietInv, NoWorkerRuns, NoTradeRuns
<1>9. LedgerMatchesPositions' /\ BalanceFollowsLedger' /\ DustBufferHolds'
  BY DEF LedgerMatchesPositions, BalanceFollowsLedger, DustBufferHolds
<1> QED BY <1>1, <1>4, <1>5, <1>6, <1>7, <1>8, <1>9

\* An admitted request has, under its lock, the means for what it asks.
LEMMA AdmitKeepsIInv ==
    ASSUME IInv, NEW r \in Requests, AdmitBuy(r) \/ AdmitSell(r)
    PROVE  IInv'
<1> USE DEF IInv, tables, workers
<1>1. /\ pc[r] = "locked" /\ Player(r) \in Players
      /\ User(r) \in Users /\ Dir(r) \in Dirs
      /\ pc' = [pc EXCEPT ![r] = "admitted"]
      /\ seen' = [seen EXCEPT ![r].owned = owned[User(r)][Player(r)][Dir(r)]]
      /\ UNCHANGED <<tables, active, job, writes, pLock, mLock, workers>>
  BY DEF AdmitBuy, AdmitSell, Holds, TypeOK, Jobs, User, Player, Dir
<1>2. Amount(r) <= Means(r)
  BY <1>1 DEF AdmitBuy, AdmitSell, Holds, Means, SeenInv, TypeOK, Jobs,
              InFlight, User, Player, Dir, Amount
<1>3. \A s \in Requests : s # r => pc'[s] = pc[s] /\ seen'[s] = seen[s]
  BY <1>1 DEF TypeOK
<1>4. TypeOK'
  <2>1. owned[User(r)][Player(r)][Dir(r)] \in Nat
    BY <1>1 DEF TypeOK
  <2>2. seen' \in [Requests -> [points : Nat, owned : Nat]]
    <3>1. seen[r] \in [points : Nat, owned : Nat]
      BY DEF TypeOK
    <3>2. [seen[r] EXCEPT !.owned = owned[User(r)][Player(r)][Dir(r)]]
             \in [points : Nat, owned : Nat]
      BY <2>1, <3>1
    <3> QED BY <1>1, <3>2 DEF TypeOK
  <2>3. pc' \in [Requests -> {"arrived"} \cup InFlight \cup Answered]
    BY <1>1 DEF TypeOK, InFlight
  <2> QED BY <1>1, <2>2, <2>3 DEF TypeOK
<1>5. LockInv'
  BY <1>1 DEF TypeOK, LockInv, InFlight, User, Player
<1>6. SeenInv'
  <2>1. \A s \in Requests : Amount(s)' = Amount(s) /\ Means(s)' = Means(s)
    BY <1>1 DEF Amount, Means, User, Player, Dir
  <2>2. /\ seen'[r].points = points[User(r)]
        /\ seen'[r].owned = owned[User(r)][Player(r)][Dir(r)]
    BY <1>1 DEF TypeOK, SeenInv, InFlight
  <2>3. \A s \in Requests : UNCHANGED <<User(s), Player(s), Dir(s), points, owned>>
    BY <1>1 DEF User, Player, Dir
  <2>4. Amount(r)' <= Means(r)'
    BY <1>2, <2>1
  <2>5. ASSUME NEW s \in Requests, s # r, pc'[s] \in InFlight
        PROVE  /\ seen'[s].points = points'[User(s)']
               /\ pc'[s] \in {"admitted", "flushed"} =>
                     /\ seen'[s].owned = owned'[User(s)'][Player(s)'][Dir(s)']
                     /\ Amount(s)' <= Means(s)'
    BY <1>3, <2>1, <2>3, <2>5 DEF SeenInv
  <2> QED BY <2>2, <2>3, <2>4, <2>5 DEF SeenInv, InFlight
<1>7. WritesInv'
  BY <1>1, <1>3 DEF TypeOK, WritesInv, User, Player, Dir, Amount
<1>8. RecalInv'
  BY <1>1 DEF RecalInv, ScaledQ
<1>9. QuietInv'
  BY <1>1, <1>3 DEF TypeOK, QuietInv, NoTradeRuns, InFlight
<1>10. LedgerMatchesPositions' /\ BalanceFollowsLedger' /\ DustBufferHolds'
  BY <1>1 DEF LedgerMatchesPositions, BalanceFollowsLedger, DustBufferHolds
<1> QED BY <1>4, <1>5, <1>6, <1>7, <1>8, <1>9, <1>10

\* The flushed row values are the committed ones moved by the trade.
LEMMA FlushKeepsIInv ==
    ASSUME IInv, NEW r \in Requests, FlushBuy(r) \/ FlushSell(r)
    PROVE  IInv'
<1> USE DEF IInv, tables, workers
<1>1. /\ pc[r] = "admitted" /\ mLock[Player(r)] = NoTxn
      /\ Player(r) \in Players /\ User(r) \in Users /\ Dir(r) \in Dirs
      /\ Amount(r) \in Nat /\ q[Player(r)][Dir(r)] \in Int
      /\ job[r].kind \in {"buy", "sell"}
  <2>1. pc[r] = "admitted" /\ mLock[Player(r)] = NoTxn
    BY DEF FlushBuy, FlushSell, MarketReady
  <2>2. job[r] \in Jobs
    BY DEF TypeOK
  <2>3. User(r) \in Users /\ Dir(r) \in Dirs /\ job[r].kind \in {"buy", "sell"}
    BY <2>2 DEF Jobs, User, Dir
  <2>4. Amount(r) \in Nat
    BY <2>2, AmountsAssumption DEF Jobs, Amount
  <2>5. Player(r) \in Players
    BY <2>1 DEF LockInv
  <2> QED BY <2>1, <2>3, <2>4, <2>5 DEF TypeOK
<1> DEFINE Moved(shares, cash) ==
        /\ Flush(r, shares, cash)
        /\ job[r].kind = "buy" =>
              cash = -Amount(r) /\ shares \in ShareOutcomes \ {0}
        /\ job[r].kind = "sell" =>
              /\ shares = -Amount(r) /\ cash \in RefundOutcomes
              /\ q[Player(r)][Dir(r)] + shares >= -Dust
<1>2. PICK shares \in Int, cash \in Int : Moved(shares, cash)
  <2>1. CASE FlushBuy(r)
    <3>1. PICK n \in ShareOutcomes \ {0} : Flush(r, n, -Amount(r))
      BY <2>1 DEF FlushBuy
    <3>2. n \in Int /\ -Amount(r) \in Int /\ job[r].kind = "buy"
      BY <1>1, <2>1, AmountsAssumption DEF FlushBuy
    <3> QED BY <3>1, <3>2
  <2>2. CASE FlushSell(r)
    <3>1. PICK refund \in RefundOutcomes : Flush(r, -Amount(r), refund)
      BY <2>2 DEF FlushSell
    <3>2. refund \in Int /\ -Amount(r) \in Int /\ job[r].kind = "sell"
      BY <1>1, <2>2, AmountsAssumption DEF FlushSell
    <3>3. q[Player(r)][Dir(r)] + (-Amount(r)) >= -Dust
      BY <1>1, <2>2, ColumnsAssumption DEF FlushSell, BelowDust
    <3> QED BY <3>1, <3>2, <3>3
  <2> QED BY <2>1, <2>2
<1> DEFINE P == seen[r].points
           O == seen[r].owned
           Q == q[Player(r)][Dir(r)]
<1>3. /\ P \in Nat /\ O \in Nat /\ Q \in Int
      /\ P = points[User(r)] /\ O = owned[User(r)][Player(r)][Dir(r)]
      /\ Q >= -Dust
      /\ Amount(r) <= IF job[r].kind = "buy" THEN P ELSE O
  BY <1>1 DEF TypeOK, SeenInv, InFlight, Means, DustBufferHolds
<1>4. P + cash \in Nat /\ O + shares \in Nat /\ Q + shares >= -Dust
  BY <1>1, <1>2, <1>3, AmountsAssumption, ColumnsAssumption
<1>5. Stored(P + cash) \in Nat
  BY <1>4, StoredIsClose
<1>6. /\ pc' = [pc EXCEPT ![r] = "flushed"]
      /\ mLock' = [mLock EXCEPT ![Player(r)] = r]
      /\ writes' = [writes EXCEPT ![r] =
            [points |-> Stored(P + cash), owned |-> O + shares,
             q |-> Q + shares, shares |-> shares, cash |-> cash]]
      /\ UNCHANGED <<tables, active, job, seen, pLock, workers>>
  BY <1>2 DEF Flush
<1>7. \A s \in Requests : s # r => pc'[s] = pc[s] /\ writes'[s] = writes[s]
  BY <1>6 DEF TypeOK
<1> HIDE DEF P, O, Q
<1>8. TypeOK'
  BY <1>1, <1>2, <1>3, <1>4, <1>5, <1>6 DEF TypeOK, InFlight
<1>9. LockInv'
  BY <1>1, <1>6, TxnAssumption DEF TypeOK, LockInv, InFlight, User, Player
<1>10. SeenInv'
  BY <1>1, <1>6 DEF TypeOK, SeenInv, InFlight, User, Player, Dir, Amount, Means
<1>11. WritesInv'
  <2>1. ASSUME NEW s \in Requests, s # r, pc'[s] = "flushed"
        PROVE  pc[s] = "flushed" /\ writes'[s] = writes[s]
    BY <2>1, <1>7
  <2>2. pc'[r] = "flushed" /\ writes'[r] =
            [points |-> Stored(P + cash), owned |-> O + shares,
             q |-> Q + shares, shares |-> shares, cash |-> cash]
    BY <1>6 DEF TypeOK
  <2>3. /\ writes'[r].points = Stored(points[User(r)] + writes'[r].cash)
        /\ writes'[r].owned =
              owned[User(r)][Player(r)][Dir(r)] + writes'[r].shares
        /\ writes'[r].q = q[Player(r)][Dir(r)] + writes'[r].shares
        /\ writes'[r].q >= -Dust
    BY <2>2, <1>3, <1>4 DEF Q
  <2>4. \A s \in Requests :
           UNCHANGED <<User(s), Player(s), Dir(s), Amount(s), points, owned, q, job>>
    BY <1>6 DEF User, Player, Dir, Amount
  <2>5. writes'[r].shares = shares /\ writes'[r].cash = cash
    BY <2>2
  <2> QED BY <2>1, <2>3, <2>4, <2>5, <1>2 DEF WritesInv
<1>12. RecalInv'
  BY <1>1, <1>6, TxnAssumption DEF TypeOK, RecalInv, ScaledQ
<1>13. QuietInv'
  BY <1>1, <1>6, <1>7, TxnAssumption DEF TypeOK, QuietInv, NoTradeRuns, InFlight
<1>14. LedgerMatchesPositions' /\ BalanceFollowsLedger' /\ DustBufferHolds'
  BY <1>6 DEF LedgerMatchesPositions, BalanceFollowsLedger, DustBufferHolds
<1> QED BY <1>8, <1>9, <1>10, <1>11, <1>12, <1>13, <1>14

\* A commit moves the rows its locks protect, which no other open request has
\* read, and writes the ledger row that explains the move.
LEMMA CommitKeepsIInv ==
    ASSUME IInv, NEW r \in Requests, Commit(r)
    PROVE  IInv'
<1> USE DEF IInv, tables, workers
<1> DEFINE u == User(r)
           p == Player(r)
           d == Dir(r)
           w == writes[r]
<1>1. /\ pc[r] = "flushed"
      /\ u \in Users /\ p \in Players /\ d \in Dirs
      /\ pLock[u] = r /\ mLock[p] = r
  BY DEF Commit, TypeOK, LockInv, InFlight, Jobs, User, Player, Dir
<1>2. /\ w.points \in Nat /\ w.owned \in Nat /\ w.q \in Int
      /\ w.shares \in Int /\ w.cash \in Int /\ w.q >= -Dust
      /\ w.points = Stored(points[u] + w.cash)
      /\ w.owned = owned[u][p][d] + w.shares
  BY <1>1 DEF TypeOK, WritesInv
<1>3. /\ points' = [points EXCEPT ![u] = w.points]
      /\ owned' = [owned EXCEPT ![u][p][d] = w.owned]
      /\ q' = [q EXCEPT ![p][d] = w.q]
      /\ ledgerShares' = [ledgerShares EXCEPT ![u][p][d] = @ + w.shares]
      /\ ledgerCash' = [ledgerCash EXCEPT ![u] = @ + w.cash]
      /\ ledgerRows' = [ledgerRows EXCEPT ![u] = @ + 1]
      /\ pc' = [pc EXCEPT ![r] = "committed"]
      /\ pLock' = [v \in Users |-> IF pLock[v] = r THEN NoTxn ELSE pLock[v]]
      /\ mLock' = [o \in Players |-> IF mLock[o] = r THEN NoTxn ELSE mLock[o]]
      /\ seen' = [seen EXCEPT ![r] = NothingSeen]
      /\ writes' = [writes EXCEPT ![r] = NoWrites]
      /\ UNCHANGED <<job, bMin, active, workers>>
  BY DEF Commit, ReleaseTo
<1> HIDE DEF u, p, d, w
<1>4. \A s \in Requests : pc'[s] \in InFlight =>
        /\ s # r /\ pc'[s] = pc[s] /\ seen'[s] = seen[s] /\ writes'[s] = writes[s]
        /\ User(s) \in Users /\ User(s) # u
        /\ pc[s] = "flushed" => Player(s) # p
  <2> TAKE s \in Requests
  <2> HAVE pc'[s] \in InFlight
  <2>1. s # r /\ pc'[s] = pc[s] /\ seen'[s] = seen[s] /\ writes'[s] = writes[s]
    BY <1>3 DEF TypeOK, InFlight
  <2>2. User(s) \in Users /\ User(s) # u
    BY <2>1, <1>1 DEF TypeOK, Jobs, LockInv, User
  <2>3. pc[s] = "flushed" => Player(s) # p
    BY <2>1, <1>1 DEF LockInv
  <2> QED BY <2>1, <2>2, <2>3
<1>5. TypeOK'
  <2>1. /\ points' \in [Users -> Nat] /\ bMin' \in [Players -> Bs]
        /\ active' \in [Players -> BOOLEAN] /\ job' \in [Requests -> Jobs]
        /\ ledgerCash' \in [Users -> Int] /\ ledgerRows' \in [Users -> Nat]
    BY <1>1, <1>2, <1>3 DEF TypeOK
  <2>2. owned' \in [Users -> [Players -> [Dirs -> Nat]]]
    BY <1>1, <1>2, <1>3 DEF TypeOK
  <2>3. q' \in [Players -> [Dirs -> Int]]
    BY <1>1, <1>2, <1>3 DEF TypeOK
  <2>4. ledgerShares' \in [Users -> [Players -> [Dirs -> Int]]]
    BY <1>1, <1>2, <1>3 DEF TypeOK
  <2>5. /\ pc' \in [Requests -> {"arrived"} \cup InFlight \cup Answered]
        /\ seen' \in [Requests -> [points : Nat, owned : Nat]]
        /\ writes' \in [Requests -> [points : Nat, owned : Nat, q : Int,
                                     shares : Int, cash : Int]]
    BY <1>3 DEF TypeOK, Answered, NothingSeen, NoWrites
  <2>6. /\ pLock' \in [Users -> Requests \cup {NoTxn}]
        /\ mLock' \in [Players -> Requests \cup Workers \cup {NoTxn}]
    BY <1>3 DEF TypeOK
  <2> QED BY <2>1, <2>2, <2>3, <2>4, <2>5, <2>6, <1>3 DEF TypeOK
<1>6. LockInv'
  <2> SUFFICES ASSUME NEW s \in Requests, pc'[s] \in InFlight
               PROVE  /\ pLock'[User(s)] = s
                      /\ pc[s] = "flushed" => mLock'[Player(s)] = s
                      /\ pc[s] \in {"admitted", "flushed"} => Player(s) \in Players
    BY <1>3, <1>4 DEF LockInv, InFlight, User, Player
  <2> QED BY <1>3, <1>4 DEF TypeOK, LockInv
<1>7. SeenInv'
  <2> SUFFICES ASSUME NEW s \in Requests, pc'[s] \in InFlight
               PROVE  /\ points'[User(s)] = points[User(s)]
                      /\ owned'[User(s)] = owned[User(s)]
    BY <1>3, <1>4 DEF SeenInv, InFlight, User, Player, Dir, Amount, Means
  <2> QED BY <1>3, <1>4 DEF TypeOK
<1>8. WritesInv'
  <2> SUFFICES ASSUME NEW s \in Requests, pc'[s] = "flushed"
               PROVE  /\ points'[User(s)] = points[User(s)]
                      /\ owned'[User(s)] = owned[User(s)]
                      /\ q'[Player(s)] = q[Player(s)]
    BY <1>3, <1>4 DEF WritesInv, InFlight, User, Player, Dir, Amount
  <2> QED BY <1>3, <1>4 DEF TypeOK, LockInv, InFlight
<1>9. RecalInv'
  BY <1>3, TxnAssumption DEF TypeOK, RecalInv, ScaledQ
<1>10. QuietInv'
  BY <1>1, <1>3 DEF TypeOK, QuietInv, NoTradeRuns, InFlight
<1>11. LedgerMatchesPositions'
  BY <1>1, <1>2, <1>3 DEF TypeOK, LedgerMatchesPositions
<1>12. BalanceFollowsLedger'
  <2> SUFFICES ASSUME NEW v \in Users
               PROVE  /\ points'[v] - (StartPoints + ledgerCash'[v])
                            <= ledgerRows'[v] * (Step \div 2)
                      /\ -(ledgerRows'[v] * (Step \div 2))
                            <= points'[v] - (StartPoints + ledgerCash'[v])
    BY DEF BalanceFollowsLedger
  <2>1. /\ points[v] - (StartPoints + ledgerCash[v])
              <= ledgerRows[v] * (Step \div 2)
        /\ -(ledgerRows[v] * (Step \div 2))
              <= points[v] - (StartPoints + ledgerCash[v])
    BY DEF BalanceFollowsLedger
  <2>2. CASE v # u
    BY <2>1, <2>2, <1>1, <1>3 DEF TypeOK
  <2>3. CASE v = u
    <3> DEFINE half == Step \div 2
    <3>1. /\ points[v] \in Nat /\ ledgerCash[v] \in Int /\ ledgerRows[v] \in Nat
          /\ StartPoints \in Nat /\ half \in Int
      BY ColumnsAssumption DEF TypeOK
    <3>2. /\ points'[v] = Stored(points[v] + w.cash)
          /\ ledgerCash'[v] = ledgerCash[v] + w.cash
          /\ ledgerRows'[v] = ledgerRows[v] + 1
      BY <2>3, <1>1, <1>2, <1>3 DEF TypeOK
    <3>3. /\ points'[v] \in Int
          /\ points'[v] - (points[v] + w.cash) <= half
          /\ (points[v] + w.cash) - points'[v] <= half
      BY <3>1, <3>2, <1>2, StoredIsClose
    <3>4. /\ ledgerRows'[v] * half = ledgerRows[v] * half + half
          /\ ledgerRows[v] * half \in Int
      BY <3>1, <3>2
    <3> HIDE DEF half
    <3>5. /\ points[v] - (StartPoints + ledgerCash[v]) <= ledgerRows[v] * half
          /\ -(ledgerRows[v] * half) <= points[v] - (StartPoints + ledgerCash[v])
      BY <2>1 DEF half
    <3>6. /\ points'[v] - (StartPoints + ledgerCash'[v]) <= ledgerRows'[v] * half
          /\ -(ledgerRows'[v] * half) <= points'[v] - (StartPoints + ledgerCash'[v])
      BY <3>1, <3>2, <3>3, <3>4, <3>5, <1>2
    <3> QED BY <3>6 DEF half
  <2> QED BY <2>2, <2>3
<1>13. DustBufferHolds'
  BY <1>1, <1>2, <1>3 DEF TypeOK, DustBufferHolds
<1> QED BY <1>5, <1>6, <1>7, <1>8, <1>9, <1>10, <1>11, <1>12, <1>13

\* Opening or closing a player to buys touches none of the rows above.
LEMMA SetActiveKeepsIInv ==
    ASSUME IInv, NEW p \in Players, SetActive(p)
    PROVE  IInv'
<1> USE DEF IInv, SetActive, tables, requests, workers
<1>1. TypeOK'
  BY DEF TypeOK
<1>2. LockInv' /\ SeenInv' /\ WritesInv'
  BY DEF LockInv, SeenInv, WritesInv, Means, User, Player, Dir, Amount
<1>3. RecalInv' /\ QuietInv'
  BY DEF RecalInv, QuietInv, ScaledQ, NoTradeRuns
<1>4. LedgerMatchesPositions' /\ BalanceFollowsLedger' /\ DustBufferHolds'
  BY DEF LedgerMatchesPositions, BalanceFollowsLedger, DustBufferHolds
<1> QED BY <1>1, <1>2, <1>3, <1>4

----------------------------------------------------------------------------
(* Recalibration runs *)

\* The snapshot is the committed rows; the markets to update are those of them
\* below the target.
LEMMA RecalReadKeepsIInv ==
    ASSUME IInv, NEW w \in Workers, RecalRead(w)
    PROVE  IInv'
<1> USE DEF IInv, RecalRead, tables, requests
<1>1. PICK t \in Targets :
        /\ wTarget' = [wTarget EXCEPT ![w] = t]
        /\ wTodo' = [wTodo EXCEPT ![w] = BelowTarget(t)]
        /\ wpc' = [wpc EXCEPT ![w] = IF BelowTarget(t) = {} THEN "done"
                                    ELSE "updating"]
  OBVIOUS
<1>2. t \in Nat
  BY ColumnsAssumption
<1>3. TypeOK'
  BY <1>1, <1>2 DEF TypeOK, BelowTarget
<1>4. LockInv' /\ SeenInv' /\ WritesInv'
  BY DEF LockInv, SeenInv, WritesInv, Means, User, Player, Dir, Amount
<1>5. \A p \in Players : mLock[p] # w
  BY DEF RecalInv
<1>6. RecalInv'
  BY <1>1, <1>5 DEF TypeOK, RecalInv, ScaledQ, BelowTarget
<1>7. QuietInv'
  <2> SUFFICES ASSUME QuietRecalibration, NEW v \in Workers, wpc'[v] = "updating"
               PROVE  /\ NoTradeRuns'
                      /\ \A o \in Workers : wpc'[o] = "updating" => o = v
                      /\ wSeen'[v].q = q' /\ wSeen'[v].b = bMin'
                      /\ wTarget'[v] \in Targets
                      /\ \A p \in Players :
                            bMin'[p] < wTarget'[v]
                              <=> mLock'[p] = v \/ p \in wTodo'[v]
    BY DEF QuietInv
  <2>1. NoTradeRuns' /\ v = w
    BY <1>1 DEF NoTradeRuns, NoWorkerRuns, TypeOK
  <2>2. \A o \in Workers : wpc'[o] = "updating" => o = v
    BY <1>1, <2>1 DEF NoWorkerRuns, TypeOK
  <2>3. wSeen'[v].q = q' /\ wSeen'[v].b = bMin' /\ wTarget'[v] = t
    BY <1>1, <2>1 DEF TypeOK
  <2>4. wTodo'[v] = BelowTarget(t)
    BY <1>1, <2>1 DEF TypeOK
  <2> QED BY <2>1, <2>2, <2>3, <2>4, <1>5 DEF BelowTarget
<1>8. LedgerMatchesPositions' /\ BalanceFollowsLedger' /\ DustBufferHolds'
  BY DEF LedgerMatchesPositions, BalanceFollowsLedger, DustBufferHolds
<1> QED BY <1>3, <1>4, <1>6, <1>7, <1>8

\* An UPDATE takes the row lock of a market still to do.
LEMMA RecalUpdateKeepsIInv ==
    ASSUME IInv, NEW w \in Workers, RecalUpdate(w)
    PROVE  IInv'
<1> USE DEF IInv, tables, requests
<1>1. PICK m \in Players :
        /\ wpc[w] = "updating" /\ m \in wTodo[w] /\ mLock[m] = NoTxn
        /\ \A d \in Dirs : ScaledQ(w, m, d) >= -Dust
        /\ mLock' = [mLock EXCEPT ![m] = w]
        /\ wTodo' = [wTodo EXCEPT ![w] = @ \ {m}]
  BY DEF RecalUpdate, UpdateReaches
<1>2. UNCHANGED <<tables, active, requests, wpc, wTarget, wSeen>>
  BY DEF RecalUpdate
<1>3. TypeOK'
  BY <1>1, <1>2 DEF TypeOK
<1>4. LockInv'
  BY <1>1, <1>2, TxnAssumption DEF TypeOK, LockInv, User, Player
<1>5. SeenInv' /\ WritesInv'
  BY <1>1, <1>2 DEF SeenInv, WritesInv, Means, User, Player, Dir, Amount
<1>6. RecalInv'
  BY <1>1, <1>2, TxnAssumption DEF TypeOK, RecalInv, ScaledQ
<1>7. QuietInv'
  BY <1>1, <1>2, TxnAssumption DEF TypeOK, QuietInv, NoTradeRuns
<1>8. LedgerMatchesPositions' /\ BalanceFollowsLedger' /\ DustBufferHolds'
  BY <1>2 DEF LedgerMatchesPositions, BalanceFollowsLedger, DustBufferHolds
<1> QED BY <1>3, <1>4, <1>5, <1>6, <1>7, <1>8

\* A run that fails or crashes rolls back and drops only its own locks.
LEMMA RecalRollbackKeepsIInv ==
    ASSUME IInv, NEW w \in Workers, RecalCheckFails(w) \/ RecalCrash(w)
    PROVE  IInv'
<1> USE DEF IInv, tables, requests
<1>1. WorkerEnds(w, "failed") /\ UNCHANGED tables /\ wpc[w] = "updating"
  BY DEF RecalCheckFails, RecalCrash, UpdateReaches
<1>2. LedgerMatchesPositions' /\ BalanceFollowsLedger' /\ DustBufferHolds'
  <2>1. UNCHANGED tables
    BY <1>1
  <2> QED BY <2>1 DEF LedgerMatchesPositions, BalanceFollowsLedger, DustBufferHolds
<1> USE DEF WorkerEnds
<1>3. TypeOK'
  BY <1>1 DEF TypeOK
<1>4. LockInv'
  BY <1>1, TxnAssumption DEF TypeOK, LockInv, User, Player, InFlight
<1>5. SeenInv' /\ WritesInv'
  BY <1>1 DEF SeenInv, WritesInv, Means, User, Player, Dir, Amount
<1>6. RecalInv'
  BY <1>1, TxnAssumption DEF TypeOK, RecalInv, ScaledQ
<1>7. QuietInv'
  BY <1>1 DEF TypeOK, QuietInv, NoTradeRuns
<1> QED BY <1>2, <1>3, <1>4, <1>5, <1>6, <1>7

\* The commit of a run moves only markets it holds locked, so never one whose
\* row an open trade has read.
LEMMA RecalCommitKeepsIInv ==
    ASSUME IInv, NEW w \in Workers, RecalCommit(w)
    PROVE  IInv'
<1> USE DEF IInv, requests
<1>1. WorkerEnds(w, "done") /\ wpc[w] = "updating"
      /\ UNCHANGED <<points, owned, ledgerShares, ledgerCash, ledgerRows>>
  BY DEF RecalCommit
<1>2. \A p \in Players, d \in Dirs : ScaledQ(w, p, d) \in Int
  <2> TAKE p \in Players, d \in Dirs
  <2>1. /\ wSeen[w].q[p][d] \in Int /\ wSeen[w].b[p] \in Nat \ {0}
        /\ wTarget[w] \in Int
    <3>1. wSeen[w].q[p][d] \in Int /\ wSeen[w].b[p] \in Bs /\ wTarget[w] \in Int
      BY DEF TypeOK
    <3> QED BY <3>1, UnitsArePositive
  <2> QED BY <2>1, RescaledIsInt DEF ScaledQ
<1>3. /\ q' = [p \in Players |-> [d \in Dirs |->
                 IF mLock[p] = w /\ ScaledQ(w, p, d) # wSeen[w].q[p][d]
                 THEN ScaledQ(w, p, d) ELSE q[p][d]]]
      /\ bMin' = [p \in Players |-> IF mLock[p] = w THEN StoredB(wTarget[w]) ELSE bMin[p]]
  BY DEF RecalCommit
<1> USE DEF WorkerEnds
<1>4. TypeOK'
  <2>1. q' \in [Players -> [Dirs -> Int]]
    BY <1>2, <1>3 DEF TypeOK
  <2>2. bMin' \in [Players -> Bs]
    <3>1. ASSUME NEW p \in Players, mLock[p] = w PROVE StoredB(wTarget[w]) \in Bs
      <4>1. wSeen[w].b[p] \in Bs /\ wTarget[w] \in Int /\ wSeen[w].b[p] < wTarget[w]
        BY <1>1, <3>1 DEF TypeOK, RecalInv
      <4>2. wTarget[w] >= BStep
        BY <4>1, ColumnsAssumption DEF Bs
      <4> QED BY <4>1, <4>2, StoredBIsUnit
    <3> QED BY <1>3, <3>1 DEF TypeOK
  <2> QED BY <2>1, <2>2, <1>1 DEF TypeOK
<1>5. LockInv'
  BY <1>1, TxnAssumption DEF TypeOK, LockInv, User, Player, InFlight
<1>6. SeenInv'
  BY <1>1 DEF SeenInv, Means, User, Player, Dir, Amount
<1>7. WritesInv'
  <2> SUFFICES ASSUME NEW r \in Requests, pc[r] = "flushed"
               PROVE  q'[Player(r)][Dir(r)] = q[Player(r)][Dir(r)]
    BY <1>1 DEF WritesInv, User, Player, Dir, Amount
  <2>1. Player(r) \in Players /\ Dir(r) \in Dirs /\ mLock[Player(r)] # w
    BY TxnAssumption DEF TypeOK, LockInv, Jobs, Dir, Player
  <2> QED BY <2>1, <1>3
<1>8. RecalInv'
  BY <1>1, TxnAssumption DEF TypeOK, RecalInv, ScaledQ
<1>9. QuietInv'
  BY <1>1 DEF TypeOK, QuietInv
<1>10. LedgerMatchesPositions' /\ BalanceFollowsLedger'
  BY <1>1 DEF LedgerMatchesPositions, BalanceFollowsLedger
<1>11. DustBufferHolds'
  BY <1>3 DEF DustBufferHolds, RecalInv
<1> QED BY <1>4, <1>5, <1>6, <1>7, <1>8, <1>9, <1>10, <1>11

----------------------------------------------------------------------------
(* The theorems *)

\* Nothing changes.
LEMMA StutterKeepsIInv == ASSUME IInv, UNCHANGED vars PROVE IInv'
<1> USE DEF IInv, vars, tables, requests, workers
<1>1. TypeOK'
  BY DEF TypeOK
<1>2. LockInv' /\ SeenInv' /\ WritesInv'
  BY DEF LockInv, SeenInv, WritesInv, Means, User, Player, Dir, Amount
<1>3. RecalInv' /\ QuietInv'
  BY DEF RecalInv, QuietInv, ScaledQ, NoTradeRuns
<1>4. LedgerMatchesPositions' /\ BalanceFollowsLedger' /\ DustBufferHolds'
  BY DEF LedgerMatchesPositions, BalanceFollowsLedger, DustBufferHolds
<1> QED BY <1>1, <1>2, <1>3, <1>4

\* Every step of any request or run keeps the inductive invariant.
LEMMA NextKeepsIInv == IInv /\ [Next]_vars => IInv'
<1> SUFFICES ASSUME IInv, [Next]_vars PROVE IInv'
  OBVIOUS
<1>1. ASSUME NEW r \in Requests, RequestStep(r) PROVE IInv'
  <2>1. CASE LockPortfolio(r)
    BY <2>1, LockPortfolioKeepsIInv
  <2>2. CASE AdmitBuy(r) \/ AdmitSell(r)
    BY <2>2, AdmitKeepsIInv
  <2>3. CASE FlushBuy(r) \/ FlushSell(r)
    BY <2>3, FlushKeepsIInv
  <2>4. CASE RefuseBuy(r) \/ RefuseSell(r) \/ RefuseZeroShares(r) \/ RefuseDust(r)
    <3>1. PICK outcome \in Refused : ReleaseTo(r, outcome)
      BY <2>4 DEF RefuseBuy, RefuseSell, RefuseZeroShares, RefuseDust, Refused
    <3>2. outcome \in Answered /\ UNCHANGED <<tables, active, workers>>
      BY <2>4 DEF RefuseBuy, RefuseSell, RefuseZeroShares, RefuseDust, Answered
    <3> QED BY <3>1, <3>2, ReleaseKeepsIInv
  <2>5. CASE Commit(r)
    BY <2>5, CommitKeepsIInv
  <2> QED BY <1>1, <2>1, <2>2, <2>3, <2>4, <2>5 DEF RequestStep
<1>2. ASSUME NEW r \in Requests, Abort(r) PROVE IInv'
  <2>1. ReleaseTo(r, "aborted") /\ UNCHANGED <<tables, active, workers>>
    BY <1>2 DEF Abort
  <2>2. "aborted" \in Answered
    BY DEF Answered
  <2> QED BY <2>1, <2>2, ReleaseKeepsIInv
<1>3. ASSUME NEW w \in Workers, WorkerStep(w) \/ RecalCrash(w) PROVE IInv'
  BY <1>3, RecalReadKeepsIInv, RecalUpdateKeepsIInv, RecalRollbackKeepsIInv,
     RecalCommitKeepsIInv DEF WorkerStep
<1>4. ASSUME NEW p \in Players \cap Catalog, SetActive(p) PROVE IInv'
  BY <1>4, SetActiveKeepsIInv
<1>5. CASE UNCHANGED vars
  BY <1>5, StutterKeepsIInv
<1> QED BY <1>1, <1>2, <1>3, <1>4, <1>5 DEF Next

\* The inductive invariant holds in every reachable state.
THEOREM InductiveInvariant == Spec => []IInv
<1>1. Init => IInv
  BY InitIInv
<1>2. IInv /\ [Next]_vars => IInv'
  BY NextKeepsIInv
<1> QED BY <1>1, <1>2, PTL DEF Spec

\* Every row and every request keeps its type: in particular no balance and no
\* position is ever negative (INV-02, INV-03).
THEOREM TypeCorrect == Spec => []TypeOK
<1>1. IInv => TypeOK
  BY DEF IInv
<1> QED BY <1>1, InductiveInvariant, PTL

\* No interleaving loses or duplicates a position update.
THEOREM LedgerCorrect == Spec => []LedgerMatchesPositions
<1>1. IInv => LedgerMatchesPositions
  BY DEF IInv
<1> QED BY <1>1, InductiveInvariant, PTL

\* No interleaving loses or duplicates a balance update; what separates the
\* balance from the ledger is rounding alone.
THEOREM BalanceCorrect == Spec => []BalanceFollowsLedger
<1>1. IInv => BalanceFollowsLedger
  BY DEF IInv
<1> QED BY <1>1, InductiveInvariant, PTL

\* INV-06 survives even a recalibration that overwrites trades.
THEOREM DustCorrect == Spec => []DustBufferHolds
<1>1. IInv => DustBufferHolds
  BY DEF IInv
<1> QED BY <1>1, InductiveInvariant, PTL

----------------------------------------------------------------------------
(* The engine implements AtomicMarket while recalibration is kept apart *)

\* A commit is one atomic buy or sell of the committed rows.
LEMMA CommitIsTrade ==
    ASSUME IInv, NEW r \in Requests, Commit(r)
    PROVE  Atomic!Next
<1> USE DEF IInv
<1> DEFINE u == User(r)
           p == Player(r)
           d == Dir(r)
           w == writes[r]
<1>1. /\ pc[r] = "flushed"
      /\ u \in Users /\ p \in Players /\ d \in Dirs
  BY DEF Commit, TypeOK, LockInv, InFlight, Jobs, User, Player, Dir
<1>2. /\ w.points = Stored(points[u] + w.cash)
      /\ w.owned = owned[u][p][d] + w.shares
      /\ w.q = q[p][d] + w.shares /\ w.q >= -Dust
  BY <1>1 DEF WritesInv
<1>3. Atomic!Trade(u, p, d, w.shares, w.cash)
  BY <1>1, <1>2 DEF Commit, Atomic!Trade, TypeOK
<1>4. CASE job[r].kind = "buy"
  <2>1. /\ w.cash = -Amount(r) /\ w.shares \in ShareOutcomes \ {0}
        /\ Amount(r) \in Budgets /\ Amount(r) <= points[u]
    BY <1>1, <1>4 DEF WritesInv, SeenInv, Means, TypeOK, Jobs, Amount
  <2>2. Atomic!Buy(u, p, d)
    BY <1>3, <2>1 DEF Atomic!Buy
  <2> QED BY <2>2, <1>1 DEF Atomic!Next
<1>5. CASE job[r].kind = "sell"
  <2>1. /\ w.shares = -Amount(r) /\ w.cash \in RefundOutcomes
        /\ Amount(r) \in SellSizes /\ Amount(r) <= owned[u][p][d]
    BY <1>1, <1>5 DEF WritesInv, SeenInv, Means, TypeOK, Jobs, Amount
  <2>2. q[p][d] - Amount(r) >= -Dust
    <3>1. Amount(r) \in Nat
      BY <2>1, AmountsAssumption
    <3>2. q[p][d] \in Int
      <4> HIDE DEF p, d
      <4> QED BY <1>1 DEF TypeOK
    <3> HIDE DEF p, d, w
    <3> QED BY <3>1, <3>2, <2>1, <1>2
  <2>3. Atomic!Sell(u, p, d)
    BY <1>3, <2>1, <2>2 DEF Atomic!Sell
  <2> QED BY <2>3, <1>1 DEF Atomic!Next
<1> QED BY <1>4, <1>5 DEF TypeOK, Jobs

\* With nothing committed since its snapshot, a run is one atomic recalibration.
LEMMA RecalCommitIsRecalibration ==
    ASSUME IInv, QuietRecalibration, NEW w \in Workers, RecalCommit(w)
    PROVE  Atomic!Next
<1> USE DEF IInv
<1>1. wpc[w] = "updating" /\ wTodo[w] = {}
  BY DEF RecalCommit
<1>2. /\ wSeen[w].q = q /\ wSeen[w].b = bMin /\ wTarget[w] \in Targets
      /\ \A p \in Players : bMin[p] < wTarget[w] <=> mLock[p] = w
  BY <1>1 DEF QuietInv
<1>3. \A p \in Players, d \in Dirs :
        ScaledQ(w, p, d) = Rescaled(q[p][d], bMin[p], wTarget[w])
  BY <1>2 DEF ScaledQ
<1>4. q' = [p \in Players |-> [d \in Dirs |->
              IF bMin[p] < wTarget[w]
              THEN Rescaled(q[p][d], bMin[p], wTarget[w]) ELSE q[p][d]]]
  BY <1>2, <1>3 DEF RecalCommit
<1>5. bMin' = [p \in Players |->
                  IF bMin[p] < wTarget[w] THEN StoredB(wTarget[w]) ELSE bMin[p]]
  BY <1>2 DEF RecalCommit
<1>6. Atomic!Recalibrate(wTarget[w])
  BY <1>4, <1>5 DEF Atomic!Recalibrate, RecalCommit
<1> QED BY <1>2, <1>6 DEF Atomic!Next

\* Every step of the engine is an atomic step of the market or none at all.
LEMMA StepIsAtomic ==
    IInv /\ QuietRecalibration /\ [Next]_vars => [Atomic!Next]_(Atomic!vars)
<1> SUFFICES ASSUME IInv, QuietRecalibration, [Next]_vars
             PROVE  Atomic!Next \/ UNCHANGED <<points, owned, q, bMin>>
  BY DEF Atomic!vars
<1>1. ASSUME NEW r \in Requests, Commit(r) PROVE Atomic!Next
  BY <1>1, CommitIsTrade
<1>2. ASSUME NEW r \in Requests, RequestStep(r) \/ Abort(r), ~Commit(r)
      PROVE  UNCHANGED <<points, owned, q, bMin>>
  BY <1>2 DEF RequestStep, Abort, LockPortfolio, AdmitBuy, RefuseBuy, AdmitSell,
              RefuseSell, FlushBuy, FlushSell, Flush, RefuseZeroShares,
              RefuseDust, tables
<1>3. ASSUME NEW w \in Workers, RecalCommit(w) PROVE Atomic!Next
  BY <1>3, RecalCommitIsRecalibration
<1>4. ASSUME NEW w \in Workers, WorkerStep(w) \/ RecalCrash(w), ~RecalCommit(w)
      PROVE  UNCHANGED <<points, owned, q, bMin>>
  BY <1>4 DEF WorkerStep, RecalRead, RecalUpdate, RecalCheckFails, RecalCrash,
              tables
<1>5. ASSUME NEW p \in Players \cap Catalog, SetActive(p)
      PROVE  UNCHANGED <<points, owned, q, bMin>>
  BY <1>5 DEF SetActive, tables
<1>6. CASE UNCHANGED vars
  BY <1>6 DEF vars, tables
<1> QED BY <1>1, <1>2, <1>3, <1>4, <1>5, <1>6 DEF Next

\* Locking portfolio and market rows is enough to make any number of concurrent
\* trades serial; only recalibration, which reads without locking, has to be
\* kept apart.
THEOREM TradesSerializable ==
    ASSUME QuietRecalibration
    PROVE  Spec => TradesAreAtomic
<1>1. Init => Atomic!Init
  BY DEF Init, Atomic!Init
<1>2. IInv /\ [Next]_vars => [Atomic!Next]_(Atomic!vars)
  BY StepIsAtomic
<1> QED BY <1>1, <1>2, InductiveInvariant, PTL DEF Spec, TradesAreAtomic, Atomic!Spec

----------------------------------------------------------------------------
(* The market covers what it has sold *)

\* A trade moves one term of the sum of positions, and q, by the same amount.
LEMMA TradeKeepsCover ==
    ASSUME TypeOK, MarketCoversPositions,
           NEW u \in Users, NEW p \in Players, NEW d \in Dirs,
           NEW s \in Int, NEW c \in Int, Atomic!Trade(u, p, d, s, c)
    PROVE  MarketCoversPositions'
<1> SUFFICES ASSUME NEW m \in Players, NEW e \in Dirs
             PROVE  q'[m][e] >= SumFunctionOnSet(Holding(m, e)', Users)
  BY DEF MarketCoversPositions
<1>1. /\ owned' = [owned EXCEPT ![u][p][d] = @ + s]
      /\ q' = [q EXCEPT ![p][d] = @ + s]
  BY DEF Atomic!Trade
<1>2. /\ \A v \in Users : owned[v][m][e] \in Int
      /\ q[m][e] \in Int
  BY DEF TypeOK
<1>3. SumFunctionOnSet(Holding(m, e), Users) \in Int
  BY <1>2, SumInt, UsersAssumption DEF Holding
<1>4. q[m][e] >= SumFunctionOnSet(Holding(m, e), Users)
  BY DEF MarketCoversPositions
<1>5. CASE m = p /\ e = d
  <2>1. /\ owned'[u][m][e] = owned[u][m][e] + s
        /\ \A v \in Users \ {u} : owned'[v][m][e] = owned[v][m][e]
        /\ q'[m][e] = q[m][e] + s
    BY <1>1, <1>5 DEF TypeOK
  <2>2. SumFunctionOnSet(Holding(m, e)', Users)
          = SumFunctionOnSet(Holding(m, e), Users) - owned[u][m][e] + owned'[u][m][e]
    <3> DEFINE f == Holding(m, e)
               g == Holding(m, e)'
    <3>1. /\ \A v \in Users : f[v] \in Int /\ g[v] \in Int
          /\ \A v \in Users \ {u} : g[v] = f[v]
          /\ f[u] = owned[u][m][e] /\ g[u] = owned'[u][m][e]
      BY <1>2, <2>1 DEF Holding
    <3> HIDE DEF f, g
    <3>2. SumFunctionOnSet(g, Users) = SumFunctionOnSet(f, Users) - f[u] + g[u]
      BY <3>1, SumChange, UsersAssumption
    <3> QED BY <3>1, <3>2 DEF f, g
  <2> QED BY <1>2, <1>3, <1>4, <2>1, <2>2
<1>6. CASE ~(m = p /\ e = d)
  <2>1. /\ \A v \in Users : owned'[v][m][e] = owned[v][m][e]
        /\ q'[m][e] = q[m][e]
    BY <1>1, <1>6 DEF TypeOK
  <2>2. Holding(m, e)' = Holding(m, e)
    BY <2>1 DEF Holding
  <2> QED BY <1>4, <2>1, <2>2
<1> QED BY <1>5, <1>6

\* A q that covers positions is not negative, so that scaling it up keeps it above them.
LEMMA RecalibrationKeepsCover ==
    ASSUME TypeOK, MarketCoversPositions, NEW t \in Targets, Atomic!Recalibrate(t)
    PROVE  MarketCoversPositions'
<1> SUFFICES ASSUME NEW m \in Players, NEW e \in Dirs
             PROVE  q'[m][e] >= SumFunctionOnSet(Holding(m, e)', Users)
  BY DEF MarketCoversPositions
<1>1. Holding(m, e)' = Holding(m, e)
  BY DEF Atomic!Recalibrate, Holding
<1>2. \A v \in Users : Holding(m, e)[v] \in Nat
  BY DEF TypeOK, Holding
<1>3. SumFunctionOnSet(Holding(m, e), Users) \in Nat
  BY <1>2, SumNat, UsersAssumption
<1>4. q[m][e] \in Int /\ q[m][e] >= SumFunctionOnSet(Holding(m, e), Users)
  BY DEF TypeOK, MarketCoversPositions
<1>5. q[m][e] \in Nat /\ bMin[m] \in Nat \ {0} /\ t \in Int
  <2>1. bMin[m] \in Bs /\ t \in Int
    BY ColumnsAssumption DEF TypeOK
  <2>2. q[m][e] \in Nat
    BY <1>3, <1>4
  <2> QED BY <2>1, <2>2, UnitsArePositive
<1>6. q'[m][e] = IF bMin[m] < t THEN Rescaled(q[m][e], bMin[m], t) ELSE q[m][e]
  BY DEF Atomic!Recalibrate
<1>7. q'[m][e] \in Int /\ q'[m][e] >= q[m][e]
  <2>1. CASE bMin[m] < t
    <3>1. /\ Rescaled(q[m][e], bMin[m], t) \in Int
          /\ Rescaled(q[m][e], bMin[m], t) >= q[m][e]
      <4>1. q[m][e] \in Nat /\ q[m][e] \in Int /\ bMin[m] \in Nat \ {0} /\ t \in Int /\ bMin[m] < t
        BY <1>5, <2>1
      <4> QED BY <4>1, RescaledGrows, RescaledIsInt
    <3> QED BY <1>6, <2>1, <3>1
  <2>2. CASE ~(bMin[m] < t)
    BY <1>5, <1>6, <2>2
  <2> QED BY <2>1, <2>2
<1> QED BY <1>1, <1>3, <1>4, <1>7

\* What one atomic step at a time keeps, the engine keeps.
LEMMA StepKeepsCover ==
    ASSUME TypeOK, MarketCoversPositions, [Atomic!Next]_(Atomic!vars)
    PROVE  MarketCoversPositions'
<1>1. ASSUME NEW u \in Users, NEW p \in Players, NEW d \in Dirs, Atomic!Buy(u, p, d)
      PROVE  MarketCoversPositions'
  <2>1. PICK b \in Budgets, s \in ShareOutcomes \ {0} : Atomic!Trade(u, p, d, s, -b)
    BY <1>1 DEF Atomic!Buy
  <2>2. b \in Int /\ s \in Int
    BY AmountsAssumption
  <2> QED BY <2>1, <2>2, TradeKeepsCover
<1>2. ASSUME NEW u \in Users, NEW p \in Players, NEW d \in Dirs, Atomic!Sell(u, p, d)
      PROVE  MarketCoversPositions'
  <2>1. PICK s \in SellSizes, c \in RefundOutcomes : Atomic!Trade(u, p, d, -s, c)
    BY <1>2 DEF Atomic!Sell
  <2>2. -s \in Int /\ c \in Int
    BY AmountsAssumption
  <2> QED BY <2>1, <2>2, TradeKeepsCover
<1>3. ASSUME NEW t \in Targets, Atomic!Recalibrate(t)
      PROVE  MarketCoversPositions'
  BY <1>3, RecalibrationKeepsCover
<1>4. CASE UNCHANGED Atomic!vars
  BY <1>4 DEF Atomic!vars, MarketCoversPositions, Holding
<1> QED BY <1>1, <1>2, <1>3, <1>4 DEF Atomic!Next

\* Nobody holds anything at first, and no market has sold anything.
LEMMA InitCovers == Init => MarketCoversPositions
<1> SUFFICES ASSUME Init, NEW p \in Players, NEW d \in Dirs
             PROVE  q[p][d] >= SumFunctionOnSet(Holding(p, d), Users)
  BY DEF MarketCoversPositions
<1>1. \A u \in Users : Holding(p, d)[u] = 0
  BY DEF Init, Holding
<1>2. SumFunctionOnSet(Holding(p, d), Users) = 0
  BY <1>1, SumZero, UsersAssumption
<1>3. q[p][d] \in Nat
  BY ColumnsAssumption DEF Init
<1> QED BY <1>2, <1>3

\* While recalibration is kept apart from trades, every market can buy back all the
\* shares its users hold, however many they are and whatever was traded and rescaled.
THEOREM MarketsCover ==
    ASSUME QuietRecalibration
    PROVE  Spec => []MarketCoversPositions
<1>1. Init => MarketCoversPositions
  BY InitCovers
<1>2. IInv /\ [Next]_vars => [Atomic!Next]_(Atomic!vars)
  BY StepIsAtomic
<1>3. IInv /\ MarketCoversPositions /\ [Next]_vars => MarketCoversPositions'
  BY <1>2, StepKeepsCover DEF IInv
<1> QED BY <1>1, <1>3, InductiveInvariant, PTL DEF Spec

\* A request answered with a dust error had shares to sell and a market that would not
\* take them.
LEMMA OnlyDustIsDust ==
    ASSUME IInv, MarketCoversPositions, SellAlwaysPermitted, [Next]_vars
    PROVE  SellAlwaysPermitted'
<1> USE DEF IInv
<1> SUFFICES ASSUME NEW r \in Requests, pc'[r] = "dust" PROVE FALSE
  BY DEF SellAlwaysPermitted
<1>1. pc[r] # "dust"
  BY DEF SellAlwaysPermitted
<1>2. RefuseDust(r)
  <2>1. pc' # pc
    BY <1>1
  <2>2. \A s \in Requests : RequestStep(s) \/ Abort(s) =>
          \A v \in Requests \ {s} : pc'[v] = pc[v]
    BY DEF RequestStep, Abort, LockPortfolio, AdmitBuy, RefuseBuy, AdmitSell,
           RefuseSell, FlushBuy, FlushSell, Flush, RefuseZeroShares, RefuseDust,
           Commit, ReleaseTo, TypeOK
  <2>3. RequestStep(r) \/ Abort(r)
    BY <1>1, <2>1, <2>2 DEF Next, WorkerStep, RecalRead, RecalUpdate, RecalCheckFails,
       RecalCommit, RecalCrash, WorkerEnds, SetActive, requests, vars
  <2> QED BY <2>3 DEF RequestStep, Abort, LockPortfolio, AdmitBuy, RefuseBuy, AdmitSell,
           RefuseSell, FlushBuy, FlushSell, Flush, RefuseZeroShares,
           Commit, ReleaseTo, TypeOK
<1> DEFINE u == User(r)
           p == Player(r)
           d == Dir(r)
<1>3. /\ pc[r] = "admitted" /\ job[r].kind = "sell" /\ BelowDust(r)
      /\ u \in Users /\ p \in Players /\ d \in Dirs
  BY <1>2 DEF RefuseDust, MarketReady, TypeOK, LockInv, Jobs, User, Player, Dir
<1>4. Amount(r) <= owned[u][p][d] /\ Amount(r) \in Nat
  BY <1>3, AmountsAssumption DEF SeenInv, Means, TypeOK, Jobs, Amount, InFlight
<1>5. owned[u][p][d] <= q[p][d]
  <2> HIDE DEF u, p, d
  <2>1. \A v \in Users : Holding(p, d)[v] \in Nat
    BY <1>3 DEF TypeOK, Holding
  <2>2. SumFunctionOnSet(Holding(p, d), Users) \in Nat
        /\ Holding(p, d)[u] <= SumFunctionOnSet(Holding(p, d), Users)
    BY <1>3, <2>1, SumNat, UsersAssumption
  <2>3. q[p][d] >= SumFunctionOnSet(Holding(p, d), Users) /\ q[p][d] \in Int
    BY <1>3 DEF MarketCoversPositions, TypeOK
  <2>4. Holding(p, d)[u] = owned[u][p][d] /\ owned[u][p][d] \in Nat
    BY <1>3 DEF Holding, TypeOK
  <2> QED BY <2>2, <2>3, <2>4
<1>6. q[p][d] - Amount(r) < -Dust /\ q[p][d] \in Int /\ owned[u][p][d] \in Int
  BY <1>3 DEF BelowDust, TypeOK
<1> HIDE DEF u, p, d
<1> QED BY <1>4, <1>5, <1>6, ColumnsAssumption

\* "Selling an inactive player's shares MUST always be allowed" (app/core/trading.py):
\* the dust guard never refuses an owner as long as no recalibration overlaps a trade.
\* With the overlap it does: trading_lost_buy.
THEOREM SellsNeverRefused ==
    ASSUME QuietRecalibration
    PROVE  Spec => []SellAlwaysPermitted
<1>1. Init => SellAlwaysPermitted
  BY DEF Init, SellAlwaysPermitted
<1>2. IInv /\ MarketCoversPositions /\ SellAlwaysPermitted /\ [Next]_vars
        => SellAlwaysPermitted'
  BY OnlyDustIsDust
<1> QED BY <1>1, <1>2, InductiveInvariant, MarketsCover, PTL DEF Spec
=============================================================================
