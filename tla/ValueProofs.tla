---------------------------- MODULE ValueProofs ----------------------------
(***************************************************************************)
(* Proofs about what positions are worth (Valuation) and what ratings say  *)
(* (OracleFormulas).                                                       *)
(***************************************************************************)
EXTENDS Valuation, OracleFormulas, Sums

(* What a read has seen *)

\* Types of the tables and of what is read.
ValuationTypeOK ==
    /\ cash \in [Users -> Int \cup {NoAccount}] /\ seenCash \in [Users -> Int \cup {NoAccount}]
    /\ shares \in [Users -> [Markets -> Nat]] /\ quantity \in [Markets -> Nat]
    /\ next \in {<<>>, <<"both">>, <<"positions", "markets">>, <<"markets">>,
                 <<"markets", "positions">>, <<"positions">>}
    /\ reading = "none" => next = <<>>

PositionsRead == next \in {<<>>, <<"markets">>}
MarketsRead   == next \in {<<>>, <<"positions">>}

\* The users a read knows who have not moved since it began.
Quiet == {u \in Users \ movers : seenCash[u] # NoAccount}

\* Until a read has everything, its history has the present, and of a user who has not
\* moved it knows what is still true.
SeenInv ==
    reading # "none" /\ next # <<>> =>
        /\ Worths \in instants
        /\ \A u \in Quiet : cash[u] = seenCash[u] /\ (PositionsRead => seenShares[u] = shares[u])

\* Once it has the markets, it has them as they were at a moment of the history; the
\* positions of a user who has not moved are those of that moment whenever they are read.
ValuedInv ==
    reading # "none" /\ MarketsRead =>
        \E then \in instants : \A u \in Quiet :
            then[u] = TotalValue(seenCash[u], IF PositionsRead THEN seenShares[u] ELSE shares[u],
                                 seenQuantity)

ValuationInv == ValuationTypeOK /\ SeenInv /\ ValuedInv

\* Nothing is read, nobody holds anything.
LEMMA InitValuationInv == ValuationInit => ValuationInv
BY ValuationAssumption
   DEF ValuationInit, ValuationInv, ValuationTypeOK, SeenInv, ValuedInv, NoShares, NoMarket, Unread

\* Where b_floor is no more than b_min, the floor never decides b: what is counted for a
\* position is what its sale pays.
LEMMA FloorNeverBinds ==
    ASSUME BFloor <= BMin, NEW n \in Nat, NEW s
    PROVE  PositionValue(n, s) = SaleRefund(n, s)
<1>1. effective_b(n, 0) = effective_b(n, BFloor)
  BY ValuationAssumption DEF effective_b
<1> QED BY <1>1 DEF PositionValue, SaleRefund

\* A valuation of what is true now is what everything would fetch now.
LEMMA ValuedNow ==
    ASSUME BFloor <= BMin, ValuationTypeOK, NEW u \in Users, cash[u] # NoAccount
    PROVE  TotalValue(cash[u], shares[u], quantity) = Worths[u]
<1>1. \A m \in Markets : PositionValue(quantity[m], shares[u][m]) = SaleRefund(quantity[m], shares[u][m])
  <2>1. \A m \in Markets : quantity[m] \in Nat
    BY DEF ValuationTypeOK
  <2> QED BY <2>1, FloorNeverBinds
<1>2. [m \in Markets |-> PositionValue(quantity[m], shares[u][m])]
        = [m \in Markets |-> SaleRefund(quantity[m], shares[u][m])]
  BY <1>1
<1>3. u \in Accounts
  BY DEF Accounts
<1> QED BY <1>2, <1>3 DEF TotalValue, Worths

----------------------------------------------------------------------------
(* Trades and deletions *)

\* Whatever u does to his own cash and positions and to the markets, a read keeps what it
\* knows of the others.
LEMMA MovesKeepSeen ==
    ASSUME ValuationInv, ValuationTypeOK', NEW u \in Users, Moves(u),
           \A w \in Users \ {u} : cash'[w] = cash[w] /\ shares'[w] = shares[w]
    PROVE  ValuationInv'
<1>1. UNCHANGED <<reading, next, seenCash, seenShares, seenQuantity>>
  BY DEF Moves, seen
<1>2. CASE next = <<>>
  <2>1. UNCHANGED <<movers, instants>>
    BY <1>2 DEF Moves
  <2>2. PositionsRead /\ PositionsRead' /\ (MarketsRead' <=> MarketsRead)
    BY <1>1, <1>2 DEF PositionsRead, MarketsRead
  <2>3. Quiet' = Quiet
    BY <1>1, <2>1 DEF Quiet
  <2>4. \A w \in Quiet : TotalValue(seenCash[w], IF PositionsRead' THEN seenShares'[w] ELSE shares'[w],
                                    seenQuantity)
                           = TotalValue(seenCash[w], IF PositionsRead THEN seenShares[w] ELSE shares[w],
                                        seenQuantity)
    BY <1>1, <2>2
  <2> QED BY <1>1, <1>2, <2>1, <2>2, <2>3, <2>4 DEF ValuationInv, SeenInv, ValuedInv
<1>3. CASE next # <<>>
  <2>1. movers' = movers \cup {u} /\ instants' = instants \cup {Worths'}
    BY <1>3 DEF Moves
  <2>2. Quiet' \subseteq Quiet /\ \A w \in Quiet' : w \in Users \ {u}
    BY <1>1, <2>1 DEF Quiet
  <2>3. SeenInv'
    BY <1>1, <1>3, <2>1, <2>2 DEF ValuationInv, SeenInv, PositionsRead
  <2>4. ValuedInv'
    <3> SUFFICES ASSUME reading # "none", MarketsRead
                 PROVE  \E then \in instants' : \A w \in Quiet' :
                           then[w] = TotalValue(seenCash[w],
                                                IF PositionsRead THEN seenShares[w] ELSE shares'[w],
                                                seenQuantity)
      BY <1>1 DEF ValuedInv, PositionsRead, MarketsRead
    <3>1. PICK then \in instants : \A w \in Quiet :
             then[w] = TotalValue(seenCash[w], IF PositionsRead THEN seenShares[w] ELSE shares[w],
                                  seenQuantity)
      BY DEF ValuationInv, ValuedInv
    <3>2. \A w \in Quiet' : w \in Quiet /\ shares'[w] = shares[w]
      BY <2>2
    <3>3. then \in instants'
      BY <2>1
    <3> QED BY <3>1, <3>2, <3>3
  <2> QED BY <2>3, <2>4 DEF ValuationInv
<1> QED BY <1>2, <1>3

\* A cost is a whole number.
LEMMA CostIsInt ==
    ASSUME NEW n \in Int, NEW b \in Nat \ {0}
    PROVE  lmsr_cost(n, b) \in Int
<1>1. 6 * n * n \in Int
  OBVIOUS
<1>2. \A k \in Int : k \div b \in Int
  OBVIOUS
<1>3. (6 * n * n) \div b \in Int
  BY <1>1, <1>2
<1> QED BY <1>3 DEF lmsr_cost

\* b is positive whatever the floor.
LEMMA BIsPositive ==
    ASSUME NEW n \in Nat
    PROVE  effective_b(n, BFloor) \in Nat \ {0}
BY ValuationAssumption DEF effective_b

\* A trade is a move of the trader.
LEMMA TradesKeepSeen ==
    ASSUME ValuationInv, NEW u \in Users, NEW m \in Markets, NEW s \in Nat,
           BuyShares(u, m, s) \/ SellShares(u, m, s)
    PROVE  ValuationInv'
<1>1. /\ u \in Accounts /\ cash[u] \in Int /\ shares[u][m] \in Nat /\ quantity[m] \in Nat
      /\ UNCHANGED <<reading, next, seenCash>> /\ Moves(u)
  BY DEF BuyShares, SellShares, Accounts, Moves, seen, ValuationInv, ValuationTypeOK
<1>2. \E v \in Int, k \in Nat, n \in Nat :
          /\ cash' = [cash EXCEPT ![u] = v]
          /\ shares' = [shares EXCEPT ![u][m] = k]
          /\ quantity' = [quantity EXCEPT ![m] = n]
  <2> DEFINE b == effective_b(quantity[m], BFloor)
  <2>1. b \in Nat \ {0}
    BY <1>1, BIsPositive
  <2>2. CASE BuyShares(u, m, s)
    <3> DEFINE budget == lmsr_cost(quantity[m] + s, b) - lmsr_cost(quantity[m], b)
    <3>1. lmsr_cost(quantity[m] + s, b) \in Int /\ lmsr_cost(quantity[m], b) \in Int
      <4>1. quantity[m] + s \in Int /\ quantity[m] \in Int
        BY <1>1
      <4> HIDE DEF b
      <4> QED BY <2>1, <4>1, CostIsInt
    <3>2. cash[u] - budget \in Int
      BY <1>1, <3>1
    <3>3. /\ cash' = [cash EXCEPT ![u] = cash[u] - budget]
          /\ shares' = [shares EXCEPT ![u][m] = shares[u][m] + s]
          /\ quantity' = [quantity EXCEPT ![m] = quantity[m] + s]
      BY <2>2 DEF BuyShares, ValuationInv, ValuationTypeOK
    <3>4. shares[u][m] + s \in Nat /\ quantity[m] + s \in Nat
      BY <1>1
    <3> HIDE DEF budget
    <3> QED BY <3>2, <3>3, <3>4
  <2>3. CASE SellShares(u, m, s)
    <3>1. /\ s <= shares[u][m] /\ s <= quantity[m]
          /\ cash' = [cash EXCEPT ![u] = cash[u] + SaleRefund(quantity[m], s)]
          /\ shares' = [shares EXCEPT ![u][m] = shares[u][m] - s]
          /\ quantity' = [quantity EXCEPT ![m] = quantity[m] - s]
      BY <2>3 DEF SellShares, ValuationInv, ValuationTypeOK
    <3>2. SaleRefund(quantity[m], s) \in Int
      <4>1. quantity[m] \in Int /\ quantity[m] - s \in Int
        BY <1>1
      <4> HIDE DEF b
      <4>2. lmsr_cost(quantity[m], b) \in Int /\ lmsr_cost(quantity[m] - s, b) \in Int
        BY <2>1, <4>1, CostIsInt
      <4>3. sell_refund(quantity[m], b, s) \in Int
        BY <4>2 DEF sell_refund
      <4> QED BY <4>3 DEF SaleRefund, b
    <3>3. cash[u] + SaleRefund(quantity[m], s) \in Int
      BY <1>1, <3>2
    <3>4. shares[u][m] - s \in Nat /\ quantity[m] - s \in Nat
      BY <1>1, <3>1
    <3> QED BY <3>1, <3>3, <3>4
  <2> QED BY <2>2, <2>3 DEF ValuationInv
<1>3. ValuationTypeOK'
  BY <1>1, <1>2 DEF ValuationInv, ValuationTypeOK
<1>4. \A w \in Users \ {u} : cash'[w] = cash[w] /\ shares'[w] = shares[w]
  BY <1>2 DEF ValuationInv, ValuationTypeOK
<1> QED BY <1>1, <1>3, <1>4, MovesKeepSeen

\* A deletion is a move of the user deleted.
LEMMA DeletionKeepsSeen ==
    ASSUME ValuationInv, NEW u \in Users, DeleteUser(u)
    PROVE  ValuationInv'
<1>1. /\ cash' = [cash EXCEPT ![u] = NoAccount]
      /\ shares' = [shares EXCEPT ![u] = [m \in Markets |-> 0]]
      /\ UNCHANGED <<quantity, reading, next, seenCash>> /\ Moves(u)
  BY DEF DeleteUser, Moves, seen
<1>2. ValuationTypeOK'
  BY <1>1 DEF ValuationInv, ValuationTypeOK
<1>3. \A w \in Users \ {u} : cash'[w] = cash[w] /\ shares'[w] = shares[w]
  BY <1>1 DEF ValuationInv, ValuationTypeOK
<1> QED BY <1>1, <1>2, <1>3, MovesKeepSeen

----------------------------------------------------------------------------
(* Reads *)

\* Each read begins with the portfolios as they are, and has no other table yet.
LEMMA BeginKeepsSeen ==
    ASSUME ValuationInv, NEW what, what # "none", NEW who \in SUBSET Users,
           NEW order \in {<<"both">>, <<"positions", "markets">>, <<"markets", "positions">>},
           Begin(what, who, order)
    PROVE  ValuationInv'
<1>1. /\ reading' = what /\ next' = order /\ instants' = {Worths}
      /\ seenCash' = [u \in Users |-> IF u \in who THEN cash[u] ELSE NoAccount]
      /\ UNCHANGED <<cash, shares, quantity, seenShares, seenQuantity>>
  BY DEF Begin, wealth
<1>2. ~PositionsRead' /\ ~MarketsRead' /\ next' # <<>>
  BY <1>1 DEF PositionsRead, MarketsRead
<1>3. ValuationTypeOK'
  BY <1>1 DEF ValuationInv, ValuationTypeOK
<1>4. Worths' \in instants'
  BY <1>1 DEF Worths, Accounts
<1>5. \A u \in Quiet' : cash'[u] = seenCash'[u]
  BY <1>1 DEF Quiet
<1> QED BY <1>2, <1>3, <1>4, <1>5 DEF ValuationInv, SeenInv, ValuedInv

\* A statement reads a table as it is.
LEMMA ReadTableKeepsSeen ==
    ASSUME BFloor <= BMin, ValuationInv, reading # "none", ReadTable
    PROVE  ValuationInv'
<1> USE DEF ValuationInv
<1>1. /\ seenShares' = IF Head(next) = "markets" THEN seenShares ELSE shares
      /\ seenQuantity' = IF Head(next) = "positions" THEN seenQuantity ELSE quantity
      /\ next' = Tail(next) /\ next # <<>>
      /\ UNCHANGED <<cash, shares, quantity, reading, seenCash, movers, instants>>
  BY DEF ReadTable, wealth
<1>2. /\ ValuationTypeOK'
      /\ PositionsRead' => seenShares' = shares \/ (PositionsRead /\ seenShares' = seenShares)
      /\ MarketsRead' => seenQuantity' = quantity \/ (MarketsRead /\ seenQuantity' = seenQuantity)
  <2>1. CASE next = <<"both">>
    <3>1. Head(next) = "both" /\ Tail(next) = <<>>
      BY <2>1
    <3> QED BY <1>1, <3>1 DEF ValuationTypeOK
  <2>2. CASE next = <<"positions">>
    <3>1. Head(next) = "positions" /\ Tail(next) = <<>>
      BY <2>2
    <3> QED BY <1>1, <2>2, <3>1 DEF ValuationTypeOK, MarketsRead
  <2>3. CASE next = <<"markets">>
    <3>1. Head(next) = "markets" /\ Tail(next) = <<>>
      BY <2>3
    <3> QED BY <1>1, <2>3, <3>1 DEF ValuationTypeOK, PositionsRead
  <2>4. CASE next = <<"positions", "markets">>
    <3>1. Head(next) = "positions" /\ Tail(next) = <<"markets">>
      BY <2>4
    <3>2. <<"markets">> # <<>> /\ <<"markets">> # <<"positions">>
      OBVIOUS
    <3> QED BY <1>1, <3>1, <3>2 DEF ValuationTypeOK, MarketsRead
  <2>5. CASE next = <<"markets", "positions">>
    <3>1. Head(next) = "markets" /\ Tail(next) = <<"positions">>
      BY <2>5
    <3>2. <<"positions">> # <<>> /\ <<"positions">> # <<"markets">>
      OBVIOUS
    <3> QED BY <1>1, <3>1, <3>2 DEF ValuationTypeOK, PositionsRead
  <2> QED BY <1>1, <2>1, <2>2, <2>3, <2>4, <2>5 DEF ValuationTypeOK
<1>3. Quiet' = Quiet /\ Worths' = Worths
  BY <1>1 DEF Quiet, Worths, Accounts
<1>4. \A u \in Quiet : /\ cash[u] = seenCash[u] /\ cash[u] # NoAccount /\ u \in Users
                       /\ PositionsRead' => seenShares'[u] = shares[u]
  BY <1>1, <1>2 DEF SeenInv, Quiet
<1>5. SeenInv'
  BY <1>1, <1>3, <1>4 DEF SeenInv
<1>6. ValuedInv'
  <2> SUFFICES ASSUME MarketsRead'
               PROVE  \E then \in instants : \A u \in Quiet :
                         then[u] = TotalValue(seenCash[u], shares[u], seenQuantity')
    BY <1>1, <1>3, <1>4 DEF ValuedInv
  <2>1. CASE seenQuantity' = quantity
    <3>1. Worths \in instants
      BY <1>1 DEF SeenInv
    <3>2. \A u \in Quiet : Worths[u] = TotalValue(seenCash[u], shares[u], quantity)
      BY <1>4, ValuedNow
    <3> QED BY <2>1, <3>1, <3>2
  <2>2. CASE MarketsRead /\ seenQuantity' = seenQuantity
    <3>1. \A u \in Quiet : (IF PositionsRead THEN seenShares[u] ELSE shares[u]) = shares[u]
      BY <1>1 DEF SeenInv
    <3> QED BY <2>2, <3>1 DEF ValuedInv
  <2> QED BY <1>2, <2>1, <2>2
<1> QED BY <1>2, <1>5, <1>6

\* Where the floor never binds, every step keeps the invariant.
LEMMA NextKeepsValuationInv ==
    ASSUME BFloor <= BMin, ValuationInv, [ValuationNext]_valuationVars
    PROVE  ValuationInv'
<1>1. CASE \E u \in Users : DeleteUser(u)
  BY <1>1, DeletionKeepsSeen
<1>2. CASE \E u \in Users, m \in Markets, s \in 1..MaxShares : BuyShares(u, m, s) \/ SellShares(u, m, s)
  <2>1. \A s \in 1..MaxShares : s \in Nat
    BY ValuationAssumption
  <2> QED BY <1>2, <2>1, TradesKeepSeen
<1>3. CASE (\E u \in Users : BeginTotal(u)) \/ BeginSnapshot \/ BeginLeaderboard
  <2>1. Accounts \in SUBSET Users /\ \A u \in Users : {u} \in SUBSET Users
    BY DEF Accounts
  <2> QED BY <1>3, <2>1, BeginKeepsSeen DEF BeginTotal, BeginSnapshot, BeginLeaderboard
<1>4. CASE ReadTable
  <2>1. reading # "none"
    BY <1>4 DEF ReadTable, ValuationInv, ValuationTypeOK
  <2> QED BY <1>4, <2>1, ReadTableKeepsSeen
<1>5. CASE Record \/ SnapshotFails
  <2>1. /\ next = <<>> /\ reading' = "none" /\ seenCash' = Unread /\ UNCHANGED <<cash, shares, quantity, next>>
    BY <1>5 DEF Record, SnapshotFails, ReadEnds, wealth
  <2> QED BY <2>1 DEF ValuationInv, ValuationTypeOK, SeenInv, ValuedInv, Unread
<1>6. CASE UNCHANGED valuationVars
  <2>1. UNCHANGED <<cash, shares, quantity, reading, next, seenCash, seenShares, seenQuantity,
                    movers, instants>>
    BY <1>6 DEF valuationVars, wealth, seen
  <2>2. /\ Quiet' = Quiet /\ Worths' = Worths
        /\ (PositionsRead' <=> PositionsRead) /\ (MarketsRead' <=> MarketsRead)
    BY <2>1 DEF Quiet, Worths, Accounts, PositionsRead, MarketsRead
  <2> QED BY <2>1, <2>2 DEF ValuationInv, ValuationTypeOK, SeenInv, ValuedInv
<1> QED BY <1>1, <1>2, <1>3, <1>4, <1>5, <1>6 DEF ValuationNext

\* Where b_floor is no more than b_min, whatever trades and deletions overlap a read, what
\* it states of the users who have not moved is what selling would have fetched them at
\* one moment of the read, whoever else traded what they hold.
THEOREM AlwaysValuedAtSale ==
    ASSUME BFloor <= BMin
    PROVE  ValuationSpec => []ValuedAtSale
<1>1. ValuationInv /\ [ValuationNext]_valuationVars => ValuationInv'
  BY NextKeepsValuationInv
<1>2. ValuationInv => ValuedAtSale
  BY DEF ValuationInv, ValuedInv, ValuedAtSale, ValuesRead, PositionsRead, MarketsRead, Quiet
<1> QED BY <1>1, <1>2, InitValuationInv, PTL DEF ValuationSpec

----------------------------------------------------------------------------
(* Numbers *)

\* A product grows with its factor.
LEMMA ProductGrows ==
    ASSUME NEW a \in Int, NEW b \in Int, NEW c \in Nat, a <= b
    PROVE  a * c <= b * c
<1>1. (b - a) * c >= 0
  OBVIOUS
<1> QED BY <1>1

\* Integers have products.
LEMMA ProductInt == \A a, b \in Int : a * b \in Int
OBVIOUS

\* The sum over 1..n + 1 is that over 1..n and its last term.
LEMMA SumUpTo ==
    ASSUME NEW n \in Nat, NEW f, \A i \in 1..n + 1 : f[i] \in Int
    PROVE  /\ SumFunctionOnSet(f, 1..n + 1) = SumFunctionOnSet(f, 1..n) + f[n + 1]
           /\ SumFunctionOnSet(f, 1..n) \in Int
<1>1. /\ n + 1 \in 1..n + 1
      /\ \A i \in 1..n : f[i] \in Int
  OBVIOUS
<1>2. IsFiniteSet(1..n + 1) /\ IsFiniteSet(1..n)
  <2>1. 1 \in Int /\ n \in Int /\ n + 1 \in Int
    OBVIOUS
  <2> QED BY <2>1, FS_Interval
<1>3. (1..n + 1) \ {n + 1} = 1..n
  OBVIOUS
<1>4. SumFunctionOnSet(f, 1..n + 1) = f[n + 1] + SumFunctionOnSet(f, (1..n + 1) \ {n + 1})
  BY <1>1, <1>2, SumApart
<1>5. SumFunctionOnSet(f, 1..n) \in Int
  BY <1>1, <1>2, SumInt
<1>6. f[n + 1] \in Int
  BY <1>1
<1>7. SumFunctionOnSet(f, 1..n + 1) = f[n + 1] + SumFunctionOnSet(f, 1..n)
  BY <1>3, <1>4
<1> QED BY <1>5, <1>6, <1>7

\* Sums of up to five terms.
LEMMA SumOfFive ==
    ASSUME NEW n \in 1..5, NEW f, \A i \in 1..n : f[i] \in Int
    PROVE  /\ n = 1 => SumFunctionOnSet(f, 1..n) = f[1]
           /\ n = 2 => SumFunctionOnSet(f, 1..n) = f[1] + f[2]
           /\ n = 3 => SumFunctionOnSet(f, 1..n) = f[1] + f[2] + f[3]
           /\ n = 4 => SumFunctionOnSet(f, 1..n) = f[1] + f[2] + f[3] + f[4]
           /\ n = 5 => SumFunctionOnSet(f, 1..n) = f[1] + f[2] + f[3] + f[4] + f[5]
<1> DEFINE s(k) == SumFunctionOnSet(f, 1..k)
<1>1. s(0) = 0
  <2>1. 1..0 = {}
    OBVIOUS
  <2>2. SumFunctionOnSet(f, {}) = 0
    BY FS_EmptySet, SumDefined
  <2> QED BY <2>1, <2>2
<1>2. ASSUME NEW k \in 0..n - 1
      PROVE  s(k + 1) = s(k) + f[k + 1] /\ s(k) \in Int /\ f[k + 1] \in Int
  <2>1. k \in Nat /\ \A i \in 1..k + 1 : f[i] \in Int
    OBVIOUS
  <2> QED BY <2>1, SumUpTo
<1> HIDE DEF s
<1>3. s(1) = f[1] /\ f[1] \in Int
  BY <1>1, <1>2
<1>4. n >= 2 => s(2) = f[1] + f[2] /\ f[2] \in Int
  BY <1>2, <1>3
<1>5. n >= 3 => s(3) = f[1] + f[2] + f[3] /\ f[3] \in Int
  BY <1>2, <1>3, <1>4
<1>6. n >= 4 => s(4) = f[1] + f[2] + f[3] + f[4] /\ f[4] \in Int
  BY <1>2, <1>3, <1>4, <1>5
<1>7. n >= 5 => s(5) = f[1] + f[2] + f[3] + f[4] + f[5]
  BY <1>2, <1>3, <1>4, <1>5, <1>6
<1>8. SumFunctionOnSet(f, 1..n) = s(n)
  BY DEF s
<1> QED BY <1>3, <1>4, <1>5, <1>6, <1>7, <1>8

----------------------------------------------------------------------------
(* The ratings of a window *)

Entries == Grades \cup {NoRating}

RatedStep(u, w, i) ==
    IF i = 0 THEN <<>> ELSE IF w[i] = NoRating THEN u[i - 1] ELSE Append(u[i - 1], w[i])

\* The recursive definition of the ratings has a solution.
LEMMA RatedUpTo ==
    ASSUME NEW w, Len(w) \in Nat
    PROVE  \E u : /\ Rated(w) = u[Len(w)] /\ u[0] = <<>>
                  /\ \A i \in 1..Len(w) :
                        u[i] = IF w[i] = NoRating THEN u[i - 1] ELSE Append(u[i - 1], w[i])
<1> DEFINE n == Len(w)
           F == {k \in Nat : \E u : u = [i \in 0..k |-> RatedStep(u, w, i)]}
<1>1. 0 \in F
  <2>1. [i \in 0..0 |-> <<>>] = [i \in 0..0 |-> RatedStep([j \in 0..0 |-> <<>>], w, i)]
    BY DEF RatedStep
  <2> QED BY <2>1
<1>2. ASSUME NEW k \in Nat, k \in F
      PROVE  k + 1 \in F
  <2>1. PICK u : u = [i \in 0..k |-> RatedStep(u, w, i)]
    BY <1>2
  <2> DEFINE v == [i \in 0..k + 1 |-> RatedStep(u, w, i)]
  <2>2. \A i \in 0..k : v[i] = u[i]
    <3>1. \A i \in 0..k : i \in 0..k + 1
      OBVIOUS
    <3> QED BY <2>1, <3>1
  <2>3. \A i \in 0..k + 1 : RatedStep(u, w, i) = RatedStep(v, w, i)
    <3>1. \A i \in 0..k + 1 : i # 0 => i - 1 \in 0..k
      OBVIOUS
    <3> HIDE DEF v
    <3> QED BY <2>2, <3>1 DEF RatedStep
  <2>4. v = [i \in 0..k + 1 |-> RatedStep(u, w, i)]
    OBVIOUS
  <2> HIDE DEF v
  <2>5. v = [i \in 0..k + 1 |-> RatedStep(v, w, i)]
    BY <2>3, <2>4
  <2> QED BY <2>5
<1>3. n \in F
  <2> HIDE DEF F
  <2> QED BY <1>1, <1>2, UpFromZero
<1> DEFINE upTo == CHOOSE u : u = [i \in 0..n |-> RatedStep(u, w, i)]
<1>4. upTo = [i \in 0..n |-> RatedStep(upTo, w, i)]
  BY <1>3
<1>5. Rated(w) = upTo[n]
  BY DEF Rated, RatedStep
<1> HIDE DEF upTo
<1>6. upTo[0] = <<>>
  BY <1>4 DEF RatedStep
<1>7. \A i \in 1..n : upTo[i] = IF w[i] = NoRating THEN upTo[i - 1] ELSE Append(upTo[i - 1], w[i])
  <2> TAKE i \in 1..n
  <2>1. i \in 0..n /\ i # 0
    OBVIOUS
  <2> HIDE DEF n
  <2>2. upTo[i] = RatedStep(upTo, w, i)
    BY <1>4, <2>1
  <2> QED BY <2>1, <2>2 DEF RatedStep
<1> QED BY <1>5, <1>6, <1>7

\* What is kept of a window are ratings, not more than it has entries.
LEMMA RatedIsSeq ==
    ASSUME NEW w \in Seq(Entries)
    PROVE  Rated(w) \in Seq(Grades) /\ Len(Rated(w)) <= Len(w)
<1> DEFINE n == Len(w)
<1>1. n \in Nat /\ \A i \in 1..n : w[i] \in Entries
  OBVIOUS
<1>2. PICK u : /\ Rated(w) = u[n] /\ u[0] = <<>>
               /\ \A i \in 1..n : u[i] = IF w[i] = NoRating THEN u[i - 1] ELSE Append(u[i - 1], w[i])
  BY <1>1, RatedUpTo
<1> DEFINE F == {k \in Nat : k <= n => u[k] \in Seq(Grades) /\ Len(u[k]) <= k}
<1>3. 0 \in F
  <2>1. <<>> \in Seq(Grades) /\ Len(<<>>) = 0
    OBVIOUS
  <2>2. u[0] \in Seq(Grades) /\ Len(u[0]) <= 0
    BY <1>2, <2>1
  <2> QED BY <2>2
<1>4. ASSUME NEW k \in Nat, k \in F
      PROVE  k + 1 \in F
  <2> SUFFICES ASSUME k + 1 <= n
               PROVE  u[k + 1] \in Seq(Grades) /\ Len(u[k + 1]) <= k + 1
    OBVIOUS
  <2>1. u[k] \in Seq(Grades) /\ Len(u[k]) <= k /\ Len(u[k]) \in Nat
    BY <1>1, <1>4
  <2>2. k + 1 \in 1..n /\ k + 1 - 1 = k
    BY <1>1
  <2>3. w[k + 1] \in Entries /\ u[k + 1] = IF w[k + 1] = NoRating THEN u[k] ELSE Append(u[k], w[k + 1])
    BY <1>1, <1>2, <2>2
  <2>4. CASE w[k + 1] = NoRating
    BY <2>1, <2>3, <2>4
  <2>5. CASE w[k + 1] # NoRating
    <3>1. w[k + 1] \in Grades
      BY <2>3, <2>5 DEF Entries
    <3> QED BY <2>1, <2>3, <2>5, <3>1
  <2> QED BY <2>4, <2>5
<1>5. n \in F
  <2> HIDE DEF F
  <2> QED BY <1>1, <1>3, <1>4, UpFromZero
<1> QED BY <1>1, <1>2, <1>5

\* A new rating comes before those that are kept, and at most the oldest is lost.
LEMMA RatedAfter ==
    ASSUME NEW w \in Seq(Entries), Len(w) <= 5, NEW r \in Grades, r # NoRating
    PROVE  \E kept \in Seq(Grades) :
             /\ Len(kept) <= 4
             /\ Len(Rated(Newest(<<r>> \o w))) = Len(kept) + 1
             /\ Rated(Newest(<<r>> \o w))[1] = r
             /\ \A i \in 1..Len(kept) : Rated(Newest(<<r>> \o w))[i + 1] = kept[i]
             /\ Len(Rated(w)) = Len(kept) \/ Len(Rated(w)) = Len(kept) + 1
             /\ \A i \in 1..Len(kept) : Rated(w)[i] = kept[i]
<1> DEFINE n == Len(w)
           m == IF n > 4 THEN 4 ELSE n
           x == Newest(<<r>> \o w)
<1>1. /\ n \in Nat /\ m \in 0..4 /\ m \in 0..n /\ (n = m \/ (n = 5 /\ m = 4))
      /\ \A i \in 1..n : w[i] \in Entries
  <2>1. n \in Nat /\ n <= 5 /\ \A i \in 1..n : w[i] \in Entries
    OBVIOUS
  <2> HIDE DEF n
  <2> QED BY <2>1
<1>2. Len(x) = m + 1 /\ x[1] = r /\ \A i \in 1..m : x[i + 1] = w[i]
  <2> DEFINE y == <<r>> \o w
  <2>1. y \in Seq(Entries) /\ Len(y) = n + 1 /\ y[1] = r /\ \A i \in 1..n : y[i + 1] = w[i]
    BY DEF Entries
  <2> HIDE DEF y
  <2>2. CASE n > 4
    <3>1. Len(y) = 6 /\ m = 4
      BY <1>1, <2>1, <2>2
    <3>2. x = SubSeq(y, 1, 5)
      BY <3>1 DEF Newest, y
    <3>3. Len(SubSeq(y, 1, 5)) = 5 /\ \A i \in 1..5 : SubSeq(y, 1, 5)[i] = y[i]
      BY <2>1, <3>1
    <3> HIDE DEF x, m
    <3>4. \A i \in 1..m : x[i + 1] = w[i]
      <4> TAKE i \in 1..m
      <4>1. i + 1 \in 1..5 /\ i \in 1..n
        BY <1>1, <3>1
      <4> QED BY <2>1, <3>2, <3>3, <4>1
    <3> QED BY <2>1, <3>1, <3>2, <3>3, <3>4
  <2>3. CASE ~(n > 4)
    <3>1. x = y /\ m = n
      BY <1>1, <2>1, <2>3 DEF Newest, y
    <3> QED BY <2>1, <3>1
  <2> QED BY <2>2, <2>3
<1>3. PICK u : /\ Rated(w) = u[n] /\ u[0] = <<>>
               /\ \A i \in 1..n : u[i] = IF w[i] = NoRating THEN u[i - 1] ELSE Append(u[i - 1], w[i])
  BY <1>1, RatedUpTo
<1>4. PICK v : /\ Rated(x) = v[m + 1] /\ v[0] = <<>>
               /\ \A i \in 1..m + 1 : v[i] = IF x[i] = NoRating THEN v[i - 1] ELSE Append(v[i - 1], x[i])
  <2>1. Len(x) \in Nat
    BY <1>1, <1>2
  <2> HIDE DEF x, m
  <2> QED BY <1>2, <2>1, RatedUpTo
<1> DEFINE Tracks(k) == /\ u[k] \in Seq(Grades) /\ Len(u[k]) <= k
                        /\ Len(v[k + 1]) = Len(u[k]) + 1 /\ v[k + 1] \in Seq(Grades)
                        /\ v[k + 1][1] = r
                        /\ \A i \in 1..Len(u[k]) : v[k + 1][i + 1] = u[k][i]
           F == {k \in Nat : k <= m => Tracks(k)}
<1> HIDE DEF x
<1>5. 0 \in F
  <2>1. v[1] = Append(<<>>, r)
    <3>1. 1 \in 1..m + 1 /\ 1 - 1 = 0
      BY <1>1
    <3> QED BY <1>2, <1>4, <3>1
  <2>2. v[0 + 1] = <<r>>
    BY <2>1
  <2>3. /\ <<>> \in Seq(Grades) /\ Len(<<>>) = 0
        /\ <<r>> \in Seq(Grades) /\ Len(<<r>>) = 1 /\ <<r>>[1] = r
    OBVIOUS
  <2>4. Tracks(0)
    BY <1>3, <2>2, <2>3
  <2> QED BY <2>4
<1>6. ASSUME NEW k \in Nat, k \in F
      PROVE  k + 1 \in F
  <2> SUFFICES ASSUME k + 1 <= m PROVE Tracks(k + 1)
    OBVIOUS
  <2>1. Tracks(k)
    BY <1>1, <1>6
  <2>2. /\ k + 1 \in 1..n /\ k + 1 - 1 = k /\ k + 2 \in 1..m + 1 /\ k + 2 - 1 = k + 1
        /\ k + 1 + 1 = k + 2 /\ k + 1 \in 1..m
    BY <1>1
  <2>3. /\ w[k + 1] \in Entries /\ x[k + 2] = w[k + 1]
        /\ u[k + 1] = IF w[k + 1] = NoRating THEN u[k] ELSE Append(u[k], w[k + 1])
        /\ v[k + 2] = IF w[k + 1] = NoRating THEN v[k + 1] ELSE Append(v[k + 1], w[k + 1])
    <3>1. x[k + 2] = w[k + 1]
      BY <1>2, <2>2
    <3>2. u[k + 1] = IF w[k + 1] = NoRating THEN u[k] ELSE Append(u[k], w[k + 1])
      BY <1>3, <2>2
    <3>3. v[k + 2] = IF x[k + 2] = NoRating THEN v[k + 1] ELSE Append(v[k + 1], x[k + 2])
      BY <1>4, <2>2
    <3> QED BY <1>1, <2>2, <3>1, <3>2, <3>3
  <2>4. CASE w[k + 1] = NoRating
    <3>1. u[k + 1] = u[k] /\ v[k + 2] = v[k + 1]
      BY <2>3, <2>4
    <3>2. Len(u[k]) \in Nat
      BY <2>1
    <3> QED BY <2>1, <2>2, <3>1, <3>2
  <2>5. CASE w[k + 1] # NoRating
    <3> DEFINE g == w[k + 1]
               a == u[k]
               b == v[k + 1]
    <3>1. /\ g \in Grades /\ a \in Seq(Grades) /\ b \in Seq(Grades) /\ Len(b) = Len(a) + 1
          /\ b[1] = r /\ Len(a) <= k /\ Len(a) \in Nat
          /\ \A i \in 1..Len(a) : b[i + 1] = a[i]
      BY <2>1, <2>3, <2>5 DEF Entries
    <3>2. u[k + 1] = Append(a, g) /\ v[k + 2] = Append(b, g)
      BY <2>3, <2>5
    <3> HIDE DEF a, b, g
    <3>3. /\ Append(a, g) \in Seq(Grades) /\ Append(b, g) \in Seq(Grades)
          /\ Len(Append(a, g)) = Len(a) + 1 /\ Len(Append(b, g)) = Len(b) + 1
      BY <3>1
    <3>4. Append(b, g)[1] = r
      BY <3>1
    <3>5. \A i \in 1..Len(a) + 1 : Append(b, g)[i + 1] = Append(a, g)[i]
      BY <3>1
    <3>6. v[k + 1 + 1] = Append(b, g) /\ Len(a) + 1 <= k + 1
      BY <2>2, <3>1, <3>2
    <3>7. Len(v[k + 1 + 1]) = Len(u[k + 1]) + 1 /\ Len(u[k + 1]) <= k + 1
      BY <3>1, <3>2, <3>3, <3>6
    <3>8. \A i \in 1..Len(u[k + 1]) : v[k + 1 + 1][i + 1] = u[k + 1][i]
      BY <3>2, <3>3, <3>5, <3>6
    <3> QED BY <3>2, <3>3, <3>4, <3>6, <3>7, <3>8
  <2> QED BY <2>4, <2>5
<1>7. Tracks(m)
  <2>1. m \in F
    <3> HIDE DEF F, m
    <3> QED BY <1>1, <1>5, <1>6, UpFromZero
  <2> QED BY <1>1, <2>1
<1>8. /\ u[m] \in Seq(Grades)
      /\ Len(u[m]) <= 4
      /\ Len(u[n]) = Len(u[m]) \/ Len(u[n]) = Len(u[m]) + 1
      /\ \A i \in 1..Len(u[m]) : u[n][i] = u[m][i]
  <2>1. CASE n = m
    BY <1>1, <1>7, <2>1
  <2>2. CASE n = 5 /\ m = 4
    <3>1. u[5] = IF w[5] = NoRating THEN u[4] ELSE Append(u[4], w[5])
      <4>1. 5 \in 1..n /\ 5 - 1 = 4
        BY <2>2
      <4> QED BY <1>3, <4>1
    <3>2. w[5] \in Entries /\ u[4] \in Seq(Grades) /\ Len(u[4]) <= 4
      BY <1>1, <1>7, <2>2
    <3>3. CASE w[5] = NoRating
      BY <2>2, <3>1, <3>2, <3>3
    <3>4. CASE w[5] # NoRating
      BY <2>2, <3>1, <3>2, <3>4 DEF Entries
    <3> QED BY <3>3, <3>4
  <2> QED BY <1>1, <2>1, <2>2
<1> DEFINE kept == u[m]
<1>9. /\ kept \in Seq(Grades) /\ Len(kept) <= 4
      /\ Len(Rated(x)) = Len(kept) + 1 /\ Rated(x)[1] = r
      /\ \A i \in 1..Len(kept) : Rated(x)[i + 1] = kept[i]
      /\ Len(Rated(w)) = Len(kept) \/ Len(Rated(w)) = Len(kept) + 1
      /\ \A i \in 1..Len(kept) : Rated(w)[i] = kept[i]
  BY <1>3, <1>4, <1>7, <1>8
<1> HIDE DEF kept, m, n
<1> QED BY <1>9 DEF x

\* How the ratings after a match is processed again relate to those before: the new one
\* leads them, or it leads them in place of the j-th.
Led(a, b, r) ==
    /\ a \in Seq(Grades) /\ b \in Seq(Grades) /\ Len(b) = Len(a) + 1 /\ b[1] = r
    /\ \A k \in 1..Len(a) : b[k + 1] = a[k]

Displaced(a, b, r, j) ==
    /\ a \in Seq(Grades) /\ b \in Seq(Grades) /\ Len(b) = Len(a) /\ b[1] = r
    /\ j \in 1..Len(a)
    /\ \A k \in 1..Len(a) : k > 1 => b[k] = IF k <= j THEN a[k - 1] ELSE a[k]

\* One more rating after both keeps either relation, and one after those before turns the
\* first into the second.
LEMMA LedByOne ==
    ASSUME NEW a, NEW b, NEW r, NEW g \in Grades, Led(a, b, r)
    PROVE  /\ Led(Append(a, g), Append(b, g), r)
           /\ Displaced(Append(a, g), b, r, Len(a) + 1)
<1>1. /\ a \in Seq(Grades) /\ b \in Seq(Grades) /\ Len(b) = Len(a) + 1 /\ b[1] = r
      /\ Len(a) \in Nat /\ \A k \in 1..Len(a) : b[k + 1] = a[k]
  BY DEF Led
<1>2. /\ Append(a, g) \in Seq(Grades) /\ Append(b, g) \in Seq(Grades)
      /\ Len(Append(a, g)) = Len(a) + 1 /\ Len(Append(b, g)) = Len(b) + 1
      /\ Append(b, g)[1] = r
  BY <1>1
<1>3. \A k \in 1..Len(a) + 1 : Append(b, g)[k + 1] = Append(a, g)[k]
  BY <1>1
<1>4. \A k \in 1..Len(a) + 1 : k > 1 => b[k] = Append(a, g)[k - 1]
  <2> SUFFICES ASSUME NEW k \in 1..Len(a) + 1, k > 1
               PROVE  b[k] = Append(a, g)[k - 1]
    OBVIOUS
  <2>1. k - 1 \in 1..Len(a) /\ k - 1 + 1 = k
    BY <1>1
  <2>2. Append(a, g)[k - 1] = a[k - 1]
    BY <1>1, <2>1
  <2>3. b[k - 1 + 1] = a[k - 1]
    BY <1>1, <2>1
  <2> QED BY <2>1, <2>2, <2>3
<1>5. Len(a) + 1 \in 1..Len(a) + 1 /\ \A k \in 1..Len(a) + 1 : k <= Len(a) + 1
  BY <1>1
<1> QED BY <1>1, <1>2, <1>3, <1>4, <1>5 DEF Led, Displaced

LEMMA DisplacedByOne ==
    ASSUME NEW a, NEW b, NEW r, NEW j, NEW g \in Grades, Displaced(a, b, r, j)
    PROVE  Displaced(Append(a, g), Append(b, g), r, j)
<1>1. /\ a \in Seq(Grades) /\ b \in Seq(Grades) /\ Len(b) = Len(a) /\ b[1] = r
      /\ Len(a) \in Nat /\ j \in 1..Len(a)
      /\ \A k \in 1..Len(a) : k > 1 => b[k] = IF k <= j THEN a[k - 1] ELSE a[k]
  BY DEF Displaced
<1>2. /\ Append(a, g) \in Seq(Grades) /\ Append(b, g) \in Seq(Grades)
      /\ Len(Append(a, g)) = Len(a) + 1 /\ Len(Append(b, g)) = Len(b) + 1
      /\ Append(b, g)[1] = r
  <2>1. 1 \in 1..Len(b)
    BY <1>1
  <2> QED BY <1>1, <2>1
<1>3. \A k \in 1..Len(a) + 1 :
         k > 1 => Append(b, g)[k] = IF k <= j THEN Append(a, g)[k - 1] ELSE Append(a, g)[k]
  <2> SUFFICES ASSUME NEW k \in 1..Len(a) + 1, k > 1
               PROVE  Append(b, g)[k] = IF k <= j THEN Append(a, g)[k - 1] ELSE Append(a, g)[k]
    OBVIOUS
  <2>1. CASE k <= Len(a)
    <3>1. k \in 1..Len(a) /\ k - 1 \in 1..Len(a)
      BY <1>1, <2>1
    <3>2. Append(b, g)[k] = b[k] /\ Append(a, g)[k] = a[k] /\ Append(a, g)[k - 1] = a[k - 1]
      BY <1>1, <3>1
    <3> QED BY <1>1, <3>1, <3>2
  <2>2. CASE ~(k <= Len(a))
    <3>1. k = Len(a) + 1 /\ ~(k <= j)
      BY <1>1, <2>2
    <3> QED BY <1>1, <3>1
  <2> QED BY <2>1, <2>2
<1>4. j \in 1..Len(a) + 1
  BY <1>1
<1> QED BY <1>2, <1>3, <1>4 DEF Displaced

Moved(w, i, r) == [k \in DOMAIN w |-> IF k = 1 THEN r ELSE IF k <= i THEN w[k - 1] ELSE w[k]]

\* A match processed again brings its rating to the front, in place of the one it had.
LEMMA RatedMoved ==
    ASSUME NEW w \in Seq(Entries), NEW i \in 1..Len(w), NEW r \in Grades, r # NoRating
    PROVE  \/ Led(Rated(w), Rated(Moved(w, i, r)), r)
           \/ \E j \in 1..Len(Rated(w)) : Displaced(Rated(w), Rated(Moved(w, i, r)), r, j)
<1> DEFINE n == Len(w)
           x == Moved(w, i, r)
<1>1. n \in Nat /\ i \in 1..n /\ DOMAIN w = 1..n /\ \A k \in 1..n : w[k] \in Entries
  OBVIOUS
<1>2. x = [k \in 1..n |-> IF k = 1 THEN r ELSE IF k <= i THEN w[k - 1] ELSE w[k]]
  BY <1>1 DEF Moved
<1>3. Len(x) = n /\ \A k \in 1..n : x[k] = IF k = 1 THEN r ELSE IF k <= i THEN w[k - 1] ELSE w[k]
  BY <1>1, <1>2
<1>4. PICK u : /\ Rated(w) = u[n] /\ u[0] = <<>>
               /\ \A k \in 1..n : u[k] = IF w[k] = NoRating THEN u[k - 1] ELSE Append(u[k - 1], w[k])
  BY <1>1, RatedUpTo
<1>5. PICK v : /\ Rated(x) = v[n] /\ v[0] = <<>>
               /\ \A k \in 1..n : v[k] = IF x[k] = NoRating THEN v[k - 1] ELSE Append(v[k - 1], x[k])
  <2>1. Len(x) \in Nat
    BY <1>1, <1>3
  <2> HIDE DEF x, n
  <2> QED BY <1>3, <2>1, RatedUpTo
<1> HIDE DEF x, n
<1> DEFINE F == {k \in Nat : k < i => Led(u[k], v[k + 1], r)}
<1>6. 0 \in F
  <2>1. 1 \in 1..n /\ 1 - 1 = 0 /\ 0 + 1 = 1
    BY <1>1
  <2>2. v[1] = Append(<<>>, r)
    BY <1>3, <1>5, <2>1
  <2>3. Append(<<>>, r) \in Seq(Grades) /\ Len(Append(<<>>, r)) = 1 /\ Append(<<>>, r)[1] = r
    OBVIOUS
  <2>4. <<>> \in Seq(Grades) /\ Len(<<>>) = 0 /\ 1..0 = {}
    OBVIOUS
  <2>5. Led(<<>>, Append(<<>>, r), r)
    BY <2>3, <2>4 DEF Led
  <2> QED BY <1>4, <2>1, <2>2, <2>5
<1>7. ASSUME NEW k \in Nat, k \in F
      PROVE  k + 1 \in F
  <2> SUFFICES ASSUME k + 1 < i PROVE Led(u[k + 1], v[k + 1 + 1], r)
    OBVIOUS
  <2>1. Led(u[k], v[k + 1], r)
    BY <1>1, <1>7
  <2>2. /\ k + 1 \in 1..n /\ k + 1 - 1 = k /\ k + 1 + 1 \in 1..n /\ k + 1 + 1 - 1 = k + 1
        /\ k + 1 + 1 # 1 /\ k + 1 + 1 <= i
    BY <1>1
  <2>3. w[k + 1] \in Entries /\ x[k + 1 + 1] = w[k + 1]
    BY <1>1, <1>3, <2>2
  <2>4. /\ u[k + 1] = IF w[k + 1] = NoRating THEN u[k] ELSE Append(u[k], w[k + 1])
        /\ v[k + 1 + 1] = IF w[k + 1] = NoRating THEN v[k + 1] ELSE Append(v[k + 1], w[k + 1])
    BY <1>4, <1>5, <2>2, <2>3
  <2>5. CASE w[k + 1] = NoRating
    BY <2>1, <2>4, <2>5
  <2>6. CASE w[k + 1] # NoRating
    <3>1. w[k + 1] \in Grades
      BY <2>3, <2>6 DEF Entries
    <3> QED BY <2>1, <2>4, <2>6, <3>1, LedByOne
  <2> QED BY <2>5, <2>6
<1>8. Led(u[i - 1], v[i], r)
  <2>1. i - 1 \in Nat /\ i - 1 < i /\ i - 1 + 1 = i
    BY <1>1
  <2>2. i - 1 \in F
    <3> HIDE DEF F
    <3> QED BY <1>6, <1>7, <2>1, UpFromZero
  <2> QED BY <2>1, <2>2
<1>9. ASSUME NEW k \in Nat, k + 1 > i, k + 1 <= n
      PROVE  /\ w[k + 1] = NoRating => u[k + 1] = u[k] /\ v[k + 1] = v[k]
             /\ w[k + 1] # NoRating => /\ w[k + 1] \in Grades
                                       /\ u[k + 1] = Append(u[k], w[k + 1])
                                       /\ v[k + 1] = Append(v[k], w[k + 1])
  <2>1. k + 1 \in 1..n /\ k + 1 - 1 = k /\ k + 1 # 1 /\ ~(k + 1 <= i)
    BY <1>1, <1>9
  <2>2. w[k + 1] \in Entries /\ x[k + 1] = w[k + 1]
    BY <1>1, <1>3, <2>1
  <2>3. /\ u[k + 1] = IF w[k + 1] = NoRating THEN u[k] ELSE Append(u[k], w[k + 1])
        /\ v[k + 1] = IF w[k + 1] = NoRating THEN v[k] ELSE Append(v[k], w[k + 1])
    BY <1>4, <1>5, <2>1, <2>2
  <2> QED BY <2>2, <2>3 DEF Entries
<1>10. /\ w[i] = NoRating => u[i] = u[i - 1]
       /\ w[i] # NoRating => w[i] \in Grades /\ u[i] = Append(u[i - 1], w[i])
  BY <1>1, <1>4 DEF Entries
<1>11. CASE w[i] = NoRating
  <2> DEFINE G == {k \in Nat : i <= k /\ k <= n => Led(u[k], v[k], r)}
  <2>1. 0 \in G
    BY <1>1
  <2>2. ASSUME NEW k \in Nat, k \in G
        PROVE  k + 1 \in G
    <3> SUFFICES ASSUME i <= k + 1, k + 1 <= n PROVE Led(u[k + 1], v[k + 1], r)
      OBVIOUS
    <3>1. CASE k + 1 = i
      BY <1>8, <1>10, <1>11, <3>1
    <3>2. CASE k + 1 # i
      <4>1. k + 1 > i /\ i <= k /\ k <= n
        BY <1>1, <3>2
      <4>2. Led(u[k], v[k], r)
        BY <2>2, <4>1
      <4> QED BY <1>9, <4>1, <4>2, LedByOne
    <3> QED BY <3>1, <3>2
  <2>3. n \in G
    <3> HIDE DEF G
    <3> QED BY <1>1, <2>1, <2>2, UpFromZero
  <2>4. Led(u[n], v[n], r)
    BY <1>1, <2>3
  <2> QED BY <1>4, <1>5, <2>4 DEF x
<1>12. CASE w[i] # NoRating
  <2> DEFINE j == Len(u[i - 1]) + 1
             G == {k \in Nat : i <= k /\ k <= n => Displaced(u[k], v[k], r, j)}
  <2>1. 0 \in G
    BY <1>1
  <2>2. Displaced(u[i], v[i], r, j)
    BY <1>8, <1>10, <1>12, LedByOne
  <2> HIDE DEF j
  <2>3. ASSUME NEW k \in Nat, k \in G
        PROVE  k + 1 \in G
    <3> SUFFICES ASSUME i <= k + 1, k + 1 <= n PROVE Displaced(u[k + 1], v[k + 1], r, j)
      OBVIOUS
    <3>1. CASE k + 1 = i
      BY <2>2, <3>1
    <3>2. CASE k + 1 # i
      <4>1. k + 1 > i /\ i <= k /\ k <= n
        BY <1>1, <3>2
      <4>2. Displaced(u[k], v[k], r, j)
        BY <2>3, <4>1
      <4> QED BY <1>9, <4>1, <4>2, DisplacedByOne
    <3> QED BY <3>1, <3>2
  <2>4. n \in G
    <3> HIDE DEF G
    <3> QED BY <1>1, <2>1, <2>3, UpFromZero
  <2>5. Displaced(u[n], v[n], r, j)
    BY <1>1, <2>4
  <2>6. j \in 1..Len(u[n])
    BY <2>5 DEF Displaced
  <2> QED BY <1>4, <1>5, <2>5, <2>6 DEF x
<1> QED BY <1>11, <1>12

----------------------------------------------------------------------------
(* Layer 1 *)

\* Integers that stand for the ratings, and what they average to.
Stand(g, n, a, b, c, d, e) ==
    /\ a = g[1]
    /\ n >= 2 => b = g[2]
    /\ n >= 3 => c = g[3]
    /\ n >= 4 => d = g[4]
    /\ n >= 5 => e = g[5]

Averages(n, a, b, c, d, e, X, D) ==
    /\ n = 1 => X = 35 * a /\ D = 35
    /\ n = 2 => X = 35 * a + 25 * b /\ D = 60
    /\ n = 3 => X = 35 * a + 25 * b + 20 * c /\ D = 80
    /\ n = 4 => X = 35 * a + 25 * b + 20 * c + 12 * d /\ D = 92
    /\ n = 5 => X = 35 * a + 25 * b + 20 * c + 12 * d + 8 * e /\ D = 100

\* Layer 1 written out, in integers for the provers' arithmetic.
LEMMA Layer1InIntegers ==
    ASSUME NEW g \in Seq(Nat), NEW n \in 1..5, n = Len(g)
    PROVE  \E a \in Int, b \in Int, c \in Int, d \in Int, e \in Int, X \in Int, D \in Int :
              /\ compute_layer1_rating(g) = Over(X, D)
              /\ Stand(g, n, a, b, c, d, e) /\ Averages(n, a, b, c, d, e, X, D)
<1> DEFINE f == [i \in 1..n |-> LAYER1_WEIGHTS[i] * g[i]]
           W == LAYER1_WEIGHTS
           N == SumFunctionOnSet(f, 1..n)
           M == SumFunctionOnSet(W, 1..n)
           o(i) == IF i <= n THEN g[i] ELSE 0
<1>1. DOMAIN g = 1..n /\ \A i \in 1..n : g[i] \in Int
  OBVIOUS
<1>2. compute_layer1_rating(g) = Over(N, M)
  BY <1>1 DEF compute_layer1_rating
<1>3. W[1] = 35 /\ W[2] = 25 /\ W[3] = 20 /\ W[4] = 12 /\ W[5] = 8
  BY DEF LAYER1_WEIGHTS
<1>4. \A i \in 1..n : f[i] = W[i] * g[i]
  OBVIOUS
<1> HIDE DEF f, W
<1>5. \A i \in 1..n : W[i] \in Int
  <2>1. \A i \in {1, 2, 3, 4, 5} : W[i] \in Int
    BY <1>3
  <2>2. 1..n \subseteq {1, 2, 3, 4, 5}
    OBVIOUS
  <2> QED BY <2>1, <2>2
<1>6. \A i \in 1..n : f[i] \in Int
  BY <1>1, <1>4, <1>5, ProductInt
<1>7. /\ n = 1 => N = f[1]
      /\ n = 2 => N = f[1] + f[2]
      /\ n = 3 => N = f[1] + f[2] + f[3]
      /\ n = 4 => N = f[1] + f[2] + f[3] + f[4]
      /\ n = 5 => N = f[1] + f[2] + f[3] + f[4] + f[5]
  BY <1>6, SumOfFive
<1>8. /\ n = 1 => M = W[1]
      /\ n = 2 => M = W[1] + W[2]
      /\ n = 3 => M = W[1] + W[2] + W[3]
      /\ n = 4 => M = W[1] + W[2] + W[3] + W[4]
      /\ n = 5 => M = W[1] + W[2] + W[3] + W[4] + W[5]
  BY <1>5, SumOfFive
<1> HIDE DEF N, M
<1>9. \A i \in 1..5 : o(i) \in Int /\ (i <= n => o(i) = g[i])
  BY <1>1
<1>10. PICK a \in Int, b \in Int, c \in Int, d \in Int, e \in Int : Stand(g, n, a, b, c, d, e)
  <2> HIDE DEF o
  <2>1. /\ o(1) \in Int /\ o(2) \in Int /\ o(3) \in Int /\ o(4) \in Int /\ o(5) \in Int
        /\ Stand(g, n, o(1), o(2), o(3), o(4), o(5))
    BY <1>9 DEF Stand
  <2> QED BY <2>1
<1>11. /\ f[1] = 35 * a
       /\ n >= 2 => f[2] = 25 * b
       /\ n >= 3 => f[3] = 20 * c
       /\ n >= 4 => f[4] = 12 * d
       /\ n >= 5 => f[5] = 8 * e
  <2>1. /\ f[1] = W[1] * g[1]
        /\ n >= 2 => f[2] = W[2] * g[2]
        /\ n >= 3 => f[3] = W[3] * g[3]
        /\ n >= 4 => f[4] = W[4] * g[4]
        /\ n >= 5 => f[5] = W[5] * g[5]
    <3>1. 1 \in 1..n /\ (n >= 2 => 2 \in 1..n) /\ (n >= 3 => 3 \in 1..n)
          /\ (n >= 4 => 4 \in 1..n) /\ (n >= 5 => 5 \in 1..n)
      OBVIOUS
    <3> QED BY <1>4, <3>1
  <2> QED BY <1>3, <1>10, <2>1 DEF Stand
<1>12. CASE n = 1
  <2>1. f[1] = 35 * a
    BY <1>11, <1>12
  <2>2. N = 35 * a
    BY <1>7, <1>12, <2>1
  <2>3. M = 35
    BY <1>3, <1>8, <1>12
  <2>4. 35 * a \in Int /\ 35 \in Int
    OBVIOUS
  <2>5. Averages(n, a, b, c, d, e, 35 * a, 35)
    BY <1>12 DEF Averages
  <2> QED BY <1>2, <1>10, <2>2, <2>3, <2>4, <2>5
<1>13. CASE n = 2
  <2>1. f[1] = 35 * a /\ f[2] = 25 * b
    BY <1>11, <1>13
  <2>2. N = 35 * a + 25 * b
    BY <1>7, <1>13, <2>1
  <2>3. M = 60
    BY <1>3, <1>8, <1>13
  <2>4. 35 * a + 25 * b \in Int /\ 60 \in Int
    OBVIOUS
  <2>5. Averages(n, a, b, c, d, e, 35 * a + 25 * b, 60)
    BY <1>13 DEF Averages
  <2> QED BY <1>2, <1>10, <2>2, <2>3, <2>4, <2>5
<1>14. CASE n = 3
  <2>1. f[1] = 35 * a /\ f[2] = 25 * b /\ f[3] = 20 * c
    BY <1>11, <1>14
  <2>2. N = 35 * a + 25 * b + 20 * c
    BY <1>7, <1>14, <2>1
  <2>3. M = 80
    BY <1>3, <1>8, <1>14
  <2>4. 35 * a + 25 * b + 20 * c \in Int /\ 80 \in Int
    OBVIOUS
  <2>5. Averages(n, a, b, c, d, e, 35 * a + 25 * b + 20 * c, 80)
    BY <1>14 DEF Averages
  <2> QED BY <1>2, <1>10, <2>2, <2>3, <2>4, <2>5
<1>15. CASE n = 4
  <2>1. f[1] = 35 * a /\ f[2] = 25 * b /\ f[3] = 20 * c /\ f[4] = 12 * d
    BY <1>11, <1>15
  <2>2. N = 35 * a + 25 * b + 20 * c + 12 * d
    BY <1>7, <1>15, <2>1
  <2>3. M = 92
    BY <1>3, <1>8, <1>15
  <2>4. 35 * a + 25 * b + 20 * c + 12 * d \in Int /\ 92 \in Int
    OBVIOUS
  <2>5. Averages(n, a, b, c, d, e, 35 * a + 25 * b + 20 * c + 12 * d, 92)
    BY <1>15 DEF Averages
  <2> QED BY <1>2, <1>10, <2>2, <2>3, <2>4, <2>5
<1>16. CASE n = 5
  <2>1. f[1] = 35 * a /\ f[2] = 25 * b /\ f[3] = 20 * c /\ f[4] = 12 * d /\ f[5] = 8 * e
    BY <1>11, <1>16
  <2>2. N = 35 * a + 25 * b + 20 * c + 12 * d + 8 * e
    BY <1>7, <1>16, <2>1
  <2>3. M = 100
    BY <1>3, <1>8, <1>16
  <2>4. 35 * a + 25 * b + 20 * c + 12 * d + 8 * e \in Int /\ 100 \in Int
    OBVIOUS
  <2>5. Averages(n, a, b, c, d, e, 35 * a + 25 * b + 20 * c + 12 * d + 8 * e, 100)
    BY <1>16 DEF Averages
  <2> QED BY <1>2, <1>10, <2>2, <2>3, <2>4, <2>5
<1>17. n = 1 \/ n = 2 \/ n = 3 \/ n = 4 \/ n = 5
  OBVIOUS
<1> QED BY <1>12, <1>13, <1>14, <1>15, <1>16, <1>17

\* Layer 1 lies between the worst and the best of the ratings.
LEMMA Layer1WithinEvidence ==
    ASSUME NEW g \in Seq(Nat), Len(g) \in 1..5
    PROVE  /\ \E i \in 1..Len(g) : AtMost(Over(g[i], 1), compute_layer1_rating(g))
           /\ \E i \in 1..Len(g) : AtMost(compute_layer1_rating(g), Over(g[i], 1))
<1>1. PICK n \in 1..5 : n = Len(g)
  OBVIOUS
<1>2. PICK a \in Int, b \in Int, c \in Int, d \in Int, e \in Int, X \in Int, D \in Int :
        /\ compute_layer1_rating(g) = Over(X, D)
        /\ Stand(g, n, a, b, c, d, e) /\ Averages(n, a, b, c, d, e, X, D)
  BY <1>1, Layer1InIntegers
<1>3. \A x \in Int : /\ AtMost(Over(x, 1), Over(X, D)) <=> x * D <= X
                     /\ AtMost(Over(X, D), Over(x, 1)) <=> X <= x * D
  BY DEF AtMost, Over
<1>4. /\ \/ AtMost(Over(g[1], 1), Over(X, D))
         \/ n >= 2 /\ AtMost(Over(g[2], 1), Over(X, D))
         \/ n >= 3 /\ AtMost(Over(g[3], 1), Over(X, D))
         \/ n >= 4 /\ AtMost(Over(g[4], 1), Over(X, D))
         \/ n >= 5 /\ AtMost(Over(g[5], 1), Over(X, D))
      /\ \/ AtMost(Over(X, D), Over(g[1], 1))
         \/ n >= 2 /\ AtMost(Over(X, D), Over(g[2], 1))
         \/ n >= 3 /\ AtMost(Over(X, D), Over(g[3], 1))
         \/ n >= 4 /\ AtMost(Over(X, D), Over(g[4], 1))
         \/ n >= 5 /\ AtMost(Over(X, D), Over(g[5], 1))
  <2>1. /\ \/ a * D <= X
           \/ n >= 2 /\ b * D <= X
           \/ n >= 3 /\ c * D <= X
           \/ n >= 4 /\ d * D <= X
           \/ n >= 5 /\ e * D <= X
        /\ \/ X <= a * D
           \/ n >= 2 /\ X <= b * D
           \/ n >= 3 /\ X <= c * D
           \/ n >= 4 /\ X <= d * D
           \/ n >= 5 /\ X <= e * D
    <3>1. CASE n = 1
      <4>1. X = 35 * a /\ D = 35
        BY <1>2, <3>1 DEF Averages
      <4> QED BY <3>1, <4>1
    <3>2. CASE n = 2
      <4>1. X = 35 * a + 25 * b /\ D = 60
        BY <1>2, <3>2 DEF Averages
      <4> QED BY <3>2, <4>1
    <3>3. CASE n = 3
      <4>1. X = 35 * a + 25 * b + 20 * c /\ D = 80
        BY <1>2, <3>3 DEF Averages
      <4> QED BY <3>3, <4>1
    <3>4. CASE n = 4
      <4>1. X = 35 * a + 25 * b + 20 * c + 12 * d /\ D = 92
        BY <1>2, <3>4 DEF Averages
      <4> QED BY <3>4, <4>1
    <3>5. CASE n = 5
      <4>1. X = 35 * a + 25 * b + 20 * c + 12 * d + 8 * e /\ D = 100
        BY <1>2, <3>5 DEF Averages
      <4> QED BY <3>5, <4>1
    <3>6. n = 1 \/ n = 2 \/ n = 3 \/ n = 4 \/ n = 5
      OBVIOUS
    <3> QED BY <3>1, <3>2, <3>3, <3>4, <3>5, <3>6
  <2>2. /\ AtMost(Over(a, 1), Over(X, D)) <=> a * D <= X
        /\ AtMost(Over(b, 1), Over(X, D)) <=> b * D <= X
        /\ AtMost(Over(c, 1), Over(X, D)) <=> c * D <= X
        /\ AtMost(Over(d, 1), Over(X, D)) <=> d * D <= X
        /\ AtMost(Over(e, 1), Over(X, D)) <=> e * D <= X
        /\ AtMost(Over(X, D), Over(a, 1)) <=> X <= a * D
        /\ AtMost(Over(X, D), Over(b, 1)) <=> X <= b * D
        /\ AtMost(Over(X, D), Over(c, 1)) <=> X <= c * D
        /\ AtMost(Over(X, D), Over(d, 1)) <=> X <= d * D
        /\ AtMost(Over(X, D), Over(e, 1)) <=> X <= e * D
    BY <1>3
  <2>3. /\ a = g[1]
        /\ n >= 2 => b = g[2]
        /\ n >= 3 => c = g[3]
        /\ n >= 4 => d = g[4]
        /\ n >= 5 => e = g[5]
    BY <1>2 DEF Stand
  <2> QED BY <2>1, <2>2, <2>3
<1>5. 1 \in 1..n /\ (n >= 2 => 2 \in 1..n) /\ (n >= 3 => 3 \in 1..n)
      /\ (n >= 4 => 4 \in 1..n) /\ (n >= 5 => 5 \in 1..n)
  OBVIOUS
<1> QED BY <1>1, <1>2, <1>4, <1>5

\* A rating put before others, the oldest of them lost or not, moves the average its way.
LEMMA NewestMoves ==
    ASSUME NEW old \in Seq(Nat), NEW new \in Seq(Nat), NEW k \in 0..4,
           Len(old) \in 1..5, Len(old) = k \/ Len(old) = k + 1, Len(new) = k + 1,
           \A i \in 1..k : new[i + 1] = old[i]
    PROVE  /\ (\A i \in 1..Len(old) : old[i] <= new[1]) =>
                 AtMost(compute_layer1_rating(old), compute_layer1_rating(new))
           /\ (\A i \in 1..Len(old) : old[i] >= new[1]) =>
                 AtMost(compute_layer1_rating(new), compute_layer1_rating(old))
<1>1. PICK n \in 1..5 : n = Len(old)
  OBVIOUS
<1>2. PICK m \in 1..5 : m = Len(new)
  OBVIOUS
<1>3. m = k + 1 /\ (n = k \/ n = k + 1)
  BY <1>1, <1>2
<1>4. PICK a \in Int, b \in Int, c \in Int, d \in Int, e \in Int, X \in Int, D \in Int :
         /\ compute_layer1_rating(old) = Over(X, D)
         /\ Stand(old, n, a, b, c, d, e) /\ Averages(n, a, b, c, d, e, X, D)
  BY <1>1, Layer1InIntegers
<1>5. PICK r \in Int, p \in Int, q \in Int, s \in Int, t \in Int, Y \in Int, E \in Int :
         /\ compute_layer1_rating(new) = Over(Y, E)
         /\ Stand(new, m, r, p, q, s, t) /\ Averages(m, r, p, q, s, t, Y, E)
  BY <1>2, Layer1InIntegers
<1>6. /\ r = new[1]
      /\ m >= 2 => p = a
      /\ m >= 3 => q = b
      /\ m >= 4 => s = c
      /\ m >= 5 => t = d
  <2>1. /\ m >= 2 => new[2] = old[1] /\ n >= 1
        /\ m >= 3 => new[3] = old[2] /\ n >= 2
        /\ m >= 4 => new[4] = old[3] /\ n >= 3
        /\ m >= 5 => new[5] = old[4] /\ n >= 4
    <3>1. /\ m >= 2 => 1 \in 1..k /\ n >= 1
          /\ m >= 3 => 2 \in 1..k /\ n >= 2
          /\ m >= 4 => 3 \in 1..k /\ n >= 3
          /\ m >= 5 => 4 \in 1..k /\ n >= 4
      <4>1. CASE k = 0
        BY <1>3, <4>1
      <4>2. CASE k = 1
        BY <1>3, <4>2
      <4>3. CASE k = 2
        BY <1>3, <4>3
      <4>4. CASE k = 3
        BY <1>3, <4>4
      <4>5. CASE k = 4
        BY <1>3, <4>5
      <4> QED BY <4>1, <4>2, <4>3, <4>4, <4>5
    <3>2. /\ 1 \in 1..k => new[2] = old[1]
          /\ 2 \in 1..k => new[3] = old[2]
          /\ 3 \in 1..k => new[4] = old[3]
          /\ 4 \in 1..k => new[5] = old[4]
      OBVIOUS
    <3> QED BY <3>1, <3>2
  <2> QED BY <1>4, <1>5, <2>1 DEF Stand
<1>7. /\ a <= r /\ (n >= 2 => b <= r) /\ (n >= 3 => c <= r) /\ (n >= 4 => d <= r)
           /\ (n >= 5 => e <= r) => X * E <= Y * D
      /\ a >= r /\ (n >= 2 => b >= r) /\ (n >= 3 => c >= r) /\ (n >= 4 => d >= r)
           /\ (n >= 5 => e >= r) => Y * D <= X * E
  <2>1. m = n \/ m = n + 1
    BY <1>3
  <2>2. Averages(n, a, b, c, d, e, X, D) /\ Averages(m, r, p, q, s, t, Y, E)
    BY <1>4, <1>5
  <2>4. CASE n = 1 /\ m = 1
    <3>1. X = 35 * a /\ D = 35
      BY <2>2, <2>4 DEF Averages
    <3>2. Y = 35 * r /\ E = 35
      BY <1>6, <2>2, <2>4 DEF Averages
    <3> QED BY <2>4, <3>1, <3>2
  <2>5. CASE n = 1 /\ m = 2
    <3>1. X = 35 * a /\ D = 35
      BY <2>2, <2>5 DEF Averages
    <3>2. Y = 35 * r + 25 * a /\ E = 60
      BY <1>6, <2>2, <2>5 DEF Averages
    <3> QED BY <2>5, <3>1, <3>2
  <2>6. CASE n = 2 /\ m = 2
    <3>1. X = 35 * a + 25 * b /\ D = 60
      BY <2>2, <2>6 DEF Averages
    <3>2. Y = 35 * r + 25 * a /\ E = 60
      BY <1>6, <2>2, <2>6 DEF Averages
    <3> QED BY <2>6, <3>1, <3>2
  <2>7. CASE n = 2 /\ m = 3
    <3>1. X = 35 * a + 25 * b /\ D = 60
      BY <2>2, <2>7 DEF Averages
    <3>2. Y = 35 * r + 25 * a + 20 * b /\ E = 80
      BY <1>6, <2>2, <2>7 DEF Averages
    <3> QED BY <2>7, <3>1, <3>2
  <2>8. CASE n = 3 /\ m = 3
    <3>1. X = 35 * a + 25 * b + 20 * c /\ D = 80
      BY <2>2, <2>8 DEF Averages
    <3>2. Y = 35 * r + 25 * a + 20 * b /\ E = 80
      BY <1>6, <2>2, <2>8 DEF Averages
    <3> QED BY <2>8, <3>1, <3>2
  <2>9. CASE n = 3 /\ m = 4
    <3>1. X = 35 * a + 25 * b + 20 * c /\ D = 80
      BY <2>2, <2>9 DEF Averages
    <3>2. Y = 35 * r + 25 * a + 20 * b + 12 * c /\ E = 92
      BY <1>6, <2>2, <2>9 DEF Averages
    <3> QED BY <2>9, <3>1, <3>2
  <2>10. CASE n = 4 /\ m = 4
    <3>1. X = 35 * a + 25 * b + 20 * c + 12 * d /\ D = 92
      BY <2>2, <2>10 DEF Averages
    <3>2. Y = 35 * r + 25 * a + 20 * b + 12 * c /\ E = 92
      BY <1>6, <2>2, <2>10 DEF Averages
    <3> QED BY <2>10, <3>1, <3>2
  <2>11. CASE n = 4 /\ m = 5
    <3>1. X = 35 * a + 25 * b + 20 * c + 12 * d /\ D = 92
      BY <2>2, <2>11 DEF Averages
    <3>2. Y = 35 * r + 25 * a + 20 * b + 12 * c + 8 * d /\ E = 100
      BY <1>6, <2>2, <2>11 DEF Averages
    <3> QED BY <2>11, <3>1, <3>2
  <2>12. CASE n = 5 /\ m = 5
    <3>1. X = 35 * a + 25 * b + 20 * c + 12 * d + 8 * e /\ D = 100
      BY <2>2, <2>12 DEF Averages
    <3>2. Y = 35 * r + 25 * a + 20 * b + 12 * c + 8 * d /\ E = 100
      BY <1>6, <2>2, <2>12 DEF Averages
    <3> QED BY <2>12, <3>1, <3>2
  <2>3. \/ n = 1 /\ m = 1
        \/ n = 1 /\ m = 2
        \/ n = 2 /\ m = 2
        \/ n = 2 /\ m = 3
        \/ n = 3 /\ m = 3
        \/ n = 3 /\ m = 4
        \/ n = 4 /\ m = 4
        \/ n = 4 /\ m = 5
        \/ n = 5 /\ m = 5
    BY <2>1
  <2> QED BY <2>3, <2>4, <2>5, <2>6, <2>7, <2>8, <2>9, <2>10, <2>11, <2>12
<1>8. ASSUME \A i \in 1..n : old[i] <= new[1]
      PROVE  X * E <= Y * D
  <2>1. /\ a <= r
        /\ n >= 2 => b <= r
        /\ n >= 3 => c <= r
        /\ n >= 4 => d <= r
        /\ n >= 5 => e <= r
    <3>1. 1 \in 1..n /\ (n >= 2 => 2 \in 1..n) /\ (n >= 3 => 3 \in 1..n)
          /\ (n >= 4 => 4 \in 1..n) /\ (n >= 5 => 5 \in 1..n)
      OBVIOUS
    <3>2. /\ old[1] <= new[1]
          /\ n >= 2 => old[2] <= new[1]
          /\ n >= 3 => old[3] <= new[1]
          /\ n >= 4 => old[4] <= new[1]
          /\ n >= 5 => old[5] <= new[1]
      BY <1>8, <3>1
    <3> QED BY <1>4, <1>6, <3>2 DEF Stand
  <2> QED BY <1>7, <2>1
<1>9. ASSUME \A i \in 1..n : old[i] >= new[1]
      PROVE  Y * D <= X * E
  <2>1. /\ a >= r
        /\ n >= 2 => b >= r
        /\ n >= 3 => c >= r
        /\ n >= 4 => d >= r
        /\ n >= 5 => e >= r
    <3>1. 1 \in 1..n /\ (n >= 2 => 2 \in 1..n) /\ (n >= 3 => 3 \in 1..n)
          /\ (n >= 4 => 4 \in 1..n) /\ (n >= 5 => 5 \in 1..n)
      OBVIOUS
    <3>2. /\ old[1] >= new[1]
          /\ n >= 2 => old[2] >= new[1]
          /\ n >= 3 => old[3] >= new[1]
          /\ n >= 4 => old[4] >= new[1]
          /\ n >= 5 => old[5] >= new[1]
      BY <1>9, <3>1
    <3> QED BY <1>4, <1>6, <3>2 DEF Stand
  <2> QED BY <1>7, <2>1
<1> QED BY <1>1, <1>2, <1>4, <1>5, <1>8, <1>9 DEF AtMost, Over

\* A rating put before others in place of one of them moves the average its way.
LEMMA InPlaceMoves ==
    ASSUME NEW old \in Seq(Nat), NEW new \in Seq(Nat), Len(old) \in 1..5, Len(new) = Len(old),
           NEW j \in 1..Len(old),
           \A k \in 1..Len(old) : k > 1 => new[k] = IF k <= j THEN old[k - 1] ELSE old[k]
    PROVE  /\ (\A i \in 1..Len(old) : old[i] <= new[1]) =>
                 AtMost(compute_layer1_rating(old), compute_layer1_rating(new))
           /\ (\A i \in 1..Len(old) : old[i] >= new[1]) =>
                 AtMost(compute_layer1_rating(new), compute_layer1_rating(old))
<1>1. PICK n \in 1..5 : n = Len(old)
  OBVIOUS
<1>2. PICK a \in Int, b \in Int, c \in Int, d \in Int, e \in Int, X \in Int, D \in Int :
         /\ compute_layer1_rating(old) = Over(X, D)
         /\ Stand(old, n, a, b, c, d, e) /\ Averages(n, a, b, c, d, e, X, D)
  BY <1>1, Layer1InIntegers
<1>3. PICK r \in Int, p \in Int, q \in Int, s \in Int, t \in Int, Y \in Int, E \in Int :
         /\ compute_layer1_rating(new) = Over(Y, E)
         /\ Stand(new, n, r, p, q, s, t) /\ Averages(n, r, p, q, s, t, Y, E)
  BY <1>1, Layer1InIntegers
<1>4. 1 \in 1..n /\ (n >= 2 => 2 \in 1..n) /\ (n >= 3 => 3 \in 1..n)
      /\ (n >= 4 => 4 \in 1..n) /\ (n >= 5 => 5 \in 1..n)
  OBVIOUS
<1>13. PICK l \in Int : l = j /\ l >= 1 /\ l <= n
  BY <1>1
<1>5. /\ n >= 2 => (l >= 2 => p = a) /\ (l < 2 => p = b)
      /\ n >= 3 => (l >= 3 => q = b) /\ (l < 3 => q = c)
      /\ n >= 4 => (l >= 4 => s = c) /\ (l < 4 => s = d)
      /\ n >= 5 => (l >= 5 => t = d) /\ (l < 5 => t = e)
  <2>1. \A k \in 1..n : k > 1 => /\ k <= l => new[k] = old[k - 1]
                                 /\ ~(k <= l) => new[k] = old[k]
    BY <1>1, <1>13
  <2>2. 2 - 1 = 1 /\ 3 - 1 = 2 /\ 4 - 1 = 3 /\ 5 - 1 = 4 /\ 2 > 1 /\ 3 > 1 /\ 4 > 1 /\ 5 > 1
    OBVIOUS
  <2>3. /\ l < 2 <=> ~(2 <= l)
        /\ l < 3 <=> ~(3 <= l)
        /\ l < 4 <=> ~(4 <= l)
        /\ l < 5 <=> ~(5 <= l)
        /\ l >= 2 <=> 2 <= l
        /\ l >= 3 <=> 3 <= l
        /\ l >= 4 <=> 4 <= l
        /\ l >= 5 <=> 5 <= l
    OBVIOUS
  <2>4. ASSUME n >= 2 PROVE (l >= 2 => p = a) /\ (l < 2 => p = b)
    <3>1. a = old[1] /\ b = old[2] /\ p = new[2]
      BY <1>2, <1>3, <2>4 DEF Stand
    <3>2. /\ 2 <= l => new[2] = old[2 - 1]
          /\ ~(2 <= l) => new[2] = old[2]
      <4>1. 2 \in 1..n
        BY <1>4, <2>4
      <4> QED BY <2>1, <2>2, <4>1
    <3> QED BY <2>2, <2>3, <3>1, <3>2
  <2>5. ASSUME n >= 3 PROVE (l >= 3 => q = b) /\ (l < 3 => q = c)
    <3>1. b = old[2] /\ c = old[3] /\ q = new[3]
      BY <1>2, <1>3, <2>5 DEF Stand
    <3>2. /\ 3 <= l => new[3] = old[3 - 1]
          /\ ~(3 <= l) => new[3] = old[3]
      <4>1. 3 \in 1..n
        BY <1>4, <2>5
      <4> QED BY <2>1, <2>2, <4>1
    <3> QED BY <2>2, <2>3, <3>1, <3>2
  <2>6. ASSUME n >= 4 PROVE (l >= 4 => s = c) /\ (l < 4 => s = d)
    <3>1. c = old[3] /\ d = old[4] /\ s = new[4]
      BY <1>2, <1>3, <2>6 DEF Stand
    <3>2. /\ 4 <= l => new[4] = old[4 - 1]
          /\ ~(4 <= l) => new[4] = old[4]
      <4>1. 4 \in 1..n
        BY <1>4, <2>6
      <4> QED BY <2>1, <2>2, <4>1
    <3> QED BY <2>2, <2>3, <3>1, <3>2
  <2>7. ASSUME n >= 5 PROVE (l >= 5 => t = d) /\ (l < 5 => t = e)
    <3>1. d = old[4] /\ e = old[5] /\ t = new[5]
      BY <1>2, <1>3, <2>7 DEF Stand
    <3>2. /\ 5 <= l => new[5] = old[5 - 1]
          /\ ~(5 <= l) => new[5] = old[5]
      <4>1. 5 \in 1..n
        BY <1>4, <2>7
      <4> QED BY <2>1, <2>2, <4>1
    <3> QED BY <2>2, <2>3, <3>1, <3>2
  <2> QED BY <2>4, <2>5, <2>6, <2>7
<1>6. r = new[1]
  BY <1>3 DEF Stand
<1>7. /\ D = E /\ D \in Nat
      /\ (a <= r /\ (n >= 2 => b <= r) /\ (n >= 3 => c <= r) /\ (n >= 4 => d <= r)
          /\ (n >= 5 => e <= r)) => X <= Y
      /\ (a >= r /\ (n >= 2 => b >= r) /\ (n >= 3 => c >= r) /\ (n >= 4 => d >= r)
          /\ (n >= 5 => e >= r)) => Y <= X
  <2>1. CASE n = 1
    <3>1. X = 35 * a /\ D = 35 /\ Y = 35 * r /\ E = 35
      BY <1>2, <1>3, <2>1 DEF Averages
    <3> QED BY <2>1, <3>1
  <2>2. CASE n = 2
    <3>1. X = 35 * a + 25 * b /\ D = 60 /\ Y = 35 * r + 25 * p /\ E = 60
      BY <1>2, <1>3, <2>2 DEF Averages
    <3> QED BY <1>5, <2>2, <3>1
  <2>3. CASE n = 3
    <3>1. X = 35 * a + 25 * b + 20 * c /\ D = 80 /\ Y = 35 * r + 25 * p + 20 * q /\ E = 80
      BY <1>2, <1>3, <2>3 DEF Averages
    <3> QED BY <1>5, <2>3, <3>1
  <2>4. CASE n = 4
    <3>1. /\ X = 35 * a + 25 * b + 20 * c + 12 * d /\ D = 92
          /\ Y = 35 * r + 25 * p + 20 * q + 12 * s /\ E = 92
      BY <1>2, <1>3, <2>4 DEF Averages
    <3> QED BY <1>5, <2>4, <3>1
  <2>5. CASE n = 5
    <3>1. /\ X = 35 * a + 25 * b + 20 * c + 12 * d + 8 * e /\ D = 100
          /\ Y = 35 * r + 25 * p + 20 * q + 12 * s + 8 * t /\ E = 100
      BY <1>2, <1>3, <2>5 DEF Averages
    <3> QED BY <1>5, <2>5, <3>1
  <2>6. n = 1 \/ n = 2 \/ n = 3 \/ n = 4 \/ n = 5
    OBVIOUS
  <2> QED BY <2>1, <2>2, <2>3, <2>4, <2>5, <2>6
<1>8. /\ a = old[1]
      /\ n >= 2 => b = old[2]
      /\ n >= 3 => c = old[3]
      /\ n >= 4 => d = old[4]
      /\ n >= 5 => e = old[5]
  BY <1>2 DEF Stand
<1>9. ASSUME X <= Y PROVE AtMost(compute_layer1_rating(old), compute_layer1_rating(new))
  <2>1. X * D <= Y * D
    BY <1>7, <1>9, ProductGrows
  <2> QED BY <1>2, <1>3, <1>7, <2>1 DEF AtMost, Over
<1>10. ASSUME Y <= X PROVE AtMost(compute_layer1_rating(new), compute_layer1_rating(old))
  <2>1. Y * D <= X * D
    BY <1>7, <1>10, ProductGrows
  <2> QED BY <1>2, <1>3, <1>7, <2>1 DEF AtMost, Over
<1>11. ASSUME \A i \in 1..Len(old) : old[i] <= new[1]
       PROVE  X <= Y
  <2>1. /\ old[1] <= r
        /\ n >= 2 => old[2] <= r
        /\ n >= 3 => old[3] <= r
        /\ n >= 4 => old[4] <= r
        /\ n >= 5 => old[5] <= r
    BY <1>1, <1>4, <1>6, <1>11
  <2> QED BY <1>7, <1>8, <2>1
<1>12. ASSUME \A i \in 1..Len(old) : old[i] >= new[1]
       PROVE  Y <= X
  <2>1. /\ old[1] >= r
        /\ n >= 2 => old[2] >= r
        /\ n >= 3 => old[3] >= r
        /\ n >= 4 => old[4] >= r
        /\ n >= 5 => old[5] >= r
    BY <1>1, <1>4, <1>6, <1>12
  <2> QED BY <1>7, <1>8, <2>1
<1> QED BY <1>9, <1>10, <1>11, <1>12

----------------------------------------------------------------------------
(* The window and the sheet *)

\* Types, and the limit of the query.
FormulaInv ==
    /\ window \in Seq(Entries) /\ Len(window) <= 5
    /\ sheet \in [Peers -> [Stats -> Amounts \cup {NoAmount}]]

\* Ratings are natural numbers.
LEMMA GradesAreNat ==
    ASSUME NEW g \in Seq(Grades)
    PROVE  g \in Seq(Nat)
<1>1. Grades \subseteq Nat
  BY FormulaAssumption
<1>2. Len(g) \in Nat /\ g = [i \in 1..Len(g) |-> g[i]] /\ \A i \in 1..Len(g) : g[i] \in Nat
  BY <1>1
<1>3. g \in [1..Len(g) -> Nat]
  BY <1>2
<1> QED BY <1>2, <1>3

\* Newest limits what it is given.
LEMMA NewestIsWindow ==
    ASSUME NEW w \in Seq(Entries)
    PROVE  Newest(w) \in Seq(Entries) /\ Len(Newest(w)) <= 5
<1>1. CASE Len(w) > 5
  <2>1. 5 <= Len(w) /\ Newest(w) = SubSeq(w, 1, 5)
    BY <1>1 DEF Newest
  <2>2. SubSeq(w, 1, 5) \in Seq(Entries) /\ Len(SubSeq(w, 1, 5)) = 5
    BY <2>1
  <2> QED BY <2>1, <2>2
<1>2. CASE ~(Len(w) > 5)
  BY <1>2 DEF Newest
<1> QED BY <1>1, <1>2

\* No match, no statistics.
LEMMA InitFormulaInv == FormulaInit => FormulaInv
<1> SUFFICES ASSUME FormulaInit PROVE FormulaInv
  OBVIOUS
<1>1. window = <<>> /\ sheet = [p \in Peers |-> NoSheet]
  BY DEF FormulaInit
<1>2. NoSheet \in [Stats -> Amounts \cup {NoAmount}]
  BY DEF NoSheet
<1> QED BY <1>1, <1>2 DEF FormulaInv

\* The steps keep the types.
LEMMA NextKeepsFormulaInv == FormulaInv /\ [FormulaNext]_formulaVars => FormulaInv'
<1> SUFFICES ASSUME FormulaInv, [FormulaNext]_formulaVars PROVE FormulaInv'
  OBVIOUS
<1> USE DEF FormulaInv
<1>1. ASSUME NEW p \in Peers, Collect(p) PROVE FormulaInv'
  BY <1>1 DEF Collect
<1>2. ASSUME NEW r \in Grades \cup {NoRating}, AddMatch(r) PROVE FormulaInv'
  <2>1. <<r>> \o window \in Seq(Entries)
    <3>1. <<r>> \in Seq(Entries)
      BY DEF Entries
    <3> QED BY <3>1
  <2>2. NoSheet \in [Stats -> Amounts \cup {NoAmount}]
    BY DEF NoSheet
  <2>3. window' = Newest(<<r>> \o window) /\ sheet' = [p \in Peers |-> NoSheet]
    BY <1>2 DEF AddMatch
  <2> QED BY <2>1, <2>2, <2>3, NewestIsWindow
<1>3. ASSUME NEW r \in Grades \cup {NoRating}, NEW i \in 1..5, Reprocess(i, r) PROVE FormulaInv'
  <2> DEFINE n == Len(window)
  <2>1. n \in 0..5 /\ DOMAIN window = 1..n /\ \A k \in 1..n : window[k] \in Entries
    <3>1. n \in Nat /\ n <= 5 /\ DOMAIN window = 1..n /\ \A k \in 1..n : window[k] \in Entries
      OBVIOUS
    <3> HIDE DEF n
    <3> QED BY <3>1
  <2>2. i \in 1..n
    BY <1>3, <2>1 DEF Reprocess
  <2>3. \A k \in 1..n : k # 1 /\ k <= i => k - 1 \in 1..n
    BY <2>1, <2>2
  <2>4. r \in Entries
    BY DEF Entries
  <2> HIDE DEF n
  <2>5. window' \in [1..n -> Entries]
    BY <1>3, <2>1, <2>3, <2>4 DEF Reprocess
  <2>6. window' \in Seq(Entries) /\ Len(window') = n
    BY <2>1, <2>5
  <2>7. sheet' \in [Peers -> [Stats -> Amounts \cup {NoAmount}]]
    BY <1>3 DEF Reprocess, NoSheet
  <2> QED BY <2>1, <2>6, <2>7
<1>4. CASE UNCHANGED formulaVars
  BY <1>4 DEF formulaVars
<1> QED BY <1>1, <1>2, <1>3, <1>4 DEF FormulaNext

\* Types hold in every reachable state.
LEMMA FormulaInvariant == FormulaSpec => []FormulaInv
<1> QED BY InitFormulaInv, NextKeepsFormulaInv, PTL DEF FormulaSpec

\* For any ratings, in a window of any history: the newest match pulls a rating to itself.
THEOREM AlwaysNewestMatchDecides == FormulaSpec => NewestMatchDecides
<1> DEFINE Decides ==
      LET before == Rated(window)
          after  == Rated(window')
          old == compute_layer1_rating(before)
          new == compute_layer1_rating(after)
      IN  before # <<>> /\ window' # window /\ window'[1] # NoRating =>
            /\ (\A i \in DOMAIN before : before[i] <= window'[1]) => AtMost(old, new)
            /\ (\A i \in DOMAIN before : before[i] >= window'[1]) => AtMost(new, old)
<1>1. FormulaInv /\ [FormulaNext]_formulaVars => [Decides]_formulaVars
  <2> SUFFICES ASSUME FormulaInv, FormulaNext,
                      Rated(window) # <<>>, window' # window, window'[1] # NoRating
               PROVE  /\ (\A i \in DOMAIN Rated(window) : Rated(window)[i] <= window'[1]) =>
                            AtMost(compute_layer1_rating(Rated(window)), compute_layer1_rating(Rated(window')))
                      /\ (\A i \in DOMAIN Rated(window) : Rated(window)[i] >= window'[1]) =>
                            AtMost(compute_layer1_rating(Rated(window')), compute_layer1_rating(Rated(window)))
    OBVIOUS
  <2> DEFINE old == Rated(window)
             new == Rated(window')
  <2>1. window \in Seq(Entries) /\ Len(window) <= 5 /\ window' \in Seq(Entries) /\ Len(window') <= 5
    BY NextKeepsFormulaInv DEF FormulaInv
  <2>2. /\ old \in Seq(Grades) /\ Len(old) <= Len(window)
        /\ new \in Seq(Grades) /\ Len(new) <= Len(window')
    BY <2>1, RatedIsSeq
  <2>3. old # <<>>
    OBVIOUS
  <2> HIDE DEF old, new
  <2>4. old \in Seq(Nat) /\ new \in Seq(Nat) /\ DOMAIN old = 1..Len(old)
    BY <2>2, GradesAreNat
  <2>5. Len(old) \in 1..5 /\ Len(new) \in 0..5
    <3> DEFINE l == Len(old)
               m == Len(new)
    <3>1. l \in Nat /\ m \in Nat /\ l # 0
      BY <2>3, <2>4
    <3>2. Len(window) \in Nat /\ Len(window') \in Nat
      BY <2>1
    <3>3. l <= 5 /\ m <= 5
      <4> HIDE DEF l, m
      <4> QED BY <2>1, <2>2, <3>1, <3>2 DEF l, m
    <3> HIDE DEF l, m
    <3>4. l \in 1..5 /\ m \in 0..5
      BY <3>1, <3>3
    <3> QED BY <3>4 DEF l, m
  <2> DEFINE Goal == /\ (\A i \in 1..Len(old) : old[i] <= new[1]) =>
                           AtMost(compute_layer1_rating(old), compute_layer1_rating(new))
                     /\ (\A i \in 1..Len(old) : old[i] >= new[1]) =>
                           AtMost(compute_layer1_rating(new), compute_layer1_rating(old))
  <2>6. ASSUME NEW r \in Grades \cup {NoRating}, AddMatch(r)
        PROVE  Goal /\ new[1] = window'[1]
    <3>1. window'[1] = r
      <4> DEFINE y == <<r>> \o window
      <4>1. y \in Seq(Entries) /\ y[1] = r /\ Len(y) = Len(window) + 1
        BY <2>1 DEF Entries
      <4> HIDE DEF y
      <4>2. Newest(y)[1] = r
        <5>1. CASE Len(y) > 5
          <6>1. 5 <= Len(y) /\ 1 \in 1..5
            BY <4>1, <5>1
          <6> QED BY <4>1, <5>1, <6>1 DEF Newest
        <5>2. CASE ~(Len(y) > 5)
          BY <4>1, <5>2 DEF Newest
        <5> QED BY <5>1, <5>2
      <4> QED BY <2>6, <4>2 DEF y, AddMatch
    <3>2. r \in Grades /\ r # NoRating
      BY <3>1
    <3>3. PICK kept \in Seq(Grades) :
            /\ Len(kept) <= 4
            /\ Len(new) = Len(kept) + 1 /\ new[1] = r
            /\ \A i \in 1..Len(kept) : new[i + 1] = kept[i]
            /\ Len(old) = Len(kept) \/ Len(old) = Len(kept) + 1
            /\ \A i \in 1..Len(kept) : old[i] = kept[i]
      BY <2>1, <2>6, <3>2, RatedAfter DEF AddMatch, old, new
    <3>4. Len(kept) \in 0..4
      <4> DEFINE m == Len(kept)
      <4>1. m \in Nat /\ m <= 4
        BY <3>3
      <4> HIDE DEF m
      <4>2. m \in 0..4
        BY <4>1
      <4> QED BY <4>2 DEF m
    <3>5. \A i \in 1..Len(kept) : new[i + 1] = old[i]
      BY <3>3
    <3>6. Goal
      BY <2>4, <2>5, <3>3, <3>4, <3>5, NewestMoves
    <3> QED BY <3>1, <3>3, <3>6
  <2>7. ASSUME NEW r \in Grades \cup {NoRating}, NEW i \in 1..5, Reprocess(i, r)
        PROVE  Goal /\ new[1] = window'[1]
    <3>1. i \in 1..Len(window) /\ window' = Moved(window, i, r) /\ window'[1] = r
      BY <2>1, <2>7 DEF Reprocess, Moved
    <3>2. r \in Grades /\ r # NoRating
      BY <3>1
    <3>3. Led(old, new, r) \/ \E j \in 1..Len(old) : Displaced(old, new, r, j)
      BY <2>1, <3>1, <3>2, RatedMoved DEF old, new
    <3>4. CASE Led(old, new, r)
      <4>1. Len(new) = Len(old) + 1 /\ new[1] = r /\ \A k \in 1..Len(old) : new[k + 1] = old[k]
        BY <3>4 DEF Led
      <4>2. Len(old) \in 0..4
        BY <2>5, <4>1
      <4>3. Goal
        BY <2>4, <2>5, <4>1, <4>2, NewestMoves
      <4> QED BY <3>1, <4>1, <4>3
    <3>5. CASE \E j \in 1..Len(old) : Displaced(old, new, r, j)
      <4>1. PICK j \in 1..Len(old) : Displaced(old, new, r, j)
        BY <3>5
      <4>2. /\ Len(new) = Len(old) /\ new[1] = r
            /\ \A k \in 1..Len(old) : k > 1 => new[k] = IF k <= j THEN old[k - 1] ELSE old[k]
        BY <4>1 DEF Displaced
      <4>3. Goal
        BY <2>4, <2>5, <4>2, InPlaceMoves
      <4> QED BY <3>1, <4>2, <4>3
    <3> QED BY <3>3, <3>4, <3>5
  <2>8. Goal /\ new[1] = window'[1]
    BY <2>6, <2>7 DEF FormulaNext, Collect
  <2> QED BY <2>4, <2>8 DEF old, new
<1> QED BY <1>1, FormulaInvariant, PTL DEF FormulaSpec, NewestMatchDecides

----------------------------------------------------------------------------
(* Layer 2: totals of rationals *)

TotalStep(t, f, s) == IF s = {} THEN Over(0, 1) ELSE Plus(f[First(s)], t[Rest(s)])

IsTotal(t, f, S) == t = [s \in SUBSET S |-> TotalStep(t, f, s)]

\* The recursive definition of a total has a solution, built up by the size of the sets.
LEMMA TotalExists ==
    ASSUME NEW S, IsFiniteSet(S), NEW f
    PROVE  \E t : IsTotal(t, f, S)
<1> DEFINE Small(n) == {s \in SUBSET S : Cardinality(s) <= n}
           F == {n \in Nat : \E t : t = [s \in Small(n) |-> TotalStep(t, f, s)]}
<1>1. \A s \in SUBSET S : IsFiniteSet(s) /\ Cardinality(s) \in Nat
  BY FS_Subset, FS_CardinalityType
<1>2. 0 \in F
  <2>1. \A s \in Small(0) : s = {}
    BY <1>1, FS_EmptySet
  <2>2. [s \in Small(0) |-> Over(0, 1)] = [s \in Small(0) |-> TotalStep([t \in Small(0) |-> Over(0, 1)], f, s)]
    BY <2>1 DEF TotalStep
  <2> QED BY <2>2
<1>3. ASSUME NEW n \in Nat, n \in F
      PROVE  n + 1 \in F
  <2>1. PICK t : t = [s \in Small(n) |-> TotalStep(t, f, s)]
    BY <1>3
  <2> DEFINE h == [s \in Small(n + 1) |-> TotalStep(t, f, s)]
  <2>2. \A s \in Small(n) : s \in Small(n + 1) /\ h[s] = t[s]
    <3>1. \A s \in Small(n) : s \in Small(n + 1)
      BY <1>1
    <3>2. \A s \in Small(n) : t[s] = TotalStep(t, f, s)
      BY <2>1
    <3> QED BY <3>1, <3>2
  <2>3. \A s \in Small(n + 1) : s # {} => Rest(s) \in Small(n)
    <3> SUFFICES ASSUME NEW s \in Small(n + 1), s # {}
                 PROVE  Cardinality(Rest(s)) <= n
      BY DEF Rest
    <3>1. Cardinality(Rest(s)) = Cardinality(s) - 1
      BY <1>1, FirstIsElement, FS_RemoveElement DEF Rest
    <3> QED BY <3>1, <1>1
  <2>4. \A s \in Small(n + 1) : TotalStep(t, f, s) = TotalStep(h, f, s)
    <3> HIDE DEF h
    <3> QED BY <2>2, <2>3 DEF TotalStep
  <2>5. h = [s \in Small(n + 1) |-> TotalStep(h, f, s)]
    BY <2>4
  <2>6. \E k : k = [s \in Small(n + 1) |-> TotalStep(k, f, s)]
    <3> HIDE DEF h
    <3> QED BY <2>5, Zenon
  <2>7. n + 1 \in Nat
    OBVIOUS
  <2> QED BY <2>6, <2>7, Zenon
<1>4. Cardinality(S) \in F
  <2> HIDE DEF F
  <2> QED BY <1>2, <1>3, UpFromZero, FS_CardinalityType
<1>5. Small(Cardinality(S)) = SUBSET S
  BY FS_Subset
<1> QED BY <1>4, <1>5 DEF IsTotal

\* A total is the last of the steps that add one element after another.
LEMMA TotalUnfolds ==
    ASSUME NEW S, IsFiniteSet(S), NEW f
    PROVE  \E t : /\ Total(f, S) = t[S] /\ t[{}] = Over(0, 1)
                  /\ \A T \in SUBSET S : T # {} => t[T] = Plus(f[First(T)], t[Rest(T)])
<1> DEFINE t == CHOOSE k : IsTotal(k, f, S)
<1>1. IsTotal(t, f, S)
  BY TotalExists
<1>2. Total(f, S) = t[S]
  BY DEF Total, FoldFunctionOnSet, MapThenFoldSet, IsTotal, TotalStep, Rest, First
<1> HIDE DEF t
<1>3. t[{}] = Over(0, 1)
  BY <1>1 DEF IsTotal, TotalStep
<1>4. \A T \in SUBSET S : T # {} => t[T] = Plus(f[First(T)], t[Rest(T)])
  BY <1>1 DEF IsTotal, TotalStep
<1> QED BY <1>2, <1>3, <1>4

\* What holds of two totals of nothing, and is kept by one more element in both, holds
\* of the totals over a finite set.
LEMMA TotalsInduction ==
    ASSUME NEW S, IsFiniteSet(S), NEW f, NEW h, NEW F,
           <<{}, Over(0, 1), Over(0, 1)>> \in F,
           \A T \in SUBSET S : \A x \in T : \A y, z :
              <<T \ {x}, y, z>> \in F => <<T, Plus(f[x], y), Plus(h[x], z)>> \in F
    PROVE  <<S, Total(f, S), Total(h, S)>> \in F
<1>1. PICK t : /\ Total(f, S) = t[S] /\ t[{}] = Over(0, 1)
               /\ \A T \in SUBSET S : T # {} => t[T] = Plus(f[First(T)], t[Rest(T)])
  BY TotalUnfolds
<1>2. PICK u : /\ Total(h, S) = u[S] /\ u[{}] = Over(0, 1)
               /\ \A T \in SUBSET S : T # {} => u[T] = Plus(h[First(T)], u[Rest(T)])
  BY TotalUnfolds
<1> DEFINE B == {T \in SUBSET S : <<T, t[T], u[T]>> \notin F}
<1>3. B = {}
  <2> SUFFICES ASSUME B # {} PROVE FALSE
    OBVIOUS
  <2>1. PICK M \in B : \A T \in SUBSET M : T # M => T \notin B
    <3>1. B \in SUBSET SUBSET S
      OBVIOUS
    <3> HIDE DEF B
    <3> QED BY <3>1, SmallestSubset
  <2>2. M # {}
    BY <1>1, <1>2
  <2>3. First(M) \in M /\ Rest(M) = M \ {First(M)} /\ Rest(M) \in SUBSET S
    BY <2>2, FirstIsElement DEF Rest
  <2>4. <<Rest(M), t[Rest(M)], u[Rest(M)]>> \in F
    BY <2>1, <2>3
  <2>5. <<M, Plus(f[First(M)], t[Rest(M)]), Plus(h[First(M)], u[Rest(M)])>> \in F
    BY <2>3, <2>4
  <2>6. t[M] = Plus(f[First(M)], t[Rest(M)]) /\ u[M] = Plus(h[First(M)], u[Rest(M)])
    BY <1>1, <1>2, <2>2
  <2>7. <<M, t[M], u[M]>> \in F
    BY <2>5, <2>6
  <2> QED BY <2>7
<1> QED BY <1>1, <1>2, <1>3

----------------------------------------------------------------------------
(* Percentiles *)

Side(s)    == s \in LessIsBetter
AllEqual(s) == \A p, q \in Having(s) : Parsed(p, s) = Parsed(q, s)
Below(v, s, b) == {r \in Having(s) : Worse(Parsed(r, s), v, b)}
Level(v, s) == {r \in Having(s) : Parsed(r, s) = v}
Percentile(p, s) == percentile_to_rating(Parsed(p, s), s, Side(s))
Size(s)      == Cardinality(Having(s))
Low(v, s, b) == Cardinality(Below(v, s, b))
Same(v, s)   == Cardinality(Level(v, s))

\* A statistic that is known is a number.
LEMMA ParsedInt ==
    ASSUME FormulaInv, NEW p \in Peers, NEW s \in Stats, Parsed(p, s) # NoAmount
    PROVE  Parsed(p, s) \in Int
<1>1. sheet[p][s] \in Amounts \cup {NoAmount}
  BY DEF FormulaInv
<1>2. Parsed(p, s) \in Amounts
  BY <1>1 DEF Parsed
<1>3. Amounts \subseteq Int
  BY FormulaAssumption
<1> QED BY <1>2, <1>3

\* Those of the pool who have a statistic are finitely many and have a number.
LEMMA HavingFacts ==
    ASSUME FormulaInv, NEW s \in Stats
    PROVE  /\ IsFiniteSet(Having(s))
           /\ \A p \in Having(s) : Parsed(p, s) \in Int
<1>1. Having(s) \in SUBSET Peers
  BY FormulaAssumption DEF Having
<1>2. ASSUME NEW p \in Having(s) PROVE Parsed(p, s) \in Int
  BY <1>1, ParsedInt DEF Having
<1> QED BY <1>1, <1>2, FS_Subset, FormulaAssumption

\* Those below an amount and those level with it are apart, in both directions.
LEMMA SidesApart ==
    ASSUME FormulaInv, NEW s \in Stats, NEW v \in Int, NEW b \in BOOLEAN
    PROVE  /\ IsFiniteSet(Below(v, s, b)) /\ IsFiniteSet(Level(v, s))
           /\ IsFiniteSet(Below(v, s, b) \cup Level(v, s))
           /\ Cardinality(Below(v, s, b) \cup Level(v, s))
                 = Cardinality(Below(v, s, b)) + Cardinality(Level(v, s))
           /\ Cardinality(Below(v, s, b) \cup Level(v, s)) <= Cardinality(Having(s))
<1>1. IsFiniteSet(Having(s)) /\ \A r \in Having(s) : Parsed(r, s) \in Int
  BY HavingFacts
<1>2. /\ Below(v, s, b) \in SUBSET Having(s) /\ Level(v, s) \in SUBSET Having(s)
      /\ Below(v, s, b) \cup Level(v, s) \in SUBSET Having(s)
  BY DEF Below, Level
<1>3. /\ IsFiniteSet(Below(v, s, b)) /\ IsFiniteSet(Level(v, s))
      /\ IsFiniteSet(Below(v, s, b) \cup Level(v, s))
      /\ Cardinality(Below(v, s, b) \cup Level(v, s)) <= Cardinality(Having(s))
  BY <1>1, <1>2, FS_Subset
<1>4. \A x \in Int : ~(Worse(x, v, b) /\ x = v)
  BY DEF Worse
<1>5. Below(v, s, b) \cap Level(v, s) = {}
  BY <1>1, <1>4 DEF Below, Level
<1>6. Cardinality(Below(v, s, b) \cup Level(v, s))
        = Cardinality(Below(v, s, b)) + Cardinality(Level(v, s)) - 0
  BY <1>3, <1>5, FS_Union, FS_EmptySet
<1>7. Cardinality(Below(v, s, b)) \in Nat /\ Cardinality(Level(v, s)) \in Nat
  BY <1>3, FS_CardinalityType
<1> QED BY <1>3, <1>6, <1>7

\* A percentile written out, whether or not somebody of the pool has the amount.
LEMMA PercentileIs ==
    ASSUME FormulaInv, NEW s \in Stats, NEW v \in Int, NEW b \in BOOLEAN
    PROVE  /\ Size(s) \in Nat /\ Low(v, s, b) \in Nat /\ Same(v, s) \in Nat
           /\ Low(v, s, b) + Same(v, s) <= Size(s)
           /\ AllEqual(s) => percentile_to_rating(v, s, b) = Over(13, 2)
           /\ ~AllEqual(s) =>
                 /\ Size(s) > 0
                 /\ percentile_to_rating(v, s, b)
                       = Over(8 * Size(s) + 5 * (2 * Low(v, s, b) + Same(v, s)), 2 * Size(s))
<1>1. IsFiniteSet(Having(s))
  BY HavingFacts
<1>2. Size(s) \in Nat /\ Low(v, s, b) \in Nat /\ Same(v, s) \in Nat
  BY <1>1, SidesApart, FS_CardinalityType DEF Size, Low, Same
<1>3. Low(v, s, b) + Same(v, s) <= Size(s)
  BY SidesApart DEF Size, Low, Same
<1>4. ~AllEqual(s) => Size(s) # 0
  <2>1. ~AllEqual(s) => Having(s) # {}
    BY DEF AllEqual
  <2> QED BY <1>1, <2>1, FS_EmptySet DEF Size
<1>5. /\ AllEqual(s) => percentile_to_rating(v, s, b) = Over(13, 2)
      /\ ~AllEqual(s) =>
            percentile_to_rating(v, s, b)
               = Over(8 * Size(s) + 5 * (2 * Low(v, s, b) + Same(v, s)), 2 * Size(s))
  BY DEF percentile_to_rating, AllEqual, Below, Level, Rank, Size, Low, Same
<1> QED BY <1>2, <1>3, <1>4, <1>5

\* A percentile lies between 4 and 9.
LEMMA PercentileWithin ==
    ASSUME FormulaInv, NEW s \in Stats, NEW v \in Int, NEW b \in BOOLEAN
    PROVE  \E n \in Nat, d \in Nat : /\ percentile_to_rating(v, s, b) = Over(n, d)
                                     /\ d > 0 /\ 4 * d <= n /\ n <= 9 * d
<1> DEFINE size == Size(s)
           low == Low(v, s, b)
           level == Same(v, s)
<1>1. /\ size \in Nat /\ low \in Nat /\ level \in Nat /\ low + level <= size
      /\ AllEqual(s) => percentile_to_rating(v, s, b) = Over(13, 2)
      /\ ~AllEqual(s) =>
            /\ size > 0
            /\ percentile_to_rating(v, s, b) = Over(8 * size + 5 * (2 * low + level), 2 * size)
  BY PercentileIs
<1> HIDE DEF size, low, level
<1>2. CASE AllEqual(s)
  <2>1. 13 \in Nat /\ 2 \in Nat /\ 2 > 0 /\ 4 * 2 <= 13 /\ 13 <= 9 * 2
    OBVIOUS
  <2> QED BY <1>1, <1>2, <2>1
<1>3. CASE ~AllEqual(s)
  <2> DEFINE n == 8 * size + 5 * (2 * low + level)
             d == 2 * size
  <2>1. n \in Nat /\ d \in Nat /\ d > 0 /\ 4 * d <= n /\ n <= 9 * d
    BY <1>1, <1>3
  <2> QED BY <1>1, <1>3, <2>1
<1> QED BY <1>2, <1>3

\* An amount that is not worse is not rated lower, over the same denominator.
LEMMA PercentileGrows ==
    ASSUME FormulaInv, NEW s \in Stats, NEW x \in Int, NEW y \in Int, NEW b \in BOOLEAN,
           IF b THEN x <= y ELSE x >= y
    PROVE  \E n \in Nat, m \in Nat, d \in Nat :
              /\ percentile_to_rating(y, s, b) = Over(n, d)
              /\ percentile_to_rating(x, s, b) = Over(m, d)
              /\ d > 0 /\ n <= m
<1> DEFINE size == Size(s)
           low == Low(x, s, b)
           level == Same(x, s)
           under == Low(y, s, b)
           same == Same(y, s)
<1>1. /\ size \in Nat /\ low \in Nat /\ level \in Nat
      /\ AllEqual(s) => percentile_to_rating(x, s, b) = Over(13, 2)
      /\ ~AllEqual(s) =>
            /\ size > 0
            /\ percentile_to_rating(x, s, b) = Over(8 * size + 5 * (2 * low + level), 2 * size)
  BY PercentileIs
<1>2. /\ under \in Nat /\ same \in Nat
      /\ AllEqual(s) => percentile_to_rating(y, s, b) = Over(13, 2)
      /\ ~AllEqual(s) =>
            percentile_to_rating(y, s, b) = Over(8 * size + 5 * (2 * under + same), 2 * size)
  BY PercentileIs
<1>4. 2 * under + same <= 2 * low + level
  <2>1. CASE x = y
    BY <1>1, <1>2, <2>1
  <2>2. CASE x # y
    <3>1. \A v \in Int : Worse(v, y, b) \/ v = y => Worse(v, x, b)
      BY <2>2 DEF Worse
    <3>2. Below(y, s, b) \cup Level(y, s) \in SUBSET Below(x, s, b)
      BY <3>1, HavingFacts DEF Below, Level
    <3>3. IsFiniteSet(Below(x, s, b))
      BY SidesApart
    <3>4. Cardinality(Below(y, s, b) \cup Level(y, s)) <= low
      BY <3>2, <3>3, FS_Subset DEF Low
    <3>5. Cardinality(Below(y, s, b) \cup Level(y, s)) = under + same
      BY SidesApart DEF Low, Same
    <3> HIDE DEF low, under, same, level
    <3>6. under + same <= low
      BY <3>4, <3>5
    <3> QED BY <1>1, <1>2, <3>6
  <2> QED BY <2>1, <2>2
<1> HIDE DEF size, low, level, under, same
<1>5. CASE AllEqual(s)
  <2>1. 13 \in Nat /\ 2 \in Nat /\ 2 > 0 /\ 13 <= 13
    OBVIOUS
  <2> QED BY <1>1, <1>2, <1>5, <2>1
<1>6. CASE ~AllEqual(s)
  <2> DEFINE n == 8 * size + 5 * (2 * under + same)
             m == 8 * size + 5 * (2 * low + level)
             d == 2 * size
  <2>1. n \in Nat /\ m \in Nat /\ d \in Nat /\ d > 0 /\ n <= m
    BY <1>1, <1>2, <1>4, <1>6
  <2>2. percentile_to_rating(y, s, b) = Over(n, d) /\ percentile_to_rating(x, s, b) = Over(m, d)
    BY <1>1, <1>2, <1>6
  <2> HIDE DEF n, m, d
  <2> QED BY <2>1, <2>2
<1> QED BY <1>5, <1>6

\* Who is above an amount is below it when less is better; with those level they are all.
LEMMA SidesAreAll ==
    ASSUME FormulaInv, NEW s \in Stats, NEW v \in Int
    PROVE  Low(v, s, FALSE) + Same(v, s) + Low(v, s, TRUE) = Size(s)
<1> DEFINE A == Below(v, s, FALSE) \cup Level(v, s)
           B == Below(v, s, TRUE)
<1>1. \A x \in Int : /\ Worse(x, v, FALSE) \/ x = v \/ Worse(x, v, TRUE)
                     /\ ~((Worse(x, v, FALSE) \/ x = v) /\ Worse(x, v, TRUE))
  BY DEF Worse
<1>2. A \cup B = Having(s) /\ A \cap B = {}
  BY <1>1, HavingFacts DEF Below, Level
<1>3. IsFiniteSet(A) /\ IsFiniteSet(B)
  BY SidesApart
<1>4. Cardinality(A) = Low(v, s, FALSE) + Same(v, s) /\ Cardinality(B) = Low(v, s, TRUE)
  BY SidesApart DEF Low, Same
<1> HIDE DEF A, B
<1>5. Size(s) = Cardinality(A) + Cardinality(B) - 0
  BY <1>2, <1>3, FS_Union, FS_EmptySet DEF Size
<1> DEFINE m == Cardinality(A)
           k == Cardinality(B)
<1>6. m \in Nat /\ k \in Nat
  BY <1>3, FS_CardinalityType
<1>7. Size(s) = m + k - 0 /\ Low(v, s, FALSE) + Same(v, s) = m /\ Low(v, s, TRUE) = k
  BY <1>4, <1>5
<1> HIDE DEF m, k
<1> DEFINE low == Low(v, s, FALSE)
           high == Low(v, s, TRUE)
           same == Same(v, s)
           size == Size(s)
<1>8. low \in Nat /\ high \in Nat /\ same \in Nat /\ size \in Nat
  BY PercentileIs
<1>9. size = m + k - 0 /\ low + same = m /\ high = k
  BY <1>7
<1> HIDE DEF low, high, same, size
<1>10. low + same + high = size
  BY <1>6, <1>8, <1>9
<1> QED BY <1>10 DEF low, high, same, size

\* For any pool, with any ties, and any amount, of the pool or not: less is better mirrors
\* more is better.
THEOREM AlwaysDirectionMirrors == FormulaSpec => []DirectionMirrors
<1>1. ASSUME FormulaInv, NEW s \in Stats, NEW v \in Amounts
      PROVE  LET sum == Plus(percentile_to_rating(v, s, TRUE), percentile_to_rating(v, s, FALSE))
             IN  sum.n = 13 * sum.d
  <2>1. v \in Int
    BY FormulaAssumption
  <2> DEFINE size == Size(s)
             low == Low(v, s, FALSE)
             high == Low(v, s, TRUE)
             level == Same(v, s)
  <2>2. /\ size \in Nat /\ low \in Nat /\ level \in Nat
        /\ AllEqual(s) => percentile_to_rating(v, s, FALSE) = Over(13, 2)
        /\ ~AllEqual(s) =>
              percentile_to_rating(v, s, FALSE) = Over(8 * size + 5 * (2 * low + level), 2 * size)
    BY <1>1, <2>1, PercentileIs
  <2>3. /\ high \in Nat
        /\ AllEqual(s) => percentile_to_rating(v, s, TRUE) = Over(13, 2)
        /\ ~AllEqual(s) =>
              percentile_to_rating(v, s, TRUE) = Over(8 * size + 5 * (2 * high + level), 2 * size)
    BY <1>1, <2>1, PercentileIs
  <2>4. low + level + high = size
    BY <1>1, <2>1, SidesAreAll
  <2> HIDE DEF size, low, high, level
  <2>5. CASE AllEqual(s)
    <3>1. Plus(Over(13, 2), Over(13, 2)) = Over(52, 4) /\ 52 = 13 * 4
      BY DEF Plus, Over
    <3>2. Over(52, 4).n = 13 * Over(52, 4).d
      BY DEF Over
    <3> QED BY <2>2, <2>3, <2>5, <3>1, <3>2
  <2>6. CASE ~AllEqual(s)
    <3> DEFINE up == 8 * size + 5 * (2 * low + level)
               down == 8 * size + 5 * (2 * high + level)
               d == 2 * size
    <3>1. up + down = 13 * d /\ up \in Int /\ down \in Int /\ d \in Int
      BY <2>2, <2>3, <2>4
    <3>2. /\ percentile_to_rating(v, s, FALSE) = Over(up, d)
          /\ percentile_to_rating(v, s, TRUE) = Over(down, d)
      BY <2>2, <2>3, <2>4, <2>6
    <3> HIDE DEF up, down, d
    <3>3. Plus(Over(down, d), Over(up, d)) = Over(down * d + up * d, d * d)
      BY DEF Plus, Over
    <3>4. down * d + up * d = 13 * (d * d)
      <4>1. down * d + up * d = (up + down) * d
        BY <3>1
      <4> QED BY <3>1, <4>1
    <3>5. Plus(Over(down, d), Over(up, d)).n = down * d + up * d
          /\ Plus(Over(down, d), Over(up, d)).d = d * d
      BY <3>3 DEF Over
    <3> QED BY <3>2, <3>4, <3>5
  <2> QED BY <2>5, <2>6
<1>2. FormulaInv => DirectionMirrors
  BY <1>1 DEF DirectionMirrors
<1> QED BY <1>2, FormulaInvariant, PTL

----------------------------------------------------------------------------
(* Layer 2: what its average keeps *)

Rationals == [n : Nat, d : Nat]

PartsOf(p) == [s \in Has(p) |-> Times(Weight[s], Percentile(p, s))]

\* A composite is the total of its parts over the weights counted.
LEMMA CompositeIs ==
    ASSUME NEW p, Has(p) # {}
    PROVE  compute_layer2_composite(p) =
              Over(Total(PartsOf(p), Has(p)).n,
                   Total(PartsOf(p), Has(p)).d * SumFunctionOnSet(Weight, Has(p)))
BY DEF compute_layer2_composite, PartsOf, Percentile, Side, Counted

\* The statistics of a peer are finitely many and have weights.
LEMMA HasFacts ==
    ASSUME FormulaInv, NEW p \in Peers
    PROVE  /\ Has(p) \in SUBSET Stats /\ IsFiniteSet(Has(p))
           /\ \A s \in Has(p) : Parsed(p, s) \in Int
           /\ \A s \in Has(p) : Weight[s] \in Nat
           /\ \A T \in SUBSET Has(p) : SumFunctionOnSet(Weight, T) \in Nat
           /\ \A T \in SUBSET Has(p) : \A s \in T :
                 SumFunctionOnSet(Weight, T) = Weight[s] + SumFunctionOnSet(Weight, T \ {s})
           /\ SumFunctionOnSet(Weight, {}) = 0
<1>1. Has(p) \in SUBSET Stats /\ \A s \in Has(p) : Parsed(p, s) \in Int
  BY ParsedInt DEF Has
<1>2. IsFiniteSet(Has(p)) /\ \A s \in Has(p) : Weight[s] \in Nat
  BY <1>1, FormulaAssumption, FS_Subset
<1>3. \A s \in Has(p) : Weight[s] \in Int
  BY <1>2
<1>4. \A T \in SUBSET Has(p) : SumFunctionOnSet(Weight, T) \in Nat
  <2> TAKE T \in SUBSET Has(p)
  <2>1. IsFiniteSet(T) /\ \A s \in T : Weight[s] \in Nat
    BY <1>2, FS_Subset
  <2> QED BY <2>1, SumNat
<1> QED BY <1>1, <1>2, <1>3, <1>4, SumSteps

\* One more part keeps an average within the bounds of its parts, in numbers alone.
LEMMA PartKeepsBounds ==
    ASSUME NEW w \in Nat, NEW a \in Nat, NEW b \in Nat, NEW n \in Nat, NEW d \in Nat,
           NEW v \in Nat,
           4 * b <= a, a <= 9 * b, 4 * (d * v) <= n, n <= 9 * (d * v)
    PROVE  /\ 4 * ((b * d) * (w + v)) <= (w * a) * d + n * b
           /\ (w * a) * d + n * b <= 9 * ((b * d) * (w + v))
<1>1. w * d \in Nat /\ 4 * b \in Int /\ 9 * b \in Int /\ 4 * (d * v) \in Int /\ 9 * (d * v) \in Int
  OBVIOUS
<1>2. (4 * b) * (w * d) <= a * (w * d) /\ a * (w * d) <= (9 * b) * (w * d)
  BY <1>1, ProductGrows
<1>3. (4 * (d * v)) * b <= n * b /\ n * b <= (9 * (d * v)) * b
  BY <1>1, ProductGrows
<1>4. /\ (w * a) * d = a * (w * d)
      /\ 4 * ((b * d) * (w + v)) = (4 * b) * (w * d) + (4 * (d * v)) * b
      /\ 9 * ((b * d) * (w + v)) = (9 * b) * (w * d) + (9 * (d * v)) * b
  OBVIOUS
<1> DEFINE A == a * (w * d)
           B == n * b
           C == (4 * b) * (w * d)
           D == (4 * (d * v)) * b
           E == (9 * b) * (w * d)
           G == (9 * (d * v)) * b
<1>5. A \in Int /\ B \in Int /\ C \in Int /\ D \in Int /\ E \in Int /\ G \in Int
  OBVIOUS
<1>6. C <= A /\ A <= E /\ D <= B /\ B <= G
  BY <1>2, <1>3
<1>7. C + D <= A + B /\ A + B <= E + G
  <2> HIDE DEF A, B, C, D, E, G
  <2> QED BY <1>5, <1>6
<1> QED BY <1>4, <1>7

\* Layer 2 lies between 4 and 9.
LEMMA Layer2WithinEvidence ==
    ASSUME FormulaInv, NEW p \in Peers, Has(p) # {}
    PROVE  /\ AtMost(Over(4, 1), compute_layer2_composite(p))
           /\ AtMost(compute_layer2_composite(p), Over(9, 1))
<1> DEFINE W(T) == SumFunctionOnSet(Weight, T)
           Bounded(T, y) == 4 * (y.d * W(T)) <= y.n /\ y.n <= 9 * (y.d * W(T))
           F == {v \in (SUBSET Has(p)) \X Rationals \X Rationals : Bounded(v[1], v[2])}
           parts == PartsOf(p)
<1>1. <<{}, Over(0, 1), Over(0, 1)>> \in F
  <2>1. W({}) = 0 /\ 4 * (1 * 0) <= 0 /\ 0 <= 9 * (1 * 0)
    BY HasFacts
  <2>2. Over(0, 1) \in Rationals /\ Over(0, 1).n = 0 /\ Over(0, 1).d = 1
    BY DEF Over, Rationals
  <2> QED BY <2>1, <2>2
<1>2. ASSUME NEW T \in SUBSET Has(p), NEW s \in T, NEW y, NEW z, <<T \ {s}, y, z>> \in F
      PROVE  <<T, Plus(parts[s], y), Plus(parts[s], z)>> \in F
  <2>1. y \in Rationals /\ z \in Rationals /\ Bounded(T \ {s}, y)
    BY <1>2
  <2>2. PICK n \in Nat, d \in Nat : y = Over(n, d) /\ y.n = n /\ y.d = d
    BY <2>1 DEF Rationals, Over
  <2>3. PICK i \in Nat, j \in Nat : z.n = i /\ z.d = j
    BY <2>1 DEF Rationals
  <2>4. PICK a \in Nat, b \in Nat : Percentile(p, s) = Over(a, b) /\ 4 * b <= a /\ a <= 9 * b
    <3>1. s \in Stats /\ Parsed(p, s) \in Int /\ Side(s) \in BOOLEAN
      BY HasFacts DEF Side
    <3> QED BY <3>1, PercentileWithin DEF Percentile
  <2>5. PICK w \in Nat, v \in Nat : w = Weight[s] /\ v = W(T \ {s}) /\ W(T) = w + v
    BY HasFacts
  <2>6. parts[s] = Over(w * a, b)
    BY <2>4, <2>5 DEF PartsOf, Times, Over
  <2>7. Plus(parts[s], y) = Over((w * a) * d + n * b, b * d)
    BY <2>2, <2>6 DEF Plus, Over
  <2>8. Plus(parts[s], z) = Over((w * a) * j + i * b, b * j)
    BY <2>3, <2>6 DEF Plus, Over
  <2>9. Plus(parts[s], y) \in Rationals /\ Plus(parts[s], z) \in Rationals
    <3>1. /\ (w * a) * d + n * b \in Nat /\ b * d \in Nat
          /\ (w * a) * j + i * b \in Nat /\ b * j \in Nat
      OBVIOUS
    <3> QED BY <2>7, <2>8, <3>1 DEF Rationals, Over
  <2>10. 4 * (d * v) <= n /\ n <= 9 * (d * v)
    BY <2>1, <2>2, <2>5
  <2>11. /\ 4 * ((b * d) * (w + v)) <= (w * a) * d + n * b
         /\ (w * a) * d + n * b <= 9 * ((b * d) * (w + v))
    BY <2>4, <2>10, PartKeepsBounds
  <2>12. Bounded(T, Plus(parts[s], y))
    BY <2>5, <2>7, <2>11 DEF Over
  <2> HIDE DEF parts, Bounded
  <2> QED BY <2>9, <2>12
<1>3. <<Has(p), Total(parts, Has(p)), Total(parts, Has(p))>> \in F
  <2> HIDE DEF F, parts
  <2> QED BY <1>1, <1>2, HasFacts, TotalsInduction
<1> DEFINE sum == Total(parts, Has(p))
<1> HIDE DEF sum
<1>4. sum \in Rationals /\ Bounded(Has(p), sum)
  BY <1>3 DEF sum
<1>5. PICK n \in Nat, d \in Nat : sum.n = n /\ sum.d = d
  BY <1>4 DEF Rationals
<1>6. PICK v \in Nat : v = W(Has(p))
  BY HasFacts
<1>7. compute_layer2_composite(p) = Over(n, d * v)
  BY <1>5, <1>6, CompositeIs DEF sum
<1>8. 4 * (d * v) <= n /\ n <= 9 * (d * v)
  BY <1>4, <1>5, <1>6
<1>9. 4 * (d * v) <= n * 1 /\ n * 1 <= 9 * (d * v)
  BY <1>8
<1> QED BY <1>7, <1>9 DEF AtMost, Over

\* Whatever a rating is computed from, it lies between the worst and the best of it.
THEOREM AlwaysWithinEvidence == FormulaSpec => []OracleWithinEvidence
<1>1. ASSUME FormulaInv PROVE OracleWithinEvidence
  <2> DEFINE ratings == Rated(window)
             grades == {ratings[i] : i \in DOMAIN ratings}
  <2>1. ratings \in Seq(Grades) /\ Len(ratings) <= Len(window)
    BY <1>1, RatedIsSeq DEF FormulaInv
  <2>2. ASSUME NEW p \in Peers, ratings # <<>>
        PROVE  /\ \E g \in grades : AtMost(Over(g, 1), Oracle(p))
               /\ \E g \in grades : AtMost(Oracle(p), Over(g, 1))
    <3>1. ratings \in Seq(Nat)
      BY <2>1, GradesAreNat
    <3>2. Len(ratings) \in 1..5
      <4> DEFINE l == Len(ratings)
                 k == Len(window)
      <4>1. l \in Nat /\ k \in Nat /\ l <= k /\ k <= 5
        BY <1>1, <2>1, <3>1 DEF FormulaInv
      <4>2. l # 0
        BY <2>2, <3>1
      <4> HIDE DEF l, k
      <4>3. l \in 1..5
        BY <4>1, <4>2
      <4> QED BY <4>3 DEF l
    <3>3. Oracle(p) = compute_layer1_rating(ratings)
      BY <2>2 DEF Oracle, compute_oracle_rating
    <3>4. \A i \in 1..Len(ratings) : ratings[i] \in grades
      BY <3>1
    <3> HIDE DEF ratings, grades
    <3> QED BY <3>1, <3>2, <3>3, <3>4, Layer1WithinEvidence
  <2>3. ASSUME NEW p \in Peers, ratings = <<>>
        PROVE  AtMost(Over(4, 1), Oracle(p)) /\ AtMost(Oracle(p), Over(9, 1))
    <3>1. AtMost(Over(4, 1), Over(13, 2)) /\ AtMost(Over(13, 2), Over(9, 1))
      BY DEF AtMost, Over
    <3>2. CASE Has(p) = {}
      <4>1. Oracle(p) = Over(13, 2)
        BY <2>3, <3>2 DEF Oracle, compute_oracle_rating, compute_layer2_composite
      <4> QED BY <3>1, <4>1
    <3>3. CASE Has(p) # {}
      <4>1. Oracle(p) = Over(13, 2) \/ Oracle(p) = compute_layer2_composite(p)
        BY <2>3 DEF Oracle, compute_oracle_rating
      <4> QED BY <1>1, <3>1, <3>3, <4>1, Layer2WithinEvidence
    <3> QED BY <3>2, <3>3
  <2> QED BY <2>2, <2>3 DEF OracleWithinEvidence
<1> QED BY <1>1, FormulaInvariant, PTL

\* Larger parts make a larger total, in numbers alone.
LEMMA PartKeepsOrder ==
    ASSUME NEW w \in Nat, NEW a \in Nat, NEW c \in Nat, NEW b \in Nat,
           NEW n \in Nat, NEW m \in Nat, NEW d \in Nat, a <= c, n <= m
    PROVE  (w * a) * d + n * b <= (w * c) * d + m * b
<1>1. w * d \in Nat
  OBVIOUS
<1>2. a * (w * d) <= c * (w * d) /\ n * b <= m * b
  BY <1>1, ProductGrows
<1> DEFINE A == a * (w * d)
           B == c * (w * d)
           C == n * b
           D == m * b
<1>3. A \in Int /\ B \in Int /\ C \in Int /\ D \in Int /\ A <= B /\ C <= D
  BY <1>2
<1>4. A + C <= B + D
  <2> HIDE DEF A, B, C, D
  <2> QED BY <1>3
<1>5. (w * a) * d = a * (w * d) /\ (w * c) * d = c * (w * d)
  OBVIOUS
<1> QED BY <1>4, <1>5

\* Whoever is nowhere worse is not rated lower, in any lineup with any statistics.
THEOREM AlwaysBetterIsNotRatedLower == FormulaSpec => []BetterIsNotRatedLower
<1>1. ASSUME FormulaInv, NEW p \in Peers, NEW q \in Peers,
             Has(p) = Has(q), Has(p) # {},
             \A s \in Has(p) : IF s \in LessIsBetter THEN Parsed(p, s) <= Parsed(q, s)
                               ELSE Parsed(p, s) >= Parsed(q, s)
      PROVE  AtMost(compute_layer2_composite(q), compute_layer2_composite(p))
  <2> DEFINE H == Has(p)
             Ordered(y, z) == y.d = z.d /\ y.n <= z.n
             F == {v \in (SUBSET H) \X Rationals \X Rationals : Ordered(v[2], v[3])}
             better == PartsOf(p)
             worse == PartsOf(q)
  <2>1. <<{}, Over(0, 1), Over(0, 1)>> \in F
    BY DEF Over, Rationals
  <2>2. ASSUME NEW T \in SUBSET H, NEW s \in T, NEW y, NEW z, <<T \ {s}, y, z>> \in F
        PROVE  <<T, Plus(worse[s], y), Plus(better[s], z)>> \in F
    <3>1. y \in Rationals /\ z \in Rationals /\ y.d = z.d /\ y.n <= z.n
      BY <2>2
    <3>2. PICK n \in Nat, m \in Nat, d \in Nat : y.n = n /\ z.n = m /\ y.d = d /\ z.d = d /\ n <= m
      BY <3>1 DEF Rationals
    <3>3. s \in Stats /\ Parsed(p, s) \in Int /\ Parsed(q, s) \in Int /\ Side(s) \in BOOLEAN
      BY <1>1, HasFacts DEF Side
    <3>4. PICK a \in Nat, c \in Nat, b \in Nat :
             Percentile(q, s) = Over(a, b) /\ Percentile(p, s) = Over(c, b) /\ a <= c
      <4>1. IF Side(s) THEN Parsed(p, s) <= Parsed(q, s) ELSE Parsed(p, s) >= Parsed(q, s)
        BY <1>1 DEF Side
      <4> QED BY <1>1, <3>3, <4>1, PercentileGrows DEF Percentile
    <3>5. PICK w \in Nat : w = Weight[s]
      BY <1>1, HasFacts
    <3>6. worse[s] = Over(w * a, b) /\ better[s] = Over(w * c, b)
      BY <1>1, <3>4, <3>5 DEF PartsOf, Times, Over
    <3>7. /\ Plus(worse[s], y) = Over((w * a) * d + n * b, b * d)
          /\ Plus(better[s], z) = Over((w * c) * d + m * b, b * d)
      BY <3>2, <3>6 DEF Plus, Over
    <3>8. /\ (w * a) * d + n * b \in Nat /\ b * d \in Nat /\ (w * c) * d + m * b \in Nat
          /\ (w * a) * d + n * b <= (w * c) * d + m * b
      BY <3>2, <3>4, PartKeepsOrder
    <3> HIDE DEF worse, better
    <3> QED BY <3>7, <3>8 DEF Rationals, Over
  <2>3. <<H, Total(worse, H), Total(better, H)>> \in F
    <3> HIDE DEF F, worse, better
    <3>1. IsFiniteSet(H)
      BY <1>1, HasFacts
    <3> QED BY <2>1, <2>2, <3>1, TotalsInduction
  <2> DEFINE low == Total(worse, H)
             high == Total(better, H)
  <2>4. PICK n \in Nat, m \in Nat, d \in Nat :
           low.n = n /\ high.n = m /\ low.d = d /\ high.d = d /\ n <= m
    <3> HIDE DEF low, high
    <3>1. low \in Rationals /\ high \in Rationals /\ low.d = high.d /\ low.n <= high.n
      BY <2>3 DEF low, high
    <3> QED BY <3>1 DEF Rationals
  <2>5. PICK v \in Nat : v = SumFunctionOnSet(Weight, H)
    BY <1>1, HasFacts
  <2>6. compute_layer2_composite(p) = Over(m, d * v)
    BY <1>1, <2>4, <2>5, CompositeIs
  <2>7. compute_layer2_composite(q) = Over(n, d * v)
    BY <1>1, <2>4, <2>5, CompositeIs
  <2>8. n * (d * v) <= m * (d * v)
    <3>1. d * v \in Nat
      OBVIOUS
    <3> QED BY <2>4, <3>1, ProductGrows
  <2> QED BY <2>6, <2>7, <2>8 DEF AtMost, Over
<1>2. ASSUME FormulaInv PROVE BetterIsNotRatedLower
  BY <1>1, <1>2 DEF BetterIsNotRatedLower
<1> QED BY <1>2, FormulaInvariant, PTL
=============================================================================
