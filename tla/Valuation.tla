------------------------------ MODULE Valuation ------------------------------
(***************************************************************************)
(* What portfolios are worth: calculate_total_value (core/portfolio.py),   *)
(* GET /portfolio/me, the hourly snapshot (workers/snapshot.py) and the    *)
(* leaderboard.  Each reads portfolios, positions and markets in two or    *)
(* three statements at READ COMMITTED, so trades commit between them.      *)
(*                                                                         *)
(* The market maker keeps what tells its prices apart: a cost that is      *)
(* convex in the outstanding shares and flatter the higher b is, and b     *)
(* taken anew from the outstanding shares at every trade and every         *)
(* valuation.  Only one direction of a market moves.  Trades are atomic    *)
(* (see Trading).                                                          *)
(***************************************************************************)
EXTENDS Integers, Sequences, FiniteSetsExt

CONSTANTS
    Users,      \* the users
    Markets,    \* the markets
    Points,     \* available_points at the start, in forty-eighths of a point
    MaxShares,  \* outstanding shares of a market, a bound
    MaxMoves,   \* trades and deletions, a bound
    BMin,       \* b_min of every market
    BFloor,     \* b_floor, which trades apply
    NoAccount   \* of a user who has been deleted, or is not read

ASSUME ValuationAssumption ==
    /\ Points \in Nat /\ MaxShares \in Nat /\ MaxMoves \in Nat
    /\ BMin \in Nat \ {0} /\ BFloor \in Nat /\ NoAccount \notin Int

VARIABLES
    cash,        \* available_points
    shares,      \* shares_owned of each user and market
    quantity,    \* outstanding shares of each market
    moves,       \* trades and deletions so far
    reading,     \* which read runs: "none", "total", "snapshot" or "leaderboard"
    next,        \* the tables it has still to read
    seenCash, seenShares, seenQuantity,   \* what it has read
    movers,      \* users who traded or were deleted before it had read everything
    instants     \* what everybody was worth at each moment of it so far (history)

wealth        == <<cash, shares, quantity, moves>>
seen          == <<reading, next, seenCash, seenShares, seenQuantity>>
valuationVars == <<wealth, seen, movers, instants>>

Accounts == {u \in Users : cash[u] # NoAccount}
Unread   == [u \in Users |-> NoAccount]
NoShares == [u \in Users |-> [m \in Markets |-> 0]]
NoMarket == [m \in Markets |-> 0]

\* alpha is 1 per share.
effective_b(n, floor) == IF BMin + n > floor THEN BMin + n ELSE floor

\* The logarithm up to its second order: n/2 + n^2/8b, in forty-eighths, less a constant.
lmsr_cost(n, b) == 24 * n + (6 * n * n) \div b

\* sell_refund_up and sell_refund_down
sell_refund(n, b, s) ==
    LET gain == lmsr_cost(n, b) - lmsr_cost(n - s, b)
    IN  IF gain > 0 THEN gain ELSE 0

\* What execute_sell pays for s of n outstanding shares.
SaleRefund(n, s) == sell_refund(n, effective_b(n, BFloor), s)

\* Mutant of PositionValue: linear price times shares.
PositionValueLinear(n, s) == s * sell_refund(n, effective_b(n, 0), 1)

\* What the valuations count for s of n outstanding shares: without the floor.
PositionValue(n, s) == sell_refund(n, effective_b(n, 0), s)

\* available_points, and the refund of every open position as if it were sold alone.
TotalValue(points, held, n) ==
    points + SumFunctionOnSet([m \in Markets |-> PositionValue(n[m], held[m])],
                              {m \in Markets : held[m] > 0})

\* What the users would have if each sold one whole position at the prices of now, for
\* each of his positions.
Worths ==
    [u \in Users |->
        IF u \notin Accounts THEN NoAccount
        ELSE cash[u] + SumFunctionOnSet([m \in Markets |-> SaleRefund(quantity[m], shares[u][m])],
                                        {m \in Markets : shares[u][m] > 0})]

ValuationInit ==
    /\ cash = [u \in Users |-> Points] /\ shares = NoShares /\ quantity = NoMarket /\ moves = 0
    /\ reading = "none" /\ next = <<>>
    /\ seenCash = Unread /\ seenShares = NoShares /\ seenQuantity = NoMarket
    /\ movers = {} /\ instants = {}

----------------------------------------------------------------------------
(* Trades and deletions *)

\* u moves, and with it what others are worth; a read that has everything sees none of it.
Moves(u) ==
    /\ moves < MaxMoves /\ moves' = moves + 1
    /\ IF next = <<>> THEN UNCHANGED <<movers, instants>>
       ELSE movers' = movers \cup {u} /\ instants' = instants \cup {Worths'}
    /\ UNCHANGED seen

\* execute_buy: the shares a budget brings at the b of the moment.
BuyShares(u, m, s) ==
    LET n      == quantity[m]
        b      == effective_b(n, BFloor)
        budget == lmsr_cost(n + s, b) - lmsr_cost(n, b)
    IN  /\ u \in Accounts /\ n + s <= MaxShares /\ budget <= cash[u]
        /\ cash' = [cash EXCEPT ![u] = @ - budget]
        /\ shares' = [shares EXCEPT ![u][m] = @ + s]
        /\ quantity' = [quantity EXCEPT ![m] = @ + s]
        /\ Moves(u)

\* execute_sell, in one lot; the last guard is that of the dust buffer.
SellShares(u, m, s) ==
    /\ u \in Accounts /\ s <= shares[u][m] /\ s <= quantity[m]
    /\ cash' = [cash EXCEPT ![u] = @ + SaleRefund(quantity[m], s)]
    /\ shares' = [shares EXCEPT ![u][m] = @ - s]
    /\ quantity' = [quantity EXCEPT ![m] = @ - s]
    /\ Moves(u)

\* The webhook user.deleted: portfolio, positions and snapshots go with the user, the
\* shares stay in the market.
DeleteUser(u) ==
    /\ u \in Accounts
    /\ cash' = [cash EXCEPT ![u] = NoAccount]
    /\ shares' = [shares EXCEPT ![u] = [m \in Markets |-> 0]]
    /\ UNCHANGED quantity
    /\ Moves(u)

----------------------------------------------------------------------------
(* Reads *)

\* The portfolio of one user, or of all, is read first.
Begin(what, who, order) ==
    /\ reading = "none"
    /\ reading' = what /\ next' = order
    /\ seenCash' = [u \in Users |-> IF u \in who THEN cash[u] ELSE NoAccount]
    /\ instants' = {Worths}
    /\ UNCHANGED <<wealth, seenShares, seenQuantity, movers>>

\* calculate_total_value and get_my_portfolio: positions join their markets.
BeginTotal(u)    == u \in Accounts /\ Begin("total", {u}, <<"both">>)
BeginSnapshot    == Accounts # {} /\ Begin("snapshot", Accounts, <<"positions", "markets">>)
BeginLeaderboard == Begin("leaderboard", Accounts, <<"markets", "positions">>)

ReadTable ==
    /\ next # <<>>
    /\ seenShares' = IF Head(next) = "markets" THEN seenShares ELSE shares
    /\ seenQuantity' = IF Head(next) = "positions" THEN seenQuantity ELSE quantity
    /\ next' = Tail(next)
    /\ UNCHANGED <<wealth, reading, seenCash, movers, instants>>

ValuesRead ==
    [u \in Users |-> IF seenCash[u] = NoAccount THEN NoAccount
                     ELSE TotalValue(seenCash[u], seenShares[u], seenQuantity)]

ReadEnds ==
    /\ reading' = "none"
    /\ seenCash' = Unread /\ seenShares' = NoShares /\ seenQuantity' = NoMarket
    /\ movers' = {} /\ instants' = {}
    /\ UNCHANGED <<wealth, next>>

\* The answer, or one snapshot row per portfolio read, in one commit.
Record ==
    /\ reading # "none" /\ next = <<>>
    /\ reading = "snapshot" => \A u \in Users : seenCash[u] # NoAccount => u \in Accounts
    /\ ReadEnds

\* A user deleted since the portfolios were read: the foreign key of his row takes back
\* the rows of all.
SnapshotFails ==
    /\ reading = "snapshot" /\ next = <<>>
    /\ \E u \in Users : seenCash[u] # NoAccount /\ u \notin Accounts
    /\ ReadEnds

----------------------------------------------------------------------------

ValuationNext ==
    \/ \E u \in Users : DeleteUser(u) \/ BeginTotal(u)
    \/ \E u \in Users, m \in Markets, s \in 1..MaxShares : BuyShares(u, m, s) \/ SellShares(u, m, s)
    \/ BeginSnapshot \/ BeginLeaderboard \/ ReadTable
    \/ Record \/ SnapshotFails

ValuationSpec == ValuationInit /\ [][ValuationNext]_valuationVars

----------------------------------------------------------------------------
(* Properties *)

\* "Each position's sell_refund" is the value of a position (core/portfolio.py:33): what
\* is answered or recorded is what selling would fetch, for everybody at one and the same
\* moment of the read.  The statements of a read see different moments, so a user who
\* trades in between gets the value of none; but whoever else holds what is traded is
\* valued, with all the others, at the moment the markets were read.  It depends on no
\* floor binding: the valuations take b without the floor.
ValuedAtSale ==
    reading # "none" /\ next = <<>> =>
        \E then \in instants :
            \A u \in Users \ movers : seenCash[u] # NoAccount => ValuesRead[u] = then[u]
=============================================================================
