---------------------------- MODULE AtomicMarket ----------------------------
(***************************************************************************)
(* What the trading engine promises: trades and recalibrations happen one  *)
(* after the other, each in one step on the committed rows, as if no two   *)
(* transactions ever ran together.  No lock, no request and no private     *)
(* write is visible here.                                                  *)
(***************************************************************************)
EXTENDS Integers

CONSTANTS
    Users, Players, Dirs,
    Budgets, SellSizes, ShareOutcomes, RefundOutcomes, Targets,
    StartPoints, InitialQ, InitialB,
    Dust,
    Stored(_),          \* how a portfolio column keeps an amount
    StoredB(_),         \* how a b_min column keeps a target
    Rescaled(_, _, _)   \* how a q column keeps n * to / from

VARIABLES points, owned, q, bMin

vars == <<points, owned, q, bMin>>

Init ==
    /\ points = [u \in Users |-> StartPoints]
    /\ owned = [u \in Users |-> [p \in Players |-> [d \in Dirs |-> 0]]]
    /\ q = [p \in Players |-> InitialQ]
    /\ bMin = [p \in Players |-> InitialB]

\* A trade moves shares into (or, negative, out of) a position and the market
\* alike and cash into (or out of) the balance.
Trade(u, p, d, shares, cash) ==
    /\ points' = [points EXCEPT ![u] = Stored(@ + cash)]
    /\ owned' = [owned EXCEPT ![u][p][d] = @ + shares]
    /\ q' = [q EXCEPT ![p][d] = @ + shares]
    /\ UNCHANGED bMin

\* INV-02, INV-10: within the balance, and never for nothing.
Buy(u, p, d) ==
    \E budget \in Budgets, shares \in ShareOutcomes \ {0} :
        /\ budget <= points[u]
        /\ Trade(u, p, d, shares, -budget)

\* INV-03, INV-06: only what is owned, and within the dust buffer.
Sell(u, p, d) ==
    \E shares \in SellSizes, refund \in RefundOutcomes :
        /\ shares <= owned[u][p][d]
        /\ q[p][d] - shares >= -Dust
        /\ Trade(u, p, d, -shares, refund)

\* Every market below the target moves to it, its q vector in proportion; no
\* portfolio and no position is touched.
Recalibrate(t) ==
    LET Grows(p) == bMin[p] < t
    IN  /\ q' = [p \in Players |-> [d \in Dirs |->
                    IF Grows(p) THEN Rescaled(q[p][d], bMin[p], t) ELSE q[p][d]]]
        /\ bMin' = [p \in Players |-> IF Grows(p) THEN StoredB(t) ELSE bMin[p]]
        /\ UNCHANGED <<points, owned>>

Next ==
    \/ \E u \in Users, p \in Players, d \in Dirs : Buy(u, p, d) \/ Sell(u, p, d)
    \/ \E t \in Targets : Recalibrate(t)

Spec == Init /\ [][Next]_vars
=============================================================================
