----------------------------- MODULE MCTrading -----------------------------
(* Instances of Trading for TLC.                                            *)
EXTENDS Trading, TLC

\* A market initialised above the middle rating: q_up > 0 and q_down = 0.
MCInitialQ == [d \in Dirs |-> IF d = "UP" THEN 1 ELSE 0]

\* Neither the accounts nor the requests are ever ordered or named.
MCSymmetry == Permutations(Users) \cup Permutations(Requests)
=============================================================================
