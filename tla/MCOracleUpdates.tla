-------------------------- MODULE MCOracleUpdates --------------------------
(* An instance of OracleUpdates for TLC.                                    *)
EXTENDS OracleUpdates

CONSTANTS f1, f2

\* Player 3 has no market, 9 no row; 1 comes after 2 in f2, and makes it raise before 3.
MCLineup == [f \in Fixtures |-> IF f = f1 THEN <<1, 3>> ELSE <<2, 9, 1, 3>>]
MCMalformed == {<<1, f2>>}
=============================================================================
