--------------------------- MODULE MCTournaments ---------------------------
(* Small instances of Tournaments for TLC. *)
EXTENDS Tournaments, TLC

CONSTANTS t1, t2, ann, bob, cat, dan

\* One tournament, founded by somebody who does not play in it.
MCFounders == t1 :> ann

\* Everybody who did not found the tournament may join it.
MCJoins == {[kind |-> "join", user |-> u, tour |-> t1] : u \in Users \ {ann}}

\* One user joins, twice over if there are two requests.
MCOneJoiner == {[kind |-> "join", user |-> bob, tour |-> t1]}

\* One founder creates two tournaments.
MCCreates == {[kind |-> "create", user |-> ann, tour |-> t] : t \in Tours}

\* Creations of one founder and joins of anybody.
MCAnything == MCCreates \cup {[kind |-> "join", user |-> u, tour |-> t] :
                                  u \in Users, t \in Tours}

MCSymmetry == Permutations(Tasks) \cup Permutations(Requests)
=============================================================================
