--------------------------- MODULE OracleFormulas ---------------------------
(***************************************************************************)
(* What an oracle rating is worth (app/core/oracle.py), on the statistics  *)
(* the Sportmonks client returns (app/services/sportmonks.py): OracleUpdates *)
(* keeps only which match ratings one rests on.                            *)
(*                                                                         *)
(* A run of the task collects the statistics of the lineup, then adds a    *)
(* match to the newest ratings of a player and computes.  Where one of     *)
(* these has a rating the statistics are not looked at, so they are        *)
(* collected only where none has.                                          *)
(*                                                                         *)
(* A player is rated by the weight table of the group in his row, among    *)
(* those of the lineup whose position in the match is of that group; he    *)
(* may not be one of them.                                                 *)
(*                                                                         *)
(* Ratings are rational: n over d, with d > 0.                             *)
(***************************************************************************)
EXTENDS Integers, Sequences, FiniteSetsExt

CONSTANTS
    Grades,     \* ratings of matches that occur
    NoRating,   \* a match without a rating, and an oracle layer without data
    Peers,      \* players of the lineup in one position group, by their row or in the match
    Pool,       \* those of them whose position in the match is of the group
    Stats,      \* statistics in the weight table of the group
    Weight,     \* their weights, in hundredths
    LessIsBetter, \* those of which less is better
    ZeroLost,   \* those of which the client returns a 0 as missing
    Amounts,    \* values of a statistic that occur
    NoAmount    \* a statistic that is missing

ASSUME FormulaAssumption ==
    /\ Grades \subseteq Nat /\ NoRating \notin Nat
    /\ IsFiniteSet(Peers) /\ Pool \subseteq Peers /\ IsFiniteSet(Stats)
    /\ Weight \in [Stats -> Nat \ {0}]
    /\ LessIsBetter \subseteq Stats /\ ZeroLost \subseteq Stats
    /\ Amounts \subseteq Nat /\ NoAmount \notin Nat

VARIABLES
    window,     \* match_ratings of a player, the newest first
    sheet       \* what Sportmonks has of each peer

formulaVars == <<window, sheet>>

NoSheet == [s \in Stats |-> NoAmount]

FormulaInit == window = <<>> /\ sheet = [p \in Peers |-> NoSheet]

----------------------------------------------------------------------------
(* Rationals *)

Over(n, d)    == [n |-> n, d |-> d]
AtMost(x, y)  == x.n * y.d <= y.n * x.d
Plus(x, y)    == Over(x.n * y.d + y.n * x.d, x.d * y.d)
Times(k, x)   == Over(k * x.n, x.d)
Total(f, S)   == FoldFunctionOnSet(Plus, Over(0, 1), f, S)

----------------------------------------------------------------------------
(* Layer 1 *)

\* Mutant of LAYER1_WEIGHTS: the oldest match weighs most.
OLDEST_FIRST == <<8, 12, 20, 25, 35>>

LAYER1_WEIGHTS == <<35, 25, 20, 12, 8>>

\* The ratings among the entries of w, in their order.
Rated(w) ==
    LET upTo[i \in 0..Len(w)] ==
            IF i = 0 THEN <<>>
            ELSE IF w[i] = NoRating THEN upTo[i - 1] ELSE Append(upTo[i - 1], w[i])
    IN  upTo[Len(w)]

\* The average of the ratings, with the first weights renormalised.
compute_layer1_rating(ratings) ==
    Over(SumFunctionOnSet([i \in DOMAIN ratings |-> LAYER1_WEIGHTS[i] * ratings[i]], DOMAIN ratings),
         SumFunctionOnSet(LAYER1_WEIGHTS, DOMAIN ratings))

----------------------------------------------------------------------------
(* Layer 2 *)

\* get_player_statistics: total or its other name, and a 0 is no total.
Parsed(p, s) == IF sheet[p][s] = 0 /\ s \in ZeroLost THEN NoAmount ELSE sheet[p][s]

\* The peer pool of a statistic.
Having(s) == {p \in Pool : Parsed(p, s) # NoAmount}

\* Mutant of Worse: more is better of every statistic.
WorseIsLess(a, b, inverse) == a < b

Worse(a, b, inverse) == IF inverse THEN a > b ELSE a < b

\* Mutant of Rank: the fraction of the values that are not better.
RankAtMost(lower, equal) == 2 * (lower + equal)

\* Twice the middle rank of the equal values.
Rank(lower, equal) == 2 * lower + equal

\* Among the pool: between 4 for less than all and 9 for more, and the middle when the
\* pool is empty or all of it are equal.  The clamp to [3, 10] never binds.
percentile_to_rating(amount, s, inverse) ==
    LET all   == Having(s)
        size  == Cardinality(all)
        equal == Cardinality({p \in all : Parsed(p, s) = amount})
        lower == Cardinality({p \in all : Worse(Parsed(p, s), amount, inverse)})
    IN  IF \A p, q \in all : Parsed(p, s) = Parsed(q, s) THEN Over(13, 2)
        ELSE Over(8 * size + 5 * Rank(lower, equal), 2 * size)

Has(p) == {s \in Stats : Parsed(p, s) # NoAmount}

\* Mutant of Counted: a missing statistic keeps its weight in the denominator.
CountedAll(p) == Stats

\* The statistics whose weights make up the denominator.
Counted(p) == Has(p)

compute_layer2_composite(p) ==
    LET parts == [s \in Has(p) |->
                     Times(Weight[s], percentile_to_rating(Parsed(p, s), s, s \in LessIsBetter))]
        sum   == Total(parts, Has(p))
    IN  IF Has(p) = {} THEN NoRating
        ELSE Over(sum.n, sum.d * SumFunctionOnSet(Weight, Counted(p)))

----------------------------------------------------------------------------
(* The fallback chain *)

compute_oracle_rating(w, p) ==
    IF Rated(w) # <<>> THEN compute_layer1_rating(Rated(w))
    ELSE IF w # <<>> /\ compute_layer2_composite(p) # NoRating
         THEN compute_layer2_composite(p)
         ELSE Over(13, 2)

\* The statistics of one more peer are collected; when they cannot be fetched he has none.
Collect(p) ==
    /\ Rated(window) = <<>>
    /\ \E row \in [Stats -> Amounts \cup {NoAmount}] : sheet' = [sheet EXCEPT ![p] = row]
    /\ UNCHANGED window

\* limit(5), newest first: a match without a rating takes a place.
Newest(w) == IF Len(w) > 5 THEN SubSeq(w, 1, 5) ELSE w

\* A match is rated; the next fixture collects statistics of its own.
AddMatch(r) ==
    /\ window' = Newest(<<r>> \o window)
    /\ sheet' = [p \in Peers |-> NoSheet]

\* A fixture is processed again: its row gets a new value and, with recorded_at, the
\* first place.
Reprocess(i, r) ==
    /\ i \in DOMAIN window
    /\ window' = [k \in DOMAIN window |-> IF k = 1 THEN r
                                         ELSE IF k <= i THEN window[k - 1] ELSE window[k]]
    /\ sheet' = [p \in Peers |-> NoSheet]

FormulaNext ==
    \/ \E p \in Peers : Collect(p)
    \/ \E r \in Grades \cup {NoRating} : AddMatch(r) \/ \E i \in 1..5 : Reprocess(i, r)

FormulaSpec == FormulaInit /\ [][FormulaNext]_formulaVars

----------------------------------------------------------------------------
(* Properties *)

Oracle(p) == compute_oracle_rating(window, p)

\* An oracle rating lies between the worst and the best match it averages, or, where
\* statistics stand in, between 4 and 9: neither renormalised weights nor missing
\* statistics pull it out of its evidence.
OracleWithinEvidence ==
    \A p \in Peers :
        IF Rated(window) # <<>>
        THEN LET grades == {Rated(window)[i] : i \in DOMAIN Rated(window)}
             IN  /\ \E g \in grades : AtMost(Over(g, 1), Oracle(p))
                 /\ \E g \in grades : AtMost(Oracle(p), Over(g, 1))
        ELSE AtMost(Over(4, 1), Oracle(p)) /\ AtMost(Oracle(p), Over(9, 1))

\* Less is better mirrors more is better: scored both ways, whatever ties, and whether or
\* not the amount is one of the pool, an amount gets ratings that average 6.5.  (The
\* docstring's "fraction of all_values that are <= value", or >= if inverse, would not.)
DirectionMirrors ==
    \A s \in Stats, amount \in Amounts :
        LET sum == Plus(percentile_to_rating(amount, s, TRUE),
                        percentile_to_rating(amount, s, FALSE))
        IN  sum.n = 13 * sum.d

\* Of two peers with the same statistics known, one who is nowhere worse is not rated
\* lower, for the statistics of which less is better too.
BetterIsNotRatedLower ==
    \A p, q \in Peers :
        /\ Has(p) = Has(q) /\ Has(p) # {}
        /\ \A s \in Has(p) : IF s \in LessIsBetter THEN Parsed(p, s) <= Parsed(q, s)
                             ELSE Parsed(p, s) >= Parsed(q, s)
        => AtMost(compute_layer2_composite(q), compute_layer2_composite(p))

\* A match better than all those before it never lowers a rating, and a worse one never
\* raises it, although it pushes out the oldest, or leaves its old place, and shifts weights.
NewestMatchDecides ==
    [][LET before == Rated(window)
           after  == Rated(window')
           old == compute_layer1_rating(before)
           new == compute_layer1_rating(after)
       IN  before # <<>> /\ window' # window /\ window'[1] # NoRating =>
             /\ (\A i \in DOMAIN before : before[i] <= window'[1]) => AtMost(old, new)
             /\ (\A i \in DOMAIN before : before[i] >= window'[1]) => AtMost(new, old)]_formulaVars
=============================================================================
