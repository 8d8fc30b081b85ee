----------------------------- MODULE MCServices -----------------------------
(***************************************************************************)
(* Small instances of the services that share no state with each other.    *)
(* They are put side by side: a behaviour moves one of them, its part, and *)
(* the others stay as they began.                                          *)
(***************************************************************************)
EXTENDS SquadImport, MatchData, OracleFormulas, FloorCache, VolatilityTiers, Valuation,
        Waitlist, TLC

CONSTANTS
    Parts,          \* the parts to check
    eng, esp,       \* leagues
    mci, fcb, rma,  \* teams
    f1, p1,         \* a fixture, a player
    passes, conceded  \* pass_accuracy and goals_conceded of a goalkeeper

VARIABLE part

MCLeagueOf == mci :> eng @@ fcb :> esp
MCLeagueOfFixture == f1 :> esp
MCSides == f1 :> {fcb, rma}
MCTeamOrder == <<fcb, rma>>
MCWeight == passes :> 15 @@ conceded :> 20

everything == <<squadVars, matchVars, formulaVars, floorVars, tierVars, valuationVars, waitlistVars>>

\* A part that does not move begins in one state only.
MCInit ==
    /\ part \in Parts
    /\ SquadInit /\ MatchInit /\ FormulaInit /\ ValuationInit /\ WaitlistInit
    /\ FloorInit /\ (part # "floor" => users = NMin + 1)
    /\ TierInit /\ (part # "tiers" => liquidity = [p \in Players |-> 0])

Others(name) ==
    /\ name # "squads" => UNCHANGED squadVars
    /\ name # "matches" => UNCHANGED matchVars
    /\ name # "formulas" => UNCHANGED formulaVars
    /\ name # "floor" => UNCHANGED floorVars
    /\ name # "tiers" => UNCHANGED tierVars
    /\ name # "values" => UNCHANGED valuationVars
    /\ name # "waitlist" => UNCHANGED waitlistVars
    /\ UNCHANGED part

MCNext ==
    \/ part = "squads" /\ SquadNext /\ Others("squads")
    \/ part = "matches" /\ MatchNext /\ Others("matches")
    \/ part = "formulas" /\ FormulaNext /\ Others("formulas")
    \/ part = "floor" /\ FloorNext /\ Others("floor")
    \/ part = "tiers" /\ TierNext /\ Others("tiers")
    \/ part = "values" /\ ValuationNext /\ Others("values")
    \/ part = "waitlist" /\ WaitlistNext /\ Others("waitlist")

MCSpec == MCInit /\ [][MCNext]_<<part, everything>>

\* MatchFair for the behaviours in which matches move.
MCMatchFair ==
    /\ WF_matchVars(part = "matches" /\ Tick)
    /\ WF_matchVars(part = "matches" /\ Check)
    /\ WF_matchVars(part = "matches" /\ NextDay)
    /\ WF_matchVars(part = "matches" /\ SyncSteps)
    /\ WF_matchVars(part = "matches" /\ RefreshSteps)
    /\ \A f \in Fixtures :
          WF_matchVars(part = "matches" /\ match[f] \in {"live", "ended"} /\ Play(f))

MCFairSpec == MCSpec /\ MCMatchFair
=============================================================================
