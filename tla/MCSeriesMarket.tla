---------------------------- MODULE MCSeriesMarket ----------------------------
(***************************************************************************)
(* What trades around an American series, for TLC: the trigger orders of   *)
(* one owner, the volatility oracle that prices it, and the bot that makes *)
(* its market.  They share no state here (a trigger sees quotes, asks and  *)
(* bids that move at will; the bot's orders are filled at will), so each   *)
(* behaviour follows one of them, its focus, while the others stand still: *)
(* the state spaces add up instead of multiplying.                         *)
(***************************************************************************)
EXTENDS MCTriggers, VolOracle, WriterBot, TLC

VARIABLE focus

MarketSymmetry == Permutations(Cells)

marketVars == <<triggerVars, volVars, botVars, focus>>

MarketInit ==
    /\ focus \in {"triggers", "oracle", "maker"}
    /\ TriggerInit /\ VolInit /\ BotInit
    /\ focus # "triggers" => spot = (CHOOSE s \in Spots : TRUE)
                                 /\ quote = 1
    /\ focus # "oracle" =>
           last_spot_price = (CHOOSE s \in LogSpots : TRUE)
               /\ seed_vol = (CHOOSE s \in SeedVols : TRUE)
    /\ focus # "maker" =>
           resting = LeftAsks(CHOOSE mark \in Marks : TRUE)

MarketNext ==
    \/ /\ focus = "triggers" /\ TriggerNext
       /\ UNCHANGED <<volVars, botVars, focus>>
    \/ /\ focus = "oracle" /\ VolNext
       /\ UNCHANGED <<triggerVars, botVars, focus>>
    \/ /\ focus = "maker" /\ BotNext
       /\ UNCHANGED <<triggerVars, volVars, focus>>

MarketSpec == MarketInit /\ [][MarketNext]_marketVars

\* Every variable of the three has its type.
MarketTypeOK == TriggerTypeOK /\ VolTypeOK /\ BotTypeOK
=============================================================================
