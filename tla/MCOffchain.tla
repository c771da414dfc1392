----------------------------- MODULE MCOffchain -----------------------------
(***************************************************************************)
(* The three long-running processes beside the program, for TLC: the       *)
(* keeper of trigger orders, the settlement crank and the event tape of    *)
(* the indexer.  They share no state, so each behaviour follows one of     *)
(* them, its focus, while the others stand still; the state spaces add up  *)
(* instead of multiplying.                                                 *)
(***************************************************************************)
EXTENDS TriggerKeeper, FinalizeCrank, TapeIndexer, TLC

VARIABLE focus

\* Two such buys may compete for one ask, or be linked.
MCTerms ==
    {[kind |-> "StopEntryBuy", comparator |-> "ge", tape |-> "Underlying",
      threshold |-> 2, quantity |-> 1, max_premium |-> 1]}

\* An ask that the buy can lift, and one that it cannot.
MCRests == {NoRest} \cup [price : {1}, depth : {1}, ready : BOOLEAN]

\* Room for one of them, which may never be there again once it is sold.
MCPegs == {[quote |-> 1, room |-> 1]}

\* A vault that never settles, one whose listing goes back to a holder that
\* cannot be paid, and one with writers of either kind.
MCDues == 0 :> {} @@ 1 :> {"listing"} @@ 2 :> {"writer", "backer"}

MCCollateral == 0 :> {} @@ 1 :> {"holders"} @@ 2 :> {"writers", "backers"}

FirstId == CHOOSE t \in TriggerIds : TRUE
SecondId == CHOOSE t \in TriggerIds \ {FirstId} : TRUE

\* A crank with nothing to do: every account is closed.
CrankAsleep ==
    /\ stage = [v \in Vaults |-> "settled"]
    /\ owed = [v \in Vaults |-> {}] /\ left = [v \in Vaults |-> {}]
    /\ windowOver = {} /\ finished = {} /\ file = {}
    /\ todo = {} /\ funded = {} /\ pass = "settle" /\ clean = FALSE
    /\ restarts = 0

OffchainInit ==
    /\ focus \in {"keeper", "crank", "tape"}
    /\ KeeperInit
    /\ IF focus = "crank" THEN CrankInit ELSE CrankAsleep
    /\ TapeInit
    /\ focus # "keeper" => spot = (CHOOSE s \in Spots : TRUE)
    /\ focus # "tape" => chain = 0

offchainVars == <<allVars, crankVars, tapeVars, focus>>

Keeps(A) == focus = "keeper" /\ A /\ UNCHANGED <<crankVars, tapeVars, focus>>
Cranks(A) == focus = "crank" /\ A /\ UNCHANGED <<allVars, tapeVars, focus>>
Tapes(A) == focus = "tape" /\ A /\ UNCHANGED <<allVars, crankVars, focus>>

OffchainNext == Keeps(KeeperNext) \/ Cranks(CrankNext) \/ Tapes(TapeNext)

\* KeeperFairness, CrankFairness and TapeFairness, each while it has the focus.
\* Only one ever has it, so one condition may stand for one of each.
OffchainFairness ==
    /\ WF_offchainVars(Keeps(FetchOrders)) /\ WF_offchainVars(Keeps(EndTick))
    /\ WF_offchainVars(Keeps(Drop) \/ Cranks(Goes) \/ Tapes(IndexerStep))
    /\ SF_offchainVars(Keeps(ReadPrice) \/ Cranks(Settles) \/ Tapes(PageComes))
    /\ SF_offchainVars(Keeps(SendKnowing(FirstId, TRUE)) \/ Cranks(PaysOut)
                           \/ Tapes(PagesCome))
    /\ SF_offchainVars(Keeps(Land(FirstId)) \/ Cranks(PayHolders(0))
                           \/ Tapes(BatchComes))
    /\ SF_offchainVars(Keeps(SendKnowing(SecondId, TRUE)) \/ Cranks(PayHolders(1)))
    /\ SF_offchainVars(Keeps(Land(SecondId)) \/ Cranks(PayHolders(2)))

OffchainSpec ==
    OffchainInit /\ [][OffchainNext]_offchainVars /\ OffchainFairness

\* Every variable has its type.
OffchainTypeOK == KeeperTypeOK /\ CrankTypeOK /\ TapeTypeOK
=============================================================================
