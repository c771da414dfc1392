------------------------------ MODULE MCTriggers ------------------------------
(***************************************************************************)
(* Triggers for TLC: what the owner may place, and what may rest.          *)
(***************************************************************************)
EXTENDS Triggers

Terms(kind, comparator, price_tape, threshold, quantity, max_premium) ==
    [kind |-> kind, comparator |-> comparator, tape |-> price_tape,
     threshold |-> threshold, quantity |-> quantity,
     max_premium |-> max_premium]

\* An entry and exits, of unlike sizes, on either tape and side of a price.
MCTerms ==
    {Terms("StopEntryBuy", "ge", "Underlying", 2, 2, 2),
     Terms("TakeProfitSell", "ge", "Underlying", 2, 2, 1),
     Terms("StopLossSell", "le", "Contract", 1, 1, 2)}

Rest(price, depth, ready) == [price |-> price, depth |-> depth, ready |-> ready]

\* Near, and one that a fire cannot use.
MCRests == {NoRest, Rest(2, 1, TRUE), Rest(1, 2, FALSE)}

\* Cheap and with room, dear and with less.
MCPegs == {[quote |-> 1, room |-> 2], [quote |-> 2, room |-> 1]}
=============================================================================
