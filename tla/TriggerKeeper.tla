--------------------------- MODULE TriggerKeeper ---------------------------
(***************************************************************************)
(* The crank that executes trigger orders (crank/triggerCrank.ts), over    *)
(* the program of Triggers.                                                *)
(*                                                                         *)
(* A tick takes a snapshot of all orders, reads a price, and goes through  *)
(* the snapshot: what it sends rests on orders that may have been          *)
(* cancelled, filled or replaced, and on a price that may have moved.      *)
(* Every call to the outside may fail, a transaction may be lost or land   *)
(* late, and the process may be restarted at any point.                    *)
(***************************************************************************)
EXTENDS Triggers

CONSTANTS
    FireMarginBps,   \* distance past the threshold at which the keeper sends
    LookupTable,     \* OPTA_TRIGGER_ALT is set, so book fires can be encoded
    MaxFlight        \* bound: transactions under way at once

ASSUME KeeperAssumption ==
    /\ FireMarginBps \in Nat
    /\ LookupTable \in BOOLEAN
    /\ MaxFlight \in Nat \ {0}

VARIABLES
    phase,    \* "idle", "fetched" or "loop": where the tick is
    view,     \* the orders of the snapshot that are still to be considered
    seen,     \* the price this tick has read
    flight    \* transactions sent and not yet landed or dropped

keeperVars == <<phase, view, seen, flight>>

NoOrders == [t \in TriggerIds |-> NoTrigger]

KeeperInit ==
    /\ TriggerInit
    /\ phase = "idle"
    /\ view = NoOrders
    /\ seen = 0
    /\ flight = {}

-----------------------------------------------------------------------------
(* A tick. *)

FetchOrders ==
    /\ phase = "idle"
    /\ view' = trigger
    /\ phase' = IF trigger = NoOrders THEN "idle" ELSE "fetched"
    /\ UNCHANGED <<seen, flight, triggerVars>>

ReadPrice ==
    /\ phase = "fetched"
    /\ seen' = spot
    /\ phase' = "loop"
    /\ UNCHANGED <<view, flight, triggerVars>>

Margin(order) == MulDiv(order.threshold, FireMarginBps, 10000)

\* The keeper compares with the underlying, whatever tape the order is on.
KeeperWants(order) ==
    /\ IF order.comparator = "ge"
       THEN seen >= order.threshold + Margin(order)
       ELSE seen <= order.threshold - Margin(order)
    /\ order.kind # "StopEntryBuy" => seen > TriggerStrike

\* The program's quote, simulated, is within what the order escrowed.
PegAffordable(order) ==
    ~expired /\ quote * order.quantity <= order.max_premium * order.quantity

\* Mutant: an ask that was filled is still taken for a route.
RouteIgnoresDepth(order, discovered) ==
    IF order.kind = "StopEntryBuy" /\ discovered
           /\ best_ask.price <= order.max_premium
    THEN "ask" ELSE "vault"

\* The best ask, whether or not it is ready, if it is within the order's price; else the vault's peg.
RouteFor(order, discovered) ==
    IF order.kind = "StopEntryBuy" /\ discovered /\ best_ask.depth > 0
           /\ best_ask.price <= order.max_premium
    THEN "ask" ELSE "vault"

\* Skipped for what the keeper sees, or given up at an error: on to the next.
SkipOrder(t) ==
    /\ phase = "loop" /\ view[t].open
    /\ view' = [view EXCEPT ![t] = NoTrigger]
    /\ UNCHANGED <<phase, seen, flight, triggerVars>>

SendKnowing(t, discovered) ==
    LET route == RouteFor(view[t], discovered) IN
    /\ phase = "loop" /\ view[t].open
    /\ KeeperWants(view[t])
    /\ view[t].kind = "StopEntryBuy" => PegAffordable(view[t])
    /\ Cardinality(flight) < MaxFlight
    /\ route = "ask" => LookupTable
    /\ flight' = flight \cup
           {[id |-> t, route |-> route, peer |-> view[t].oco_link]}
    /\ view' = [view EXCEPT ![t] = NoTrigger]
    /\ UNCHANGED <<phase, seen, triggerVars>>

\* The keeper may have failed to read the book.
SendOrder(t) == \E discovered \in BOOLEAN : SendKnowing(t, discovered)

\* The pass is over; or the price could not be read, and the tick is given up;
\* or the process stops and starts again.
EndTick ==
    /\ phase # "idle"
    /\ phase' = "idle"
    /\ view' = NoOrders
    /\ seen' = 0
    /\ UNCHANGED <<flight, triggerVars>>

-----------------------------------------------------------------------------
(* The network. *)

\* A retry may have sent another copy, which is still under way.
Land(t) ==
    \E tx \in flight :
        /\ tx.id = t
        /\ ExecuteTrigger(t, tx.route, tx.peer)
        /\ flight' \in {flight, flight \ {tx}}
        /\ UNCHANGED <<phase, view, seen>>

\* Never seen again, or landed and refused.
Drop ==
    \E tx \in flight :
        /\ flight' = flight \ {tx}
        /\ UNCHANGED <<phase, view, seen, triggerVars>>

\* Of the world, what a keeper can see.  Executions by others, and what others
\* draw from an escrow, are in Triggers.
KeeperNext ==
    \/ FetchOrders \/ ReadPrice \/ EndTick \/ Drop
    \/ \E t \in TriggerIds : SkipOrder(t) \/ SendOrder(t) \/ Land(t)
    \/ (Trade \/ AsksMove \/ Expire \/ OwnerActs) /\ UNCHANGED keeperVars

allVars == <<triggerVars, keeperVars>>

\* The keeper runs, calls and transactions that are tried again and again
\* succeed in the end, and none is under way for ever.
KeeperFairness ==
    /\ WF_allVars(FetchOrders) /\ WF_allVars(EndTick) /\ WF_allVars(Drop)
    /\ SF_allVars(ReadPrice)
    /\ \A t \in TriggerIds : SF_allVars(SendKnowing(t, TRUE)) /\ SF_allVars(Land(t))

KeeperSpec == KeeperInit /\ [][KeeperNext]_allVars /\ KeeperFairness

-----------------------------------------------------------------------------
(* Properties. *)

\* Every variable has its type.
KeeperTypeOK ==
    /\ TriggerTypeOK
    /\ phase \in {"idle", "fetched", "loop"}
    /\ view \in [TriggerIds -> TriggerType]
    /\ seen \in Nat
    /\ flight \subseteq [id : TriggerIds, route : Routes,
                         peer : TriggerIds \cup {NoLink}]

\* A buy on the underlying whose price has crossed with the margin, that the
\* peg's quote lets the keeper send, whose escrow is whole, and whose link (if
\* any) is in order.
ArmedBuy(t) ==
    LET order == trigger[t] IN
    /\ order.open /\ order.kind = "StopEntryBuy" /\ order.tape = "Underlying"
    /\ order.quantity > 0
    /\ order.escrow >= order.max_premium * order.quantity
    /\ IF order.comparator = "ge" THEN spot >= order.threshold + Margin(order)
                                  ELSE spot <= order.threshold - Margin(order)
    /\ PegAffordable(order)
    /\ order.oco_link # NoLink => LinksBack(t)

\* The ask that the keeper would pick.
AskInReach(t) == best_ask.depth > 0 /\ best_ask.price <= trigger[t].max_premium

\* A buy that the vault's peg can serve in full, or the ask in reach in part.
WaitsForPeg(t) == ArmedBuy(t) /\ ~AskInReach(t) /\ trigger[t].quantity <= room
WaitsForAsk(t) == ArmedBuy(t) /\ AskInReach(t) /\ best_ask.ready

\* A buy does not stay armed for ever while a ready ask is in its reach all the
\* time, or while none is at any time and the vault backs all it wants
\* (triggerCrank.ts: one order that keeps failing, lost transactions, restarts, a
\* stale view never starve another).
ArmedBuysFire ==
    \A t \in TriggerIds : ~<>[]WaitsForPeg(t) /\ ~<>[]WaitsForAsk(t)
=============================================================================
