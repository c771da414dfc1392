------------------------------ MODULE Triggers ------------------------------
(***************************************************************************)
(* Trigger orders of one owner on one American call series, and their OCO  *)
(* pairs (one cancels the other).                                          *)
(*                                                                         *)
(* A trigger is an order that anybody may execute once a price has crossed *)
(* its threshold.  A buy carries dollars in an escrow of its own; a sell   *)
(* carries nothing, and reaches into the owner's token account when it     *)
(* fires.  The program re-checks everything when it executes: whoever sent *)
(* the transaction decided on what it saw before.                          *)
(*                                                                         *)
(* The rest of the world is its best ask, its best bid, the price of the   *)
(* underlying, the model price of the option and how many more contracts   *)
(* the vault can back, which all move at will.                             *)
(* What fills do to the makers and the vault is in OrderBook and           *)
(* WriterAskVault; the owner of the triggers is followed here.             *)
(***************************************************************************)
EXTENDS VaultMath, Totals

CONSTANTS
    TriggerIds,      \* addresses (nonces) at which the owner may place
    TriggerTerms,    \* terms the owner may place: see OrderTerms
    TriggerStrike,   \* the series' strike, which caps the exercise of a call
    TriggerFeeBps,   \* protocol fee, basis points
    Spots,           \* prices of the underlying
    Pegs,            \* what the vault's peg may be: see PegType
    Rests,           \* what the best ask or bid may be: see NoRest
    OwnerUsdc,       \* the owner's dollars at the start
    OwnerOptions,    \* the owner's option tokens at the start
    MaxPlaced        \* bound: triggers placed in all

TriggerKinds == {"StopEntryBuy", "TakeProfitSell", "StopLossSell"}

OrderTerms == [kind : TriggerKinds, comparator : {"le", "ge"},
               tape : {"Underlying", "Contract"}, threshold : Nat,
               quantity : Nat \ {0}, max_premium : Nat]

\* The model price of one option, spread included, and the contracts that the
\* vault's free collateral covers.
PegType == [quote : Nat, room : Nat]

\* An order is ready when all that a fire against it must name is there: of a
\* writer ask the pot and the position, which its first direct fill creates; of
\* a bid the token account of its maker; of any the money or tokens it offers.
RestType == [price : Nat, depth : Nat, ready : BOOLEAN]

\* A zero depth is an order that is closed, or is not there.
NoRest == [price |-> 0, depth |-> 0, ready |-> FALSE]

ASSUME TriggerAssumption ==
    /\ IsFiniteSet(TriggerIds)
    /\ "none" \notin TriggerIds
    /\ TriggerTerms \subseteq OrderTerms
    /\ TriggerStrike \in Nat \ {0}
    /\ TriggerFeeBps \in 0..10000
    /\ Spots \subseteq Nat /\ Pegs \subseteq PegType
    /\ Rests \subseteq RestType /\ NoRest \in Rests
    /\ OwnerUsdc \in Nat /\ OwnerOptions \in Nat /\ MaxPlaced \in Nat

VARIABLES
    trigger,   \* the TriggerOrder at each address, with its escrow; history:
               \* the contracts it has fired `uncounted`, and what has been
               \* `drawn` from its escrow by calls that are not about it
    cash,      \* the owner's USDC
    held,      \* option tokens in the owner's account
    spot,      \* the price the oracle gives
    quote,     \* the price of the option the program computes
    room,      \* contracts that the vault's free collateral covers
    best_ask,       \* the best ask of the book
    best_bid,       \* the best bid of the book
    expired,   \* the series has expired
    placed     \* how many triggers have been placed

ownerVars == <<trigger, cash, held>>
worldVars == <<spot, quote, room, best_ask, best_bid, expired>>
triggerVars == <<ownerVars, worldVars, placed>>

NoLink == "none"

NoTrigger ==
    [open |-> FALSE, kind |-> "StopEntryBuy", comparator |-> "ge",
     tape |-> "Underlying", threshold |-> 0, quantity |-> 0,
     max_premium |-> 0, escrow |-> 0, oco_link |-> NoLink,
     uncounted |-> 0, drawn |-> 0]

TriggerInit ==
    /\ trigger = [t \in TriggerIds |-> NoTrigger]
    /\ cash = OwnerUsdc
    /\ held = OwnerOptions
    /\ spot \in Spots
    /\ \E peg \in Pegs : quote = peg.quote /\ room = peg.room
    /\ best_ask = NoRest
    /\ best_bid = NoRest
    /\ expired = FALSE
    /\ placed = 0

-----------------------------------------------------------------------------
(* The world. *)

Trade ==
    /\ spot' \in Spots
    /\ \E peg \in Pegs : quote' = peg.quote /\ room' = peg.room
    /\ UNCHANGED <<ownerVars, best_ask, best_bid, expired, placed>>

\* Makers post, cancel, or fill among themselves.
AsksMove ==
    /\ best_ask' \in Rests
    /\ UNCHANGED <<ownerVars, spot, quote, room, best_bid, expired, placed>>

BidsMove ==
    /\ best_bid' \in Rests
    /\ UNCHANGED <<ownerVars, spot, quote, room, best_ask, expired, placed>>

Expire ==
    /\ ~expired
    /\ expired' = TRUE
    /\ UNCHANGED <<ownerVars, spot, quote, room, best_ask, best_bid, placed>>

\* The owner disposes of a token that a sell may be waiting to sell.
SpendToken ==
    /\ held > 0
    /\ held' = held - 1
    /\ UNCHANGED <<trigger, cash, worldVars, placed>>

\* Any escrow is the protocol's to move.  The exercise of another series takes
\* what its vault is short of from whichever account the caller names for it.
EscrowPaysElsewhere(t, amount) ==
    /\ trigger[t].open
    /\ amount > 0 /\ amount <= trigger[t].escrow
    /\ trigger' = [trigger EXCEPT ![t].escrow = @ - amount, ![t].drawn = @ + amount]
    /\ UNCHANGED <<cash, held, worldVars, placed>>

-----------------------------------------------------------------------------
(* What the owner does. *)

NeededEscrow(terms) ==
    IF terms.kind = "StopEntryBuy" THEN terms.max_premium * terms.quantity
                                   ELSE 0

PlaceTrigger(t, terms) ==
    /\ placed < MaxPlaced
    /\ ~trigger[t].open
    /\ IF terms.kind = "StopEntryBuy" THEN terms.max_premium > 0
                                      ELSE terms.quantity <= held
    /\ NeededEscrow(terms) <= cash
    /\ trigger' = [trigger EXCEPT ![t] =
           [open |-> TRUE, kind |-> terms.kind,
            comparator |-> terms.comparator, tape |-> terms.tape,
            threshold |-> terms.threshold, quantity |-> terms.quantity,
            max_premium |-> terms.max_premium,
            escrow |-> NeededEscrow(terms), oco_link |-> NoLink,
            uncounted |-> 0, drawn |-> 0]]
    /\ cash' = cash - NeededEscrow(terms)
    /\ placed' = placed + 1
    /\ UNCHANGED <<held, worldVars>>

\* The order that a link names exists and links back.
LinksBack(t) ==
    /\ trigger[t].oco_link \in TriggerIds
    /\ trigger[trigger[t].oco_link].open
    /\ trigger[trigger[t].oco_link].oco_link = t

LinkOco(a, b) ==
    /\ a # b
    /\ trigger[a].open /\ trigger[b].open
    /\ trigger[a].oco_link = NoLink /\ trigger[b].oco_link = NoLink
    /\ trigger' = [trigger EXCEPT ![a].oco_link = b, ![b].oco_link = a]
    /\ UNCHANGED <<cash, held, worldVars, placed>>

CancelTrigger(t) ==
    /\ trigger[t].open
    /\ trigger[t].oco_link # NoLink => LinksBack(t)
    /\ trigger' = [s \in TriggerIds |->
           IF s = t THEN NoTrigger
           ELSE IF s = trigger[t].oco_link
                THEN [trigger[s] EXCEPT !.oco_link = NoLink]
                ELSE trigger[s]]
    /\ cash' = cash + trigger[t].escrow
    /\ UNCHANGED <<held, worldVars, placed>>

-----------------------------------------------------------------------------
(* Execution, which is open to everybody. *)

Crosses(order, price) ==
    IF order.comparator = "le" THEN price <= order.threshold
                               ELSE price >= order.threshold

\* The comparator, on the tape the order selected, at this moment.  The model
\* gives no price for an expired option.
ConditionHolds(order) ==
    IF order.tape = "Underlying" THEN Crosses(order, spot)
                                 ELSE ~expired /\ Crosses(order, quote)

\* The account supplied for the sibling must be a trigger that still exists;
\* when something fires and there is a link, it must be the one linked, and
\* link back.
PeerAccountReads(peer) == peer # NoLink => trigger[peer].open

PeerMatches(t, peer) ==
    trigger[t].oco_link # NoLink => peer = trigger[t].oco_link /\ LinksBack(t)

\* What an order is after a fire that leaves some of it.  Where the order has
\* been given as its own sibling there are two copies of it, and the one written
\* back last has not seen the fire.
Remainder(t, peer, n, spent) ==
    IF peer = t
    THEN [trigger[t] EXCEPT !.escrow = @ - spent, !.uncounted = @ + n]
    ELSE [trigger[t] EXCEPT !.quantity = @ - n, !.escrow = @ - spent,
                            !.oco_link = NoLink]

\* Mutant: what is taken from the sibling is not clamped.
AfterFireUnclamped(t, peer, n, spent) ==
    [s \in TriggerIds |->
        CASE s = t /\ trigger[t].quantity = n -> NoTrigger
          [] s = t /\ trigger[t].quantity # n -> Remainder(t, peer, n, spent)
          [] s = trigger[t].oco_link ->
               [trigger[s] EXCEPT !.quantity = @ - n, !.oco_link = NoLink]
          [] OTHER -> trigger[s]]

\* Mutant: the sibling keeps its size.
AfterFireSiblingWhole(t, peer, n, spent) ==
    [s \in TriggerIds |->
        CASE s = t /\ trigger[t].quantity = n -> NoTrigger
          [] s = t /\ trigger[t].quantity # n -> Remainder(t, peer, n, spent)
          [] s = trigger[t].oco_link -> [trigger[s] EXCEPT !.oco_link = NoLink]
          [] OTHER -> trigger[s]]

\* The triggers after a fire of n contracts: this order shrinks, or closes when
\* nothing is left; its sibling shrinks with it; and both end unlinked.
AfterFire(t, peer, n, spent) ==
    [s \in TriggerIds |->
        CASE s = t /\ trigger[t].quantity = n -> NoTrigger
          [] s = t /\ trigger[t].quantity # n -> Remainder(t, peer, n, spent)
          [] s = trigger[t].oco_link ->
               [trigger[s] EXCEPT !.quantity = SatSub(@, n),
                                  !.oco_link = NoLink]
          [] OTHER -> trigger[s]]

\* What an order that closes hands back of its escrow.
Refund(t, n, spent) ==
    IF trigger[t].quantity = n THEN trigger[t].escrow - spent ELSE 0

\* A buy pays from its escrow.
FireBuy(t, peer, n, spent) ==
    /\ spent <= trigger[t].escrow
    /\ trigger' = AfterFire(t, peer, n, spent)
    /\ cash' = cash + Refund(t, n, spent)
    /\ held' = held + n

\* A sell hands over tokens for what is paid to its owner.
FireSell(t, peer, n, proceeds) ==
    /\ trigger' = AfterFire(t, peer, n, 0)
    /\ cash' = cash + proceeds
    /\ held' = held - n

TakeFrom(rest, n) ==
    IF rest.depth = n THEN NoRest ELSE [rest EXCEPT !.depth = @ - n]

\* How much the book can do for an order.
AskFill(t) == AtMost(trigger[t].quantity, best_ask.depth)

BidFill(t) == AtMost(AtMost(trigger[t].quantity, best_bid.depth), held)

\* Nothing to do that is worth an error.
Skips(t, route) ==
    CASE route = "ask" -> \/ expired
                          \/ best_ask.price <= trigger[t].max_premium
                             /\ trigger[t].quantity = 0
      [] route = "bid" ->
            /\ trigger[t].max_premium > 0
            /\ best_bid.price >= trigger[t].max_premium
            /\ expired \/ BidFill(t) = 0
      [] route = "vault" ->
            \/ trigger[t].kind = "StopLossSell"
            \/ /\ trigger[t].kind = "TakeProfitSell"
               /\ AtMost(trigger[t].quantity, held) = 0

\* The order stays, but its own link has been dropped before it was known that
\* nothing fires; unless a copy that has not seen that is written back.
SkipFire(t, route, peer) ==
    /\ Skips(t, route)
    /\ trigger' = IF peer = t THEN trigger
                  ELSE [trigger EXCEPT ![t].oco_link = NoLink]
    /\ UNCHANGED <<cash, held, worldVars>>

\* Mutant: the buyer pays the protocol's fee on top.
LiftAskWithFee(t, peer) ==
    /\ ~expired
    /\ best_ask.ready /\ best_ask.price <= trigger[t].max_premium
    /\ AskFill(t) > 0
    /\ FireBuy(t, peer, AskFill(t),
               AskFill(t) * best_ask.price
                   + ProtocolFee(AskFill(t) * best_ask.price, TriggerFeeBps))
    /\ best_ask' = TakeFrom(best_ask, AskFill(t))
    /\ UNCHANGED <<spot, quote, room, best_bid, expired>>

LiftAsk(t, peer) ==
    /\ ~expired
    /\ best_ask.ready /\ best_ask.price <= trigger[t].max_premium
    /\ AskFill(t) > 0
    /\ FireBuy(t, peer, AskFill(t), AskFill(t) * best_ask.price)
    /\ best_ask' = TakeFrom(best_ask, AskFill(t))
    /\ UNCHANGED <<spot, quote, room, best_bid, expired>>

\* The vault's peg sells all or nothing, at the program's own price, and no more
\* than its free collateral covers.
BuyAtPeg(t, peer) ==
    /\ ~expired
    /\ trigger[t].quantity > 0
    /\ quote <= trigger[t].max_premium
    /\ trigger[t].quantity <= room
    /\ FireBuy(t, peer, trigger[t].quantity, trigger[t].quantity * quote)
    /\ room' = room - trigger[t].quantity
    /\ UNCHANGED <<spot, quote, best_ask, best_bid, expired>>

HitBid(t, peer) ==
    /\ ~expired
    /\ trigger[t].max_premium > 0
    /\ best_bid.ready /\ best_bid.price >= trigger[t].max_premium
    /\ BidFill(t) > 0
    /\ FireSell(t, peer, BidFill(t),
                BidFill(t) * best_bid.price
                    - ProtocolFee(BidFill(t) * best_bid.price, TriggerFeeBps))
    /\ best_bid' = TakeFrom(best_bid, BidFill(t))
    /\ UNCHANGED <<spot, quote, room, best_ask, expired>>

Intrinsic == ExerciseCappedIntrinsic("Call", spot, TriggerStrike, TriggerStrike)

\* What the vault has left for it is moved by others at will, room included.
ExerciseAtVault(t, peer) ==
    /\ trigger[t].kind = "TakeProfitSell"
    /\ ~expired
    /\ Intrinsic > 0
    /\ AtMost(trigger[t].quantity, held) > 0
    /\ FireSell(t, peer, AtMost(trigger[t].quantity, held),
                AtMost(trigger[t].quantity, held) * Intrinsic)
    /\ UNCHANGED worldVars

Fire(t, route, peer) ==
    IF trigger[t].kind = "StopEntryBuy"
    THEN \/ route = "ask" /\ LiftAsk(t, peer)
         \/ route = "vault" /\ BuyAtPeg(t, peer)
    ELSE \/ route = "bid" /\ HitBid(t, peer)
         \/ route = "vault" /\ ExerciseAtVault(t, peer)

\* The accounts of a book order can only be supplied while it exists, and the
\* two sides of the book are told apart by its kind.
RouteExists(t, route) ==
    CASE route = "ask" -> trigger[t].kind = "StopEntryBuy" /\ best_ask.depth > 0
      [] route = "bid" -> trigger[t].kind # "StopEntryBuy" /\ best_bid.depth > 0
      [] route = "vault" -> TRUE

\* Mutant: the condition is the keeper's business.
ExecuteUnchecked(t, route, peer) ==
    /\ trigger[t].open
    /\ PeerAccountReads(peer)
    /\ RouteExists(t, route)
    /\ \/ SkipFire(t, route, peer)
       \/ PeerMatches(t, peer) /\ Fire(t, route, peer)
    /\ UNCHANGED placed

ExecuteTrigger(t, route, peer) ==
    /\ trigger[t].open
    /\ PeerAccountReads(peer)
    /\ ConditionHolds(trigger[t])
    /\ RouteExists(t, route)
    /\ \/ SkipFire(t, route, peer)
       \/ PeerMatches(t, peer) /\ Fire(t, route, peer)
    /\ UNCHANGED placed

Routes == {"ask", "bid", "vault"}

\* Anybody may call, with any accounts.
AnyoneExecutes ==
    \E t \in TriggerIds, route \in Routes, peer \in TriggerIds \cup {NoLink} :
        ExecuteTrigger(t, route, peer)

EscrowsPayElsewhere ==
    \E t \in TriggerIds : \E amount \in 1..trigger[t].escrow :
        EscrowPaysElsewhere(t, amount)

TriggerWorld == Trade \/ AsksMove \/ BidsMove \/ Expire \/ SpendToken

OwnerActs ==
    \/ \E t \in TriggerIds, terms \in TriggerTerms : PlaceTrigger(t, terms)
    \/ \E t \in TriggerIds : CancelTrigger(t)
    \/ \E a, b \in TriggerIds : LinkOco(a, b)

TriggerNext == TriggerWorld \/ OwnerActs \/ AnyoneExecutes \/ EscrowsPayElsewhere

TriggerSpec == TriggerInit /\ [][TriggerNext]_triggerVars

-----------------------------------------------------------------------------
(* Properties. *)

TriggerType ==
    [open : BOOLEAN, kind : TriggerKinds, comparator : {"le", "ge"},
     tape : {"Underlying", "Contract"}, threshold : Nat, quantity : Nat,
     max_premium : Nat, escrow : Nat, oco_link : TriggerIds \cup {NoLink},
     uncounted : Nat, drawn : Nat]

\* Every variable has its type.
TriggerTypeOK ==
    /\ trigger \in [TriggerIds -> TriggerType]
    /\ cash \in Nat /\ held \in Nat
    /\ spot \in Nat /\ quote \in Nat /\ room \in Nat
    /\ best_ask \in RestType /\ best_bid \in RestType
    /\ expired \in BOOLEAN
    /\ placed \in 0..MaxPlaced

\* Through partial fires and the shrinking of siblings, the escrow of an open buy
\* lacks nothing of its ceiling for all it still wants (so no fire fails for want
\* of escrow, execute_trigger.rs), but what others drew from it and the ceiling
\* of contracts fired uncounted; a sell holds nothing, and a closed order keeps
\* nothing.
EscrowCoversCeiling ==
    \A t \in TriggerIds :
        LET order == trigger[t] IN
        IF order.open /\ order.kind = "StopEntryBuy"
        THEN order.escrow + order.drawn + order.max_premium * order.uncounted
                 >= order.max_premium * order.quantity
        ELSE order.escrow = 0

\* A fire of a linked order takes its contracts from both legs at once.
BothLegsMove(t) ==
    LinksBack(t) /\ trigger'[t].quantity < trigger[t].quantity /\ held' # held =>
        LET peer == trigger[t].oco_link
            fired == IF held' > held THEN held' - held ELSE held - held'
        IN  /\ trigger'[t].quantity = SatSub(trigger[t].quantity, fired)
            /\ trigger'[peer].quantity = SatSub(trigger[peer].quantity, fired)
            /\ trigger'[t].oco_link = NoLink
            /\ trigger'[peer].oco_link = NoLink
            /\ \A s \in TriggerIds \ {t, peer} : trigger'[s] = trigger[s]

\* Contracts that leave a linked order by firing leave its sibling in the same
\* step, both orders end unlinked, and no other order moves (execute_trigger.rs:
\* a second transaction for the sibling could come too late).
OcoMovesBothLegs == [][\A t \in TriggerIds : BothLegsMove(t)]_triggerVars

\* The owner's dollars, in hand and in escrow.
OwnersDollars == cash + Total([t \in TriggerIds |-> trigger[t].escrow])

\* A fire is taken off the order, or is on record as one that was not: that of
\* an unlinked order given as its own sibling.
CountsDown(t, n) ==
    \/ trigger'[t].quantity = trigger[t].quantity - n
    \/ trigger[t].oco_link = NoLink
       /\ trigger'[t].uncounted = trigger[t].uncounted + n

\* What a buyer may pay, at most its ceiling for each contract.
BuyWithinTerms(t, n) ==
    /\ trigger[t].kind = "StopEntryBuy"
    /\ ConditionHolds(trigger[t])
    /\ n <= trigger[t].quantity /\ CountsDown(t, n)
    /\ OwnersDollars - OwnersDollars' <= trigger[t].max_premium * n

\* What a seller must get: its floor less the fee from the book, or the
\* intrinsic value from the vault.
LeastProceeds(t, n) ==
    AtMost(n * trigger[t].max_premium
             - ProtocolFee(n * trigger[t].max_premium, TriggerFeeBps),
           n * Intrinsic)

SaleWithinTerms(t, n) ==
    /\ trigger[t].kind # "StopEntryBuy"
    /\ ConditionHolds(trigger[t])
    /\ n <= trigger[t].quantity /\ CountsDown(t, n)
    /\ OwnersDollars' - OwnersDollars >= LeastProceeds(t, n)

\* Another series' exercise drew on the escrow of an open order.
DrawnFrom(t, dollars) ==
    trigger'[t].open /\ trigger'[t].drawn = trigger[t].drawn + dollars

MoneyWithinTerms ==
    /\ held' > held =>
           \E t \in TriggerIds : BuyWithinTerms(t, held' - held)
    /\ held' < held /\ OwnersDollars' # OwnersDollars =>
           \E t \in TriggerIds : SaleWithinTerms(t, held - held')
    /\ held' = held /\ OwnersDollars' # OwnersDollars =>
           \E t \in TriggerIds : DrawnFrom(t, OwnersDollars - OwnersDollars')

\* Whoever executes, and on whatever it believed, the owner's dollars change
\* only for tokens, within the terms of an order that was open, whose condition
\* holds and which counts the fire (execute_trigger.rs); but for what is on
\* record as drawn from an escrow or fired uncounted.
OwnersTermsHold == [][MoneyWithinTerms]_triggerVars

\* A link is always mutual (cancel_trigger.rs and execute_trigger.rs: a one-sided
\* link can neither fire nor be cancelled).
LinksAreMutual ==
    \A t \in TriggerIds :
        trigger[t].open /\ trigger[t].oco_link # NoLink => LinksBack(t)
=============================================================================
