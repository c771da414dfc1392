----------------------------- MODULE WriterBot -----------------------------
(***************************************************************************)
(* The market maker (writer/src): a bot that rests one ask and one bid on  *)
(* each series of a market.  A tick reads its own asks, walks the cells of *)
(* the ladder, sweeps the asks that left it, reads its bids, and only then *)
(* derives every bid from what became of the ask on its cell.              *)
(*                                                                         *)
(* Between any two steps takers fill its orders and others sweep them, so  *)
(* a tick works from lists that are out of date.  Cancels fail or find     *)
(* nothing; a post that is taken for failed may have landed after all, and *)
(* is then a stray.  The book refuses no order that crosses another.       *)
(*                                                                         *)
(* Spreads are in thousandths, and prices in thousandths of the model's.   *)
(* Refusals for want of balance, inventory or room for one more cell are   *)
(* choices: the bot may always refrain from a post.  Its bids have one cap *)
(* for all, since there is one market.                                     *)
(***************************************************************************)
EXTENDS Integers, FiniteSets, FiniteSetsExt

CONSTANTS
    Cells,           \* series the ladder may hold
    Marks,           \* model prices of one option
    AskSpread,       \* what an ask is above the model price
    CrossGuard,      \* what a bid must be below the ask at rest
    DriftLimit,      \* move that makes an order be repriced
    Epsilon,         \* move that makes an old ask be repriced
    AskQty,          \* contracts of an ask
    BidQty,          \* most contracts of a bid
    MaxBidNotional,  \* the bot's cap on what its bids may cost
    FailLimit,       \* quote failures in a row that pull an ask
    FullBoard,       \* asks off the ladder are swept
    MaxPosts,        \* bound: orders posted in all
    MaxStrays        \* bound: strays at rest at a time

ASSUME BotAssumption ==
    /\ IsFiniteSet(Cells)
    /\ Marks \subseteq Nat \ {0}
    /\ AskSpread \in 0..600 /\ CrossGuard \in 0..1000
    /\ DriftLimit \in Nat /\ Epsilon \in Nat
    /\ AskQty \in Nat \ {0} /\ BidQty \in Nat \ {0}
    /\ MaxBidNotional \in Nat /\ FailLimit \in Nat \ {0}
    /\ FullBoard \in BOOLEAN
    /\ MaxPosts \in Nat /\ MaxStrays \in Nat

VARIABLES
    resting,    \* the bot's orders on the book
    phase,      \* what the bot is at: "asleep", "asks" or "bids"
    ladder,     \* the cells of this tick
    todo,       \* those that are still to come
    myOrders,   \* the asks, as read at the start of the tick, still to come
    myBids,     \* the bids, as read at the start of their pass, still to come
    outcomes,   \* the ask and the model price that a cell's bid hangs on
    exposure,   \* what the bot takes its bids to cost
    failCounts, \* quote failures in a row
    clean,      \* history: the last bid pass ended, and its cancels landed
    nonce       \* orders posted so far

tickVars == <<ladder, myOrders>>
bidVars == <<exposure, clean, myBids>>
botVars == <<resting, phase, todo, outcomes, failCounts, nonce, tickVars, bidVars>>

\* No ask is at rest that a bid could be measured against.
NoAnchor == [price |-> 0, mark |-> 0]
NoOutcomes == [c \in Cells |-> NoAnchor]

Order(c, side, price, quantity, n, stray) ==
    [cell |-> c, side |-> side, price |-> price, quantity |-> quantity,
     nonce |-> n, stray |-> stray]

AskPrice(mark) == mark * (1000 + AskSpread)

\* An earlier process left an ask on every series; takers may empty the book
\* before the bot looks at it.
LeftAsks(mark) ==
    {Order(c, "ask", AskPrice(mark), AskQty, 0, FALSE) : c \in Cells}

BotInit ==
    /\ resting \in {LeftAsks(mark) : mark \in Marks}
    /\ phase = "asleep"
    /\ ladder = {} /\ todo = {}
    /\ myOrders = {} /\ myBids = {}
    /\ outcomes = NoOutcomes
    /\ exposure = 0
    /\ failCounts = [c \in Cells |-> 0]
    /\ clean = FALSE
    /\ nonce = 0

-----------------------------------------------------------------------------
(* Prices and lists. *)

\* Half as wide again as the ask, and at least a fiftieth wider.
BidSpread == IF AskSpread >= 40 THEN (3 * AskSpread) \div 2 ELSE AskSpread + 20

BidPrice(mark) == mark * (1000 - BidSpread)

Drift(price, old) == IF price >= old THEN price - old ELSE old - price

\* Mutant: only a rise counts.
DriftsUp(price, old, limit) == (price - old) * 1000 > limit * old

DriftsBeyond(price, old, limit) == Drift(price, old) * 1000 > limit * old

CrossesAsk(bid, ask) == bid * 1000 > ask * (1000 - CrossGuard)

Notional(orders) == MapThenSumSet(LAMBDA o : o.price * o.quantity, orders)

\* Mutant: every tick starts from nothing, as it once did.
ForgetsBids(bids) == 0

\* What the bids of earlier ticks already cost.
SeedLiveBidExposure(bids) == Notional(bids)

Asks == {o \in resting : o.side = "ask"}
Bids == {o \in resting : o.side = "bid"}

\* The newest order on a cell of those that were read: a set of at most one.
Existing(c, read) ==
    {o \in read : o.cell = c /\ \A p \in read : p.cell = c => p.nonce <= o.nonce}

\* What is left on the book of the orders that were read.
StillLive(read) ==
    {o \in resting : \E p \in read : p.cell = o.cell /\ p.nonce = o.nonce}

\* Cancels of the orders that were read: those in `kept` did not land.
Pulls(read, kept) ==
    /\ kept \subseteq StillLive(read)
    /\ resting' = resting \ (StillLive(read) \ kept)

\* Orders under the next nonces up to `last`, none of which was seen to land.
Strays(c, side, price, quantity, last) ==
    {Order(c, side, price, quantity, n, TRUE) : n \in nonce + 1 .. last}

\* At most `tries` posts on a cell of `book`, each under a new nonce.  The last
\* one is seen to land if `ok`; `lost` of the others landed unseen.
Posts(book, c, side, price, quantity, tries, ok) ==
    \E lost \in 0..tries :
       LET last == nonce + lost + 1
           seen == {Order(c, side, price, quantity, last, FALSE)}
       IN /\ ok => lost < tries
          /\ resting' = book \cup Strays(c, side, price, quantity, nonce + lost)
                             \cup (IF ok THEN seen ELSE {})
          /\ nonce' = IF ok THEN last ELSE nonce + lost
          /\ nonce' <= MaxPosts
          /\ Cardinality({o \in resting' : o.stray}) <= MaxStrays

-----------------------------------------------------------------------------
(* What the book does. *)

\* A taker fills a contract; an order's last contract may also be swept.
Trades ==
    /\ \E o \in resting :
          resting' = (resting \ {o}) \cup
              {p \in {[o EXCEPT !.quantity = @ - 1]} : p.quantity > 0}
    /\ UNCHANGED <<phase, todo, outcomes, failCounts, nonce, tickVars, bidVars>>

-----------------------------------------------------------------------------
(* The ask loop. *)

StartTick ==
    /\ phase = "asleep"
    /\ phase' = "asks"
    /\ \E cells \in SUBSET Cells : ladder' = cells /\ todo' = cells
    /\ myOrders' = Asks
    /\ clean' = FALSE
    /\ UNCHANGED <<resting, outcomes, failCounts, nonce, myBids, exposure>>

\* The market's oracle is stale: its asks are pulled and no cell is quoted.
StartStale ==
    /\ phase = "asleep"
    /\ phase' = "asks"
    /\ \E kept \in SUBSET Asks : Pulls(Asks, kept)
    /\ myOrders' = Asks
    /\ clean' = FALSE
    /\ UNCHANGED <<ladder, todo, outcomes, failCounts, nonce,
                   myBids, exposure>>

\* The cell's market is closed: the ask is pulled, and no bid may stand on it.
PullClosed(c) ==
    /\ \E kept \in SUBSET Asks : Pulls(Existing(c, myOrders), kept)
    /\ UNCHANGED <<outcomes, failCounts, nonce>>

\* The quote fails: the ask outlives FailLimit - 1 of these in a row.
QuoteFails(c) ==
    /\ LET fails == failCounts[c] + 1
       IN /\ failCounts' = [failCounts EXCEPT ![c] = IF fails < FailLimit THEN fails ELSE FailLimit]
          /\ \/ fails < FailLimit /\ UNCHANGED resting
             \/ /\ fails >= FailLimit
                /\ \E kept \in SUBSET Asks : Pulls(Existing(c, myOrders), kept)
    /\ UNCHANGED <<outcomes, nonce>>

Quoted(c) == failCounts' = [failCounts EXCEPT ![c] = 0]

Anchor(c, price, mark) == outcomes' = [outcomes EXCEPT ![c] = [price |-> price, mark |-> mark]]

\* An ask far from its price, or old and off it: cancelled, and if that lands
\* posted again, once.
RepriceAsk(c, mark) ==
    /\ Quoted(c)
    /\ \E o \in Existing(c, myOrders), aged \in BOOLEAN :
          \/ DriftsBeyond(AskPrice(mark), o.price, DriftLimit)
          \/ aged /\ Drift(AskPrice(mark), o.price) * 1000 >= Epsilon * o.price
    /\ LET old == StillLive(Existing(c, myOrders))
       IN \/ UNCHANGED <<resting, outcomes, nonce>>
          \/ /\ old # {}
             /\ \E ok \in BOOLEAN :
                   /\ Posts(resting \ old, c, "ask", AskPrice(mark), AskQty, 1, ok)
                   /\ IF ok THEN Anchor(c, AskPrice(mark), mark)
                            ELSE UNCHANGED outcomes

HoldAsk(c, mark) ==
    /\ Quoted(c)
    /\ \E o \in Existing(c, myOrders) :
          /\ ~DriftsBeyond(AskPrice(mark), o.price, DriftLimit)
          /\ Anchor(c, o.price, mark)
    /\ UNCHANGED <<resting, nonce>>

\* No ask was read on the cell: one is posted, in two tries, or refused.
PostAsk(c, mark) ==
    /\ Quoted(c)
    /\ Existing(c, myOrders) = {}
    /\ \E ok \in BOOLEAN :
          /\ Posts(resting, c, "ask", AskPrice(mark), AskQty, 2, ok)
          /\ IF ok THEN Anchor(c, AskPrice(mark), mark) ELSE UNCHANGED outcomes

AskStep ==
    /\ phase = "asks"
    /\ \E c \in todo :
          /\ todo' = todo \ {c}
          /\ \/ PullClosed(c)
             \/ QuoteFails(c)
             \/ \E mark \in Marks :
                   RepriceAsk(c, mark) \/ HoldAsk(c, mark) \/ PostAsk(c, mark)
          /\ myOrders' = {o \in myOrders : o.cell # c}
    /\ UNCHANGED <<phase, ladder, bidVars>>

-----------------------------------------------------------------------------
(* The bid pass. *)

\* Asks off the ladder are swept; then the bids are read, and those whose cell
\* the ask loop did not reach are pulled.
StartBids ==
    /\ phase = "asks" /\ todo = {}
    /\ phase' = "bids"
    /\ todo' = ladder
    /\ myBids' = Bids
    /\ exposure' = SeedLiveBidExposure(Bids)
    /\ LET lost == {o \in Bids : o.cell \notin ladder}
           orphans == {o \in myOrders : FullBoard /\ o.cell \notin ladder}
       IN \E kept \in SUBSET (lost \cup StillLive(orphans)) :
             /\ Pulls(lost \cup orphans, kept)
             /\ clean' = (kept \cap lost = {})
    /\ myOrders' = {}
    /\ UNCHANGED <<outcomes, failCounts, nonce, ladder>>

\* What a bid would add to what the bids already cost.
Increase(c, price, quantity) ==
    LET more == price * quantity - Notional(Existing(c, myBids))
    IN IF more > 0 THEN more ELSE 0

\* A bid needs an ask that rests, a price below it, and room under the cap.
BidAllowed(c, price, quantity) ==
    /\ outcomes[c] # NoAnchor
    /\ ~CrossesAsk(price, outcomes[c].price)
    /\ exposure + Increase(c, price, quantity) <= MaxBidNotional

\* Something forbids the bid, or it is wanted no longer.
StopBid(c) ==
    /\ \E kept \in SUBSET Bids :
          /\ Pulls(Existing(c, myBids), kept)
          /\ clean' = (clean /\ kept = {})
    /\ UNCHANGED <<exposure, nonce>>

PostBid(c, price, quantity) ==
    /\ BidAllowed(c, price, quantity)
    /\ Existing(c, myBids) = {}
    /\ \E ok \in BOOLEAN :
          /\ Posts(resting, c, "bid", price, quantity, 2, ok)
          /\ exposure' = exposure + IF ok THEN price * quantity ELSE 0
    /\ UNCHANGED clean

\* Cancelled, and if that lands posted again.
RepriceBid(c, price, quantity) ==
    /\ BidAllowed(c, price, quantity)
    /\ \E o \in Existing(c, myBids), aged \in BOOLEAN :
          DriftsBeyond(price, o.price, DriftLimit) \/ aged
    /\ LET old == StillLive(Existing(c, myBids))
       IN \/ /\ clean' = (clean /\ old = {})
             /\ UNCHANGED <<resting, exposure, nonce>>
          \/ /\ old # {}
             /\ \E ok \in BOOLEAN :
                   /\ Posts(resting \ old, c, "bid", price, quantity, 2, ok)
                   /\ exposure' = exposure + IF ok THEN Increase(c, price, quantity) ELSE 0
             /\ UNCHANGED clean

\* Near enough to its price, and not old.  The quantity is not compared, nor is
\* the price at rest with the ask.
HoldBid(c, price, quantity) ==
    /\ BidAllowed(c, price, quantity)
    /\ \E o \in Existing(c, myBids) : ~DriftsBeyond(price, o.price, DriftLimit)
    /\ UNCHANGED <<resting, exposure, clean, nonce>>

BidStep ==
    /\ phase = "bids"
    /\ \E c \in todo :
          /\ todo' = todo \ {c}
          /\ \/ StopBid(c)
             \/ \E quantity \in 1..BidQty :
                   LET price == BidPrice(outcomes[c].mark)
                   IN \/ PostBid(c, price, quantity)
                      \/ RepriceBid(c, price, quantity)
                      \/ HoldBid(c, price, quantity)
          /\ myBids' = {o \in myBids : o.cell # c}
          /\ outcomes' = [outcomes EXCEPT ![c] = NoAnchor]
    /\ UNCHANGED <<phase, failCounts, tickVars>>

-----------------------------------------------------------------------------
(* The end of a tick. *)

\* What a tick knew is forgotten; the next one reads it again.
Forget ==
    /\ phase' = "asleep"
    /\ ladder' = {} /\ todo' = {}
    /\ myOrders' = {} /\ myBids' = {}
    /\ outcomes' = NoOutcomes
    /\ exposure' = 0
    /\ UNCHANGED <<resting, nonce>>

EndTick ==
    /\ phase = "bids" /\ todo = {}
    /\ Forget
    /\ UNCHANGED <<failCounts, clean>>

\* A read throws and the loop goes on with the next tick.
TickFails ==
    /\ phase # "asleep"
    /\ Forget
    /\ clean' = FALSE
    /\ UNCHANGED failCounts

\* The process dies at any step, and is restarted.
Crash ==
    /\ Forget
    /\ clean' = (clean /\ phase = "asleep")
    /\ failCounts' = [c \in Cells |-> 0]

BotNext == Trades \/ StartTick \/ StartStale \/ AskStep \/ StartBids \/ BidStep
               \/ EndTick \/ TickFails \/ Crash

BotSpec == BotInit /\ [][BotNext]_botVars

-----------------------------------------------------------------------------
(* Properties. *)

OrderType == [cell : Cells, side : {"ask", "bid"}, price : Nat,
              quantity : Nat \ {0}, nonce : 0..MaxPosts, stray : BOOLEAN]

AnchorType == [price : Nat, mark : Nat]

\* Every variable has its type, and no nonce is used twice on a series.
BotTypeOK ==
    /\ resting \subseteq OrderType
    /\ \A o, p \in resting : o.cell = p.cell /\ o.nonce = p.nonce => o = p
    /\ phase \in {"asleep", "asks", "bids"}
    /\ ladder \subseteq Cells /\ todo \subseteq ladder
    /\ clean \in BOOLEAN
    /\ myOrders \subseteq OrderType /\ myBids \subseteq OrderType
    /\ outcomes \in [Cells -> AnchorType]
    /\ exposure \in Nat /\ nonce \in 0..MaxPosts
    /\ failCounts \in [Cells -> 0..FailLimit]

\* Once a tick has ended and the cancels of its bid pass landed, no bid of the
\* bot's is within the guard of its ask on the same series, however the model
\* price moved, asks failed to be cancelled or orders were filled meanwhile:
\* nobody can buy from the bot and sell back to it at a profit.  Strays, which
\* the bot does not know of, are left out.
NoCrossAfterCleanTick ==
    phase = "asleep" /\ clean =>
        \A a \in Asks, b \in Bids :
            a.cell = b.cell /\ ~a.stray /\ ~b.stray
                => ~CrossesAsk(b.price, a.price)

\* The bids that the bot knows of never cost more than its cap, over any
\* number of ticks, restarts and fills.
BidExposureCapped == Notional({o \in Bids : ~o.stray}) <= MaxBidNotional
=============================================================================
