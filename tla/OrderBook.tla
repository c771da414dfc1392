------------------------------ MODULE OrderBook ------------------------------
(***************************************************************************)
(* The secondary market of one option series: the two-sided order book,    *)
(* the older resale listings, the transfer hook of the option tokens, and  *)
(* the crank that brings what rests home once the vault has settled.       *)
(*                                                                         *)
(* An order or a listing is an account with an escrow account of its own.  *)
(* The program signs for every escrow; tokens and dollars enter it when    *)
(* the order is posted, leave it at each fill, and what is left goes back  *)
(* when the owner cancels or anybody sweeps.  Some handlers leave the      *)
(* accounts to the caller: what reaches an escrow, leaves it or is         *)
(* returned past the account of its owner is counted as astray.            *)
(*                                                                         *)
(* The vault behind the series is reduced to what the book depends on: its *)
(* expiry, whether it is settled or voided, and the collateral holders are *)
(* paid from (see SharedVault for the rest).  Fills of writer asks create  *)
(* options, and are in WriterAskVault.                                     *)
(***************************************************************************)
EXTENDS VaultMath, Totals

CONSTANTS
    Users,           \* accounts that trade
    Nonces,          \* nonces a client may choose for an order
    Style,           \* ExerciseStyle of the vault: "European" or "American"
    Cpc,             \* collateral per contract
    FeeBps,          \* protocol fee in basis points
    Expiry,          \* the vault's expiry
    ExerciseWindow,  \* EXERCISE_WINDOW: then writers may withdraw
    GraceWindow,     \* GRACE_WINDOW: then an unsettled vault may be voided
    Prices,          \* prices an order may name
    Quantities,      \* quantities an order or a fill may name
    Caps,            \* max_total_price a buyer of a listing may set
    Payouts,         \* what an option may be worth at settlement
    InitialUsdc,     \* everybody's dollars at the start
    Supply,          \* option tokens sold by the vault before
    Horizon,         \* bound: the clock stops here
    Amounts,         \* tokens or dollars sent to, or drawn from, an escrow
    MaxRedirected    \* bound: this often something goes astray

ASSUME BookAssumption ==
    /\ IsFiniteSet(Users) /\ IsFiniteSet(Nonces)
    /\ Style \in {"European", "American"}
    /\ Cpc \in Nat \ {0}
    /\ FeeBps \in 0..10000
    /\ Expiry \in Nat \ {0} /\ ExerciseWindow \in Nat /\ GraceWindow \in Nat
    /\ ExerciseWindow <= GraceWindow
    /\ Prices \subseteq Nat \ {0} /\ Quantities \subseteq Nat \ {0}
    /\ Caps \subseteq Nat
    /\ Payouts \subseteq 0..Cpc
    /\ InitialUsdc \in Nat /\ Supply \in Nat /\ Horizon \in Nat
    /\ Amounts \subseteq Nat \ {0} /\ MaxRedirected \in Nat

VARIABLES
    now,             \* Clock::unix_timestamp
    order,           \* the RestingOrder of each owner and nonce, with its escrow
    listing,         \* the VaultResaleListing of each seller, with its escrow
    usdc,            \* each user's USDC
    tokens,          \* option tokens in each user's own account
    option_account,  \* that token account exists
    treasury,        \* protocol fees collected
    is_settled,      \* shared_vault.is_settled
    voided,          \* shared_vault.voided
    payout,          \* what one option is worth, once settled
    pool,            \* shared_vault.collateral_remaining
    redirected       \* history: how often something went astray

vars == <<now, order, listing, usdc, tokens, option_account, treasury,
          is_settled, voided, payout, pool, redirected>>

OrderKinds == {"Bid", "ResaleAsk", "WriterAsk"}

NoOrder == [open |-> FALSE, kind |-> "Bid", price_per_contract |-> 0,
            quantity_remaining |-> 0, escrow |-> 0, extra |-> 0]

NoListing == [open |-> FALSE, price_per_contract |-> 0,
              listed_quantity |-> 0, escrow |-> 0, extra |-> 0]

Init ==
    /\ now = 0
    /\ order = [u \in Users |-> [n \in Nonces |-> NoOrder]]
    /\ listing = [u \in Users |-> NoListing]
    /\ usdc = [u \in Users |-> InitialUsdc]
    /\ tokens \in {f \in [Users -> 0..Supply] : Total(f) = Supply}
    /\ option_account = [u \in Users |-> TRUE]
    /\ treasury = 0
    /\ is_settled = FALSE
    /\ voided = FALSE
    /\ payout = 0
    /\ pool = 0
    /\ redirected = 0

-----------------------------------------------------------------------------
(* What lies where. *)

\* What an order of this kind must hold for its rest.
EscrowFor(kind, price, quantity) ==
    CASE kind = "ResaleAsk" -> quantity
      [] kind = "Bid"       -> price * quantity
      [] kind = "WriterAsk" -> Cpc * quantity

\* The dollars, and the options, in the escrows of some orders.
EscrowedUsdc(orders) ==
    Total([n \in Nonces |-> IF orders[n].kind = "ResaleAsk" THEN 0
                            ELSE orders[n].escrow])

EscrowedOptions(orders) ==
    Total([n \in Nonces |-> IF orders[n].kind = "ResaleAsk"
                            THEN orders[n].escrow ELSE 0])

\* Everything a user has in dollars, and every option, wherever they lie.
Wealth(u) == usdc[u] + EscrowedUsdc(order[u])

Options(u) == tokens[u] + listing[u].escrow + EscrowedOptions(order[u])

-----------------------------------------------------------------------------
(* Time, and the token accounts of the users: outside the program. *)

Tick ==
    /\ now < Horizon
    /\ now' = now + 1
    /\ UNCHANGED <<order, listing, usdc, tokens, option_account, treasury,
                   is_settled, voided, payout, pool, redirected>>

\* An empty token account may be closed by its owner, and created anew.
CloseOptionAccount(u) ==
    /\ option_account[u]
    /\ tokens[u] = 0
    /\ option_account' = [option_account EXCEPT ![u] = FALSE]
    /\ UNCHANGED <<now, order, listing, usdc, tokens, treasury, is_settled,
                   voided, payout, pool, redirected>>

OpenOptionAccount(u) ==
    /\ ~option_account[u]
    /\ option_account' = [option_account EXCEPT ![u] = TRUE]
    /\ UNCHANGED <<now, order, listing, usdc, tokens, treasury, is_settled,
                   voided, payout, pool, redirected>>

\* The hook on the option mint: between two users only before expiry.  Tokens
\* to and from the program's escrows move at any time.
HookAllowsUsers == now < Expiry

\* Mutant: the account tokens are delivered to is not looked at.
DeliversAnywhere(u) == TRUE

\* Tokens can be delivered to the user: the account that clients and the crank
\* name for it, its associated token account, exists.
DeliversTo(u) == option_account[u]

\* What belongs to u goes to an account of v's: astray when v is not u.
CountsAstray(u, v) ==
    IF u = v THEN UNCHANGED redirected
    ELSE /\ redirected < MaxRedirected
         /\ redirected' = redirected + 1

TransferOption(u, v, quantity) ==
    /\ HookAllowsUsers
    /\ u # v
    /\ DeliversTo(v)
    /\ quantity <= tokens[u]
    /\ tokens' = [tokens EXCEPT ![u] = @ - quantity, ![v] = @ + quantity]
    /\ UNCHANGED <<now, order, listing, usdc, option_account, treasury,
                   is_settled, voided, payout, pool, redirected>>

-----------------------------------------------------------------------------
(* The order book. *)

PostOrder(u, n, kind, price, quantity) ==
    LET amount == EscrowFor(kind, price, quantity) IN
    /\ ~is_settled
    /\ now < Expiry
    /\ ~order[u][n].open
    /\ kind = "WriterAsk" => Style = "American"
    /\ IF kind = "ResaleAsk"
       THEN /\ amount <= tokens[u]
            /\ tokens' = [tokens EXCEPT ![u] = @ - amount]
            /\ UNCHANGED usdc
       ELSE /\ amount <= usdc[u]
            /\ usdc' = [usdc EXCEPT ![u] = @ - amount]
            /\ UNCHANGED tokens
    /\ order' = [order EXCEPT ![u][n] =
                    [open |-> TRUE, kind |-> kind, price_per_contract |-> price,
                     quantity_remaining |-> quantity, escrow |-> amount, extra |-> 0]]
    /\ UNCHANGED <<now, listing, option_account, treasury, is_settled, voided,
                   payout, pool, redirected>>

\* Mutant: a bid's escrow pays the seller and keeps the fee.
AfterFillKeepingFee(o, quantity, out) ==
    IF quantity = o.quantity_remaining THEN NoOrder
    ELSE [o EXCEPT !.quantity_remaining = @ - quantity,
                   !.escrow = @ - (out - ProtocolFee(out, FeeBps))]

\* The order after a fill that takes so much out of its escrow; a full fill
\* closes the order and its escrow.
AfterFill(o, quantity, out) ==
    IF quantity = o.quantity_remaining THEN NoOrder
    ELSE [o EXCEPT !.quantity_remaining = @ - quantity, !.escrow = @ - out]

\* Mutant: a fill does not look at the clock.
FillAllowedAnyTime(taker, u, n, quantity) ==
    /\ order[u][n].open
    /\ taker # u
    /\ quantity <= order[u][n].quantity_remaining

\* Preconditions of every fill.
FillAllowed(taker, u, n, quantity) ==
    /\ order[u][n].open
    /\ taker # u
    /\ now < Expiry
    /\ quantity <= order[u][n].quantity_remaining

\* A token account is closed only when it is empty: the fill of the whole rest
\* fails otherwise.
EscrowCloses(o, quantity, out) ==
    /\ out <= o.escrow
    /\ quantity = o.quantity_remaining => out = o.escrow

\* The taker buys from a resale ask: its dollars go to the maker less the fee,
\* the escrowed tokens to the taker.
FillResaleAsk(taker, u, n, quantity) ==
    LET o == order[u][n]
        total == quantity * o.price_per_contract
        fee == ProtocolFee(total, FeeBps)
    IN  /\ FillAllowed(taker, u, n, quantity)
        /\ o.kind = "ResaleAsk"
        /\ total <= usdc[taker]
        /\ DeliversTo(taker)
        /\ EscrowCloses(o, quantity, quantity)
        /\ usdc' = [usdc EXCEPT ![taker] = @ - total, ![u] = @ + total - fee]
        /\ treasury' = treasury + fee
        /\ tokens' = [tokens EXCEPT ![taker] = @ + quantity]
        /\ order' = [order EXCEPT ![u][n] = AfterFill(o, quantity, quantity)]
        /\ UNCHANGED <<now, listing, option_account, is_settled, voided,
                       payout, pool, redirected>>

\* The taker sells to a bid: its tokens go to the maker, the escrowed dollars
\* to the taker less the fee.
FillBid(taker, u, n, quantity) ==
    LET o == order[u][n]
        total == quantity * o.price_per_contract
        fee == ProtocolFee(total, FeeBps)
    IN  /\ FillAllowed(taker, u, n, quantity)
        /\ o.kind = "Bid"
        /\ quantity <= tokens[taker]
        /\ DeliversTo(u)
        /\ EscrowCloses(o, quantity, total)
        /\ tokens' = [tokens EXCEPT ![taker] = @ - quantity, ![u] = @ + quantity]
        /\ usdc' = [usdc EXCEPT ![taker] = @ + total - fee]
        /\ treasury' = treasury + fee
        /\ order' = [order EXCEPT ![u][n] = AfterFill(o, quantity, total)]
        /\ UNCHANGED <<now, listing, option_account, is_settled, voided,
                       payout, pool, redirected>>

\* Everything the escrow holds goes to an account of v's.
ReturnEscrow(v, o) ==
    IF o.kind = "ResaleAsk"
    THEN /\ tokens' = [tokens EXCEPT ![v] = @ + o.escrow]
         /\ UNCHANGED usdc
    ELSE /\ usdc' = [usdc EXCEPT ![v] = @ + o.escrow]
         /\ UNCHANGED tokens

\* The owner cancels, at any time, before or after expiry, and names the account
\* that is paid.
CancelOrder(u, n, v) ==
    LET o == order[u][n] IN
    /\ o.open
    /\ o.kind = "ResaleAsk" /\ o.escrow > 0 => DeliversTo(v)
    /\ ReturnEscrow(v, o)
    /\ order' = [order EXCEPT ![u][n] = NoOrder]
    /\ CountsAstray(u, v)
    /\ UNCHANGED <<now, listing, option_account, treasury, is_settled, voided,
                   payout, pool>>

\* Anybody returns an order after expiry.  The owner's token account must exist
\* even when there is nothing to return.  A batch is a sequence of these.
SweepExpiredOrders(u, n) ==
    LET o == order[u][n] IN
    /\ now >= Expiry
    /\ o.open
    /\ o.kind = "ResaleAsk" => DeliversTo(u)
    /\ ReturnEscrow(u, o)
    /\ order' = [order EXCEPT ![u][n] = NoOrder]
    /\ UNCHANGED <<now, listing, option_account, treasury, is_settled, voided,
                   payout, pool, redirected>>

-----------------------------------------------------------------------------
(* Resale listings: one per seller and mint. *)

ListV2ForResale(u, price, quantity) ==
    /\ ~is_settled
    /\ now < Expiry
    /\ ~listing[u].open
    /\ quantity <= tokens[u]
    /\ tokens' = [tokens EXCEPT ![u] = @ - quantity]
    /\ listing' = [listing EXCEPT ![u] =
                      [open |-> TRUE, price_per_contract |-> price,
                       listed_quantity |-> quantity, escrow |-> quantity, extra |-> 0]]
    /\ UNCHANGED <<now, order, usdc, option_account, treasury, is_settled,
                   voided, payout, pool, redirected>>

\* The listing after a sale; selling the rest closes it.
AfterSale(l, quantity) ==
    IF quantity = l.listed_quantity THEN NoListing
    ELSE [l EXCEPT !.listed_quantity = @ - quantity, !.escrow = @ - quantity]

BuyV2Resale(buyer, u, quantity, max_total_price) ==
    LET l == listing[u]
        total == quantity * l.price_per_contract
        fee == ProtocolFee(total, FeeBps)
    IN  /\ l.open
        /\ ~is_settled
        /\ now < Expiry
        /\ buyer # u
        /\ quantity <= l.listed_quantity
        /\ total <= max_total_price
        /\ total <= usdc[buyer]
        /\ DeliversTo(buyer)
        /\ quantity <= l.escrow
        /\ quantity = l.listed_quantity => quantity = l.escrow
        /\ usdc' = [usdc EXCEPT ![buyer] = @ - total, ![u] = @ + total - fee]
        /\ treasury' = treasury + fee
        /\ tokens' = [tokens EXCEPT ![buyer] = @ + quantity]
        /\ listing' = [listing EXCEPT ![u] = AfterSale(l, quantity)]
        /\ UNCHANGED <<now, order, option_account, is_settled, voided, payout,
                       pool, redirected>>

\* A listing ends and its tokens go to an account of v's.
EndListing(u, v) ==
    /\ listing[u].open
    /\ tokens' = [tokens EXCEPT ![v] = @ + listing[u].escrow]
    /\ listing' = [listing EXCEPT ![u] = NoListing]
    /\ CountsAstray(u, v)
    /\ UNCHANGED <<now, order, usdc, option_account, treasury, is_settled,
                   voided, payout, pool>>

\* The seller names the account.
CancelV2Resale(u, v) ==
    /\ listing[u].escrow > 0 => DeliversTo(v)
    /\ EndListing(u, v)

\* Anybody ends a listing, at any time, and names the account.
AutoCancelListings(u, v) ==
    /\ DeliversTo(v)
    /\ EndListing(u, v)

-----------------------------------------------------------------------------
(* The vault behind the series: see SharedVault. *)

\* Settlement.  Every option token is covered in full (CountersMatchAccounts and
\* HoldersCoveredInWindow of SharedVault).
SettleVault(worth) ==
    /\ now >= Expiry
    /\ ~is_settled
    /\ ~voided
    /\ is_settled' = TRUE
    /\ payout' = worth
    /\ pool' = Cpc * Total([u \in Users |-> Options(u)])
    /\ UNCHANGED <<now, order, listing, usdc, tokens, option_account,
                   treasury, voided, redirected>>

InitializeVoid ==
    /\ now >= Expiry + GraceWindow
    /\ ~is_settled
    /\ ~voided
    /\ voided' = TRUE
    /\ UNCHANGED <<now, order, listing, usdc, tokens, option_account,
                   treasury, is_settled, payout, pool, redirected>>

\* Tokens in a user's own account are burned for their worth.
PayHolder(u, quantity) ==
    LET paid == AtMost(quantity * payout, pool) IN
    /\ is_settled
    /\ ~voided
    /\ quantity > 0
    /\ quantity <= tokens[u]
    /\ tokens' = [tokens EXCEPT ![u] = @ - quantity]
    /\ usdc' = [usdc EXCEPT ![u] = @ + paid]
    /\ pool' = pool - paid
    /\ UNCHANGED <<now, order, listing, option_account, treasury, is_settled,
                   voided, payout, redirected>>

ExerciseFromVault(u, quantity) ==
    /\ payout > 0
    /\ PayHolder(u, quantity)

AutoFinalizeHolders(u) == PayHolder(u, tokens[u])

\* After the exercise window writers take their share of what is left.
WithdrawPostSettlement ==
    /\ is_settled
    /\ now >= Expiry + ExerciseWindow
    /\ pool > 0
    /\ pool' \in 0..(pool - 1)
    /\ UNCHANGED <<now, order, listing, usdc, tokens, option_account,
                   treasury, is_settled, voided, payout, redirected>>

-----------------------------------------------------------------------------
(* What reaches or leaves an escrow past the handlers of its order.  The       *)
(* program signs for all its escrows alike, and some handlers take any account *)
(* it owns.  Each such step is counted, and its amount noted in the account.   *)

Astray ==
    /\ redirected < MaxRedirected
    /\ redirected' = redirected + 1

Shifted(account, amount) ==
    [account EXCEPT !.escrow = @ + amount, !.extra = @ + amount]

\* Anybody sends tokens, or dollars, straight into the escrow of an order.
SendToOrder(w, u, n, amount) ==
    LET o == order[u][n] IN
    /\ o.open
    /\ IF o.kind = "ResaleAsk"
       THEN /\ amount <= tokens[w]
            /\ tokens' = [tokens EXCEPT ![w] = @ - amount]
            /\ UNCHANGED usdc
       ELSE /\ amount <= usdc[w]
            /\ usdc' = [usdc EXCEPT ![w] = @ - amount]
            /\ UNCHANGED tokens
    /\ order' = [order EXCEPT ![u][n] = Shifted(o, amount)]
    /\ Astray
    /\ UNCHANGED <<now, listing, option_account, treasury, is_settled, voided,
                   payout, pool>>

SendToListing(w, u, amount) ==
    /\ listing[u].open
    /\ amount <= tokens[w]
    /\ tokens' = [tokens EXCEPT ![w] = @ - amount]
    /\ listing' = [listing EXCEPT ![u] = Shifted(@, amount)]
    /\ Astray
    /\ UNCHANGED <<now, order, usdc, option_account, treasury, is_settled,
                   voided, payout, pool>>

\* The dollars of an order pay an early exercise of another series.
OrderPaysElsewhere(u, n, amount) ==
    LET o == order[u][n] IN
    /\ o.kind # "ResaleAsk"
    /\ amount <= o.escrow
    /\ order' = [order EXCEPT ![u][n] = Shifted(o, -amount)]
    /\ Astray
    /\ UNCHANGED <<now, listing, usdc, tokens, option_account, treasury,
                   is_settled, voided, payout, pool>>

\* auto_finalize_holders burns all the tokens of an escrow, and pays an account
\* of the program's: the treasury stands for them all.
PayProgram(quantity) ==
    LET paid == AtMost(quantity * payout, pool) IN
    /\ is_settled
    /\ ~voided
    /\ quantity > 0
    /\ treasury' = treasury + paid
    /\ pool' = pool - paid

BurnOrderEscrow(u, n) ==
    LET o == order[u][n] IN
    /\ o.kind = "ResaleAsk"
    /\ PayProgram(o.escrow)
    /\ order' = [order EXCEPT ![u][n] = Shifted(o, -o.escrow)]
    /\ Astray
    /\ UNCHANGED <<now, listing, usdc, tokens, option_account, is_settled,
                   voided, payout>>

BurnListingEscrow(u) ==
    /\ PayProgram(listing[u].escrow)
    /\ listing' = [listing EXCEPT ![u] = Shifted(@, -@.escrow)]
    /\ Astray
    /\ UNCHANGED <<now, order, usdc, tokens, option_account, is_settled,
                   voided, payout>>

\* Some account is paid, charged or emptied that no client would name.
NextAstray ==
    \E u \in Users :
        \/ \E n \in Nonces : BurnOrderEscrow(u, n)
        \/ BurnListingEscrow(u)
        \/ \E amount \in Amounts :
               \/ \E n \in Nonces : OrderPaysElsewhere(u, n, amount)
               \/ \E w \in Users :
                      \/ SendToListing(w, u, amount)
                      \/ \E n \in Nonces : SendToOrder(w, u, n, amount)

-----------------------------------------------------------------------------
(* The crank: for each settled vault it ends listings, sweeps orders and then *)
(* pays holders, skipping the owners whose token account does not exist.      *)

\* Mutant: the crank sweeps asks only.
SweptAsks == {"ResaleAsk"}

\* The kinds of order the crank knows how to return.
SweptKinds == {"Bid", "ResaleAsk"}

CrankAutoCancel(u) ==
    /\ is_settled
    /\ AutoCancelListings(u, u)

CrankSweep(u, n) ==
    /\ is_settled
    /\ order[u][n].kind \in SweptKinds
    /\ SweepExpiredOrders(u, n)

Next ==
    \/ Tick
    \/ \E u \in Users : CloseOptionAccount(u) \/ OpenOptionAccount(u)
    \/ \E u, v \in Users, quantity \in Quantities : TransferOption(u, v, quantity)
    \/ \E u \in Users, n \in Nonces :
           \/ \E kind \in OrderKinds, price \in Prices, quantity \in Quantities :
                  PostOrder(u, n, kind, price, quantity)
           \/ \E taker \in Users, quantity \in Quantities :
                  FillResaleAsk(taker, u, n, quantity) \/ FillBid(taker, u, n, quantity)
           \/ \E v \in Users : CancelOrder(u, n, v)
           \/ SweepExpiredOrders(u, n)
    \/ \E u \in Users :
           \/ \E price \in Prices, quantity \in Quantities :
                  ListV2ForResale(u, price, quantity)
           \/ \E buyer \in Users, quantity \in Quantities, cap \in Caps :
                  BuyV2Resale(buyer, u, quantity, cap)
           \/ \E v \in Users : CancelV2Resale(u, v) \/ AutoCancelListings(u, v)
    \/ \E worth \in Payouts : SettleVault(worth)
    \/ InitializeVoid
    \/ \E u \in Users :
           \/ \E quantity \in Quantities : ExerciseFromVault(u, quantity)
           \/ AutoFinalizeHolders(u)
    \/ WithdrawPostSettlement
    \/ NextAstray

\* The crank comes round every five minutes and retries what failed; users,
\* writers and the oracle owe nothing.
CrankFairness ==
    \A u \in Users :
        /\ WF_vars(CrankAutoCancel(u))
        /\ \A n \in Nonces : WF_vars(CrankSweep(u, n))
        /\ WF_vars(AutoFinalizeHolders(u))

Spec == Init /\ [][Next]_vars /\ CrankFairness

-----------------------------------------------------------------------------
(* Properties. *)

OrderRecord ==
    [open : BOOLEAN, kind : OrderKinds, price_per_contract : Prices \cup {0},
     quantity_remaining : Nat, escrow : Nat, extra : Int]

ListingRecord ==
    [open : BOOLEAN, price_per_contract : Prices \cup {0},
     listed_quantity : Nat, escrow : Nat, extra : Int]

\* Every balance stays a natural number, and nobody has tokens in an account
\* that does not exist.
BookTypeOK ==
    /\ now \in 0..Horizon
    /\ order \in [Users -> [Nonces -> OrderRecord]]
    /\ listing \in [Users -> ListingRecord]
    /\ usdc \in [Users -> Nat]
    /\ tokens \in [Users -> Nat]
    /\ option_account \in [Users -> BOOLEAN]
    /\ treasury \in Nat
    /\ is_settled \in BOOLEAN /\ voided \in BOOLEAN
    /\ payout \in Payouts \cup {0}
    /\ pool \in Nat
    /\ redirected \in 0..MaxRedirected
    /\ \A u \in Users : tokens[u] > 0 => option_account[u]

\* The escrow of an account with this rest holds exactly what the rest needs,
\* plus what came and less what went past its handlers; nothing outlives the
\* rest.  Tokens are lost that way once the vault has settled only.
BacksRest(account, rest, needed, of_tokens) ==
    /\ account.open <=> rest > 0
    /\ account.escrow = needed + account.extra
    /\ account.extra # 0 => account.open /\ redirected > 0
    /\ of_tokens /\ account.extra < 0 => is_settled

\* Whatever was filled, at whatever fee, the escrow of an order or a listing
\* holds exactly what its rest needs, but for what somebody sent it, another
\* series drew, or a payment of the holders burned after settlement; so while
\* none of these has happened the last fill finds the escrow empty and can
\* close it.
EscrowsBackRests ==
    /\ \A u \in Users, n \in Nonces : LET o == order[u][n] IN
           BacksRest(o, o.quantity_remaining,
                     EscrowFor(o.kind, o.price_per_contract, o.quantity_remaining),
                     o.kind = "ResaleAsk")
    /\ \A u \in Users : LET l == listing[u] IN
           BacksRest(l, l.listed_quantity, l.listed_quantity, TRUE)

\* The book keeps the ledger's promises: posting, cancelling, sweeping and
\* listing move nobody's wealth, only fills do and only before expiry; after it
\* an option is only ever redeemed by who had it at expiry.  What goes another
\* way is a step the ledger counts: an owner or whoever ends a listing names
\* somebody else's account, or an escrow is sent to, drawn or burned.
TheLedger == INSTANCE Ledger WITH
    wealth <- [u \in Users |-> Wealth(u)],
    options <- [u \in Users |-> Options(u)],
    phase <- IF is_settled THEN "paying"
             ELSE IF now >= Expiry THEN "expired" ELSE "trading"

KeepsTheLedger == TheLedger!LedgerSpec

\* Nothing of a user's rests in the market of the series and no option is left
\* unredeemed.
CameHome(u, kinds) ==
    /\ Options(u) = 0
    /\ \A n \in Nonces : order[u][n].kind \in kinds => ~order[u][n].open

\* Once the vault has settled, the crank brings home and redeems everything of
\* a user who keeps its token account, whatever others do meanwhile.
SettledBookDrains ==
    \A u \in Users :
        (<>is_settled /\ <>[]option_account[u]) => <>[]CameHome(u, {"Bid", "ResaleAsk"})

\* sweep_expired_orders.rs: "at series expiry, return every resting order's
\* escrowed collateral to its owner", "Wired into the crank".  The crank skips
\* the orders of writers, which it takes to be impossible.
EveryOrderSwept ==
    \A u \in Users :
        (<>is_settled /\ <>[]option_account[u]) => <>[]CameHome(u, OrderKinds)
=============================================================================
