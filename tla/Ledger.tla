------------------------------- MODULE Ledger -------------------------------
(***************************************************************************)
(* What the secondary market of one option series promises.                *)
(*                                                                         *)
(* Everybody has so many dollars and so many options.  Before expiry both  *)
(* change hands by agreement only: a trade at a price the two sides named, *)
(* or a gift.  After expiry no option changes hands: it can only be        *)
(* redeemed by the one who has it, out of the pool that backs the series.  *)
(* Where the dollars and options lie meanwhile (a wallet, the escrow of a  *)
(* resting order, the escrow of a listing) is nobody's loss or gain, so    *)
(* the ledger does not say.                                                *)
(*                                                                         *)
(* What goes astray is counted: options or dollars that end up with        *)
(* somebody else, options redeemed for the protocol, dollars that pay for  *)
(* something else.                                                         *)
(***************************************************************************)
EXTENDS VaultMath, Totals

CONSTANTS
    Users,
    Cpc,           \* collateral that backs one option
    FeeBps,        \* fee on a trade, paid by the seller
    InitialUsdc,   \* everybody's dollars at the start
    Supply,        \* options there are at the start
    Prices,        \* prices two sides may agree on
    Payouts        \* what an option may turn out to be worth

VARIABLES
    wealth,        \* dollars of each user
    options,       \* options of each user
    treasury,      \* fees collected
    phase,         \* "trading", "expired", "paying"
    payout,        \* worth of one option, once known
    pool,          \* what is left to pay holders from
    redirected     \* how often something went astray

ledger == <<wealth, options, treasury, phase, payout, pool, redirected>>

LedgerInit ==
    /\ wealth = [u \in Users |-> InitialUsdc]
    /\ options \in {f \in [Users -> 0..Supply] : Total(f) = Supply}
    /\ treasury = 0
    /\ phase = "trading"
    /\ payout = 0
    /\ pool = 0
    /\ redirected = 0

Trade(buyer, seller, quantity, price) ==
    LET total == quantity * price
        fee == ProtocolFee(total, FeeBps)
    IN  /\ buyer # seller
        /\ total <= wealth[buyer]
        /\ wealth' = [wealth EXCEPT ![buyer] = @ - total,
                                    ![seller] = @ + total - fee]
        /\ options' = [options EXCEPT ![buyer] = @ + quantity,
                                      ![seller] = @ - quantity]
        /\ treasury' = treasury + fee
        /\ UNCHANGED <<phase, payout, pool, redirected>>

Give(giver, receiver, quantity) ==
    /\ giver # receiver
    /\ options' = [options EXCEPT ![giver] = @ - quantity,
                                  ![receiver] = @ + quantity]
    /\ UNCHANGED <<wealth, treasury, phase, payout, pool, redirected>>

Expire ==
    /\ phase' = "expired"
    /\ UNCHANGED <<wealth, options, treasury, payout, pool, redirected>>

\* The worth of an option becomes known; every option there is is covered.
Settle(worth) ==
    /\ phase = "expired"
    /\ phase' = "paying"
    /\ payout' = worth
    /\ pool' = Cpc * Total(options)
    /\ UNCHANGED <<wealth, options, treasury, redirected>>

Redeem(user, quantity) ==
    LET paid == AtMost(quantity * payout, pool)
    IN  /\ options' = [options EXCEPT ![user] = @ - quantity]
        /\ wealth' = [wealth EXCEPT ![user] = @ + paid]
        /\ pool' = pool - paid
        /\ UNCHANGED <<treasury, phase, payout, redirected>>

\* The writers take back what backed the series.
Release ==
    /\ pool' \in 0..pool
    /\ UNCHANGED <<wealth, options, treasury, phase, payout, redirected>>

\* The giver and the receiver may be the same.
Moved(account, giver, receiver, amount) ==
    [u \in Users |-> account[u] - (IF u = giver THEN amount ELSE 0)
                                + (IF u = receiver THEN amount ELSE 0)]

\* What the giver has ends up with the receiver, at any time.
Redirect(giver, receiver, quantity, dollars) ==
    /\ options' = Moved(options, giver, receiver, quantity)
    /\ wealth' = Moved(wealth, giver, receiver, dollars)
    /\ UNCHANGED <<treasury, phase, payout, pool>>

\* Options are redeemed, and the protocol is paid.
Forfeit(user, quantity) ==
    LET paid == AtMost(quantity * payout, pool)
    IN  /\ phase = "paying"
        /\ options' = [options EXCEPT ![user] = @ - quantity]
        /\ treasury' = treasury + paid
        /\ pool' = pool - paid
        /\ UNCHANGED <<wealth, phase, payout>>

\* A user's dollars pay for something else.
Draw(user, dollars) ==
    /\ wealth' = [wealth EXCEPT ![user] = @ - dollars]
    /\ UNCHANGED <<options, treasury, phase, payout, pool>>

GoesAstray ==
    /\ redirected' = redirected + 1
    /\ \/ \E giver, receiver \in Users :
              \E quantity \in 0..options[giver], dollars \in 0..wealth[giver] :
                  Redirect(giver, receiver, quantity, dollars)
       \/ \E user \in Users :
              \/ \E quantity \in 1..options[user] : Forfeit(user, quantity)
              \/ \E dollars \in 1..wealth[user] : Draw(user, dollars)

\* Nobody sells, gives, redeems or loses more than it has.
Trading ==
    /\ phase = "trading"
    /\ \/ \E buyer, seller \in Users, price \in Prices :
              \E quantity \in 1..options[seller] : Trade(buyer, seller, quantity, price)
       \/ \E giver, receiver \in Users :
              \E quantity \in 1..options[giver] : Give(giver, receiver, quantity)
       \/ Expire

Paying ==
    /\ phase = "paying"
    /\ \/ \E user \in Users : \E quantity \in 1..options[user] : Redeem(user, quantity)
       \/ Release

LedgerNext ==
    \/ Trading
    \/ \E worth \in Payouts : Settle(worth)
    \/ Paying
    \/ GoesAstray

LedgerSpec == LedgerInit /\ [][LedgerNext]_ledger
=============================================================================
