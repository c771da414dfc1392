----------------------------- MODULE SharedVault -----------------------------
(***************************************************************************)
(* One shared collateral vault of the option program, from its creation to *)
(* the closing of its USDC account.                                        *)
(*                                                                         *)
(* Writers deposit USDC and hold shares; they mint option tokens against   *)
(* their share, sell them from an escrow, and collect premium through a    *)
(* reward-per-share accumulator.  After expiry a permissionless crank      *)
(* settles the vault at a recorded price, holders are paid, and writers    *)
(* share what remains.  If no price is ever recorded the vault is voided.  *)
(*                                                                         *)
(* Every instruction is one atomic transaction, so it is one action; the   *)
(* interleaving of transactions of writers, buyers and cranks, and the     *)
(* clock, is the nondeterminism.  The arithmetic and the order of the      *)
(* guards are those of src/programs/opta/src/instructions.                 *)
(***************************************************************************)
EXTENDS VaultMath, Totals

CONSTANTS
    Writers,          \* accounts that may deposit and write
    Holders,          \* accounts that may buy option tokens
    Mints,            \* option mints that mint_from_vault may create
    NoWriter,         \* "no account yet"
    Style,            \* ExerciseStyle: "European" or "American"
    VaultType,        \* "Epoch" or "Custom"
    OptionType,       \* "Call" or "Put"
    Strike,           \* strike price, in the smallest USDC unit
    Scale,            \* fixed-point scale of the premium accumulator (1e12)
    FeeBps,           \* protocol fee in basis points
    Expiry,           \* the vault's expiry
    ExerciseWindow,   \* EXERCISE_WINDOW, 24 hours
    GraceWindow,      \* GRACE_WINDOW, 7 days
    SettleDelay,      \* a price can be recorded until Expiry + SettleDelay:
                      \* 300 s (Switchboard) or about 30 days (Pyth)
    Amounts,          \* amounts of USDC a writer may deposit
    Quantities,       \* contract and share quantities an instruction may name
    Premiums,         \* premiums per contract a mint may carry
    Prices,           \* prices the oracle may report
    Horizon,          \* bound: the clock stops here
    MaxCollateral,    \* bound: USDC all writers together may have in the vault
    MaxRoundings      \* bound: premium checkpoints that may round down

ASSUME AccountsAssumption ==
    /\ NoWriter \notin Writers
    /\ IsFiniteSet(Writers) /\ IsFiniteSet(Holders) /\ IsFiniteSet(Mints)

ASSUME KindAssumption ==
    /\ Style \in {"European", "American"}
    /\ VaultType \in {"Epoch", "Custom"}
    /\ OptionType \in {"Call", "Put"}

ASSUME NumbersAssumption ==
    /\ Strike \in Nat \ {0}
    /\ Scale \in Nat \ {0}
    /\ FeeBps \in 0..10000
    /\ Expiry \in Nat \ {0}
    /\ ExerciseWindow \in Nat
    /\ GraceWindow \in Nat
    /\ SettleDelay \in Nat
    /\ Horizon \in Nat
    /\ MaxCollateral \in Nat
    /\ MaxRoundings \in Nat
    /\ ExerciseWindow <= GraceWindow

ASSUME InputsAssumption ==
    /\ Amounts \subseteq Nat \ {0}
    /\ Quantities \subseteq Nat \ {0}
    /\ Premiums \subseteq Nat \ {0}
    /\ Prices \subseteq Nat \ {0}

VARIABLES
    now,                \* Clock::unix_timestamp
    vault,              \* the SharedVault account
    vault_usdc,         \* balance of the vault's USDC token account
    usdc_open,          \* that account exists
    position,           \* the WriterPosition account of each writer
    mint,               \* VaultMint record and purchase escrow of each mint
    holding,            \* option tokens of this vault each holder owns
    settlement_record,  \* price of the SettlementRecord; NoPrice: not created
    roundings           \* history: premium checkpoints that rounded down

vars == <<now, vault, vault_usdc, usdc_open, position, mint, holding,
          settlement_record, roundings>>

NoPrice == 0

Cpc == CollateralPerContract(Strike)
WindowEnd == Expiry + ExerciseWindow
GraceEnd == Expiry + GraceWindow

\* A WriterPosition account that does not exist, or holds nothing.
EmptyPosition ==
    [open |-> FALSE, shares |-> 0, deposited_collateral |-> 0,
     options_minted |-> 0, premium_claimed |-> 0, premium_debt |-> 0]

UnusedMint == [writer |-> NoWriter, premium_per_contract |-> 0, escrow |-> 0]

EmptyVault ==
    [created |-> FALSE, creator |-> NoWriter,
     total_collateral |-> 0, total_shares |-> 0,
     total_options_minted |-> 0, total_options_sold |-> 0,
     premium_per_share_cumulative |-> 0,
     is_settled |-> FALSE, voided |-> FALSE, settlement_price |-> 0,
     collateral_remaining |-> 0,
     exercised_options |-> 0, early_exercise_payout |-> 0,
     writer_ask_collateral_swept |-> 0, writer_ask_equiv_shares |-> 0]

Init ==
    /\ now = 0
    /\ vault = EmptyVault
    /\ vault_usdc = 0
    /\ usdc_open = FALSE
    /\ position = [w \in Writers |-> EmptyPosition]
    /\ mint = [m \in Mints |-> UnusedMint]
    /\ holding = [h \in Holders |-> 0]
    /\ settlement_record = NoPrice
    /\ roundings = 0

-----------------------------------------------------------------------------
(* Quantities the handlers compute. *)

Live == ~vault.is_settled /\ now < Expiry

\* Mutant: the whole pool backs every writer.
WholePoolBacks(w) == vault.total_collateral

\* The collateral a writer's shares stand for.
WriterShare(w) ==
    MulDiv(position[w].shares, vault.total_collateral, vault.total_shares)

EarnedPremium(w) ==
    MulDiv(position[w].shares, vault.premium_per_share_cumulative, Scale)

\* Mutant: what was claimed already is forgotten.
UnclaimedForgettingClaims(w) ==
    SatSub(EarnedPremium(w), position[w].premium_debt)

UnclaimedPremium(w) ==
    SatSub(SatSub(EarnedPremium(w), position[w].premium_debt),
           position[w].premium_claimed)

\* Mutant: the residual is taken from the collateral before holders were paid.
ResidualBeforePayouts(w) ==
    MulDiv(position[w].shares, vault.total_collateral, vault.total_shares)

\* What a writer's shares are worth once the vault is settled or voided.
ResidualClaim(w) ==
    MulDiv(position[w].shares, vault.collateral_remaining, vault.total_shares)

PayoutPerContract(price) ==
    ExerciseCappedIntrinsic(OptionType, price, Strike, Cpc)

\* Mutant: early payouts do not reduce the free collateral.
VaultFreeIgnoringPayouts(needed) ==
    /\ vault.exercised_options <= vault.total_options_minted
    /\ (vault.total_options_minted - vault.exercised_options) * Cpc + needed
           <= vault.total_collateral

\* vault_free_collateral(..) succeeds and is at least needed: its three
\* checked subtractions hold and so does the caller's comparison.
VaultFreeAtLeast(needed) ==
    /\ vault.early_exercise_payout <= vault.total_collateral
    /\ vault.exercised_options <= vault.total_options_minted
    /\ (vault.total_options_minted - vault.exercised_options) * Cpc + needed
           <= vault.total_collateral - vault.early_exercise_payout

\* 1 when the floor of shares * cumulative / Scale drops a fraction.
DroppedFraction(shares) ==
    IF (shares * vault.premium_per_share_cumulative) % Scale = 0 THEN 0 ELSE 1

\* Mutant: writers may leave from expiry on.
WriterWindowFromExpiry == now >= Expiry

\* Mutant: only sales of the pool make writers wait.
WriterWindowOfPoolSales ==
    vault.total_options_sold > 0 => now >= WindowEnd

\* Writers may leave a settled vault at once if nobody bought from it,
\* otherwise only after the holders' exercise window.
WriterWindowOpen ==
    (vault.total_options_sold > 0 \/ vault.writer_ask_collateral_swept > 0)
        => now >= WindowEnd

-----------------------------------------------------------------------------
(* Creation, deposits and premium: before expiry. *)

Tick ==
    /\ now < Horizon
    /\ now' = now + 1
    /\ UNCHANGED <<vault, vault_usdc, usdc_open, position, mint, holding,
                   settlement_record, roundings>>

\* The vault account and its USDC account are created together.
CreateSharedVault(w) ==
    /\ ~vault.created
    /\ now < Expiry
    /\ vault' = [vault EXCEPT !.created = TRUE, !.creator = w]
    /\ usdc_open' = TRUE
    /\ UNCHANGED <<now, vault_usdc, position, mint, holding,
                   settlement_record, roundings>>

\* Mutant: the pool is taken after the deposit has arrived.
SharesAfterTransfer(amount) ==
    IF vault.total_shares = 0 THEN amount
    ELSE MulDiv(amount, vault.total_shares, vault.total_collateral + amount)

\* Shares for a deposit: one per unit in an empty vault, else pro rata.
SharesFor(amount) ==
    IF vault.total_shares = 0 THEN amount
    ELSE MulDiv(amount, vault.total_shares, vault.total_collateral)

\* Mutant: every deposit initialises the position anew.
PositionAlwaysFresh(w) == [EmptyPosition EXCEPT !.open = TRUE]

\* A position that holds nothing is (re)initialised by the next deposit.
PositionToCredit(w) ==
    IF position[w].shares = 0 /\ position[w].deposited_collateral = 0
    THEN [EmptyPosition EXCEPT !.open = TRUE]
    ELSE position[w]

\* The deposit's effect on the position and the counters.
Credit(w, amount, shares) ==
    /\ vault.total_collateral + amount <= MaxCollateral
    /\ position' = [position EXCEPT ![w] =
          [PositionToCredit(w) EXCEPT
             !.shares = @ + shares,
             !.deposited_collateral = @ + amount,
             !.premium_debt =
                 @ + MulDiv(shares, vault.premium_per_share_cumulative, Scale)]]
    /\ vault_usdc' = vault_usdc + amount
    /\ roundings' = roundings + DroppedFraction(shares)
    /\ roundings' <= MaxRoundings

DepositToVault(w, amount) ==
    /\ vault.created
    /\ Live
    /\ (VaultType = "Custom" /\ vault.total_shares > 0) => w = vault.creator
    /\ vault.total_shares > 0 => vault.total_collateral > 0
    /\ SharesFor(amount) > 0
    /\ Credit(w, amount, SharesFor(amount))
    /\ vault' = [vault EXCEPT !.total_collateral = @ + amount,
                              !.total_shares = @ + SharesFor(amount)]
    /\ UNCHANGED <<now, usdc_open, mint, holding, settlement_record>>

\* Creation and first deposit in one transaction.  On a vault that exists
\* the same instruction is a plain deposit, which is DepositToVault.
CreateAndDeposit(w, amount) ==
    /\ ~vault.created
    /\ now < Expiry
    /\ Credit(w, amount, amount)
    /\ vault' = [vault EXCEPT !.created = TRUE, !.creator = w,
                              !.total_collateral = amount,
                              !.total_shares = amount]
    /\ usdc_open' = TRUE
    /\ UNCHANGED <<now, mint, holding, settlement_record>>

\* A writer mints quantity tokens of a fresh mint into its purchase escrow.
MintFromVault(w, m, quantity, premium) ==
    /\ mint[m] = UnusedMint
    /\ position[w].open
    /\ Live
    /\ vault.total_shares > 0
    /\ (position[w].options_minted + quantity) * Cpc <= WriterShare(w)
    /\ Style = "American" => VaultFreeAtLeast(quantity * Cpc)
    /\ mint' = [mint EXCEPT ![m] = [writer |-> w,
                                    premium_per_contract |-> premium,
                                    escrow |-> quantity]]
    /\ position' = [position EXCEPT ![w].options_minted = @ + quantity]
    /\ vault' = [vault EXCEPT !.total_options_minted = @ + quantity]
    /\ UNCHANGED <<now, vault_usdc, usdc_open, holding, settlement_record,
                   roundings>>

\* The accumulator after a premium of share USDC; unchanged without shares.
AccumulatorAfter(share) ==
    vault.premium_per_share_cumulative +
        (IF vault.total_shares > 0 THEN MulDiv(share, Scale, vault.total_shares)
                                   ELSE 0)

PurchaseFromVault(h, m, quantity) ==
    LET premium == quantity * mint[m].premium_per_contract
        share == premium - ProtocolFee(premium, FeeBps)
    IN  /\ mint[m].writer # NoWriter
        /\ Live
        /\ h # mint[m].writer
        /\ position[mint[m].writer].open
        /\ quantity <= mint[m].escrow
        /\ vault_usdc' = vault_usdc + share
        /\ mint' = [mint EXCEPT ![m].escrow = @ - quantity]
        /\ holding' = [holding EXCEPT ![h] = @ + quantity]
        /\ vault' = [vault EXCEPT
                       !.total_options_sold = @ + quantity,
                       !.premium_per_share_cumulative = AccumulatorAfter(share)]
        /\ UNCHANGED <<now, usdc_open, position, settlement_record, roundings>>

\* Allowed at any time, also after expiry and after settlement.
BurnUnsoldFromVault(w, m) ==
    LET unsold == mint[m].escrow
    IN  /\ mint[m].writer = w
        /\ position[w].open
        /\ unsold > 0
        /\ unsold <= position[w].options_minted
        /\ unsold <= vault.total_options_minted
        /\ mint' = [mint EXCEPT ![m].escrow = 0]
        /\ position' = [position EXCEPT ![w].options_minted = @ - unsold]
        /\ vault' = [vault EXCEPT !.total_options_minted = @ - unsold]
        /\ UNCHANGED <<now, vault_usdc, usdc_open, holding, settlement_record,
                       roundings>>

WithdrawFromVault(w, shares) ==
    LET amount == MulDiv(shares, vault.total_collateral, vault.total_shares)
        rest == position[w].shares - shares
    IN  /\ position[w].open
        /\ shares <= position[w].shares
        /\ ~vault.is_settled
        /\ ~vault.voided
        /\ UnclaimedPremium(w) = 0
        /\ vault.total_shares > 0
        /\ amount + position[w].options_minted * Cpc <= WriterShare(w)
        /\ Style = "American" => VaultFreeAtLeast(amount)
        /\ amount <= vault_usdc
        /\ amount <= vault.total_collateral
        /\ shares <= vault.total_shares
        /\ vault_usdc' = vault_usdc - amount
        /\ position' = [position EXCEPT ![w] =
              [position[w] EXCEPT
                 !.shares = rest,
                 !.deposited_collateral = SatSub(@, amount),
                 !.premium_debt =
                     MulDiv(rest, vault.premium_per_share_cumulative, Scale),
                 !.premium_claimed = 0]]
        /\ vault' = [vault EXCEPT !.total_collateral = @ - amount,
                                  !.total_shares = @ - shares]
        /\ roundings' = roundings + DroppedFraction(rest)
        /\ roundings' <= MaxRoundings
        /\ UNCHANGED <<now, usdc_open, mint, holding, settlement_record>>

ClaimPremium(w) ==
    /\ position[w].open
    /\ UnclaimedPremium(w) > 0
    /\ usdc_open
    /\ UnclaimedPremium(w) <= vault_usdc
    /\ vault_usdc' = vault_usdc - UnclaimedPremium(w)
    /\ position' = [position EXCEPT
                       ![w].premium_claimed = @ + UnclaimedPremium(w)]
    /\ UNCHANGED <<now, vault, usdc_open, mint, holding, settlement_record,
                   roundings>>

-----------------------------------------------------------------------------
(* Settlement, void and the wind-down: after expiry. *)

\* Mutant: the record may be written again.
SettleExpiryAgain(price) ==
    /\ now >= Expiry
    /\ now <= Expiry + SettleDelay
    /\ settlement_record' = price
    /\ UNCHANGED <<now, vault, vault_usdc, usdc_open, position, mint, holding,
                   roundings>>

\* The price of (asset, expiry) is recorded once; the account is init-ed.
SettleExpiry(price) ==
    /\ settlement_record = NoPrice
    /\ now >= Expiry
    /\ now <= Expiry + SettleDelay
    /\ settlement_record' = price
    /\ UNCHANGED <<now, vault, vault_usdc, usdc_open, position, mint, holding,
                   roundings>>

\* Shares issued for pot collateral that is merged into the vault.
EquivShares(swept) ==
    IF swept = 0 THEN 0
    ELSE IF vault.total_collateral = 0 THEN swept
    ELSE MulDiv(swept, vault.total_shares, vault.total_collateral)

\* settle_vault with swept USDC moved in from the vault's writer-ask pot.
SettleVaultSweeping(swept) ==
    /\ vault.created
    /\ ~vault.is_settled
    /\ ~vault.voided
    /\ Expiry <= now
    /\ settlement_record # NoPrice
    /\ vault_usdc' = vault_usdc + swept
    /\ vault' = [vault EXCEPT
          !.is_settled = TRUE,
          !.settlement_price = settlement_record,
          !.collateral_remaining = SatSub(vault.total_collateral + swept,
                                          vault.early_exercise_payout),
          !.writer_ask_collateral_swept = swept,
          !.total_shares = @ + EquivShares(swept),
          !.writer_ask_equiv_shares = EquivShares(swept)]
    /\ UNCHANGED <<now, usdc_open, position, mint, holding,
                   settlement_record, roundings>>

\* Mutant: a vault that sold contracts waits for its price for ever.
VoidOnlyUnsold(swept) ==
    /\ vault.created
    /\ ~vault.voided
    /\ settlement_record = NoPrice
    /\ now >= GraceEnd
    /\ vault.total_options_sold = 0
    /\ vault' = [vault EXCEPT !.voided = TRUE,
                              !.collateral_remaining = vault.total_collateral]
    /\ UNCHANGED <<now, vault_usdc, usdc_open, position, mint, holding,
                   settlement_record, roundings>>

\* initialize_void with swept USDC moved in from the pot.
InitializeVoidSweeping(swept) ==
    /\ vault.created
    /\ ~vault.voided
    /\ settlement_record = NoPrice
    /\ now >= GraceEnd
    /\ vault.early_exercise_payout <= vault.total_collateral + swept
    /\ vault_usdc' = vault_usdc + swept
    /\ vault' = [vault EXCEPT
          !.voided = TRUE,
          !.collateral_remaining =
              vault.total_collateral + swept - vault.early_exercise_payout,
          !.writer_ask_collateral_swept = swept,
          !.total_shares = @ + EquivShares(swept),
          !.writer_ask_equiv_shares = EquivShares(swept)]
    /\ UNCHANGED <<now, usdc_open, position, mint, holding,
                   settlement_record, roundings>>

\* Burns quantity tokens of h and pays their capped intrinsic value, or what
\* is left of it.
PayHolder(h, quantity) ==
    LET payout == AtMost(quantity * PayoutPerContract(vault.settlement_price),
                         vault.collateral_remaining)
    IN  /\ ~vault.voided
        /\ vault.is_settled
        /\ quantity > 0
        /\ quantity <= holding[h]
        /\ usdc_open
        /\ payout <= vault_usdc
        /\ holding' = [holding EXCEPT ![h] = @ - quantity]
        /\ vault_usdc' = vault_usdc - payout
        /\ vault' = [vault EXCEPT !.collateral_remaining = @ - payout]
        /\ UNCHANGED <<now, usdc_open, position, mint, settlement_record,
                       roundings>>

\* A holder exercises some of its tokens; refused out of the money.
ExerciseFromVault(h, quantity) ==
    /\ PayoutPerContract(vault.settlement_price) > 0
    /\ PayHolder(h, quantity)

\* The crank burns a holder's whole balance, in the money or not.  It takes a
\* batch of holders and treats each in turn, which is a sequence of these.
AutoFinalizeHolders(h) == PayHolder(h, holding[h])

\* A writer's premium and its residual leave together; the payment and the
\* checked subtractions must all succeed.
WriterExit(w, residual) ==
    /\ usdc_open
    /\ UnclaimedPremium(w) + residual <= vault_usdc
    /\ residual <= vault.collateral_remaining
    /\ position[w].shares <= vault.total_shares
    /\ residual <= vault.total_collateral
    /\ vault' = [vault EXCEPT !.collateral_remaining = @ - residual,
                              !.total_shares = @ - position[w].shares,
                              !.total_collateral = @ - residual]

\* Mutant: the account is closed when the residual is drained.
SweepIfResidualDrained(balance) ==
    /\ vault_usdc' = IF vault'.collateral_remaining = 0 THEN 0 ELSE balance
    /\ usdc_open' = (vault'.collateral_remaining # 0)

\* Mutant: dust keeps the account open.
SweepIfEmpty(balance) ==
    /\ vault_usdc' = balance
    /\ usdc_open' = ~(vault'.total_shares = 0 /\ balance = 0)

\* Whoever drains the last share also takes the dust and closes the account.
SweepIfDrained(balance) ==
    /\ vault_usdc' = IF vault'.total_shares = 0 THEN 0 ELSE balance
    /\ usdc_open' = (vault'.total_shares # 0)

\* The dust of the last exit goes to the last writer.
WithdrawPostSettlement(w) ==
    /\ vault.is_settled
    /\ position[w].open
    /\ position[w].shares > 0
    /\ WriterWindowOpen
    /\ vault.total_shares > 0
    /\ WriterExit(w, ResidualClaim(w))
    /\ SweepIfDrained(vault_usdc - UnclaimedPremium(w) - ResidualClaim(w))
    /\ position' = [position EXCEPT ![w] = EmptyPosition]
    /\ UNCHANGED <<now, mint, holding, settlement_record, roundings>>

\* What auto_finalize_writers pays for a position: nothing without shares.
FinalClaim(w) ==
    IF vault.total_shares = 0 \/ position[w].shares = 0 THEN 0
    ELSE ResidualClaim(w)

\* The crank closes a writer's position; the dust of the last exit goes to
\* the treasury.  A batch is a sequence of these.
AutoFinalizeWriters(w) ==
    /\ vault.is_settled
    /\ WriterWindowOpen
    /\ position[w].open
    /\ WriterExit(w, FinalClaim(w))
    /\ SweepIfDrained(vault_usdc - UnclaimedPremium(w) - FinalClaim(w))
    /\ position' = [position EXCEPT ![w] = EmptyPosition]
    /\ UNCHANGED <<now, mint, holding, settlement_record, roundings>>

\* The same instruction with no position in the batch: only its tail runs.
AutoFinalizeNoWriters ==
    /\ vault.is_settled
    /\ WriterWindowOpen
    /\ usdc_open
    /\ vault.total_shares = 0
    /\ vault_usdc' = 0
    /\ usdc_open' = FALSE
    /\ UNCHANGED <<now, vault, position, mint, holding, settlement_record,
                   roundings>>

\* Anyone may push a writer's premium and pro-rata collateral out of a voided
\* vault.  The position stays open with no shares.
ReclaimUnsettled(w) ==
    /\ vault.voided
    /\ position[w].open
    /\ position[w].shares > 0
    /\ vault.total_shares > 0
    /\ WriterExit(w, ResidualClaim(w))
    /\ vault_usdc' = vault_usdc - UnclaimedPremium(w) - ResidualClaim(w)
    /\ position' = [position EXCEPT ![w] =
          [position[w] EXCEPT !.premium_claimed = @ + UnclaimedPremium(w),
                              !.shares = 0]]
    /\ UNCHANGED <<now, usdc_open, mint, holding, settlement_record, roundings>>

\* Closes a drained vault that was voided or had a writer-ask pot.
CloseSettledWriterAskVault ==
    /\ \/ vault.voided
       \/ vault.is_settled /\ vault.writer_ask_collateral_swept > 0
    /\ vault.total_shares = 0
    /\ usdc_open
    /\ vault_usdc' = 0
    /\ usdc_open' = FALSE
    /\ UNCHANGED <<now, vault, position, mint, holding, settlement_record,
                   roundings>>

-----------------------------------------------------------------------------

\* A vault without a writer-ask pot sweeps nothing.
SettleVault == SettleVaultSweeping(0)
InitializeVoid == InitializeVoidSweeping(0)

WriterNext(w) ==
    \/ CreateSharedVault(w)
    \/ \E amount \in Amounts : CreateAndDeposit(w, amount) \/ DepositToVault(w, amount)
    \/ \E m \in Mints, quantity \in Quantities, premium \in Premiums :
          MintFromVault(w, m, quantity, premium)
    \/ \E m \in Mints : BurnUnsoldFromVault(w, m)
    \/ \E shares \in Quantities : WithdrawFromVault(w, shares)
    \/ ClaimPremium(w)
    \/ WithdrawPostSettlement(w)
    \/ AutoFinalizeWriters(w)
    \/ ReclaimUnsettled(w)

HolderNext(h) ==
    \/ \E m \in Mints, quantity \in Quantities : PurchaseFromVault(h, m, quantity)
    \/ \E quantity \in Quantities : ExerciseFromVault(h, quantity)
    \/ AutoFinalizeHolders(h)

\* Everything but the sweep of a pot.
PoolNext ==
    \/ Tick
    \/ \E w \in Writers : WriterNext(w)
    \/ \E h \in Holders : HolderNext(h)
    \/ \E price \in Prices : SettleExpiry(price)
    \/ AutoFinalizeNoWriters
    \/ CloseSettledWriterAskVault

Next == PoolNext \/ SettleVault \/ InitializeVoid

Spec == Init /\ [][Next]_vars

-----------------------------------------------------------------------------
(* Properties. *)

VaultRecord ==
    [created : BOOLEAN, creator : Writers \cup {NoWriter},
     total_collateral : Nat, total_shares : Nat,
     total_options_minted : Nat, total_options_sold : Nat,
     premium_per_share_cumulative : Nat,
     is_settled : BOOLEAN, voided : BOOLEAN, settlement_price : Nat,
     collateral_remaining : Nat,
     exercised_options : Nat, early_exercise_payout : Nat,
     writer_ask_collateral_swept : Nat, writer_ask_equiv_shares : Nat]

PositionRecord ==
    [open : BOOLEAN, shares : Nat, deposited_collateral : Nat,
     options_minted : Nat, premium_claimed : Nat, premium_debt : Nat]

MintRecord ==
    [writer : Writers \cup {NoWriter}, premium_per_contract : Nat, escrow : Nat]

\* Every balance and counter is a natural number: no account is overdrawn and
\* no unsigned counter of any handler wraps.
TypeOK ==
    /\ now \in Nat
    /\ vault \in VaultRecord
    /\ vault_usdc \in Nat
    /\ usdc_open \in BOOLEAN
    /\ position \in [Writers -> PositionRecord]
    /\ mint \in [Mints -> MintRecord]
    /\ holding \in [Holders -> Nat]
    /\ settlement_record \in Nat
    /\ roundings \in Nat

Unresolved == ~vault.is_settled /\ ~vault.voided

\* Deposits and withdrawals in any order keep one share worth exactly one unit
\* of collateral until the vault is settled or voided: no truncation of
\* deposit_to_vault or withdraw_from_vault moves value between writers.
SharesMatchCollateral ==
    Unresolved =>
        /\ vault.total_shares = vault.total_collateral
        /\ \A w \in Writers :
              position[w].deposited_collateral = position[w].shares

\* Until the vault is resolved, each writer's own collateral covers every
\* contract it has minted: another writer's deposit never backs it, whatever
\* the order of mints, burns, deposits and partial withdrawals.
WritersBackTheirMints ==
    Unresolved =>
        \A w \in Writers :
            position[w].options_minted * Cpc <= position[w].shares

TotalShares == Total([w \in Writers |-> position[w].shares])
TotalWritten == Total([w \in Writers |-> position[w].options_minted])
TotalHeld == Total(holding)
TotalEscrowed == Total([m \in Mints |-> mint[m].escrow])
TotalUnclaimed == Total([w \in Writers |-> UnclaimedPremium(w)])

\* The vault's counters are the sums of the accounts they summarise: the
\* positions' shares, and before settlement of a European vault the tokens in
\* escrow and in holders' hands.
CountersMatchAccounts ==
    /\ vault.total_shares = TotalShares
    /\ (Unresolved /\ Style = "European") =>
          /\ vault.total_options_minted = TotalEscrowed + TotalHeld
          /\ vault.total_options_minted = TotalWritten

\* A settled vault can pay every holder in full as long as the exercise window
\* is open: no writer's exit, no rounding and no other holder's exercise
\* takes from what the outstanding tokens are owed.
HoldersCoveredInWindow ==
    (vault.is_settled /\ now < WindowEnd) =>
        TotalHeld * PayoutPerContract(vault.settlement_price)
            <= vault.collateral_remaining

\* The collateral the vault owes as principal.
Principal ==
    IF Unresolved THEN vault.total_collateral ELSE vault.collateral_remaining

\* The vault's USDC covers its principal and all unclaimed premium, short of at
\* most one unit per premium checkpoint that was rounded down.
SolventUpToRounding ==
    usdc_open => Principal + TotalUnclaimed <= vault_usdc + roundings

\* Every writer's residual can be paid: the checked subtractions of
\* withdraw_post_settlement, auto_finalize_writers and reclaim_unsettled from
\* collateral_remaining, total_shares and total_collateral cannot underflow.
ExitsNeverUnderflow ==
    ~Unresolved =>
        \A w \in Writers :
            position[w].shares > 0 =>
                /\ position[w].shares <= vault.total_shares
                /\ ResidualClaim(w) <= vault.collateral_remaining
                /\ ResidualClaim(w) <= vault.total_collateral

\* A vault is never both settled and voided, however a late price record, the
\* settle crank and the void crank interleave; nor is its price changed.
ResolvedOneWay ==
    /\ ~(vault.is_settled /\ vault.voided)
    /\ vault.is_settled => vault.settlement_price = settlement_record

\* The USDC account is closed only when no writer has a claim on it any more.
ClosedOwesNoWriter ==
    (vault.created /\ ~usdc_open) =>
        \A w \in Writers : position[w].shares = 0 /\ UnclaimedPremium(w) = 0

\* While the exercise window of a vault that sold contracts is open, each token
\* burned takes exactly its payout from the residual, and nothing else does.
WindowPaysHoldersExactly ==
    [][(vault.is_settled /\ vault.total_options_sold > 0 /\ now < WindowEnd)
         => vault.collateral_remaining - vault'.collateral_remaining =
              (TotalHeld - TotalHeld')
                  * PayoutPerContract(vault.settlement_price)]_vars

-----------------------------------------------------------------------------
(* What comments of the code say and the code does not do. *)

\* The vault's USDC covers its principal and all unclaimed premium
\* (reclaim_unsettled.rs: it holds total_collateral + net_premium).
SolventExactly ==
    usdc_open => Principal + TotalUnclaimed <= vault_usdc

\* A vault that sold contracts is settled while its holders' exercise window is
\* still open (shared_vault.rs: EXERCISE_WINDOW gives holders a predictable
\* window before writers can deplete collateral_remaining).
SettlingLeavesAWindow ==
    [][(~vault.is_settled /\ vault'.is_settled /\ vault.total_options_sold > 0)
         => now < WindowEnd]_vars

=============================================================================
