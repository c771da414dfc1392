--------------------------- MODULE WriterAskVault ---------------------------
(***************************************************************************)
(* An American shared vault with its canonical series: next to the pool of *)
(* SharedVault, writers quote asks backed by their own USDC.  A fill mints *)
(* fungible series tokens and moves the backing from the order's escrow to *)
(* a pot outside the vault.  Anyone may also buy series tokens from the    *)
(* pool at the model price (the peg), and holders may exercise before      *)
(* expiry, paid by the vault first and by the pot for the shortfall.       *)
(* Settlement and void merge the pot into the vault; backers then claim    *)
(* against the same residual and the same shares as pool writers.          *)
(*                                                                         *)
(* The pool's operations are those of SharedVault, unchanged.              *)
(***************************************************************************)
EXTENDS SharedVault

CONSTANTS
    Orders,           \* order accounts a writer may post an ask into
    MaxAsked,         \* bound: contracts all asks together may carry
    MaxElsewhere      \* bound: USDC exercises of other series take here

\* Asks and early exercise exist on American series only.
ASSUME AsksAssumption ==
    /\ MaxAsked \in Nat /\ MaxElsewhere \in Nat /\ IsFiniteSet(Orders)
    /\ Style = "American"

VARIABLES
    ask,        \* resting WriterAsk orders with their USDC escrows
    pot,        \* the WriterAskPot of the series
    pot_usdc,   \* balance of the pot's USDC account
    backing,    \* the WriterAskPosition of each writer
    pot_drawn,  \* history: USDC early exercises took from the pot
    draws,      \* history: how many of them took some
    elsewhere   \* history: USDC exercises of other series took from its account

potVars == <<pot, pot_usdc, pot_drawn, draws, elsewhere>>
askVars == <<ask, backing, potVars>>
allVars == <<vars, askVars>>

NoAsk == [owner |-> NoWriter, remaining |-> 0, escrow |-> 0]

EmptyPot == [total_collateral |-> 0, total_contracts |-> 0]

NoBacking == [committed |-> 0, written |-> 0]

AskInit ==
    /\ Init
    /\ ask = [o \in Orders |-> NoAsk]
    /\ pot = EmptyPot
    /\ pot_usdc = 0
    /\ backing = [w \in Writers |-> NoBacking]
    /\ pot_drawn = 0
    /\ draws = 0
    /\ elsewhere = 0

TotalAsked ==
    Total([o \in Orders |-> ask[o].remaining])
        + Total([w \in Writers |-> backing[w].written])

\* What exercises of other series took here, from the pot and from the asks.
TotalElsewhere ==
    elsewhere + Total([o \in Orders |-> SatSub(ask[o].remaining * Cpc, ask[o].escrow)])

-----------------------------------------------------------------------------
(* Asks and the peg: before expiry. *)

\* The backing of the whole ask is locked when it is posted.
PostWriterAsk(w, o, quantity) ==
    /\ ask[o] = NoAsk
    /\ vault.created
    /\ Style = "American"
    /\ Live
    /\ TotalAsked + quantity <= MaxAsked
    /\ ask' = [ask EXCEPT ![o] = [owner |-> w, remaining |-> quantity,
                                  escrow |-> quantity * Cpc]]
    /\ UNCHANGED <<vars, backing, potVars>>

\* What is left of an ask; a filled one is closed, with an empty escrow.
AskAfterFill(o, quantity) ==
    IF ask[o].remaining = quantity THEN NoAsk
    ELSE [owner |-> ask[o].owner, remaining |-> ask[o].remaining - quantity,
          escrow |-> ask[o].escrow - quantity * Cpc]

\* The premium goes from the taker to the backer, not through the vault.
FillWriterAsk(h, o, quantity) ==
    LET backer == ask[o].owner
    IN  /\ backer # NoWriter
        /\ h # backer
        /\ Live
        /\ ~vault.voided
        /\ quantity <= ask[o].remaining
        /\ quantity * Cpc <= ask[o].escrow
        /\ quantity = ask[o].remaining => ask[o].escrow = quantity * Cpc
        /\ ask' = [ask EXCEPT ![o] = AskAfterFill(o, quantity)]
        /\ pot' = [total_collateral |-> pot.total_collateral + quantity * Cpc,
                   total_contracts |-> pot.total_contracts + quantity]
        /\ pot_usdc' = pot_usdc + quantity * Cpc
        /\ backing' = [backing EXCEPT ![backer] =
              [committed |-> backing[backer].committed + quantity * Cpc,
               written |-> backing[backer].written + quantity]]
        /\ holding' = [holding EXCEPT ![h] = @ + quantity]
        /\ UNCHANGED <<now, vault, vault_usdc, usdc_open, position, mint,
                       settlement_record, roundings, pot_drawn, draws,
                       elsewhere>>

\* The owner takes back what the escrow still holds, at any time.
CancelWriterAsk(o) ==
    /\ ask[o] # NoAsk
    /\ ask' = [ask EXCEPT ![o] = NoAsk]
    /\ UNCHANGED <<vars, backing, potVars>>

\* After expiry anyone may return it to the owner.
SweepExpiredAsk(o) ==
    /\ now >= Expiry
    /\ CancelWriterAsk(o)

\* Tokens sold by the pool at a quoted premium; no writer's count changes.
FillVaultPeg(h, quantity, quote) ==
    LET premium == quantity * quote
        share == premium - ProtocolFee(premium, FeeBps)
    IN  /\ vault.created
        /\ Style = "American"
        /\ Live
        /\ ~vault.voided
        /\ VaultFreeAtLeast(quantity * Cpc)
        /\ vault_usdc' = vault_usdc + share
        /\ holding' = [holding EXCEPT ![h] = @ + quantity]
        /\ vault' = [vault EXCEPT
              !.total_options_minted = @ + quantity,
              !.total_options_sold = @ + quantity,
              !.premium_per_share_cumulative = AccumulatorAfter(share)]
        /\ UNCHANGED <<now, usdc_open, position, mint, settlement_record,
                       roundings, askVars>>

-----------------------------------------------------------------------------
(* Early exercise. *)

\* Mutant: the contracts stay on the pot's books.
PotKeepingContracts(shortfall, quantity) ==
    [pot EXCEPT !.total_collateral = @ - shortfall]

\* Mutant: the draw is not debited.
PotUndebited(shortfall, quantity) ==
    [pot EXCEPT !.total_contracts = SatSub(@, quantity)]

\* A draw debits the pot and retires the contracts, the pot's own or not.
PotAfterDraw(shortfall, quantity) ==
    IF shortfall = 0 THEN pot
    ELSE [total_collateral |-> pot.total_collateral - shortfall,
          total_contracts |-> SatSub(pot.total_contracts, quantity)]

\* The vault's account pays first, premium it holds for writers included; the
\* pot pays the shortfall.  Which tokens were the pool's is not tracked.  The
\* record debited is this series', but the account that pays it is the caller's
\* to name: its mint is checked, not that it is the pot's.  So the pot's own
\* account may pay, or another that the protocol signs for.
ExerciseAmerican(h, quantity, spot, own_account) ==
    LET payout == quantity * PayoutPerContract(spot)
        from_vault == AtMost(payout, vault_usdc)
        shortfall == SatSub(payout, from_vault)
        from_pot == IF own_account THEN shortfall ELSE 0
    IN  /\ vault.created
        /\ Style = "American"
        /\ now < Expiry
        /\ quantity <= holding[h]
        /\ payout > 0
        /\ from_pot <= pot_usdc
        /\ shortfall <= pot.total_collateral
        /\ holding' = [holding EXCEPT ![h] = @ - quantity]
        /\ vault_usdc' = vault_usdc - from_vault
        /\ pot_usdc' = pot_usdc - from_pot
        /\ pot' = PotAfterDraw(shortfall, quantity)
        /\ pot_drawn' = pot_drawn + shortfall
        /\ draws' = draws + (IF shortfall > 0 THEN 1 ELSE 0)
        /\ vault' = [vault EXCEPT !.exercised_options = @ + quantity,
                                  !.early_exercise_payout = @ + from_vault]
        /\ UNCHANGED <<now, usdc_open, position, mint, settlement_record,
                       roundings, ask, backing, elsewhere>>

\* And an exercise of another series may name this pot's account, or the escrow
\* of one of this series' asks: what it takes is on the other series' record.
PotPaysElsewhere(amount) ==
    /\ TotalElsewhere + amount <= MaxElsewhere
    /\ amount <= pot_usdc
    /\ pot_usdc' = pot_usdc - amount
    /\ elsewhere' = elsewhere + amount
    /\ UNCHANGED <<vars, ask, backing, pot, pot_drawn, draws>>

AskPaysElsewhere(o, amount) ==
    /\ TotalElsewhere + amount <= MaxElsewhere
    /\ amount <= ask[o].escrow
    /\ ask' = [ask EXCEPT ![o].escrow = @ - amount]
    /\ UNCHANGED <<vars, backing, potVars>>

-----------------------------------------------------------------------------
(* Settlement, void and the backers' exit. *)

\* The whole pot moves into the vault; the pot's record stays as it was.
SettleVaultWithPot ==
    /\ pot.total_collateral <= pot_usdc
    /\ SettleVaultSweeping(pot.total_collateral)
    /\ pot_usdc' = pot_usdc - pot.total_collateral
    /\ UNCHANGED <<ask, pot, backing, pot_drawn, draws, elsewhere>>

InitializeVoidWithPot ==
    /\ pot.total_collateral <= pot_usdc
    /\ InitializeVoidSweeping(pot.total_collateral)
    /\ pot_usdc' = 0
    /\ UNCHANGED <<ask, pot, backing, pot_drawn, draws, elsewhere>>

\* Mutant: the claim is sized with all shares of the vault.
ClaimOnAllShares(w) ==
    IF vault.writer_ask_collateral_swept = 0 THEN 0
    ELSE MulDiv(backing[w].committed, vault.total_shares,
                vault.writer_ask_collateral_swept)

\* A backer's part of the shares that were issued for the pot.
EquivClaim(w) ==
    IF vault.writer_ask_collateral_swept = 0 THEN 0
    ELSE MulDiv(backing[w].committed, vault.writer_ask_equiv_shares,
                vault.writer_ask_collateral_swept)

BackerPayout(w) ==
    IF EquivClaim(w) = 0 THEN 0
    ELSE MulDiv(EquivClaim(w), vault.collateral_remaining, vault.total_shares)

\* writer_ask_residual_core: pay, decrement, zero the position.
BackerExit(w) ==
    /\ usdc_open
    /\ vault.writer_ask_collateral_swept > 0
    /\ backing[w].committed > 0
    /\ EquivClaim(w) <= vault.total_shares
    /\ EquivClaim(w) > 0 => vault.total_shares > 0
    /\ BackerPayout(w) <= vault_usdc
    /\ BackerPayout(w) <= vault.collateral_remaining
    /\ vault_usdc' = vault_usdc - BackerPayout(w)
    /\ vault' = [vault EXCEPT !.collateral_remaining = @ - BackerPayout(w),
                              !.total_shares = @ - EquivClaim(w)]
    /\ backing' = [backing EXCEPT ![w] = NoBacking]
    /\ UNCHANGED <<now, usdc_open, position, mint, holding, settlement_record,
                   roundings, ask, potVars>>

\* Mutant: backers need not wait.
WithdrawResidualAtOnce(w) ==
    /\ vault.is_settled
    /\ ~vault.voided
    /\ BackerExit(w)

\* On a settled vault backers wait for the holders' exercise window.
WithdrawWriterAskResidual(w) ==
    /\ vault.is_settled
    /\ ~vault.voided
    /\ now >= WindowEnd
    /\ BackerExit(w)

ReclaimWriterAskResidual(w) ==
    /\ vault.voided
    /\ ~vault.is_settled
    /\ BackerExit(w)

-----------------------------------------------------------------------------

BackerNext(w) ==
    \/ \E o \in Orders, quantity \in Quantities : PostWriterAsk(w, o, quantity)
    \/ WithdrawWriterAskResidual(w)
    \/ ReclaimWriterAskResidual(w)

TakerNext(h) ==
    \/ \E o \in Orders, quantity \in Quantities : FillWriterAsk(h, o, quantity)
    \/ \E quantity \in Quantities, quote \in Premiums : FillVaultPeg(h, quantity, quote)
    \/ \E quantity \in Quantities, spot \in Prices, own_account \in BOOLEAN :
           ExerciseAmerican(h, quantity, spot, own_account)

AskNext ==
    \/ PoolNext /\ UNCHANGED askVars
    \/ \E w \in Writers : BackerNext(w)
    \/ \E h \in Holders : TakerNext(h)
    \/ \E o \in Orders : CancelWriterAsk(o) \/ SweepExpiredAsk(o)
    \/ SettleVaultWithPot
    \/ InitializeVoidWithPot
    \/ \E amount \in Amounts : PotPaysElsewhere(amount)
    \/ \E o \in Orders, amount \in Amounts : AskPaysElsewhere(o, amount)

AskSpec == AskInit /\ [][AskNext]_allVars

-----------------------------------------------------------------------------
(* Properties. *)

AskRecord == [owner : Writers \cup {NoWriter}, remaining : Nat, escrow : Nat]
PotRecord == [total_collateral : Nat, total_contracts : Nat]
BackingRecord == [committed : Nat, written : Nat]

\* No balance or counter of the pool, the asks or the pot goes below zero.
AskTypeOK ==
    /\ TypeOK
    /\ ask \in [Orders -> AskRecord]
    /\ pot \in PotRecord
    /\ pot_usdc \in Nat
    /\ backing \in [Writers -> BackingRecord]
    /\ pot_drawn \in Nat /\ draws \in Nat /\ elsewhere \in Nat

TotalCommitted == Total([w \in Writers |-> backing[w].committed])
TotalEquivClaims == Total([w \in Writers |-> EquivClaim(w)])
TotalOutstanding == TotalEscrowed + TotalHeld

\* A premium checkpoint that rounds down leaves the vault's account a unit short
\* of what its books say.  Each early exercise that empties the account passes
\* as much on to the pot, after which the pool may mint against it again.
Dust == roundings * draws

\* Before the vault is resolved, pool and pot together hold a full collateral
\* for every token that is out, whichever of the two sold it and whichever of
\* the two paid the early exercises (initialize_void: E <= TC + swept); the pot
\* bears no loss of the pool but the dust.
MergedCollateralCoversTokens ==
    Unresolved =>
        TotalOutstanding * Cpc + vault.early_exercise_payout
            <= vault.total_collateral + pot.total_collateral + Dust

\* The pot's record backs the contracts it counts in full, after draws of any
\* size for tokens of any origin (withdraw_from_vault: the pot's total_collateral
\* is at least cpt x its total_contracts), and its account holds what the record
\* says but for what exercises of other series took from it.
PotBacksItsContracts ==
    Unresolved =>
        /\ pot.total_contracts * Cpc <= pot.total_collateral
        /\ pot.total_collateral <= pot_usdc + elsewhere

\* The pot holds what its backers committed, less what was drawn from it.
PotMatchesCommitments ==
    Unresolved => pot.total_collateral + pot_drawn = TotalCommitted

\* Neither the pot's record nor its account ever refuses a holder's early
\* exercise, up to the rounded premium: with the vault's they cover every token
\* in full, but for what exercises of other series took from the account.
EarlyExerciseIsFunded ==
    Unresolved =>
        TotalHeld * Cpc
            <= vault_usdc + AtMost(pot.total_collateral, pot_usdc + elsewhere)
                   + roundings + Dust

\* The vault's USDC covers what it owes writers, when early exercises drained
\* it and after the pot was merged, short of the rounded premium checkpoints.
SolventWithPot ==
    usdc_open =>
        IF Unresolved
        THEN vault.total_collateral + TotalUnclaimed
                 <= vault_usdc + vault.early_exercise_payout + roundings
        ELSE vault.collateral_remaining + TotalUnclaimed
                 <= vault_usdc + roundings + Dust

\* A settled vault can pay every holder, of pool tokens and of ask tokens alike,
\* as long as the exercise window is open, up to the dust.
AllHoldersCoveredInWindow ==
    (vault.is_settled /\ now < WindowEnd) =>
        TotalHeld * PayoutPerContract(vault.settlement_price)
            <= vault.collateral_remaining + Dust

\* Pool writers and backers together never claim more shares than exist, in
\* whatever order they leave, unless early exercises have drawn on the pot.
ClaimsFitUndrawnPot ==
    (~Unresolved /\ pot_drawn = 0) =>
        TotalShares + TotalEquivClaims <= vault.total_shares

\* The account is closed only when neither a pool writer nor a backer of an
\* undrawn pot has a claim on it any more.
ClosedOwesNobody ==
    (vault.created /\ ~usdc_open /\ pot_drawn = 0) =>
        \A w \in Writers : /\ position[w].shares = 0
                           /\ UnclaimedPremium(w) = 0
                           /\ EquivClaim(w) = 0

\* While the exercise window of a vault that sold contracts, from the pool or
\* from asks, is open, only holders are paid from the residual: the tokens
\* burned take their payout, short of the dust, and nothing else is taken.
WindowIsForHolders ==
    [][(vault.is_settled /\ now < WindowEnd
          /\ (vault.total_options_sold > 0 \/ vault.writer_ask_collateral_swept > 0))
         => LET paid == vault.collateral_remaining - vault'.collateral_remaining
                due == (TotalHeld - TotalHeld')
                           * PayoutPerContract(vault.settlement_price)
            IN  paid <= due /\ due <= paid + Dust]_allVars

-----------------------------------------------------------------------------
(* What comments of the code say and the code does not do. *)

\* Early exercise can never make the free collateral of a vault with depositors
\* uncomputable, which would refuse their withdrawals and every peg fill
\* (fill_vault_peg.rs: the checked subtractions are defensive).
FreeCollateralIsDefined ==
    (Unresolved /\ vault.total_shares > 0) =>
        /\ vault.early_exercise_payout <= vault.total_collateral
        /\ vault.exercised_options <= vault.total_options_minted

\* A backer's claim never exceeds the shares and the residual that are left
\* (withdraw_writer_ask_residual.rs: payout <= collateral_remaining and
\* equiv_shares <= total_shares, so both checked_subs hold).
BackersCanClaim ==
    ~Unresolved =>
        \A w \in Writers :
            EquivClaim(w) > 0 =>
                /\ EquivClaim(w) <= vault.total_shares
                /\ BackerPayout(w) <= vault.collateral_remaining

=============================================================================
