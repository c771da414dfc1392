-------------------------- MODULE SharedVaultProofs --------------------------
(***************************************************************************)
(* Theorems about SharedVault, for every set of accounts, every strike,    *)
(* scale, fee and schedule.                                                *)
(***************************************************************************)
EXTENDS SharedVault, ArithmeticProofs

USE DEF NumbersAssumption, InputsAssumption

LEMMA ScaleNat == Scale \in Nat \ {0}
  BY NumbersAssumption

LEMMA ConstantsFacts ==
    /\ Cpc \in Nat \ {0}
    /\ WindowEnd \in Nat /\ GraceEnd \in Nat
    /\ Expiry <= WindowEnd /\ WindowEnd <= GraceEnd
  BY NumbersAssumption DEF Cpc, CollateralPerContract, WindowEnd, GraceEnd

-----------------------------------------------------------------------------
(* Types. *)

\* The vault record field by field: how a record with several changed fields is
\* shown to be a vault record again.
VaultRebuilt(v) ==
    [created |-> v.created, creator |-> v.creator,
     total_collateral |-> v.total_collateral, total_shares |-> v.total_shares,
     total_options_minted |-> v.total_options_minted,
     total_options_sold |-> v.total_options_sold,
     premium_per_share_cumulative |-> v.premium_per_share_cumulative,
     is_settled |-> v.is_settled, voided |-> v.voided,
     settlement_price |-> v.settlement_price,
     collateral_remaining |-> v.collateral_remaining,
     exercised_options |-> v.exercised_options,
     early_exercise_payout |-> v.early_exercise_payout,
     writer_ask_collateral_swept |-> v.writer_ask_collateral_swept,
     writer_ask_equiv_shares |-> v.writer_ask_equiv_shares]

VaultFields(v) ==
    /\ v.created \in BOOLEAN /\ v.is_settled \in BOOLEAN /\ v.voided \in BOOLEAN
    /\ v.creator \in Writers \cup {NoWriter}
    /\ v.total_collateral \in Nat /\ v.total_shares \in Nat
    /\ v.total_options_minted \in Nat /\ v.total_options_sold \in Nat
    /\ v.premium_per_share_cumulative \in Nat
    /\ v.settlement_price \in Nat /\ v.collateral_remaining \in Nat
    /\ v.exercised_options \in Nat /\ v.early_exercise_payout \in Nat
    /\ v.writer_ask_collateral_swept \in Nat /\ v.writer_ask_equiv_shares \in Nat

LEMMA VaultFromFields ==
    ASSUME NEW v
    PROVE  v \in VaultRecord <=> v = VaultRebuilt(v) /\ VaultFields(v)
  BY DEF VaultRecord, VaultRebuilt, VaultFields

\* The same for a writer's position.
PositionRebuilt(p) ==
    [open |-> p.open, shares |-> p.shares,
     deposited_collateral |-> p.deposited_collateral,
     options_minted |-> p.options_minted,
     premium_claimed |-> p.premium_claimed, premium_debt |-> p.premium_debt]

PositionFields(p) ==
    /\ p.open \in BOOLEAN /\ p.shares \in Nat /\ p.deposited_collateral \in Nat
    /\ p.options_minted \in Nat /\ p.premium_claimed \in Nat
    /\ p.premium_debt \in Nat

LEMMA PositionFromFields ==
    ASSUME NEW p
    PROVE  p \in PositionRecord <=> p = PositionRebuilt(p) /\ PositionFields(p)
  BY DEF PositionRecord, PositionRebuilt, PositionFields

\* The three ways a position changes several fields at once.
LEMMA PositionCredited ==
    ASSUME NEW p \in PositionRecord, NEW q,
           NEW shares \in Nat, NEW amount \in Nat, NEW debt \in Nat,
           q = [p EXCEPT !.shares = @ + shares,
                         !.deposited_collateral = @ + amount,
                         !.premium_debt = @ + debt]
    PROVE  /\ q \in PositionRecord
           /\ q.shares = p.shares + shares
           /\ q.deposited_collateral = p.deposited_collateral + amount
           /\ q.options_minted = p.options_minted
           /\ q.open = p.open
  <1>1. /\ q.open = p.open
        /\ q.shares = p.shares + shares
        /\ q.deposited_collateral = p.deposited_collateral + amount
        /\ q.options_minted = p.options_minted
        /\ q.premium_claimed = p.premium_claimed
        /\ q.premium_debt = p.premium_debt + debt
    BY DEF PositionRecord
  <1>2. q = PositionRebuilt(q)
    BY DEF PositionRecord, PositionRebuilt
  <1>3. PositionFields(q)
    BY <1>1 DEF PositionRecord, PositionFields
  <1>4. QED
    BY <1>1, <1>2, <1>3, PositionFromFields, Zenon

LEMMA PositionReduced ==
    ASSUME NEW p \in PositionRecord, NEW q,
           NEW rest \in Nat, NEW deposit \in Nat, NEW debt \in Nat,
           q = [p EXCEPT !.shares = rest,
                         !.deposited_collateral = deposit,
                         !.premium_debt = debt,
                         !.premium_claimed = 0]
    PROVE  q \in PositionRecord
  <1>1. /\ q.open = p.open
        /\ q.shares = rest
        /\ q.deposited_collateral = deposit
        /\ q.options_minted = p.options_minted
        /\ q.premium_claimed = 0
        /\ q.premium_debt = debt
    BY DEF PositionRecord
  <1>2. q = PositionRebuilt(q)
    BY DEF PositionRecord, PositionRebuilt
  <1>3. PositionFields(q)
    BY <1>1 DEF PositionRecord, PositionFields
  <1>4. QED
    BY <1>2, <1>3, PositionFromFields, Zenon

LEMMA PositionReclaimed ==
    ASSUME NEW p \in PositionRecord, NEW q, NEW unclaimed \in Nat,
           q = [p EXCEPT !.premium_claimed = @ + unclaimed, !.shares = 0]
    PROVE  /\ q \in PositionRecord
           /\ q.shares = 0
           /\ q.options_minted = p.options_minted
  <1>1. /\ q.open = p.open
        /\ q.shares = 0
        /\ q.deposited_collateral = p.deposited_collateral
        /\ q.options_minted = p.options_minted
        /\ q.premium_claimed = p.premium_claimed + unclaimed
        /\ q.premium_debt = p.premium_debt
    BY DEF PositionRecord
  <1>2. q = PositionRebuilt(q)
    BY DEF PositionRecord, PositionRebuilt
  <1>3. PositionFields(q)
    BY <1>1 DEF PositionRecord, PositionFields
  <1>4. QED
    BY <1>1, <1>2, <1>3, PositionFromFields, Zenon

\* The vault's counters.
LEMMA VaultTypes ==
    ASSUME TypeOK
    PROVE  /\ vault.total_collateral \in Nat /\ vault.total_shares \in Nat
           /\ vault.total_options_minted \in Nat /\ vault.total_options_sold \in Nat
           /\ vault.premium_per_share_cumulative \in Nat
           /\ vault.settlement_price \in Nat /\ vault.collateral_remaining \in Nat
  BY DEF TypeOK, VaultRecord

\* A writer's premium and residual are natural numbers.
LEMMA ClaimsNat ==
    ASSUME TypeOK, NEW w \in Writers
    PROVE  /\ EarnedPremium(w) \in Nat
           /\ UnclaimedPremium(w) \in Nat
           /\ vault.total_shares # 0 => ResidualClaim(w) \in Nat
           /\ vault.total_shares # 0 => WriterShare(w) \in Nat
           /\ FinalClaim(w) \in Nat
  <1>1. /\ position[w].shares \in Nat
        /\ position[w].premium_debt \in Nat
        /\ position[w].premium_claimed \in Nat
        /\ vault.premium_per_share_cumulative \in Nat
        /\ vault.collateral_remaining \in Nat
        /\ vault.total_collateral \in Nat
        /\ vault.total_shares \in Nat
    BY DEF TypeOK, VaultRecord, PositionRecord
  <1>2. EarnedPremium(w) \in Nat
    BY <1>1, ScaleNat, MulDivNat, Zenon DEF EarnedPremium
  <1>3. UnclaimedPremium(w) \in Nat
    BY <1>1, <1>2 DEF UnclaimedPremium, SatSub
  <1>4. vault.total_shares # 0 =>
            ResidualClaim(w) \in Nat /\ WriterShare(w) \in Nat
    BY <1>1, MulDivNat DEF ResidualClaim, WriterShare
  <1>5. FinalClaim(w) \in Nat
    BY <1>4 DEF FinalClaim
  <1>6. QED
    BY <1>2, <1>3, <1>4, <1>5

LEMMA PayoutNat ==
    ASSUME NEW price \in Nat
    PROVE  PayoutPerContract(price) \in Nat /\ PayoutPerContract(price) <= Cpc
  BY NumbersAssumption, ConstantsFacts, PayoutAtMostCap DEF PayoutPerContract

\* The writers' share of a premium, after the fee.
LEMMA NetPremiumNat ==
    ASSUME NEW premium \in Nat
    PROVE  premium - ProtocolFee(premium, FeeBps) \in Nat
  <1>1. FeeBps \in Nat /\ FeeBps <= 10000 /\ 10000 \in Nat \ {0}
    BY NumbersAssumption
  <1>2. /\ MulDiv(premium, FeeBps, 10000) \in Nat
        /\ MulDiv(premium, FeeBps, 10000) <= premium
    BY <1>1, MulDivNat, MulDivAtMost
  <1>3. QED
    BY <1>2 DEF ProtocolFee

LEMMA TypeOKInit == Init => TypeOK
  <1> SUFFICES ASSUME Init PROVE TypeOK
    OBVIOUS
  <1>1. vault \in VaultRecord
    BY DEF Init, EmptyVault, VaultRecord
  <1>2. position \in [Writers -> PositionRecord] /\ mint \in [Mints -> MintRecord]
    BY DEF Init, EmptyPosition, PositionRecord, UnusedMint, MintRecord
  <1>3. holding \in [Holders -> Nat] /\ now \in Nat /\ vault_usdc \in Nat
        /\ settlement_record \in Nat /\ roundings \in Nat
    BY DEF Init, NoPrice
  <1>4. usdc_open \in BOOLEAN
    BY DEF Init
  <1>5. QED
    BY <1>1, <1>2, <1>3, <1>4, Zenon DEF TypeOK

\* A deposit of amount credited with shares.
LEMMA CreditTypes ==
    ASSUME TypeOK, NEW w \in Writers, NEW amount \in Nat, NEW shares \in Nat,
           Credit(w, amount, shares)
    PROVE  /\ position' \in [Writers -> PositionRecord]
           /\ vault_usdc' \in Nat
           /\ roundings' \in Nat
  <1> DEFINE debt == MulDiv(shares, vault.premium_per_share_cumulative, Scale)
             base == PositionToCredit(w)
             credited == [base EXCEPT !.shares = @ + shares,
                                      !.deposited_collateral = @ + amount,
                                      !.premium_debt = @ + debt]
  <1>1. base \in PositionRecord
    BY DEF TypeOK, PositionToCredit, PositionRecord, EmptyPosition
  <1>2. debt \in Nat
    BY ScaleNat, VaultTypes, MulDivNat, Zenon
  <1>3. position' = [position EXCEPT ![w] = credited]
    BY DEF Credit
  <1> HIDE DEF debt, base
  <1>4. credited \in PositionRecord
    BY <1>1, <1>2, PositionCredited
  <1> HIDE DEF credited
  <1>6. position' \in [Writers -> PositionRecord]
    BY <1>3, <1>4 DEF TypeOK
  <1>7. DroppedFraction(shares) \in Nat
    BY DEF DroppedFraction
  <1>8. QED
    BY <1>6, <1>7 DEF TypeOK, Credit

\* The payment side of a writer's exit.
LEMMA ExitTypes ==
    ASSUME TypeOK, NEW w \in Writers, NEW residual \in Nat,
           WriterExit(w, residual)
    PROVE  /\ vault' \in VaultRecord
           /\ vault_usdc - UnclaimedPremium(w) - residual \in Nat
  <1>1. vault' = VaultRebuilt(vault')
    BY DEF TypeOK, WriterExit, VaultRecord, VaultRebuilt
  <1>2. VaultFields(vault')
    BY DEF TypeOK, WriterExit, VaultRecord, VaultFields, PositionRecord
  <1>3. vault_usdc - UnclaimedPremium(w) - residual \in Nat
    BY ClaimsNat DEF TypeOK, WriterExit
  <1>4. QED
    BY <1>1, <1>2, <1>3, VaultFromFields, Zenon

\* Closing a writer's position with a payment, and perhaps the account with it.
LEMMA CloseTypes ==
    ASSUME TypeOK, NEW w \in Writers, NEW residual \in Nat,
           WriterExit(w, residual),
           SweepIfDrained(vault_usdc - UnclaimedPremium(w) - residual),
           position' = [position EXCEPT ![w] = EmptyPosition],
           UNCHANGED <<now, mint, holding, settlement_record, roundings>>
    PROVE  TypeOK'
  <1>1. vault' \in VaultRecord
    BY ExitTypes
  <1>2. vault_usdc' \in Nat
    BY ExitTypes DEF SweepIfDrained
  <1>3. usdc_open' \in BOOLEAN
    BY DEF SweepIfDrained
  <1>4. EmptyPosition \in PositionRecord
    BY DEF EmptyPosition, PositionRecord
  <1>5. position' \in [Writers -> PositionRecord]
    BY <1>4 DEF TypeOK
  <1>6. QED
    BY <1>1, <1>2, <1>3, <1>5 DEF TypeOK

\* Payment of a holder, by its own exercise or by the crank.
LEMMA PayHolderTypes ==
    ASSUME TypeOK, NEW h \in Holders, NEW quantity \in Nat,
           PayHolder(h, quantity)
    PROVE  TypeOK'
  <1> DEFINE owed == quantity * PayoutPerContract(vault.settlement_price)
             payout == AtMost(owed, vault.collateral_remaining)
  <1>1. owed \in Nat
    BY VaultTypes, PayoutNat
  <1>2. payout \in Nat /\ payout <= vault.collateral_remaining
    <2> HIDE DEF owed
    <2>1. vault.collateral_remaining \in Nat
      BY VaultTypes
    <2>2. QED
      BY <1>1, <2>1, AtMostNat, Zenon
  <1>3. /\ payout <= vault_usdc
        /\ quantity <= holding[h]
        /\ holding' = [holding EXCEPT ![h] = @ - quantity]
        /\ vault_usdc' = vault_usdc - payout
        /\ vault' = [vault EXCEPT !.collateral_remaining = @ - payout]
        /\ UNCHANGED <<now, usdc_open, position, mint, settlement_record, roundings>>
    BY DEF PayHolder
  <1> HIDE DEF payout, owed
  <1>4. vault' \in VaultRecord
    BY <1>2, <1>3 DEF TypeOK, VaultRecord
  <1>5. QED
    BY <1>2, <1>3, <1>4 DEF TypeOK

LEMMA CreationTypes ==
    ASSUME TypeOK, NEW w \in Writers,
           CreateSharedVault(w) \/ \E amount \in Amounts : CreateAndDeposit(w, amount)
    PROVE  TypeOK'
  <1>1. CASE CreateSharedVault(w)
    <2>1. vault' = VaultRebuilt(vault') /\ VaultFields(vault')
      BY <1>1 DEF CreateSharedVault, TypeOK, VaultRecord, VaultRebuilt, VaultFields
    <2>2. vault' \in VaultRecord
      BY <2>1, VaultFromFields, Zenon
    <2>3. usdc_open' \in BOOLEAN
      BY <1>1 DEF CreateSharedVault
    <2>4. QED
      BY <1>1, <2>2, <2>3 DEF CreateSharedVault, TypeOK
  <1>2. ASSUME NEW amount \in Amounts, CreateAndDeposit(w, amount)
        PROVE  TypeOK'
    <2>1. amount \in Nat
      BY InputsAssumption
    <2>2. vault' = VaultRebuilt(vault') /\ VaultFields(vault')
      BY <1>2, <2>1 DEF CreateAndDeposit, TypeOK, VaultRecord, VaultRebuilt, VaultFields
    <2>3. vault' \in VaultRecord
      BY <2>2, VaultFromFields, Zenon
    <2>4. usdc_open' \in BOOLEAN
      BY <1>2 DEF CreateAndDeposit
    <2>5. QED
      BY <1>2, <2>1, <2>3, <2>4, CreditTypes DEF CreateAndDeposit, TypeOK
  <1>3. QED
    BY <1>1, <1>2

LEMMA DepositTypes ==
    ASSUME TypeOK, NEW w \in Writers, NEW amount \in Amounts,
           DepositToVault(w, amount)
    PROVE  TypeOK'
  <1>1. amount \in Nat
    BY InputsAssumption
  <1>2. SharesFor(amount) \in Nat
    BY <1>1, VaultTypes, MulDivNat DEF DepositToVault, SharesFor
  <1>3. vault' = VaultRebuilt(vault')
    BY DEF DepositToVault, TypeOK, VaultRecord, VaultRebuilt
  <1> HIDE DEF SharesFor
  <1>4. vault' \in VaultRecord
    <2>1. VaultFields(vault')
      BY <1>1, <1>2 DEF DepositToVault, TypeOK, VaultRecord, VaultFields
    <2>2. QED
      BY <1>3, <2>1, VaultFromFields, Zenon
  <1>5. QED
    BY <1>1, <1>2, <1>4, CreditTypes DEF DepositToVault, TypeOK

LEMMA MintTypes ==
    ASSUME TypeOK, NEW w \in Writers, NEW m \in Mints, NEW quantity \in Quantities,
           NEW premium \in Premiums, MintFromVault(w, m, quantity, premium)
    PROVE  TypeOK'
  <1>1. quantity \in Nat /\ premium \in Nat
    BY InputsAssumption
  <1>2. vault' \in VaultRecord
    BY <1>1 DEF MintFromVault, TypeOK, VaultRecord
  <1>3. position' \in [Writers -> PositionRecord]
    BY <1>1 DEF MintFromVault, TypeOK, PositionRecord
  <1>4. mint' \in [Mints -> MintRecord]
    BY <1>1 DEF MintFromVault, TypeOK, MintRecord
  <1>5. QED
    BY <1>2, <1>3, <1>4 DEF MintFromVault, TypeOK

LEMMA PurchaseTypes ==
    ASSUME TypeOK, NEW h \in Holders, NEW m \in Mints, NEW quantity \in Quantities,
           PurchaseFromVault(h, m, quantity)
    PROVE  TypeOK'
  <1> DEFINE premium == quantity * mint[m].premium_per_contract
             share == premium - ProtocolFee(premium, FeeBps)
             after == AccumulatorAfter(share)
  <1>1. quantity \in Nat /\ premium \in Nat
    BY InputsAssumption DEF TypeOK, MintRecord
  <1>2. share \in Nat
    <2>1. premium \in Nat
      BY <1>1
    <2> HIDE DEF premium
    <2>2. QED
      BY <2>1, NetPremiumNat, Zenon
  <1>3. after \in Nat
    <2> HIDE DEF share
    <2>1. Scale \in Nat
      BY ScaleNat
    <2>2. ASSUME vault.total_shares > 0
          PROVE  MulDiv(share, Scale, vault.total_shares) \in Nat
      <3>1. vault.total_shares \in Nat \ {0}
        BY <2>2, VaultTypes
      <3>2. QED
        BY <1>2, <2>1, <3>1, MulDivNat, Zenon
    <2>3. QED
      BY <2>2, VaultTypes DEF AccumulatorAfter
  <1>4. /\ vault_usdc' = vault_usdc + share
        /\ vault' = [vault EXCEPT !.total_options_sold = @ + quantity,
                                  !.premium_per_share_cumulative = after]
        /\ mint' = [mint EXCEPT ![m].escrow = @ - quantity]
        /\ holding' = [holding EXCEPT ![h] = @ + quantity]
        /\ quantity <= mint[m].escrow
        /\ UNCHANGED <<now, usdc_open, position, settlement_record, roundings>>
    BY DEF PurchaseFromVault
  <1> HIDE DEF after, share, premium
  <1>5. vault' = VaultRebuilt(vault')
    BY <1>4 DEF TypeOK, VaultRecord, VaultRebuilt
  <1>6. vault' \in VaultRecord
    <2>1. VaultFields(vault')
      BY <1>1, <1>3, <1>4 DEF TypeOK, VaultRecord, VaultFields
    <2>2. QED
      BY <1>5, <2>1, VaultFromFields, Zenon
  <1>7. mint' \in [Mints -> MintRecord]
    BY <1>1, <1>4 DEF TypeOK, MintRecord
  <1>8. holding' \in [Holders -> Nat]
    BY <1>1, <1>4 DEF TypeOK
  <1>9. QED
    BY <1>2, <1>4, <1>6, <1>7, <1>8 DEF TypeOK

LEMMA BurnTypes ==
    ASSUME TypeOK, NEW w \in Writers, NEW m \in Mints, BurnUnsoldFromVault(w, m)
    PROVE  TypeOK'
  <1>1. vault' \in VaultRecord
    BY DEF BurnUnsoldFromVault, TypeOK, VaultRecord, MintRecord
  <1>2. position' \in [Writers -> PositionRecord]
    BY DEF BurnUnsoldFromVault, TypeOK, PositionRecord, MintRecord
  <1>3. mint' \in [Mints -> MintRecord]
    BY DEF BurnUnsoldFromVault, TypeOK, MintRecord
  <1>4. QED
    BY <1>1, <1>2, <1>3 DEF BurnUnsoldFromVault, TypeOK

LEMMA WithdrawTypes ==
    ASSUME TypeOK, NEW w \in Writers, NEW shares \in Quantities,
           WithdrawFromVault(w, shares)
    PROVE  TypeOK'
  <1> DEFINE amount == MulDiv(shares, vault.total_collateral, vault.total_shares)
             rest == position[w].shares - shares
             debt == MulDiv(rest, vault.premium_per_share_cumulative, Scale)
  <1>1. shares \in Nat /\ rest \in Nat
    BY InputsAssumption DEF WithdrawFromVault, TypeOK, PositionRecord
  <1>2. amount \in Nat
    BY <1>1, VaultTypes, MulDivNat DEF WithdrawFromVault
  <1>3. debt \in Nat
    <2> HIDE DEF rest
    <2>1. QED
      BY <1>1, ScaleNat, VaultTypes, MulDivNat, Zenon
  <1> DEFINE old == position[w]
             deposit == SatSub(old.deposited_collateral, amount)
             reduced == [old EXCEPT
                            !.shares = rest,
                            !.deposited_collateral = deposit,
                            !.premium_debt = debt,
                            !.premium_claimed = 0]
  <1>4. /\ position' = [position EXCEPT ![w] = reduced]
        /\ vault' = [vault EXCEPT !.total_collateral = @ - amount,
                                  !.total_shares = @ - shares]
        /\ vault_usdc' = vault_usdc - amount
        /\ roundings' = roundings + DroppedFraction(rest)
        /\ amount <= vault_usdc
        /\ amount <= vault.total_collateral
        /\ shares <= vault.total_shares
        /\ UNCHANGED <<now, usdc_open, mint, holding, settlement_record>>
    BY DEF WithdrawFromVault
  <1>5. DroppedFraction(rest) \in Nat
    BY DEF DroppedFraction
  <1> HIDE DEF debt, rest, amount
  <1>6. position' \in [Writers -> PositionRecord]
    <2>1. old \in PositionRecord
      BY DEF TypeOK
    <2>2. deposit \in Nat
      BY <1>2, <2>1 DEF PositionRecord, SatSub
    <2> HIDE DEF old, deposit
    <2>3. reduced \in PositionRecord
      BY <1>1, <1>3, <2>1, <2>2, PositionReduced
    <2> HIDE DEF reduced
    <2>4. QED
      BY <1>4, <2>3 DEF TypeOK
  <1>7. vault' \in VaultRecord
    <2>1. vault' = VaultRebuilt(vault')
      BY <1>4 DEF TypeOK, VaultRecord, VaultRebuilt
    <2>2. VaultFields(vault')
      BY <1>1, <1>2, <1>4 DEF TypeOK, VaultRecord, VaultFields
    <2>3. QED
      BY <2>1, <2>2, VaultFromFields, Zenon
  <1>8. QED
    BY <1>2, <1>4, <1>5, <1>6, <1>7 DEF TypeOK

LEMMA ReclaimTypes ==
    ASSUME TypeOK, NEW w \in Writers, ReclaimUnsettled(w)
    PROVE  TypeOK'
  <1> DEFINE unclaimed == UnclaimedPremium(w)
  <1>1. ResidualClaim(w) \in Nat
    BY ClaimsNat, VaultTypes DEF ReclaimUnsettled
  <1>2. vault' \in VaultRecord /\ vault_usdc' \in Nat
    BY <1>1, ExitTypes DEF ReclaimUnsettled
  <1>3. unclaimed \in Nat
    BY ClaimsNat
  <1> DEFINE reclaimed == [position[w] EXCEPT !.premium_claimed = @ + unclaimed,
                                              !.shares = 0]
  <1>4. position' = [position EXCEPT ![w] = reclaimed]
    BY DEF ReclaimUnsettled
  <1> HIDE DEF unclaimed
  <1>5. position[w] \in PositionRecord
    BY DEF TypeOK
  <1>6. reclaimed \in PositionRecord
    BY <1>3, <1>5, PositionReclaimed
  <1> HIDE DEF reclaimed
  <1>7. position' \in [Writers -> PositionRecord]
    BY <1>4, <1>6 DEF TypeOK
  <1>8. QED
    BY <1>2, <1>7 DEF ReclaimUnsettled, TypeOK

\* Shares issued for swept collateral are a natural number.
LEMMA EquivSharesNat ==
    ASSUME TypeOK, NEW swept \in Nat
    PROVE  EquivShares(swept) \in Nat
  <1>1. CASE swept = 0 \/ vault.total_collateral = 0
    BY <1>1 DEF EquivShares
  <1>2. CASE ~(swept = 0 \/ vault.total_collateral = 0)
    <2>1. vault.total_shares \in Nat /\ vault.total_collateral \in Nat \ {0}
      BY <1>2, VaultTypes
    <2>2. MulDiv(swept, vault.total_shares, vault.total_collateral) \in Nat
      BY <2>1, MulDivNat, Zenon
    <2>3. QED
      BY <1>2, <2>2 DEF EquivShares
  <1>3. QED
    BY <1>1, <1>2

\* Settlement or void, with any amount swept from a pot.
LEMMA ResolveTypes ==
    ASSUME TypeOK, NEW swept \in Nat,
           SettleVaultSweeping(swept) \/ InitializeVoidSweeping(swept)
    PROVE  TypeOK'
  <1>1. EquivShares(swept) \in Nat
    BY EquivSharesNat
  <1>2. vault.total_collateral \in Nat /\ vault.early_exercise_payout \in Nat
    BY DEF TypeOK, VaultRecord
  <1>3. SatSub(vault.total_collateral + swept, vault.early_exercise_payout) \in Nat
    BY <1>2 DEF SatSub
  <1>4. vault' = VaultRebuilt(vault')
    BY DEF SettleVaultSweeping, InitializeVoidSweeping, TypeOK, VaultRecord, VaultRebuilt
  <1>5. CASE SettleVaultSweeping(swept)
    <2>1. VaultFields(vault')
      BY <1>1, <1>3, <1>5 DEF SettleVaultSweeping, TypeOK, VaultRecord, VaultFields
    <2>2. vault' \in VaultRecord
      BY <1>4, <2>1, VaultFromFields, Zenon
    <2>3. QED
      BY <1>5, <2>2 DEF SettleVaultSweeping, TypeOK
  <1>6. CASE InitializeVoidSweeping(swept)
    <2>1. VaultFields(vault')
      BY <1>1, <1>2, <1>6 DEF InitializeVoidSweeping, TypeOK, VaultRecord, VaultFields
    <2>2. vault' \in VaultRecord
      BY <1>4, <2>1, VaultFromFields, Zenon
    <2>3. QED
      BY <1>6, <2>2 DEF InitializeVoidSweeping, TypeOK
  <1>7. QED
    BY <1>5, <1>6

LEMMA TypeOKPool == TypeOK /\ PoolNext => TypeOK'
  <1> SUFFICES ASSUME TypeOK, PoolNext PROVE TypeOK'
    OBVIOUS
  <1>1. CASE Tick
    BY <1>1 DEF Tick, TypeOK
  <1>2. ASSUME NEW w \in Writers, WriterNext(w) PROVE TypeOK'
    <2>1. ASSUME ClaimPremium(w) PROVE TypeOK'
      BY <2>1, ClaimsNat DEF ClaimPremium, TypeOK, PositionRecord
    <2>2. ASSUME WithdrawPostSettlement(w) PROVE TypeOK'
      <3>1. ResidualClaim(w) \in Nat
        BY <2>2, ClaimsNat, VaultTypes DEF WithdrawPostSettlement
      <3>2. QED
        BY <2>2, <3>1, CloseTypes DEF WithdrawPostSettlement
    <2>3. ASSUME AutoFinalizeWriters(w) PROVE TypeOK'
      <3>1. FinalClaim(w) \in Nat
        BY ClaimsNat
      <3>2. QED
        BY <2>3, <3>1, CloseTypes DEF AutoFinalizeWriters
    <2>4. QED
      BY <1>2, <2>1, <2>2, <2>3, CreationTypes, DepositTypes, MintTypes, BurnTypes,
         WithdrawTypes, ReclaimTypes DEF WriterNext
  <1>3. ASSUME NEW h \in Holders, HolderNext(h) PROVE TypeOK'
    <2>1. ASSUME NEW quantity \in Quantities, ExerciseFromVault(h, quantity)
          PROVE  TypeOK'
      BY <2>1, InputsAssumption, PayHolderTypes DEF ExerciseFromVault
    <2>2. ASSUME AutoFinalizeHolders(h) PROVE TypeOK'
      BY <2>2, PayHolderTypes DEF AutoFinalizeHolders, TypeOK
    <2>3. QED
      BY <1>3, <2>1, <2>2, PurchaseTypes DEF HolderNext
  <1>4. ASSUME NEW price \in Prices, SettleExpiry(price) PROVE TypeOK'
    BY <1>4, InputsAssumption DEF SettleExpiry, TypeOK
  <1>5. CASE AutoFinalizeNoWriters \/ CloseSettledWriterAskVault
    <2>1. usdc_open' \in BOOLEAN
      BY <1>5 DEF AutoFinalizeNoWriters, CloseSettledWriterAskVault
    <2>2. QED
      BY <1>5, <2>1 DEF AutoFinalizeNoWriters, CloseSettledWriterAskVault, TypeOK
  <1>6. QED
    BY <1>1, <1>2, <1>3, <1>4, <1>5 DEF PoolNext

LEMMA TypeOKStep == TypeOK /\ [Next]_vars => TypeOK'
  <1> SUFFICES ASSUME TypeOK, [Next]_vars PROVE TypeOK'
    OBVIOUS
  <1>1. CASE SettleVault \/ InitializeVoid
    BY <1>1, ResolveTypes DEF SettleVault, InitializeVoid
  <1>2. CASE UNCHANGED vars
    BY <1>2 DEF vars, TypeOK
  <1>3. QED
    BY <1>1, <1>2, TypeOKPool DEF Next

\* Every balance and counter stays a natural number under every instruction.
THEOREM TypeCorrect == Spec => []TypeOK
  <1>1. QED
    BY TypeOKInit, TypeOKStep, PTL DEF Spec

-----------------------------------------------------------------------------
(* Each writer's own account: what the positions and the vault say of each    *)
(* other without summing over the writers.                                    *)

\* Deposits end before a vault can be resolved, a vault is resolved one way,
\* and its account closes only then; until then a share is one unit of USDC
\* and every writer backs its own mints.
AccountsInv ==
    /\ ~vault.created => /\ vault = EmptyVault
                         /\ \A w \in Writers : ~position[w].open
    /\ ResolvedOneWay
    /\ vault.is_settled => settlement_record # NoPrice /\ now >= Expiry
    /\ vault.voided => now >= GraceEnd
    /\ (vault.created /\ ~usdc_open) => ~Unresolved /\ vault.total_shares = 0
    /\ SharesMatchCollateral
    /\ WritersBackTheirMints

LEMMA AccountsInvInit == Init => AccountsInv
  <1> SUFFICES ASSUME Init PROVE AccountsInv
    OBVIOUS
  <1>1. vault = EmptyVault /\ EmptyVault.created = FALSE
    BY DEF Init, EmptyVault
  <1>2. \A w \in Writers : /\ ~position[w].open
                           /\ position[w].shares = 0
                           /\ position[w].deposited_collateral = 0
                           /\ position[w].options_minted = 0
    BY DEF Init, EmptyPosition
  <1>3. ResolvedOneWay /\ ~vault.is_settled /\ ~vault.voided
    BY <1>1 DEF EmptyVault, ResolvedOneWay
  <1>4. SharesMatchCollateral
    BY <1>1, <1>2 DEF EmptyVault, SharesMatchCollateral
  <1>5. WritersBackTheirMints
    BY <1>2, ConstantsFacts DEF WritersBackTheirMints
  <1>6. QED
    BY <1>1, <1>2, <1>3, <1>4, <1>5 DEF AccountsInv

\* A live vault is unresolved.
LEMMA LiveUnresolved ==
    ASSUME TypeOK, AccountsInv, Live
    PROVE  Unresolved
  BY ConstantsFacts, NumbersAssumption DEF TypeOK, AccountsInv, Live, Unresolved

\* Steps that change no writer's shares and mints, nor the vault's.
LEMMA AccountsInvFrame ==
    ASSUME TypeOK, AccountsInv, now <= now', now' \in Nat,
           (vault' = vault) \/ vault.created,
           vault'.created = vault.created,
           vault'.is_settled = vault.is_settled, vault'.voided = vault.voided,
           vault'.settlement_price = vault.settlement_price,
           vault'.total_collateral = vault.total_collateral,
           vault'.total_shares = vault.total_shares,
           (usdc_open' = usdc_open) \/ (~Unresolved /\ vault.total_shares = 0),
           settlement_record' = settlement_record \/ settlement_record = NoPrice,
           \A w \in Writers :
              /\ position'[w].open = position[w].open
              /\ position'[w].shares = position[w].shares
              /\ position'[w].deposited_collateral = position[w].deposited_collateral
              /\ position'[w].options_minted = position[w].options_minted
    PROVE  AccountsInv'
  <1>1. ResolvedOneWay'
    BY DEF AccountsInv, ResolvedOneWay
  <1>2. SharesMatchCollateral'
    BY DEF AccountsInv, SharesMatchCollateral, Unresolved
  <1>3. WritersBackTheirMints'
    BY DEF AccountsInv, WritersBackTheirMints, Unresolved
  <1>4. (vault.voided => now >= GraceEnd)'
    BY ConstantsFacts DEF AccountsInv, TypeOK
  <1>5. ((vault.created /\ ~usdc_open) => ~Unresolved /\ vault.total_shares = 0)'
    BY DEF AccountsInv, Unresolved
  <1>6. (vault.is_settled => settlement_record # NoPrice /\ now >= Expiry)'
    BY NumbersAssumption DEF AccountsInv, TypeOK
  <1>7. (~vault.created => /\ vault = EmptyVault
                           /\ \A w \in Writers : ~position[w].open)'
    BY DEF AccountsInv
  <1>8. QED
    BY <1>1, <1>2, <1>3, <1>4, <1>5, <1>6, <1>7 DEF AccountsInv

\* Steps of a resolved vault that resolve nothing again.
LEMMA AccountsInvResolved ==
    ASSUME TypeOK, AccountsInv, ~Unresolved,
           now' = now, settlement_record' = settlement_record,
           vault'.created = vault.created,
           vault'.is_settled = vault.is_settled, vault'.voided = vault.voided,
           vault'.settlement_price = vault.settlement_price,
           vault.created,
           usdc_open' => usdc_open,
           ~usdc_open' => vault'.total_shares = 0
    PROVE  AccountsInv'
  <1>1. ~Unresolved'
    BY DEF Unresolved
  <1>2. ResolvedOneWay'
    BY DEF AccountsInv, ResolvedOneWay
  <1>3. SharesMatchCollateral' /\ WritersBackTheirMints'
    BY <1>1 DEF SharesMatchCollateral, WritersBackTheirMints
  <1>4. QED
    BY <1>1, <1>2, <1>3 DEF AccountsInv

\* A resolved vault has been created.
LEMMA ResolvedCreated ==
    ASSUME AccountsInv, ~Unresolved
    PROVE  vault.created
  BY DEF AccountsInv, Unresolved, EmptyVault

\* While one share is one unit, a writer's share of the collateral is its
\* number of shares, and so is a deposit or a withdrawal.
LEMMA ShareIsUnit ==
    ASSUME TypeOK, AccountsInv, Unresolved, NEW n \in Nat
    PROVE  /\ vault.total_shares > 0 =>
                  MulDiv(n, vault.total_collateral, vault.total_shares) = n
           /\ SharesFor(n) = n
  <1>1. vault.total_shares = vault.total_collateral
    BY DEF AccountsInv, SharesMatchCollateral
  <1>2. vault.total_shares \in Nat
    BY VaultTypes
  <1>3. ASSUME vault.total_shares > 0
        PROVE  MulDiv(n, vault.total_shares, vault.total_shares) = n
    <2>1. vault.total_shares \in Nat \ {0}
      BY <1>2, <1>3
    <2>2. QED
      BY <2>1, MulDivOneToOne, Zenon
  <1>4. QED
    BY <1>1, <1>2, <1>3 DEF SharesFor

\* What a deposit does to a position.
LEMMA CreditEffect ==
    ASSUME TypeOK, AccountsInv, Unresolved,
           NEW w \in Writers, NEW amount \in Nat, Credit(w, amount, amount)
    PROVE  /\ position'[w].shares = position[w].shares + amount
           /\ position'[w].deposited_collateral
                  = position[w].deposited_collateral + amount
           /\ position'[w].options_minted = position[w].options_minted
           /\ \A x \in Writers \ {w} : position'[x] = position[x]
  <1> DEFINE debt == MulDiv(amount, vault.premium_per_share_cumulative, Scale)
             base == PositionToCredit(w)
             credited == [base EXCEPT !.shares = @ + amount,
                                      !.deposited_collateral = @ + amount,
                                      !.premium_debt = @ + debt]
  <1>1. base \in PositionRecord
    BY DEF TypeOK, PositionToCredit, PositionRecord, EmptyPosition
  <1>2. debt \in Nat
    BY ScaleNat, VaultTypes, MulDivNat, Zenon
  <1>3. position' = [position EXCEPT ![w] = credited]
    BY DEF Credit
  <1>4. /\ base.shares = position[w].shares
        /\ base.deposited_collateral = position[w].deposited_collateral
        /\ base.options_minted = position[w].options_minted
    <2>1. CASE position[w].shares = 0 /\ position[w].deposited_collateral = 0
      <3>1. position[w].options_minted \in Nat
        BY DEF TypeOK, PositionRecord
      <3>2. position[w].options_minted * Cpc <= 0
        BY <2>1 DEF AccountsInv, WritersBackTheirMints
      <3>3. position[w].options_minted = 0
        BY <3>1, <3>2, ConstantsFacts
      <3>4. QED
        BY <2>1, <3>3 DEF PositionToCredit, EmptyPosition
    <2>2. CASE ~(position[w].shares = 0 /\ position[w].deposited_collateral = 0)
      BY <2>2 DEF PositionToCredit
    <2>3. QED
      BY <2>1, <2>2
  <1> HIDE DEF debt, base
  <1>5. /\ credited.shares = base.shares + amount
        /\ credited.deposited_collateral = base.deposited_collateral + amount
        /\ credited.options_minted = base.options_minted
    BY <1>1, <1>2, PositionCredited
  <1> HIDE DEF credited
  <1>6. position'[w] = credited /\ \A x \in Writers \ {w} : position'[x] = position[x]
    BY <1>3 DEF TypeOK
  <1>7. QED
    BY <1>4, <1>5, <1>6

\* What a withdrawal does to a position and to the vault.
LEMMA WithdrawEffect ==
    ASSUME TypeOK, AccountsInv, NEW w \in Writers, NEW shares \in Quantities,
           WithdrawFromVault(w, shares)
    PROVE  /\ Unresolved
           /\ shares \in Nat
           /\ position'[w].shares = position[w].shares - shares
           /\ position'[w].deposited_collateral
                  = position[w].deposited_collateral - shares
           /\ position'[w].options_minted = position[w].options_minted
           /\ position'[w].open = position[w].open
           /\ \A x \in Writers \ {w} : position'[x] = position[x]
           /\ vault' = [vault EXCEPT !.total_collateral = @ - shares,
                                     !.total_shares = @ - shares]
           /\ shares + position[w].options_minted * Cpc <= position[w].shares
           /\ shares <= vault.total_shares
  <1> DEFINE rest == position[w].shares - shares
             debt == MulDiv(rest, vault.premium_per_share_cumulative, Scale)
             reduced == [position[w] EXCEPT
                            !.shares = rest,
                            !.deposited_collateral = SatSub(@, shares),
                            !.premium_debt = debt,
                            !.premium_claimed = 0]
  <1>1. Unresolved
    BY DEF WithdrawFromVault, Unresolved
  <1>2. shares \in Nat /\ rest \in Nat
    BY InputsAssumption DEF WithdrawFromVault, TypeOK, PositionRecord
  <1>3. debt \in Nat
    <2> HIDE DEF rest
    <2>1. QED
      BY <1>2, ScaleNat, VaultTypes, MulDivNat, Zenon
  <1>4. MulDiv(shares, vault.total_collateral, vault.total_shares) = shares
    BY <1>1, <1>2, ShareIsUnit DEF WithdrawFromVault
  <1>5. WriterShare(w) = position[w].shares
    BY <1>1, ShareIsUnit DEF WithdrawFromVault, WriterShare, TypeOK, PositionRecord
  <1>6. /\ position' = [position EXCEPT ![w] = reduced]
        /\ vault' = [vault EXCEPT !.total_collateral = @ - shares,
                                  !.total_shares = @ - shares]
        /\ shares + position[w].options_minted * Cpc <= position[w].shares
        /\ shares <= vault.total_shares
        /\ shares <= position[w].shares
    BY <1>4, <1>5 DEF WithdrawFromVault
  <1> HIDE DEF debt, rest
  <1>7. position[w] \in PositionRecord
    BY DEF TypeOK
  <1>8. /\ reduced.shares = rest
        /\ reduced.deposited_collateral
               = SatSub(position[w].deposited_collateral, shares)
        /\ reduced.options_minted = position[w].options_minted
        /\ reduced.open = position[w].open
    BY <1>7 DEF PositionRecord
  <1> HIDE DEF reduced
  <1>9. position'[w] = reduced /\ \A x \in Writers \ {w} : position'[x] = position[x]
    BY <1>6 DEF TypeOK
  <1>10. SatSub(position[w].deposited_collateral, shares)
             = position[w].deposited_collateral - shares
    BY <1>1, <1>6 DEF AccountsInv, SharesMatchCollateral, SatSub
  <1>11. QED
    BY <1>1, <1>2, <1>6, <1>8, <1>9, <1>10 DEF rest

LEMMA AccountsInvCreation ==
    ASSUME TypeOK, AccountsInv, NEW w \in Writers,
           CreateSharedVault(w) \/ \E amount \in Amounts : CreateAndDeposit(w, amount)
    PROVE  AccountsInv'
  <1>1. ~vault.created /\ vault = EmptyVault
    BY DEF AccountsInv, CreateSharedVault, CreateAndDeposit
  <1>2. Unresolved /\ vault.total_shares = 0 /\ vault.total_collateral = 0
    BY <1>1 DEF EmptyVault, Unresolved
  <1>3. now' = now /\ usdc_open' /\ vault'.created
    BY <1>1 DEF CreateSharedVault, CreateAndDeposit, EmptyVault
  <1>4. ~vault'.is_settled /\ ~vault'.voided
    BY <1>1 DEF CreateSharedVault, CreateAndDeposit, EmptyVault
  <1>5. SharesMatchCollateral' /\ WritersBackTheirMints'
    <2>1. CASE CreateSharedVault(w)
      <3>1. /\ position' = position
            /\ vault'.total_shares = 0 /\ vault'.total_collateral = 0
        BY <1>1, <2>1 DEF CreateSharedVault, EmptyVault
      <3>2. QED
        BY <1>2, <3>1
           DEF AccountsInv, SharesMatchCollateral, WritersBackTheirMints, Unresolved
    <2>2. ASSUME NEW amount \in Amounts, CreateAndDeposit(w, amount)
          PROVE  SharesMatchCollateral' /\ WritersBackTheirMints'
      <3>1. amount \in Nat
        BY InputsAssumption
      <3>2. Credit(w, amount, amount)
        BY <2>2 DEF CreateAndDeposit
      <3>3. /\ vault'.total_shares = amount /\ vault'.total_collateral = amount
        BY <1>1, <2>2 DEF CreateAndDeposit, EmptyVault
      <3>4. /\ position'[w].shares = position[w].shares + amount
            /\ position'[w].deposited_collateral
                   = position[w].deposited_collateral + amount
            /\ position'[w].options_minted = position[w].options_minted
            /\ \A x \in Writers \ {w} : position'[x] = position[x]
        BY <1>2, <3>1, <3>2, CreditEffect
      <3>5. /\ position[w].shares \in Nat
            /\ position[w].options_minted * Cpc \in Nat
        BY ConstantsFacts DEF TypeOK, PositionRecord
      <3>6. SharesMatchCollateral'
        BY <1>2, <3>3, <3>4 DEF AccountsInv, SharesMatchCollateral, Unresolved
      <3>7. WritersBackTheirMints'
        BY <1>2, <3>1, <3>4, <3>5 DEF AccountsInv, WritersBackTheirMints, Unresolved
      <3>8. QED
        BY <3>6, <3>7
    <2>3. QED
      BY <2>1, <2>2
  <1>6. ResolvedOneWay'
    BY <1>4 DEF ResolvedOneWay
  <1>7. QED
    BY <1>3, <1>4, <1>5, <1>6 DEF AccountsInv

LEMMA AccountsInvDeposit ==
    ASSUME TypeOK, AccountsInv, NEW w \in Writers, NEW amount \in Amounts,
           DepositToVault(w, amount)
    PROVE  AccountsInv'
  <1>1. Unresolved /\ vault.created
    BY LiveUnresolved DEF DepositToVault
  <1>2. amount \in Nat
    BY InputsAssumption
  <1>3. SharesFor(amount) = amount
    BY <1>1, <1>2, ShareIsUnit
  <1>4. /\ Credit(w, amount, amount)
        /\ vault' = [vault EXCEPT !.total_collateral = @ + amount,
                                  !.total_shares = @ + amount]
        /\ UNCHANGED <<now, usdc_open, settlement_record>>
    BY <1>3 DEF DepositToVault
  <1>5. /\ vault'.total_shares = vault.total_shares + amount
        /\ vault'.total_collateral = vault.total_collateral + amount
        /\ vault'.created = vault.created
        /\ vault'.is_settled = vault.is_settled /\ vault'.voided = vault.voided
        /\ vault'.settlement_price = vault.settlement_price
    BY <1>4 DEF TypeOK, VaultRecord
  <1>6. /\ position'[w].shares = position[w].shares + amount
        /\ position'[w].deposited_collateral
               = position[w].deposited_collateral + amount
        /\ position'[w].options_minted = position[w].options_minted
        /\ \A x \in Writers \ {w} : position'[x] = position[x]
    BY <1>1, <1>2, <1>4, CreditEffect
  <1>7. /\ position[w].shares \in Nat
        /\ position[w].options_minted * Cpc \in Nat
    BY ConstantsFacts DEF TypeOK, PositionRecord
  <1>8. SharesMatchCollateral'
    BY <1>1, <1>2, <1>5, <1>6 DEF AccountsInv, SharesMatchCollateral, Unresolved
  <1>9. WritersBackTheirMints'
    BY <1>1, <1>2, <1>6, <1>7 DEF AccountsInv, WritersBackTheirMints, Unresolved
  <1>10. ResolvedOneWay'
    BY <1>4, <1>5 DEF AccountsInv, ResolvedOneWay
  <1>11. QED
    BY <1>1, <1>4, <1>5, <1>8, <1>9, <1>10 DEF AccountsInv, Unresolved

LEMMA AccountsInvWithdraw ==
    ASSUME TypeOK, AccountsInv, NEW w \in Writers, NEW shares \in Quantities,
           WithdrawFromVault(w, shares)
    PROVE  AccountsInv'
  <1>1. /\ Unresolved
        /\ shares \in Nat
        /\ position'[w].shares = position[w].shares - shares
        /\ position'[w].deposited_collateral = position[w].deposited_collateral - shares
        /\ position'[w].options_minted = position[w].options_minted
        /\ position'[w].open = position[w].open
        /\ \A x \in Writers \ {w} : position'[x] = position[x]
        /\ shares + position[w].options_minted * Cpc <= position[w].shares
    BY WithdrawEffect
  <1>2. vault' = [vault EXCEPT !.total_collateral = @ - shares, !.total_shares = @ - shares]
    BY WithdrawEffect
  <1>3. /\ vault'.total_shares = vault.total_shares - shares
        /\ vault'.total_collateral = vault.total_collateral - shares
        /\ vault'.created = vault.created
        /\ vault'.is_settled = vault.is_settled /\ vault'.voided = vault.voided
        /\ vault'.settlement_price = vault.settlement_price
    BY <1>2 DEF TypeOK, VaultRecord
  <1>4. vault.created
    BY DEF AccountsInv, WithdrawFromVault
  <1>5. UNCHANGED <<now, usdc_open, settlement_record>>
    BY DEF WithdrawFromVault
  <1>6. SharesMatchCollateral'
    BY <1>1, <1>3 DEF AccountsInv, SharesMatchCollateral, Unresolved
  <1>7. WritersBackTheirMints'
    <2>1. position[w].options_minted * Cpc \in Nat /\ position[w].shares \in Nat
      BY ConstantsFacts DEF TypeOK, PositionRecord
    <2>2. position[w].options_minted * Cpc <= position[w].shares - shares
      BY <1>1, <2>1
    <2>3. QED
      BY <1>1, <2>2 DEF AccountsInv, WritersBackTheirMints, Unresolved
  <1>8. ResolvedOneWay'
    BY <1>3, <1>5 DEF AccountsInv, ResolvedOneWay
  <1>9. QED
    BY <1>1, <1>3, <1>4, <1>5, <1>6, <1>7, <1>8 DEF AccountsInv, Unresolved

LEMMA AccountsInvMint ==
    ASSUME TypeOK, AccountsInv, NEW w \in Writers, NEW m \in Mints,
           NEW quantity \in Quantities, NEW premium \in Premiums,
           MintFromVault(w, m, quantity, premium)
    PROVE  AccountsInv'
  <1>1. Unresolved /\ vault.created
    BY LiveUnresolved DEF MintFromVault, AccountsInv
  <1>2. WriterShare(w) = position[w].shares
    BY <1>1, ShareIsUnit DEF MintFromVault, WriterShare, TypeOK, PositionRecord
  <1>3. /\ vault'.total_shares = vault.total_shares
        /\ vault'.total_collateral = vault.total_collateral
        /\ vault'.created = vault.created
        /\ vault'.is_settled = vault.is_settled /\ vault'.voided = vault.voided
        /\ vault'.settlement_price = vault.settlement_price
    BY DEF MintFromVault, TypeOK, VaultRecord
  <1>4. /\ position'[w].options_minted = position[w].options_minted + quantity
        /\ (position[w].options_minted + quantity) * Cpc <= position[w].shares
        /\ \A x \in Writers \ {w} : position'[x] = position[x]
        /\ \A x \in Writers :
              /\ position'[x].shares = position[x].shares
              /\ position'[x].deposited_collateral = position[x].deposited_collateral
    BY <1>2 DEF MintFromVault, TypeOK, PositionRecord
  <1>5. SharesMatchCollateral'
    BY <1>1, <1>3, <1>4 DEF AccountsInv, SharesMatchCollateral, Unresolved
  <1>6. WritersBackTheirMints'
    BY <1>1, <1>4 DEF AccountsInv, WritersBackTheirMints, Unresolved
  <1>7. UNCHANGED <<now, usdc_open, settlement_record>>
    BY DEF MintFromVault
  <1>8. ResolvedOneWay'
    BY <1>3, <1>7 DEF AccountsInv, ResolvedOneWay
  <1>9. QED
    BY <1>1, <1>3, <1>5, <1>6, <1>7, <1>8 DEF AccountsInv, Unresolved

LEMMA AccountsInvBurn ==
    ASSUME TypeOK, AccountsInv, NEW w \in Writers, NEW m \in Mints,
           BurnUnsoldFromVault(w, m)
    PROVE  AccountsInv'
  <1>1. vault.created
    BY DEF BurnUnsoldFromVault, AccountsInv
  <1>2. /\ vault'.total_shares = vault.total_shares
        /\ vault'.total_collateral = vault.total_collateral
        /\ vault'.created = vault.created
        /\ vault'.is_settled = vault.is_settled /\ vault'.voided = vault.voided
        /\ vault'.settlement_price = vault.settlement_price
    BY DEF BurnUnsoldFromVault, TypeOK, VaultRecord
  <1>3. /\ mint[m].escrow \in Nat /\ mint[m].escrow <= position[w].options_minted
        /\ position'[w].options_minted = position[w].options_minted - mint[m].escrow
        /\ \A x \in Writers \ {w} : position'[x] = position[x]
        /\ \A x \in Writers :
              /\ position'[x].shares = position[x].shares
              /\ position'[x].deposited_collateral = position[x].deposited_collateral
    BY DEF BurnUnsoldFromVault, TypeOK, PositionRecord, MintRecord
  <1>4. SharesMatchCollateral'
    BY <1>2, <1>3 DEF AccountsInv, SharesMatchCollateral, Unresolved
  <1>5. WritersBackTheirMints'
    <2>1. SUFFICES ASSUME Unresolved
                   PROVE  position'[w].options_minted * Cpc <= position[w].shares
      BY <1>2, <1>3 DEF AccountsInv, WritersBackTheirMints, Unresolved
    <2>2. position[w].options_minted * Cpc <= position[w].shares
      BY <2>1 DEF AccountsInv, WritersBackTheirMints
    <2>3. position[w].options_minted \in Nat /\ position[w].shares \in Nat
      BY DEF TypeOK, PositionRecord
    <2>4. (position[w].options_minted - mint[m].escrow) * Cpc
              = position[w].options_minted * Cpc - mint[m].escrow * Cpc
      BY <1>3, <2>3, ConstantsFacts
    <2>5. mint[m].escrow * Cpc \in Nat /\ position[w].options_minted * Cpc \in Nat
      BY <1>3, <2>3, ConstantsFacts
    <2>6. QED
      BY <1>3, <2>2, <2>3, <2>4, <2>5
  <1>6. UNCHANGED <<now, usdc_open, settlement_record>>
    BY DEF BurnUnsoldFromVault
  <1>7. ResolvedOneWay'
    BY <1>2, <1>6 DEF AccountsInv, ResolvedOneWay
  <1>8. QED
    BY <1>1, <1>2, <1>4, <1>5, <1>6, <1>7 DEF AccountsInv, Unresolved

LEMMA AccountsInvPurchase ==
    ASSUME TypeOK, AccountsInv, NEW h \in Holders, NEW m \in Mints,
           NEW quantity \in Quantities, PurchaseFromVault(h, m, quantity)
    PROVE  AccountsInv'
  <1>1. mint[m].writer \in Writers
    BY DEF PurchaseFromVault, TypeOK, MintRecord
  <1>2. vault.created
    BY <1>1 DEF PurchaseFromVault, AccountsInv
  <1>3. /\ vault'.total_shares = vault.total_shares
        /\ vault'.total_collateral = vault.total_collateral
        /\ vault'.created = vault.created
        /\ vault'.is_settled = vault.is_settled /\ vault'.voided = vault.voided
        /\ vault'.settlement_price = vault.settlement_price
    BY DEF PurchaseFromVault, TypeOK, VaultRecord
  <1>4. UNCHANGED <<now, usdc_open, position, settlement_record>>
    BY DEF PurchaseFromVault
  <1>5. now \in Nat
    BY DEF TypeOK
  <1>6. QED
    BY <1>2, <1>3, <1>4, <1>5, AccountsInvFrame

LEMMA AccountsInvResolve ==
    ASSUME TypeOK, AccountsInv, NEW swept \in Nat,
           SettleVaultSweeping(swept) \/ InitializeVoidSweeping(swept)
    PROVE  AccountsInv'
  <1>1. /\ vault.created => vault'.created
        /\ UNCHANGED <<now, usdc_open, settlement_record, position>>
    BY DEF SettleVaultSweeping, InitializeVoidSweeping, TypeOK, VaultRecord
  <1>2. Unresolved /\ vault.created /\ usdc_open
    BY DEF SettleVaultSweeping, InitializeVoidSweeping, AccountsInv, Unresolved
  <1>3. /\ \/ vault'.is_settled /\ ~vault'.voided
           \/ ~vault'.is_settled /\ vault'.voided
        /\ vault'.is_settled => /\ vault'.settlement_price = settlement_record
                                /\ settlement_record # NoPrice
                                /\ now >= Expiry
        /\ vault'.voided => now >= GraceEnd
    <2>1. CASE SettleVaultSweeping(swept)
      BY <1>2, <2>1, NumbersAssumption
         DEF SettleVaultSweeping, TypeOK, VaultRecord, Unresolved
    <2>2. CASE InitializeVoidSweeping(swept)
      BY <1>2, <2>2 DEF InitializeVoidSweeping, TypeOK, VaultRecord, Unresolved
    <2>3. QED
      BY <2>1, <2>2
  <1>4. ~Unresolved' /\ usdc_open'
    BY <1>1, <1>2, <1>3 DEF Unresolved
  <1>5. SharesMatchCollateral' /\ WritersBackTheirMints'
    BY <1>4 DEF SharesMatchCollateral, WritersBackTheirMints
  <1>6. ResolvedOneWay'
    BY <1>1, <1>3 DEF ResolvedOneWay
  <1>7. QED
    BY <1>1, <1>2, <1>3, <1>4, <1>5, <1>6 DEF AccountsInv

LEMMA AccountsInvPool == TypeOK /\ AccountsInv /\ PoolNext => AccountsInv'
  <1> SUFFICES ASSUME TypeOK, AccountsInv, PoolNext PROVE AccountsInv'
    OBVIOUS
  <1>1. CASE Tick
    BY <1>1, AccountsInvFrame DEF Tick, TypeOK
  <1>2. ASSUME NEW w \in Writers, WriterNext(w) PROVE AccountsInv'
    <2>1. ASSUME ClaimPremium(w) PROVE AccountsInv'
      <3>1. \A x \in Writers :
               /\ position'[x].open = position[x].open
               /\ position'[x].shares = position[x].shares
               /\ position'[x].deposited_collateral = position[x].deposited_collateral
               /\ position'[x].options_minted = position[x].options_minted
        BY <2>1 DEF ClaimPremium, TypeOK, PositionRecord
      <3>2. UNCHANGED <<now, vault, usdc_open, settlement_record>>
        BY <2>1 DEF ClaimPremium
      <3>3. now \in Nat
        BY DEF TypeOK
      <3>4. QED
        BY <3>1, <3>2, <3>3, AccountsInvFrame
    <2>2. ASSUME NEW residual, WriterExit(w, residual), ~Unresolved,
                 UNCHANGED <<now, settlement_record>>,
                 \/ usdc_open' = usdc_open
                 \/ usdc_open' = (vault'.total_shares # 0) /\ usdc_open
          PROVE  AccountsInv'
      <3>1. /\ usdc_open
            /\ vault'.created = vault.created
            /\ vault'.is_settled = vault.is_settled /\ vault'.voided = vault.voided
            /\ vault'.settlement_price = vault.settlement_price
        BY <2>2 DEF WriterExit, TypeOK, VaultRecord
      <3>2. QED
        BY <2>2, <3>1, AccountsInvResolved, ResolvedCreated
    <2>3. ASSUME WithdrawPostSettlement(w) \/ AutoFinalizeWriters(w)
          PROVE  AccountsInv'
      <3>1. /\ ~Unresolved /\ UNCHANGED <<now, settlement_record>>
            /\ usdc_open /\ usdc_open' = (vault'.total_shares # 0)
        BY <2>3 DEF WithdrawPostSettlement, AutoFinalizeWriters, Unresolved,
                    WriterExit, SweepIfDrained
      <3>2. \E residual : WriterExit(w, residual)
        BY <2>3 DEF WithdrawPostSettlement, AutoFinalizeWriters
      <3>3. QED
        BY <2>2, <3>1, <3>2
    <2>4. ASSUME ReclaimUnsettled(w) PROVE AccountsInv'
      <3>1. /\ ~Unresolved /\ UNCHANGED <<now, settlement_record, usdc_open>>
            /\ WriterExit(w, ResidualClaim(w))
        BY <2>4 DEF ReclaimUnsettled, Unresolved
      <3>2. QED
        BY <2>2, <3>1
    <2>5. QED
      BY <1>2, <2>1, <2>3, <2>4, AccountsInvCreation, AccountsInvDeposit,
         AccountsInvMint, AccountsInvBurn, AccountsInvWithdraw DEF WriterNext
  <1>3. ASSUME NEW h \in Holders, HolderNext(h) PROVE AccountsInv'
    <2>1. ASSUME NEW quantity, PayHolder(h, quantity) PROVE AccountsInv'
      <3>1. /\ ~Unresolved /\ usdc_open /\ usdc_open'
            /\ UNCHANGED <<now, settlement_record>>
            /\ vault'.created = vault.created
            /\ vault'.is_settled = vault.is_settled /\ vault'.voided = vault.voided
            /\ vault'.settlement_price = vault.settlement_price
        BY <2>1 DEF PayHolder, TypeOK, VaultRecord, Unresolved
      <3>2. QED
        BY <3>1, AccountsInvResolved, ResolvedCreated
    <2>2. QED
      BY <1>3, <2>1, AccountsInvPurchase
         DEF HolderNext, ExerciseFromVault, AutoFinalizeHolders
  <1>4. ASSUME NEW price \in Prices, SettleExpiry(price) PROVE AccountsInv'
    <2>1. /\ UNCHANGED <<now, vault, usdc_open, position>>
          /\ settlement_record = NoPrice
      BY <1>4 DEF SettleExpiry
    <2>2. now \in Nat
      BY DEF TypeOK
    <2>3. QED
      BY <2>1, <2>2, AccountsInvFrame
  <1>5. CASE AutoFinalizeNoWriters \/ CloseSettledWriterAskVault
    <2>1. /\ ~Unresolved /\ vault.total_shares = 0
          /\ UNCHANGED <<now, vault, position, settlement_record>>
      BY <1>5 DEF AutoFinalizeNoWriters, CloseSettledWriterAskVault, Unresolved
    <2>2. now \in Nat
      BY DEF TypeOK
    <2>3. QED
      BY <2>1, <2>2, AccountsInvFrame
  <1>6. QED
    BY <1>1, <1>2, <1>3, <1>4, <1>5 DEF PoolNext

LEMMA AccountsInvStep == TypeOK /\ AccountsInv /\ [Next]_vars => AccountsInv'
  <1> SUFFICES ASSUME TypeOK, AccountsInv, [Next]_vars PROVE AccountsInv'
    OBVIOUS
  <1>1. CASE SettleVault \/ InitializeVoid
    BY <1>1, AccountsInvResolve DEF SettleVault, InitializeVoid
  <1>2. CASE UNCHANGED vars
    BY <1>2, AccountsInvFrame DEF vars, TypeOK
  <1>3. QED
    BY <1>1, <1>2, AccountsInvPool DEF Next

LEMMA AccountsInvariant == Spec => []AccountsInv
  BY TypeCorrect, AccountsInvInit, AccountsInvStep, PTL DEF Spec

\* However deposits and withdrawals interleave, one share stays one unit of
\* collateral until the vault is resolved.
THEOREM SharesAreCollateral == Spec => []SharesMatchCollateral
  <1>1. AccountsInv => SharesMatchCollateral
    BY DEF AccountsInv
  <1>2. QED
    BY <1>1, AccountsInvariant, PTL

\* No writer's mints are ever backed by another writer's deposit.
THEOREM WritersBackTheirOwn == Spec => []WritersBackTheirMints
  <1>1. AccountsInv => WritersBackTheirMints
    BY DEF AccountsInv
  <1>2. QED
    BY <1>1, AccountsInvariant, PTL

\* Settling and voiding exclude each other, and the price is the recorded one.
THEOREM ResolvedOnlyOneWay == Spec => []ResolvedOneWay
  <1>1. AccountsInv => ResolvedOneWay
    BY DEF AccountsInv
  <1>2. QED
    BY <1>1, AccountsInvariant, PTL

\* A vault without writer asks: nothing was exercised early or swept.
NoPot ==
    vault.early_exercise_payout = 0 /\ vault.writer_ask_collateral_swept = 0

\* No instruction of the pool touches what asks and early exercise leave behind.
LEMMA PotFieldsKept ==
    ASSUME TypeOK, AccountsInv, PoolNext
    PROVE  /\ vault'.early_exercise_payout = vault.early_exercise_payout
           /\ vault'.exercised_options = vault.exercised_options
           /\ vault'.writer_ask_collateral_swept = vault.writer_ask_collateral_swept
           /\ vault'.writer_ask_equiv_shares = vault.writer_ask_equiv_shares
  <1> DEFINE Kept == /\ vault'.early_exercise_payout = vault.early_exercise_payout
                     /\ vault'.exercised_options = vault.exercised_options
                     /\ vault'.writer_ask_collateral_swept
                            = vault.writer_ask_collateral_swept
                     /\ vault'.writer_ask_equiv_shares = vault.writer_ask_equiv_shares
  <1>1. ASSUME NEW w \in Writers, WriterNext(w) PROVE Kept
    BY <1>1 DEF WriterNext, CreateSharedVault, CreateAndDeposit, DepositToVault,
                MintFromVault, BurnUnsoldFromVault, WithdrawFromVault, ClaimPremium,
                WithdrawPostSettlement, AutoFinalizeWriters, ReclaimUnsettled,
                WriterExit, TypeOK, VaultRecord
  <1>2. ASSUME NEW h \in Holders, HolderNext(h) PROVE Kept
    BY <1>2 DEF HolderNext, PurchaseFromVault, ExerciseFromVault, AutoFinalizeHolders,
                PayHolder, TypeOK, VaultRecord
  <1>3. QED
    BY <1>1, <1>2 DEF PoolNext, Tick, SettleExpiry, AutoFinalizeNoWriters,
                      CloseSettledWriterAskVault

LEMMA NoPotInvariant == Spec => []NoPot
  <1>1. Init => NoPot
    BY DEF Init, EmptyVault, NoPot
  <1>2. TypeOK /\ AccountsInv /\ NoPot /\ [Next]_vars => NoPot'
    <2> SUFFICES ASSUME TypeOK, AccountsInv, NoPot, [Next]_vars PROVE NoPot'
      OBVIOUS
    <2>1. CASE SettleVault \/ InitializeVoid
      BY <2>1 DEF SettleVault, SettleVaultSweeping, InitializeVoid,
                  InitializeVoidSweeping, NoPot, TypeOK, VaultRecord
    <2>2. CASE PoolNext
      BY <2>2, PotFieldsKept DEF NoPot
    <2>3. CASE UNCHANGED vars
      BY <2>3 DEF vars, NoPot
    <2>4. QED
      BY <2>1, <2>2, <2>3 DEF Next
  <1>3. QED
    BY <1>1, <1>2, TypeCorrect, AccountsInvariant, PTL DEF Spec

-----------------------------------------------------------------------------
(* The totals: what the vault's counters say of all its accounts together.    *)

Shares == [w \in Writers |-> position[w].shares]
Written == [w \in Writers |-> position[w].options_minted]
Escrowed == [m \in Mints |-> mint[m].escrow]

\* The collateral of each writer that backs none of its mints.
Unencumbered ==
    [w \in Writers |-> position[w].shares - position[w].options_minted * Cpc]

\* The counters are the totals of the accounts, the collateral is what backs
\* the mints plus what backs none, and after settlement the residual still
\* covers every token.
TotalsInv ==
    /\ vault.total_shares = TotalShares
    /\ Unresolved => /\ vault.total_options_minted = TotalEscrowed + TotalHeld
                     /\ vault.total_options_minted = TotalWritten
                     /\ vault.total_options_minted * Cpc + Total(Unencumbered)
                            = vault.total_collateral
    /\ TotalHeld <= vault.total_options_sold
    /\ HoldersCoveredInWindow
    /\ ~Unresolved => vault.collateral_remaining <= vault.total_collateral

LEMMA FunctionTypes ==
    ASSUME TypeOK
    PROVE  /\ Shares \in [Writers -> Nat] /\ Written \in [Writers -> Nat]
           /\ Escrowed \in [Mints -> Nat] /\ holding \in [Holders -> Nat]
           /\ TotalShares = Total(Shares) /\ TotalWritten = Total(Written)
           /\ TotalEscrowed = Total(Escrowed)
  BY DEF TypeOK, PositionRecord, MintRecord, Shares, Written, Escrowed,
         TotalShares, TotalWritten, TotalEscrowed

LEMMA AccountsFinite ==
    IsFiniteSet(Writers) /\ IsFiniteSet(Holders) /\ IsFiniteSet(Mints)
  BY AccountsAssumption DEF AccountsAssumption

LEMMA TotalsNat ==
    ASSUME TypeOK
    PROVE  /\ TotalShares \in Nat /\ TotalWritten \in Nat
           /\ TotalEscrowed \in Nat /\ TotalHeld \in Nat
           /\ \A w \in Writers : position[w].shares <= TotalShares
           /\ \A h \in Holders : holding[h] <= TotalHeld
  <1>1. Total(Shares) \in Nat /\ Total(Written) \in Nat
        /\ Total(Escrowed) \in Nat /\ Total(holding) \in Nat
    BY FunctionTypes, AccountsFinite, UnitsFinite
  <1>2. \A w \in Writers : Shares[w] <= Total(Shares)
    BY FunctionTypes, AccountsFinite, EntryAtMostTotal
  <1>3. \A h \in Holders : holding[h] <= Total(holding)
    BY FunctionTypes, AccountsFinite, EntryAtMostTotal
  <1>4. \A w \in Writers : Shares[w] = position[w].shares
    BY DEF Shares
  <1>5. QED
    BY <1>1, <1>2, <1>3, <1>4, FunctionTypes DEF TotalHeld

\* One writer's shares change.
LEMMA SharesChange ==
    ASSUME TypeOK, TypeOK', NEW w \in Writers,
           \A x \in Writers \ {w} : position'[x].shares = position[x].shares
    PROVE  TotalShares' = TotalShares - position[w].shares + position'[w].shares
  <1>1. Shares \in [Writers -> Nat] /\ Shares' \in [Writers -> Nat]
    BY DEF TypeOK, PositionRecord, Shares
  <1>2. \A x \in Writers \ {w} : Shares'[x] = Shares[x]
    BY DEF Shares
  <1>3. Total(Shares') = Total(Shares) - Shares[w] + Shares'[w]
    BY <1>1, <1>2, AccountsFinite, TotalChange
  <1>4. QED
    BY <1>3 DEF Shares, TotalShares

\* The mints one writer has written change.
LEMMA WrittenChange ==
    ASSUME TypeOK, TypeOK', NEW w \in Writers,
           \A x \in Writers \ {w} :
              position'[x].options_minted = position[x].options_minted
    PROVE  TotalWritten'
               = TotalWritten - position[w].options_minted + position'[w].options_minted
  <1>1. Written \in [Writers -> Nat] /\ Written' \in [Writers -> Nat]
    BY DEF TypeOK, PositionRecord, Written
  <1>2. \A x \in Writers \ {w} : Written'[x] = Written[x]
    BY DEF Written
  <1>3. Total(Written') = Total(Written) - Written[w] + Written'[w]
    BY <1>1, <1>2, AccountsFinite, TotalChange
  <1>4. QED
    BY <1>3 DEF Written, TotalWritten

\* One mint's escrow changes.
LEMMA EscrowChange ==
    ASSUME TypeOK, TypeOK', NEW m \in Mints,
           \A x \in Mints \ {m} : mint'[x].escrow = mint[x].escrow
    PROVE  TotalEscrowed' = TotalEscrowed - mint[m].escrow + mint'[m].escrow
  <1>1. Escrowed \in [Mints -> Nat] /\ Escrowed' \in [Mints -> Nat]
    BY DEF TypeOK, MintRecord, Escrowed
  <1>2. \A x \in Mints \ {m} : Escrowed'[x] = Escrowed[x]
    BY DEF Escrowed
  <1>3. Total(Escrowed') = Total(Escrowed) - Escrowed[m] + Escrowed'[m]
    BY <1>1, <1>2, AccountsFinite, TotalChange
  <1>4. QED
    BY <1>3 DEF Escrowed, TotalEscrowed

\* One holder's tokens change.
LEMMA HeldChange ==
    ASSUME TypeOK, TypeOK', NEW h \in Holders,
           \A x \in Holders \ {h} : holding'[x] = holding[x]
    PROVE  TotalHeld' = TotalHeld - holding[h] + holding'[h]
  <1>1. holding \in [Holders -> Nat] /\ holding' \in [Holders -> Nat]
    BY DEF TypeOK
  <1>2. Total(holding') = Total(holding) - holding[h] + holding'[h]
    BY <1>1, AccountsFinite, TotalChange
  <1>3. QED
    BY <1>2 DEF TotalHeld

\* One writer's shares or mints change while every writer backs its own.
LEMMA UnencumberedChange ==
    ASSUME TypeOK, TypeOK', AccountsInv, AccountsInv', Unresolved, Unresolved',
           NEW w \in Writers, \A x \in Writers \ {w} :
              /\ position'[x].shares = position[x].shares
              /\ position'[x].options_minted = position[x].options_minted
    PROVE  /\ Total(Unencumbered) \in Nat
           /\ Total(Unencumbered') = Total(Unencumbered)
                  - (position[w].shares - position[w].options_minted * Cpc)
                  + (position'[w].shares - position'[w].options_minted * Cpc)
  <1>1. Unencumbered \in [Writers -> Nat]
    <2>1. ASSUME NEW x \in Writers
          PROVE  position[x].shares - position[x].options_minted * Cpc \in Nat
      <3>1. position[x].shares \in Nat /\ position[x].options_minted * Cpc \in Nat
        BY ConstantsFacts DEF TypeOK, PositionRecord
      <3>2. position[x].options_minted * Cpc <= position[x].shares
        BY DEF AccountsInv, WritersBackTheirMints
      <3>3. QED
        BY <3>1, <3>2
    <2>2. QED
      BY <2>1 DEF Unencumbered
  <1>2. Unencumbered' \in [Writers -> Nat]
    <2>1. ASSUME NEW x \in Writers
          PROVE  position'[x].shares - position'[x].options_minted * Cpc \in Nat
      <3>1. position'[x].shares \in Nat /\ position'[x].options_minted * Cpc \in Nat
        BY ConstantsFacts DEF TypeOK, PositionRecord
      <3>2. position'[x].options_minted * Cpc <= position'[x].shares
        BY DEF AccountsInv, WritersBackTheirMints
      <3>3. QED
        BY <3>1, <3>2
    <2>2. QED
      BY <2>1 DEF Unencumbered, Cpc
  <1>3. \A x \in Writers \ {w} : Unencumbered'[x] = Unencumbered[x]
    BY DEF Unencumbered, Cpc
  <1>4. Total(Unencumbered') = Total(Unencumbered) - Unencumbered[w] + Unencumbered'[w]
    BY <1>1, <1>2, <1>3, AccountsFinite, TotalChange
  <1>5. /\ Unencumbered[w] = position[w].shares - position[w].options_minted * Cpc
        /\ Unencumbered'[w] = position'[w].shares - position'[w].options_minted * Cpc
    BY DEF Unencumbered, Cpc
  <1>6. Total(Unencumbered) \in Nat
    BY <1>1, AccountsFinite, UnitsFinite
  <1>7. QED
    BY <1>4, <1>5, <1>6

LEMMA TotalsInvInit == Init => TotalsInv
  <1> SUFFICES ASSUME Init PROVE TotalsInv
    OBVIOUS
  <1>1. /\ Shares \in [Writers -> {0}] /\ Written \in [Writers -> {0}]
        /\ Escrowed \in [Mints -> {0}] /\ holding \in [Holders -> {0}]
    BY DEF Init, EmptyPosition, UnusedMint, Shares, Written, Escrowed
  <1>2. Unencumbered \in [Writers -> {0}]
    BY ConstantsFacts DEF Init, EmptyPosition, Unencumbered
  <1>3. /\ TotalShares = 0 /\ TotalWritten = 0 /\ TotalEscrowed = 0 /\ TotalHeld = 0
        /\ Total(Unencumbered) = 0
    BY <1>1, <1>2, TotalOfZeros
       DEF TotalShares, TotalWritten, TotalEscrowed, TotalHeld, Shares, Written, Escrowed
  <1>4. /\ vault.total_shares = 0 /\ vault.total_collateral = 0
        /\ vault.total_options_minted = 0 /\ vault.total_options_sold = 0
        /\ ~vault.is_settled /\ ~vault.voided
    BY DEF Init, EmptyVault
  <1>5. HoldersCoveredInWindow
    BY <1>4 DEF HoldersCoveredInWindow
  <1>6. 0 * Cpc + 0 = 0
    BY ConstantsFacts
  <1>7. QED
    BY <1>3, <1>4, <1>5, <1>6 DEF TotalsInv, Unresolved

\* The conjuncts about the writers' accounts do not change with their premium.
LEMMA PositionsSame ==
    ASSUME \A w \in Writers :
              /\ position'[w].shares = position[w].shares
              /\ position'[w].options_minted = position[w].options_minted
    PROVE  /\ TotalShares' = TotalShares /\ TotalWritten' = TotalWritten
           /\ Total(Unencumbered') = Total(Unencumbered)
  <1>1. Shares' = Shares /\ Written' = Written
    BY DEF Shares, Written
  <1>2. Unencumbered' = Unencumbered
    BY DEF Unencumbered, Cpc
  <1>3. QED
    BY <1>1, <1>2 DEF Shares, Written, TotalShares, TotalWritten

\* Steps that change neither a counter nor what it counts.
LEMMA TotalsInvFrame ==
    ASSUME TypeOK, TotalsInv, now <= now', now' \in Nat,
           vault'.total_shares = vault.total_shares,
           vault'.total_collateral = vault.total_collateral,
           vault'.total_options_minted = vault.total_options_minted,
           vault'.total_options_sold = vault.total_options_sold,
           vault'.collateral_remaining = vault.collateral_remaining,
           vault'.is_settled = vault.is_settled, vault'.voided = vault.voided,
           vault'.settlement_price = vault.settlement_price,
           mint' = mint, holding' = holding,
           \A w \in Writers :
              /\ position'[w].shares = position[w].shares
              /\ position'[w].options_minted = position[w].options_minted
    PROVE  TotalsInv'
  <1>1. /\ TotalShares' = TotalShares /\ TotalWritten' = TotalWritten
        /\ Total(Unencumbered') = Total(Unencumbered)
    BY PositionsSame
  <1>2. TotalEscrowed' = TotalEscrowed /\ TotalHeld' = TotalHeld
    BY DEF TotalEscrowed, TotalHeld
  <1>3. HoldersCoveredInWindow'
    BY <1>2, ConstantsFacts DEF TotalsInv, HoldersCoveredInWindow, TypeOK,
       PayoutPerContract, WindowEnd, Cpc
  <1>4. Unresolved' = Unresolved
    BY DEF Unresolved
  <1>5. QED
    BY <1>1, <1>2, <1>3, <1>4 DEF TotalsInv, Cpc

\* A deposit adds as much to the totals as to the counters.
LEMMA TotalsInvCredit ==
    ASSUME TypeOK, TypeOK', AccountsInv, AccountsInv', TotalsInv, Unresolved,
           NEW w \in Writers, NEW amount \in Nat, Credit(w, amount, amount),
           vault'.total_shares = vault.total_shares + amount,
           vault'.total_collateral = vault.total_collateral + amount,
           vault'.total_options_minted = vault.total_options_minted,
           vault'.total_options_sold = vault.total_options_sold,
           vault'.is_settled = vault.is_settled, vault'.voided = vault.voided,
           mint' = mint, holding' = holding
    PROVE  TotalsInv'
  <1>1. /\ position'[w].shares = position[w].shares + amount
        /\ position'[w].options_minted = position[w].options_minted
        /\ \A x \in Writers \ {w} : position'[x] = position[x]
    BY CreditEffect
  <1>2. /\ position[w].shares \in Nat /\ position[w].options_minted \in Nat
        /\ TotalShares \in Nat /\ TotalWritten \in Nat
    BY TotalsNat DEF TypeOK, PositionRecord
  <1>3. TotalShares' = TotalShares + amount
    BY <1>1, <1>2, SharesChange
  <1>4. TotalWritten' = TotalWritten
    BY <1>1, <1>2, WrittenChange
  <1>5. Unresolved'
    BY DEF Unresolved
  <1>6. Total(Unencumbered') = Total(Unencumbered) + amount
        /\ Total(Unencumbered) \in Nat
    <2>1. position[w].options_minted * Cpc \in Nat
      BY <1>2, ConstantsFacts
    <2>2. QED
      BY <1>1, <1>2, <1>5, <2>1, UnencumberedChange
  <1>7. TotalEscrowed' = TotalEscrowed /\ TotalHeld' = TotalHeld
    BY DEF TotalEscrowed, TotalHeld
  <1>8. HoldersCoveredInWindow'
    BY <1>5 DEF HoldersCoveredInWindow, Unresolved
  <1>9. vault.total_options_minted * Cpc \in Nat
    BY VaultTypes, ConstantsFacts
  <1>10. QED
    BY <1>3, <1>4, <1>5, <1>6, <1>7, <1>8, <1>9, VaultTypes DEF TotalsInv, Cpc

LEMMA TotalsInvCreation ==
    ASSUME TypeOK, TypeOK', AccountsInv, AccountsInv', TotalsInv, NEW w \in Writers,
           CreateSharedVault(w) \/ \E amount \in Amounts : CreateAndDeposit(w, amount)
    PROVE  TotalsInv'
  <1>1. vault = EmptyVault
    BY DEF AccountsInv, CreateSharedVault, CreateAndDeposit
  <1>2. CASE CreateSharedVault(w)
    <2>1. /\ vault'.total_shares = vault.total_shares
          /\ vault'.total_collateral = vault.total_collateral
          /\ vault'.total_options_minted = vault.total_options_minted
          /\ vault'.total_options_sold = vault.total_options_sold
          /\ vault'.collateral_remaining = vault.collateral_remaining
          /\ vault'.is_settled = vault.is_settled /\ vault'.voided = vault.voided
          /\ vault'.settlement_price = vault.settlement_price
      BY <1>2 DEF CreateSharedVault, TypeOK, VaultRecord
    <2>2. UNCHANGED <<now, mint, holding, position>> /\ now \in Nat
      BY <1>2 DEF CreateSharedVault, TypeOK
    <2>3. QED
      BY <2>1, <2>2, TotalsInvFrame
  <1>3. ASSUME NEW amount \in Amounts, CreateAndDeposit(w, amount)
        PROVE  TotalsInv'
    <2>1. Unresolved /\ vault.total_shares = 0 /\ vault.total_collateral = 0
      BY <1>1 DEF EmptyVault, Unresolved
    <2>2. amount \in Nat
      BY InputsAssumption
    <2>3. /\ vault'.total_shares = amount /\ vault'.total_collateral = amount
          /\ vault'.total_options_minted = vault.total_options_minted
          /\ vault'.total_options_sold = vault.total_options_sold
          /\ vault'.is_settled = vault.is_settled /\ vault'.voided = vault.voided
      BY <1>3 DEF CreateAndDeposit, TypeOK, VaultRecord
    <2>4. Credit(w, amount, amount) /\ mint' = mint /\ holding' = holding
      BY <1>3 DEF CreateAndDeposit
    <2>5. 0 + amount = amount
      BY <2>2
    <2>6. QED
      BY <2>1, <2>2, <2>3, <2>4, <2>5, TotalsInvCredit
  <1>4. QED
    BY <1>2, <1>3

LEMMA TotalsInvDeposit ==
    ASSUME TypeOK, TypeOK', AccountsInv, AccountsInv', TotalsInv, NEW w \in Writers,
           NEW amount \in Amounts, DepositToVault(w, amount)
    PROVE  TotalsInv'
  <1>1. Unresolved
    BY LiveUnresolved DEF DepositToVault
  <1>2. amount \in Nat
    BY InputsAssumption
  <1>3. SharesFor(amount) = amount
    BY <1>1, <1>2, ShareIsUnit
  <1>4. /\ vault'.total_shares = vault.total_shares + amount
        /\ vault'.total_collateral = vault.total_collateral + amount
        /\ vault'.total_options_minted = vault.total_options_minted
        /\ vault'.total_options_sold = vault.total_options_sold
        /\ vault'.is_settled = vault.is_settled /\ vault'.voided = vault.voided
        /\ Credit(w, amount, amount) /\ mint' = mint /\ holding' = holding
    BY <1>3 DEF DepositToVault, TypeOK, VaultRecord
  <1>5. QED
    BY <1>1, <1>2, <1>4, TotalsInvCredit

LEMMA TotalsInvWithdraw ==
    ASSUME TypeOK, TypeOK', AccountsInv, AccountsInv', TotalsInv, NEW w \in Writers,
           NEW shares \in Quantities, WithdrawFromVault(w, shares)
    PROVE  TotalsInv'
  <1>1. /\ Unresolved
        /\ shares \in Nat
        /\ position'[w].shares = position[w].shares - shares
        /\ position'[w].options_minted = position[w].options_minted
        /\ \A x \in Writers \ {w} : position'[x] = position[x]
    BY WithdrawEffect
  <1>2. vault' = [vault EXCEPT !.total_collateral = @ - shares, !.total_shares = @ - shares]
    BY WithdrawEffect
  <1>3. /\ vault'.total_shares = vault.total_shares - shares
        /\ vault'.total_collateral = vault.total_collateral - shares
        /\ vault'.total_options_minted = vault.total_options_minted
        /\ vault'.total_options_sold = vault.total_options_sold
        /\ vault'.is_settled = vault.is_settled /\ vault'.voided = vault.voided
    BY <1>2 DEF TypeOK, VaultRecord
  <1>4. mint' = mint /\ holding' = holding
    BY DEF WithdrawFromVault
  <1>5. /\ position[w].shares \in Nat /\ position[w].options_minted \in Nat
        /\ TotalShares \in Nat /\ TotalWritten \in Nat
    BY TotalsNat DEF TypeOK, PositionRecord
  <1>6. TotalShares' = TotalShares - shares
    BY <1>1, <1>5, SharesChange
  <1>7. TotalWritten' = TotalWritten
    BY <1>1, <1>5, WrittenChange
  <1>8. Unresolved'
    BY <1>1, <1>3 DEF Unresolved
  <1>9. Total(Unencumbered') = Total(Unencumbered) - shares
        /\ Total(Unencumbered) \in Nat
    <2>1. position[w].options_minted * Cpc \in Nat
      BY <1>5, ConstantsFacts
    <2>2. QED
      BY <1>1, <1>5, <1>8, <2>1, UnencumberedChange
  <1>10. TotalEscrowed' = TotalEscrowed /\ TotalHeld' = TotalHeld
    BY <1>4 DEF TotalEscrowed, TotalHeld
  <1>11. HoldersCoveredInWindow'
    BY <1>8 DEF HoldersCoveredInWindow, Unresolved
  <1>12. vault.total_options_minted * Cpc \in Nat
    BY VaultTypes, ConstantsFacts
  <1>13. QED
    BY <1>1, <1>3, <1>6, <1>7, <1>8, <1>9, <1>10, <1>11, <1>12, VaultTypes
       DEF TotalsInv, Cpc

LEMMA TotalsInvMint ==
    ASSUME TypeOK, TypeOK', AccountsInv, AccountsInv', TotalsInv, NEW w \in Writers,
           NEW m \in Mints, NEW quantity \in Quantities, NEW premium \in Premiums,
           MintFromVault(w, m, quantity, premium)
    PROVE  TotalsInv'
  <1>1. Unresolved
    BY LiveUnresolved DEF MintFromVault
  <1>2. quantity \in Nat
    BY InputsAssumption
  <1>3. /\ vault'.total_shares = vault.total_shares
        /\ vault'.total_collateral = vault.total_collateral
        /\ vault'.total_options_minted = vault.total_options_minted + quantity
        /\ vault'.total_options_sold = vault.total_options_sold
        /\ vault'.is_settled = vault.is_settled /\ vault'.voided = vault.voided
    BY DEF MintFromVault, TypeOK, VaultRecord
  <1>4. /\ position'[w].shares = position[w].shares
        /\ position'[w].options_minted = position[w].options_minted + quantity
        /\ \A x \in Writers \ {w} : position'[x] = position[x]
    BY DEF MintFromVault, TypeOK, PositionRecord
  <1>5. /\ mint[m].escrow = 0 /\ mint'[m].escrow = quantity
        /\ \A x \in Mints \ {m} : mint'[x] = mint[x]
    BY DEF MintFromVault, TypeOK, MintRecord, UnusedMint
  <1>6. holding' = holding
    BY DEF MintFromVault
  <1>7. /\ position[w].shares \in Nat /\ position[w].options_minted \in Nat
        /\ TotalShares \in Nat /\ TotalWritten \in Nat
        /\ TotalEscrowed \in Nat /\ TotalHeld \in Nat
    BY TotalsNat DEF TypeOK, PositionRecord
  <1>8. TotalShares' = TotalShares
    BY <1>4, <1>7, SharesChange
  <1>9. TotalWritten' = TotalWritten + quantity
    BY <1>2, <1>4, <1>7, WrittenChange
  <1>10. TotalEscrowed' = TotalEscrowed + quantity
    BY <1>2, <1>5, <1>7, EscrowChange
  <1>11. TotalHeld' = TotalHeld
    BY <1>6 DEF TotalHeld
  <1>12. Unresolved'
    BY <1>1, <1>3 DEF Unresolved
  <1>13. /\ (position[w].options_minted + quantity) * Cpc
                = position[w].options_minted * Cpc + quantity * Cpc
         /\ (vault.total_options_minted + quantity) * Cpc
                = vault.total_options_minted * Cpc + quantity * Cpc
         /\ position[w].options_minted * Cpc \in Nat /\ quantity * Cpc \in Nat
         /\ vault.total_options_minted * Cpc \in Nat
    BY <1>2, <1>7, VaultTypes, ConstantsFacts
  <1>14. Total(Unencumbered') = Total(Unencumbered) - quantity * Cpc
         /\ Total(Unencumbered) \in Nat
    BY <1>1, <1>4, <1>7, <1>12, <1>13, UnencumberedChange
  <1>15. HoldersCoveredInWindow'
    BY <1>12 DEF HoldersCoveredInWindow, Unresolved
  <1>16. (vault.total_options_minted * Cpc + Total(Unencumbered)
              = vault.total_collateral)'
    BY <1>1, <1>3, <1>13, <1>14 DEF TotalsInv, Cpc
  <1>17. QED
    BY <1>1, <1>2, <1>3, <1>7, <1>8, <1>9, <1>10, <1>11, <1>12, <1>15, <1>16, VaultTypes
       DEF TotalsInv

LEMMA TotalsInvBurn ==
    ASSUME TypeOK, TypeOK', AccountsInv, AccountsInv', TotalsInv, NEW w \in Writers,
           NEW m \in Mints, BurnUnsoldFromVault(w, m)
    PROVE  TotalsInv'
  <1> DEFINE unsold == mint[m].escrow
  <1>1. unsold \in Nat
    BY DEF TypeOK, MintRecord
  <1>2. /\ vault'.total_shares = vault.total_shares
        /\ vault'.total_collateral = vault.total_collateral
        /\ vault'.total_options_minted = vault.total_options_minted - unsold
        /\ vault'.total_options_sold = vault.total_options_sold
        /\ vault'.is_settled = vault.is_settled /\ vault'.voided = vault.voided
        /\ vault'.settlement_price = vault.settlement_price
        /\ vault'.collateral_remaining = vault.collateral_remaining
    BY DEF BurnUnsoldFromVault, TypeOK, VaultRecord
  <1>3. /\ position'[w].shares = position[w].shares
        /\ position'[w].options_minted = position[w].options_minted - unsold
        /\ \A x \in Writers \ {w} : position'[x] = position[x]
    BY DEF BurnUnsoldFromVault, TypeOK, PositionRecord
  <1>4. mint'[m].escrow = 0 /\ \A x \in Mints \ {m} : mint'[x] = mint[x]
    BY DEF BurnUnsoldFromVault, TypeOK, MintRecord
  <1>5. holding' = holding /\ now' = now
    BY DEF BurnUnsoldFromVault
  <1>6. /\ position[w].shares \in Nat /\ position[w].options_minted \in Nat
        /\ TotalShares \in Nat /\ TotalWritten \in Nat
        /\ TotalEscrowed \in Nat /\ TotalHeld \in Nat
    BY TotalsNat DEF TypeOK, PositionRecord
  <1>7. TotalShares' = TotalShares
    BY <1>3, <1>6, SharesChange
  <1>8. TotalWritten' = TotalWritten - unsold
    BY <1>1, <1>3, <1>6, WrittenChange
  <1>9. TotalEscrowed' = TotalEscrowed - unsold
    BY <1>1, <1>4, <1>6, EscrowChange
  <1>10. TotalHeld' = TotalHeld
    BY <1>5 DEF TotalHeld
  <1>11. HoldersCoveredInWindow'
    BY <1>2, <1>5, <1>10 DEF TotalsInv, HoldersCoveredInWindow, PayoutPerContract,
       WindowEnd, Cpc
  <1>12. Unresolved' = Unresolved
    BY <1>2 DEF Unresolved
  <1>13. ASSUME Unresolved
         PROVE  (vault.total_options_minted * Cpc + Total(Unencumbered)
                    = vault.total_collateral)'
    <2>1. /\ (position[w].options_minted - unsold) * Cpc
                 = position[w].options_minted * Cpc - unsold * Cpc
          /\ (vault.total_options_minted - unsold) * Cpc
                 = vault.total_options_minted * Cpc - unsold * Cpc
          /\ position[w].options_minted * Cpc \in Nat /\ unsold * Cpc \in Nat
          /\ vault.total_options_minted * Cpc \in Nat
      BY <1>1, <1>6, VaultTypes, ConstantsFacts
    <2>2. Total(Unencumbered') = Total(Unencumbered) + unsold * Cpc
          /\ Total(Unencumbered) \in Nat
      BY <1>3, <1>6, <1>12, <1>13, <2>1, UnencumberedChange
    <2>3. QED
      BY <1>2, <1>13, <2>1, <2>2 DEF TotalsInv, Cpc
  <1>14. QED
    BY <1>1, <1>2, <1>6, <1>7, <1>8, <1>9, <1>10, <1>11, <1>12, <1>13, VaultTypes
       DEF TotalsInv

LEMMA TotalsInvPurchase ==
    ASSUME TypeOK, TypeOK', AccountsInv, AccountsInv', TotalsInv, NEW h \in Holders,
           NEW m \in Mints, NEW quantity \in Quantities,
           PurchaseFromVault(h, m, quantity)
    PROVE  TotalsInv'
  <1>1. Unresolved
    BY LiveUnresolved DEF PurchaseFromVault
  <1>2. quantity \in Nat /\ mint[m].escrow \in Nat
    BY InputsAssumption DEF TypeOK, MintRecord
  <1>3. /\ vault'.total_shares = vault.total_shares
        /\ vault'.total_collateral = vault.total_collateral
        /\ vault'.total_options_minted = vault.total_options_minted
        /\ vault'.total_options_sold = vault.total_options_sold + quantity
        /\ vault'.is_settled = vault.is_settled /\ vault'.voided = vault.voided
    BY DEF PurchaseFromVault, TypeOK, VaultRecord
  <1>4. /\ mint'[m].escrow = mint[m].escrow - quantity
        /\ \A x \in Mints \ {m} : mint'[x] = mint[x]
    BY DEF PurchaseFromVault, TypeOK, MintRecord
  <1>5. /\ holding'[h] = holding[h] + quantity /\ holding[h] \in Nat
        /\ \A x \in Holders \ {h} : holding'[x] = holding[x]
    BY DEF PurchaseFromVault, TypeOK
  <1>6. /\ TotalShares' = TotalShares /\ TotalWritten' = TotalWritten
        /\ Total(Unencumbered') = Total(Unencumbered)
    BY PositionsSame DEF PurchaseFromVault
  <1>7. TotalEscrowed \in Nat /\ TotalHeld \in Nat
    BY TotalsNat
  <1>8. TotalEscrowed' = TotalEscrowed - quantity
    BY <1>2, <1>4, <1>7, EscrowChange
  <1>9. TotalHeld' = TotalHeld + quantity
    BY <1>2, <1>5, <1>7, HeldChange
  <1>10. Unresolved' /\ HoldersCoveredInWindow'
    BY <1>1, <1>3 DEF HoldersCoveredInWindow, Unresolved
  <1>11. QED
    BY <1>1, <1>2, <1>3, <1>6, <1>7, <1>8, <1>9, <1>10, VaultTypes DEF TotalsInv, Cpc

\* A writer leaves a resolved vault: its shares leave the total, and while the
\* window is open it can only leave if no token is outstanding.
LEMMA TotalsInvExit ==
    ASSUME TypeOK, TypeOK', AccountsInv, TotalsInv, ~Unresolved,
           NEW w \in Writers, NEW residual \in Nat, WriterExit(w, residual),
           position'[w].shares = 0,
           \A x \in Writers \ {w} : position'[x] = position[x],
           vault.is_settled => WriterWindowOpen,
           holding' = holding, now' = now
    PROVE  TotalsInv'
  <1>1. /\ vault'.total_shares = vault.total_shares - position[w].shares
        /\ vault'.total_collateral = vault.total_collateral - residual
        /\ vault'.collateral_remaining = vault.collateral_remaining - residual
        /\ vault'.total_options_sold = vault.total_options_sold
        /\ vault'.is_settled = vault.is_settled /\ vault'.voided = vault.voided
    BY DEF WriterExit, TypeOK, VaultRecord
  <1>2. TotalShares' = TotalShares - position[w].shares
    <2>1. position[w].shares \in Nat /\ TotalShares \in Nat
      BY TotalsNat DEF TypeOK, PositionRecord
    <2>2. QED
      BY <2>1, SharesChange
  <1>3. TotalHeld' = TotalHeld /\ TotalHeld \in Nat
    BY TotalsNat DEF TotalHeld
  <1>4. ~Unresolved'
    BY <1>1 DEF Unresolved
  <1>5. HoldersCoveredInWindow'
    <2>1. SUFFICES ASSUME vault.is_settled, now < WindowEnd
                   PROVE  TotalHeld * PayoutPerContract(vault.settlement_price)'
                              <= vault'.collateral_remaining
      BY <1>1, <1>3 DEF HoldersCoveredInWindow, WindowEnd
    <2>2. ~(vault.total_options_sold > 0)
      BY <2>1, ConstantsFacts DEF WriterWindowOpen, TypeOK
    <2>3. TotalHeld = 0
      BY <1>3, <2>2, VaultTypes DEF TotalsInv
    <2>4. vault'.settlement_price \in Nat /\ vault'.collateral_remaining \in Nat
      BY DEF TypeOK, VaultRecord
    <2>5. PayoutPerContract(vault'.settlement_price) \in Nat
      BY <2>4, PayoutNat
    <2>6. PayoutPerContract(vault.settlement_price)'
              = PayoutPerContract(vault'.settlement_price)
      BY DEF PayoutPerContract, Cpc
    <2>7. QED
      BY <2>3, <2>4, <2>5, <2>6
  <1>6. QED
    BY <1>1, <1>2, <1>3, <1>4, <1>5, VaultTypes DEF TotalsInv

\* A holder is paid: the tokens burned were covered, and so are those left.
LEMMA HolderPaidInFull ==
    ASSUME TypeOK, TotalsInv, NEW h \in Holders, NEW quantity \in Nat,
           PayHolder(h, quantity), now < WindowEnd
    PROVE  vault'.collateral_remaining = vault.collateral_remaining
                - quantity * PayoutPerContract(vault.settlement_price)
  <1> DEFINE each == PayoutPerContract(vault.settlement_price)
             owed == quantity * each
  <1>1. each \in Nat /\ vault.collateral_remaining \in Nat
    BY VaultTypes, PayoutNat
  <1>2. quantity <= TotalHeld /\ TotalHeld \in Nat
    BY TotalsNat DEF PayHolder, TypeOK
  <1>3. TotalHeld * each <= vault.collateral_remaining
    BY DEF PayHolder, TotalsInv, HoldersCoveredInWindow
  <1>4. vault'.collateral_remaining = vault.collateral_remaining
            - AtMost(owed, vault.collateral_remaining)
    BY DEF PayHolder, TypeOK, VaultRecord
  <1> HIDE DEF each
  <1>5. owed <= TotalHeld * each /\ owed \in Nat /\ TotalHeld * each \in Nat
    BY <1>1, <1>2, ProductMonotone
  <1> HIDE DEF owed
  <1>6. AtMost(owed, vault.collateral_remaining) = owed
    BY <1>1, <1>3, <1>5 DEF AtMost
  <1>7. QED
    BY <1>4, <1>6 DEF owed, each

LEMMA TotalsInvPayHolder ==
    ASSUME TypeOK, TypeOK', AccountsInv, TotalsInv,
           NEW h \in Holders, NEW quantity \in Nat, PayHolder(h, quantity)
    PROVE  TotalsInv'
  <1> DEFINE each == PayoutPerContract(vault.settlement_price)
  <1>1. /\ vault'.total_shares = vault.total_shares
        /\ vault'.total_collateral = vault.total_collateral
        /\ vault'.total_options_sold = vault.total_options_sold
        /\ vault'.is_settled = vault.is_settled /\ vault'.voided = vault.voided
        /\ vault'.settlement_price = vault.settlement_price
        /\ UNCHANGED <<now, position>>
    BY DEF PayHolder, TypeOK, VaultRecord
  <1>2. TotalShares' = TotalShares
    BY <1>1 DEF TotalShares
  <1>3. /\ holding'[h] = holding[h] - quantity /\ holding[h] \in Nat
        /\ \A x \in Holders \ {h} : holding'[x] = holding[x]
        /\ quantity <= holding[h]
    BY DEF PayHolder, TypeOK
  <1>4. TotalHeld \in Nat /\ TotalHeld' = TotalHeld - quantity
    BY <1>3, TotalsNat, HeldChange
  <1>5. /\ vault.settlement_price \in Nat /\ each \in Nat
        /\ vault.collateral_remaining \in Nat /\ vault'.collateral_remaining \in Nat
    BY VaultTypes, PayoutNat DEF TypeOK, VaultRecord
  <1>6. vault'.collateral_remaining <= vault.collateral_remaining
    <2> DEFINE owed == quantity * each
    <2>1. owed \in Nat
      BY <1>5
    <2>2. vault'.collateral_remaining = vault.collateral_remaining
              - AtMost(owed, vault.collateral_remaining)
      BY DEF PayHolder, TypeOK, VaultRecord
    <2> HIDE DEF owed, each
    <2>3. AtMost(owed, vault.collateral_remaining) \in Nat
      BY <1>5, <2>1 DEF AtMost
    <2>4. QED
      BY <1>5, <2>2, <2>3
  <1>7. HoldersCoveredInWindow'
    <2>1. SUFFICES ASSUME vault.is_settled, now < WindowEnd
                   PROVE  (TotalHeld - quantity) * each <= vault'.collateral_remaining
      BY <1>1, <1>4 DEF HoldersCoveredInWindow, WindowEnd, PayoutPerContract, Cpc
    <2>2. TotalHeld * each <= vault.collateral_remaining
      BY <2>1 DEF TotalsInv, HoldersCoveredInWindow
    <2>3. vault'.collateral_remaining = vault.collateral_remaining - quantity * each
      BY <2>1, HolderPaidInFull
    <2> HIDE DEF each
    <2>4. (TotalHeld - quantity) * each = TotalHeld * each - quantity * each
      BY <1>4, <1>5
    <2>5. TotalHeld * each \in Nat /\ quantity * each \in Nat
      BY <1>4, <1>5
    <2>6. QED
      BY <1>5, <2>2, <2>3, <2>4, <2>5
  <1>8. ~Unresolved /\ ~Unresolved'
    BY <1>1 DEF PayHolder, Unresolved
  <1>9. QED
    BY <1>1, <1>2, <1>4, <1>5, <1>6, <1>7, <1>8, VaultTypes DEF TotalsInv

LEMMA TotalsInvResolve ==
    ASSUME TypeOK, TypeOK', AccountsInv, NoPot, TotalsInv, SettleVault \/ InitializeVoid
    PROVE  TotalsInv'
  <1>1. Unresolved
    BY DEF SettleVault, SettleVaultSweeping, InitializeVoid, InitializeVoidSweeping,
           AccountsInv, Unresolved
  <1>2. vault.early_exercise_payout = 0 /\ EquivShares(0) = 0
    BY DEF NoPot, EquivShares
  <1>3. /\ vault'.total_shares = vault.total_shares
        /\ vault'.total_collateral = vault.total_collateral
        /\ vault'.total_options_sold = vault.total_options_sold
        /\ vault'.collateral_remaining = vault.total_collateral
    <2>1. /\ vault.total_collateral + 0 = vault.total_collateral
          /\ vault.total_shares + 0 = vault.total_shares
          /\ vault.total_collateral - 0 = vault.total_collateral
          /\ SatSub(vault.total_collateral, 0) = vault.total_collateral
      BY VaultTypes DEF SatSub
    <2>2. CASE SettleVault
      BY <1>2, <2>1, <2>2 DEF SettleVault, SettleVaultSweeping, TypeOK, VaultRecord
    <2>3. CASE InitializeVoid
      BY <1>2, <2>1, <2>3 DEF InitializeVoid, InitializeVoidSweeping, TypeOK, VaultRecord
    <2>4. QED
      BY <2>2, <2>3
  <1>4. ~Unresolved'
    <2>1. CASE SettleVault
      BY <2>1 DEF SettleVault, SettleVaultSweeping, TypeOK, VaultRecord, Unresolved
    <2>2. CASE InitializeVoid
      BY <2>2 DEF InitializeVoid, InitializeVoidSweeping, TypeOK, VaultRecord, Unresolved
    <2>3. QED
      BY <2>1, <2>2
  <1>5. TotalShares' = TotalShares /\ TotalHeld' = TotalHeld
    BY DEF SettleVault, SettleVaultSweeping, InitializeVoid, InitializeVoidSweeping,
           TotalShares, TotalHeld
  <1>6. vault'.settlement_price \in Nat
    BY DEF TypeOK, VaultRecord
  <1>7. TotalHeld * PayoutPerContract(vault'.settlement_price)
            <= vault'.collateral_remaining
    <2> DEFINE each == PayoutPerContract(vault'.settlement_price)
    <2>1. each \in Nat /\ each <= Cpc
      BY <1>6, PayoutNat
    <2> HIDE DEF each
    <2>2. /\ TotalHeld \in Nat /\ TotalEscrowed \in Nat
          /\ vault.total_options_minted \in Nat /\ vault.total_collateral \in Nat
      BY TotalsNat, VaultTypes
    <2>3. TotalHeld <= vault.total_options_minted
      BY <1>1, <2>2 DEF TotalsInv
    <2>4. TotalHeld * each <= vault.total_options_minted * Cpc
      BY <2>1, <2>2, <2>3, ConstantsFacts, ProductMonotone
    <2>5. Total(Unencumbered) \in Nat
      <3>1. ASSUME NEW x \in Writers
            PROVE  position[x].shares - position[x].options_minted * Cpc \in Nat
        <4>1. position[x].shares \in Nat /\ position[x].options_minted * Cpc \in Nat
          BY ConstantsFacts DEF TypeOK, PositionRecord
        <4>2. position[x].options_minted * Cpc <= position[x].shares
          BY <1>1 DEF AccountsInv, WritersBackTheirMints
        <4>3. QED
          BY <4>1, <4>2
      <3>2. Unencumbered \in [Writers -> Nat]
        BY <3>1 DEF Unencumbered
      <3>3. QED
        BY <3>2, AccountsFinite, UnitsFinite
    <2>6. vault.total_options_minted * Cpc + Total(Unencumbered) = vault.total_collateral
      BY <1>1 DEF TotalsInv
    <2>7. vault.total_options_minted * Cpc \in Nat /\ TotalHeld * each \in Nat
      BY <2>1, <2>2, ConstantsFacts
    <2>8. QED
      BY <1>3, <2>2, <2>4, <2>5, <2>6, <2>7 DEF each
  <1>8. HoldersCoveredInWindow'
    BY <1>5, <1>7 DEF HoldersCoveredInWindow, PayoutPerContract, Cpc
  <1>9. QED
    BY <1>3, <1>4, <1>5, <1>8, VaultTypes DEF TotalsInv

LEMMA TotalsInvStep ==
    TypeOK /\ TypeOK' /\ AccountsInv /\ AccountsInv' /\ NoPot /\ TotalsInv /\ [Next]_vars
        => TotalsInv'
  <1> SUFFICES ASSUME TypeOK, TypeOK', AccountsInv, AccountsInv', NoPot, TotalsInv,
                      [Next]_vars
               PROVE  TotalsInv'
    OBVIOUS
  <1>0. now \in Nat
    BY DEF TypeOK
  <1>1. CASE Tick
    <2>1. now <= now' /\ now' \in Nat /\ UNCHANGED <<vault, position, mint, holding>>
      BY <1>0, <1>1 DEF Tick
    <2>2. QED
      BY <2>1, TotalsInvFrame
  <1>2. ASSUME NEW w \in Writers, WriterNext(w) PROVE TotalsInv'
    <2>1. ASSUME ClaimPremium(w) PROVE TotalsInv'
      <3>1. \A x \in Writers :
               /\ position'[x].shares = position[x].shares
               /\ position'[x].options_minted = position[x].options_minted
        BY <2>1 DEF ClaimPremium, TypeOK, PositionRecord
      <3>2. UNCHANGED <<now, vault, mint, holding>>
        BY <2>1 DEF ClaimPremium
      <3>3. QED
        BY <1>0, <3>1, <3>2, TotalsInvFrame
    <2>2. ASSUME WithdrawPostSettlement(w) PROVE TotalsInv'
      <3>1. ResidualClaim(w) \in Nat
        BY <2>2, ClaimsNat, VaultTypes DEF WithdrawPostSettlement
      <3>2. /\ position'[w].shares = 0
            /\ \A x \in Writers \ {w} : position'[x] = position[x]
        BY <2>2 DEF WithdrawPostSettlement, TypeOK, EmptyPosition
      <3>3. /\ ~Unresolved /\ WriterExit(w, ResidualClaim(w)) /\ WriterWindowOpen
            /\ holding' = holding /\ now' = now
        BY <2>2 DEF WithdrawPostSettlement, Unresolved
      <3>4. QED
        BY <3>1, <3>2, <3>3, TotalsInvExit
    <2>3. ASSUME AutoFinalizeWriters(w) PROVE TotalsInv'
      <3>1. FinalClaim(w) \in Nat
        BY ClaimsNat
      <3>2. /\ position'[w].shares = 0
            /\ \A x \in Writers \ {w} : position'[x] = position[x]
        BY <2>3 DEF AutoFinalizeWriters, TypeOK, EmptyPosition
      <3>3. /\ ~Unresolved /\ WriterExit(w, FinalClaim(w)) /\ WriterWindowOpen
            /\ holding' = holding /\ now' = now
        BY <2>3 DEF AutoFinalizeWriters, Unresolved
      <3>4. QED
        BY <3>1, <3>2, <3>3, TotalsInvExit
    <2>4. ASSUME ReclaimUnsettled(w) PROVE TotalsInv'
      <3>1. ResidualClaim(w) \in Nat
        BY <2>4, ClaimsNat, VaultTypes DEF ReclaimUnsettled
      <3>2. /\ position'[w].shares = 0
            /\ \A x \in Writers \ {w} : position'[x] = position[x]
        BY <2>4 DEF ReclaimUnsettled, TypeOK, PositionRecord
      <3>3. /\ ~Unresolved /\ WriterExit(w, ResidualClaim(w)) /\ ~vault.is_settled
            /\ holding' = holding /\ now' = now
        BY <2>4 DEF ReclaimUnsettled, Unresolved, AccountsInv, ResolvedOneWay
      <3>4. QED
        BY <3>1, <3>2, <3>3, TotalsInvExit
    <2>5. QED
      BY <1>2, <2>1, <2>2, <2>3, <2>4, TotalsInvCreation, TotalsInvDeposit,
         TotalsInvMint, TotalsInvBurn, TotalsInvWithdraw DEF WriterNext
  <1>3. ASSUME NEW h \in Holders, HolderNext(h) PROVE TotalsInv'
    <2>1. ASSUME NEW quantity \in Quantities, ExerciseFromVault(h, quantity)
          PROVE  TotalsInv'
      BY <2>1, InputsAssumption, TotalsInvPayHolder DEF ExerciseFromVault
    <2>2. ASSUME AutoFinalizeHolders(h) PROVE TotalsInv'
      BY <2>2, TotalsInvPayHolder DEF AutoFinalizeHolders, TypeOK
    <2>3. QED
      BY <1>3, <2>1, <2>2, TotalsInvPurchase DEF HolderNext
  <1>4. ASSUME NEW price \in Prices, SettleExpiry(price) PROVE TotalsInv'
    BY <1>0, <1>4, TotalsInvFrame DEF SettleExpiry
  <1>5. CASE AutoFinalizeNoWriters \/ CloseSettledWriterAskVault
    BY <1>0, <1>5, TotalsInvFrame DEF AutoFinalizeNoWriters, CloseSettledWriterAskVault
  <1>6. CASE SettleVault \/ InitializeVoid
    BY <1>6, TotalsInvResolve
  <1>7. CASE UNCHANGED vars
    BY <1>0, <1>7, TotalsInvFrame DEF vars
  <1>8. QED
    BY <1>1, <1>2, <1>3, <1>4, <1>5, <1>6, <1>7 DEF Next, PoolNext

LEMMA TotalsInvariant == Spec => []TotalsInv
  BY TypeCorrect, AccountsInvariant, NoPotInvariant, TotalsInvInit, TotalsInvStep, PTL
     DEF Spec

-----------------------------------------------------------------------------
(* The theorems about the vault as a whole. *)

\* The vault's counters are the totals of the accounts they summarise.
THEOREM CountersAreTotals == Spec => []CountersMatchAccounts
  <1>1. TotalsInv => CountersMatchAccounts
    BY DEF TotalsInv, CountersMatchAccounts
  <1>2. QED
    BY <1>1, TotalsInvariant, PTL

\* While the exercise window is open, every outstanding token can be paid in
\* full: no exit, rounding or other holder takes from it.
THEOREM HoldersCovered == Spec => []HoldersCoveredInWindow
  <1>1. TotalsInv => HoldersCoveredInWindow
    BY DEF TotalsInv
  <1>2. QED
    BY <1>1, TotalsInvariant, PTL

\* The checked subtractions of a writer's exit cannot underflow.
THEOREM ExitsAreCovered == Spec => []ExitsNeverUnderflow
  <1>1. TypeOK /\ TotalsInv => ExitsNeverUnderflow
    <2> SUFFICES ASSUME TypeOK, TotalsInv, ~Unresolved,
                        NEW w \in Writers, position[w].shares > 0
                 PROVE  /\ position[w].shares <= vault.total_shares
                        /\ ResidualClaim(w) <= vault.collateral_remaining
                        /\ ResidualClaim(w) <= vault.total_collateral
      BY DEF ExitsNeverUnderflow
    <2>1. /\ position[w].shares <= vault.total_shares
          /\ vault.collateral_remaining <= vault.total_collateral
      BY TotalsNat DEF TotalsInv
    <2>2. /\ position[w].shares \in Nat /\ vault.total_shares \in Nat \ {0}
          /\ vault.collateral_remaining \in Nat /\ vault.total_collateral \in Nat
      BY <2>1, VaultTypes DEF TypeOK, PositionRecord
    <2>3. MulDiv(position[w].shares, vault.collateral_remaining, vault.total_shares)
              <= vault.collateral_remaining
      BY <2>1, <2>2, MulDivAtMost, Zenon
    <2>4. ResidualClaim(w) \in Nat
      BY <2>2, ClaimsNat
    <2>5. QED
      BY <2>1, <2>2, <2>3, <2>4 DEF ResidualClaim
  <1>2. QED
    BY <1>1, TypeCorrect, TotalsInvariant, PTL

\* The vault's account is closed only when no writer has a claim on it.
THEOREM ClosedVaultOwesNoWriter == Spec => []ClosedOwesNoWriter
  <1>1. TypeOK /\ AccountsInv /\ TotalsInv => ClosedOwesNoWriter
    <2> SUFFICES ASSUME TypeOK, AccountsInv, TotalsInv, vault.created, ~usdc_open,
                        NEW w \in Writers
                 PROVE  position[w].shares = 0 /\ UnclaimedPremium(w) = 0
      BY DEF ClosedOwesNoWriter
    <2>1. vault.total_shares = 0 /\ position[w].shares <= TotalShares
      BY TotalsNat DEF AccountsInv
    <2>2. position[w].shares = 0
      BY <2>1 DEF TypeOK, PositionRecord, TotalsInv
    <2>3. EarnedPremium(w) <= 0 /\ EarnedPremium(w) \in Nat
      <3>1. 0 <= Scale /\ 0 \in Nat
        BY ScaleNat
      <3>2. MulDiv(0, vault.premium_per_share_cumulative, Scale) \in Nat
        BY <3>1, ScaleNat, VaultTypes, MulDivNat
      <3>3. MulDiv(vault.premium_per_share_cumulative, 0, Scale) \in Nat
        BY <3>1, ScaleNat, VaultTypes, MulDivNat
      <3>4. 0 * vault.premium_per_share_cumulative = 0
        BY VaultTypes
      <3>5. 0 \div Scale = 0
        BY ScaleNat, QuotientUnique
      <3>6. QED
        BY <2>2, <3>4, <3>5 DEF EarnedPremium, MulDiv
    <2>4. position[w].premium_debt \in Nat /\ position[w].premium_claimed \in Nat
      BY DEF TypeOK, PositionRecord
    <2>5. UnclaimedPremium(w) = 0
      BY <2>3, <2>4 DEF UnclaimedPremium, SatSub
    <2>6. QED
      BY <2>2, <2>5
  <1>2. QED
    BY <1>1, TypeCorrect, AccountsInvariant, TotalsInvariant, PTL

\* While the window is open a burn takes exactly its payout from the residual,
\* and nothing else takes anything.
THEOREM WindowPaysExactly == Spec => WindowPaysHoldersExactly
  <1> DEFINE Exact ==
        (vault.is_settled /\ vault.total_options_sold > 0 /\ now < WindowEnd)
          => vault.collateral_remaining - vault'.collateral_remaining =
               (TotalHeld - TotalHeld') * PayoutPerContract(vault.settlement_price)
  <1>1. TypeOK /\ TypeOK' /\ AccountsInv /\ TotalsInv /\ [Next]_vars => Exact
    <2> SUFFICES ASSUME TypeOK, TypeOK', AccountsInv, TotalsInv, [Next]_vars,
                        vault.is_settled, vault.total_options_sold > 0, now < WindowEnd
                 PROVE  vault.collateral_remaining - vault'.collateral_remaining =
                          (TotalHeld - TotalHeld')
                              * PayoutPerContract(vault.settlement_price)
      OBVIOUS
    <2> DEFINE each == PayoutPerContract(vault.settlement_price)
    <2>1. /\ each \in Nat /\ vault.collateral_remaining \in Nat /\ TotalHeld \in Nat
          /\ now \in Nat
      BY VaultTypes, PayoutNat, TotalsNat DEF TypeOK
    <2>2. /\ ~vault.voided /\ vault.created /\ settlement_record # NoPrice
          /\ ~WriterWindowOpen
      BY <2>1, ConstantsFacts DEF AccountsInv, ResolvedOneWay, WriterWindowOpen, EmptyVault
    <2>3. ASSUME vault'.collateral_remaining = vault.collateral_remaining,
                 holding' = holding
          PROVE  Exact
      <3>1. TotalHeld' = TotalHeld
        BY <2>3 DEF TotalHeld
      <3> HIDE DEF each
      <3>2. (TotalHeld - TotalHeld) * each = 0
        BY <2>1
      <3>3. vault.collateral_remaining - vault'.collateral_remaining = 0
        BY <2>1, <2>3
      <3>4. QED
        BY <3>1, <3>2, <3>3 DEF each
    <2>4. ASSUME NEW h \in Holders, NEW quantity \in Nat, PayHolder(h, quantity)
          PROVE  Exact
      <3>1. vault'.collateral_remaining = vault.collateral_remaining - quantity * each
        BY <2>4, HolderPaidInFull
      <3>2. /\ holding'[h] = holding[h] - quantity /\ holding[h] \in Nat
            /\ \A x \in Holders \ {h} : holding'[x] = holding[x]
        BY <2>4 DEF PayHolder, TypeOK
      <3>3. TotalHeld' = TotalHeld - quantity
        BY <2>1, <3>2, HeldChange
      <3> HIDE DEF each
      <3>4. /\ TotalHeld - TotalHeld' = quantity
            /\ vault.collateral_remaining - vault'.collateral_remaining = quantity * each
        BY <2>1, <3>1, <3>3
      <3>5. QED
        BY <3>4 DEF each
    <2>5. \/ \E h \in Holders, quantity \in Nat : PayHolder(h, quantity)
          \/ vault'.collateral_remaining = vault.collateral_remaining /\ holding' = holding
      <3>1. ASSUME NEW w \in Writers, WriterNext(w)
            PROVE  vault'.collateral_remaining = vault.collateral_remaining
                      /\ holding' = holding
        BY <2>2, <3>1
           DEF WriterNext, CreateSharedVault, CreateAndDeposit, DepositToVault, Live,
               MintFromVault, BurnUnsoldFromVault, WithdrawFromVault, ClaimPremium,
               WithdrawPostSettlement, AutoFinalizeWriters, ReclaimUnsettled,
               TypeOK, VaultRecord
      <3>2. ASSUME NEW h \in Holders, HolderNext(h)
            PROVE  \E quantity \in Nat : PayHolder(h, quantity)
        BY <3>2, InputsAssumption
           DEF HolderNext, PurchaseFromVault, Live, ExerciseFromVault,
               AutoFinalizeHolders, TypeOK
      <3>3. ~SettleVault /\ ~InitializeVoid
        BY <2>2 DEF SettleVault, SettleVaultSweeping, InitializeVoid,
                    InitializeVoidSweeping
      <3>4. QED
        BY <3>1, <3>2, <3>3
           DEF Next, PoolNext, Tick, SettleExpiry, AutoFinalizeNoWriters,
               CloseSettledWriterAskVault, vars
    <2>6. QED
      BY <2>3, <2>4, <2>5
  <1>2. QED
    BY <1>1, TypeCorrect, AccountsInvariant, TotalsInvariant, PTL
       DEF Spec, WindowPaysHoldersExactly

-----------------------------------------------------------------------------
(* Solvency: what the vault's USDC leaves over what it owes.                  *)

\* A saturating difference moves by no more than its arguments do.
LEMMA SatSubMoves ==
    ASSUME NEW x \in Nat, NEW y \in Nat, NEW a \in Nat, NEW b \in Nat, b <= a
    PROVE  SatSub(x + a, y + b) <= SatSub(x, y) + (a - b)
  BY DEF SatSub

\* What a floor drops: less than the divisor, and nothing if it divides.
LEMMA DroppedByFloor ==
    ASSUME NEW n \in Nat, NEW c \in Nat \ {0}
    PROVE  /\ c * (n \div c) \in Nat /\ c * (n \div c) <= n
           /\ n - c * (n \div c) <= IF n % c = 0 THEN 0 ELSE c
  <1>1. /\ n \div c \in Nat /\ n % c \in 0..(c - 1)
        /\ n = c * (n \div c) + (n % c)
    OBVIOUS
  <1> DEFINE d == n \div c
  <1> HIDE DEF d
  <1>2. c * d \in Nat
    BY <1>1 DEF d
  <1>3. QED
    BY <1>1, <1>2 DEF d

\* What premium a writer is still entitled to, in units of 1 / Scale: the floor
\* of the accumulated premium is not taken yet.
Entitlement(w) ==
    SatSub(position[w].shares * vault.premium_per_share_cumulative,
           Scale * (position[w].premium_debt + position[w].premium_claimed))

Entitlements == [w \in Writers |-> Entitlement(w)]

\* Early exercises are paid from the vault before they are taken off its books.
Owed ==
    IF Unresolved THEN vault.total_collateral - vault.early_exercise_payout
    ELSE vault.collateral_remaining

Funds == vault_usdc + roundings - Owed

Surplus == Scale * Funds - Total(Entitlements)

LEMMA FundsTypes ==
    ASSUME TypeOK
    PROVE  /\ Owed \in Int /\ Funds \in Int
           /\ vault_usdc \in Nat /\ roundings \in Nat
           /\ vault.early_exercise_payout \in Nat
  BY DEF TypeOK, VaultRecord, Owed, Funds

LEMMA EntitlementTypes ==
    ASSUME TypeOK
    PROVE  /\ Entitlements \in [Writers -> Nat]
           /\ Total(Entitlements) \in Nat
           /\ Surplus \in Int
           /\ \A w \in Writers : /\ Entitlements[w] = Entitlement(w)
                                 /\ Entitlement(w) \in Nat
                                 /\ Scale * UnclaimedPremium(w) <= Entitlement(w)
  <1>1. ASSUME NEW w \in Writers
        PROVE  /\ Entitlement(w) \in Nat
               /\ Scale * UnclaimedPremium(w) <= Entitlement(w)
    <2> DEFINE n == position[w].shares * vault.premium_per_share_cumulative
               p == position[w].premium_debt + position[w].premium_claimed
    <2>1. /\ position[w].shares \in Nat
          /\ position[w].premium_debt \in Nat /\ position[w].premium_claimed \in Nat
          /\ vault.premium_per_share_cumulative \in Nat
      BY DEF TypeOK, VaultRecord, PositionRecord
    <2>2. n \in Nat /\ p \in Nat
      BY <2>1
    <2> DEFINE e == n \div Scale
    <2>3. e \in Nat /\ Scale * e <= n
      BY <2>2, ScaleNat, QuotientBounds
    <2>4. UnclaimedPremium(w) = SatSub(e, p)
      BY <2>1, <2>3 DEF UnclaimedPremium, EarnedPremium, MulDiv, SatSub
    <2>5. Entitlement(w) = SatSub(n, Scale * p)
      BY DEF Entitlement
    <2> HIDE DEF n, p, e
    <2>6. Scale * p \in Nat /\ Scale * e \in Nat
      BY <2>2, <2>3, ScaleNat
    <2>7. CASE e >= p
      <3>1. Scale * (e - p) = Scale * e - Scale * p
        BY <2>2, <2>3, ScaleNat
      <3>2. Scale * p <= Scale * e
        BY <2>2, <2>3, <2>7, ScaleNat
      <3>3. QED
        BY <2>2, <2>3, <2>4, <2>5, <2>6, <2>7, <3>1, <3>2 DEF SatSub
    <2>8. CASE ~(e >= p)
      BY <2>2, <2>3, <2>4, <2>5, <2>6, <2>8, ScaleNat DEF SatSub
    <2>9. QED
      BY <2>7, <2>8
  <1>2. Entitlements \in [Writers -> Nat]
    BY <1>1 DEF Entitlements
  <1>3. Total(Entitlements) \in Nat
    BY <1>2, AccountsFinite, UnitsFinite
  <1>4. Surplus \in Int
    BY <1>3, ScaleNat, FundsTypes DEF Surplus
  <1>5. QED
    BY <1>1, <1>2, <1>3, <1>4 DEF Entitlements

\* One writer's entitlement changes.
LEMMA EntitlementChange ==
    ASSUME TypeOK, TypeOK', NEW w \in Writers,
           vault'.premium_per_share_cumulative = vault.premium_per_share_cumulative,
           \A x \in Writers \ {w} : position'[x] = position[x]
    PROVE  Total(Entitlements') = Total(Entitlements) - Entitlement(w) + Entitlement(w)'
  <1>1. Entitlements \in [Writers -> Nat] /\ Entitlements' \in [Writers -> Nat]
    <2>1. (TypeOK => Entitlements \in [Writers -> Nat])'
      BY EntitlementTypes, PTL
    <2>2. QED
      BY <2>1, EntitlementTypes
  <1>2. \A x \in Writers \ {w} : Entitlements'[x] = Entitlements[x]
    BY DEF Entitlements, Entitlement
  <1>3. Total(Entitlements') = Total(Entitlements) - Entitlements[w] + Entitlements'[w]
    BY <1>1, <1>2, AccountsFinite, TotalChange
  <1>4. QED
    BY <1>3 DEF Entitlements

\* The accumulator grows while no position changes.
LEMMA EntitlementGrowth ==
    ASSUME TypeOK, TypeOK', NEW growth \in Nat, position' = position,
           vault'.premium_per_share_cumulative
               = vault.premium_per_share_cumulative + growth
    PROVE  Total(Entitlements') <= Total(Entitlements) + growth * TotalShares
  <1> DEFINE gains == [w \in Writers |-> growth * position[w].shares]
             bounds == [w \in Writers |-> Entitlement(w) + growth * position[w].shares]
  <1>1. /\ Entitlements \in [Writers -> Nat] /\ Entitlements' \in [Writers -> Nat]
        /\ \A w \in Writers : Entitlement(w) \in Nat /\ Entitlement(w)' \in Nat
    <2>1. (TypeOK => Entitlements \in [Writers -> Nat])'
      BY EntitlementTypes, PTL
    <2>2. \A w \in Writers : Entitlements'[w] = Entitlement(w)'
      BY DEF Entitlements
    <2>3. \A w \in Writers : Entitlements'[w] \in Nat
      BY <2>1
    <2>4. QED
      BY <2>1, <2>2, <2>3, EntitlementTypes
  <1>2. \A w \in Writers : /\ position[w].shares \in Nat
                           /\ growth * position[w].shares \in Nat
    BY DEF TypeOK, PositionRecord
  <1>3. gains \in [Writers -> Nat] /\ bounds \in [Writers -> Nat]
    BY <1>1, <1>2
  <1>4. ASSUME NEW w \in Writers
        PROVE  Entitlement(w)' <= Entitlement(w) + growth * position[w].shares
    <2> DEFINE s == position[w].shares
               a == vault.premium_per_share_cumulative
               p == Scale * (position[w].premium_debt + position[w].premium_claimed)
    <2>1. s \in Nat /\ a \in Nat /\ p \in Nat
      BY ScaleNat DEF TypeOK, PositionRecord, VaultRecord
    <2>2. Entitlement(w)' = SatSub(s * (a + growth), p) /\ Entitlement(w) = SatSub(s * a, p)
      BY DEF Entitlement
    <2> HIDE DEF s, a, p
    <2>3. /\ s * (a + growth) = s * a + growth * s
          /\ s * a \in Nat /\ growth * s \in Nat
      BY <2>1
    <2> DEFINE n == s * a
               gain == growth * s
    <2>4. n \in Nat /\ gain \in Nat
      BY <2>3
    <2>5. Entitlement(w)' = SatSub(n + gain, p) /\ Entitlement(w) = SatSub(n, p)
      BY <2>2, <2>3
    <2> HIDE DEF n, gain
    <2>6. SatSub(n + gain, p) <= SatSub(n, p) + gain
      BY <2>1, <2>4 DEF SatSub
    <2>7. QED
      BY <2>5, <2>6 DEF s, gain
  <1>5. Total(Entitlements') <= Total(bounds)
    <2>1. \A w \in Writers : Entitlements'[w] <= bounds[w]
      BY <1>4 DEF Entitlements
    <2> HIDE DEF bounds
    <2>2. QED
      BY <1>1, <1>3, <2>1, AccountsFinite, TotalMonotone
  <1>6. Total(bounds) = Total(Entitlements) + Total(gains)
    <2>1. \A w \in Writers : bounds[w] = Entitlements[w] + gains[w]
      BY DEF Entitlements
    <2> HIDE DEF bounds, gains
    <2>2. QED
      BY <1>1, <1>3, <2>1, AccountsFinite, TotalPlus
  <1>7. Total(gains) = growth * TotalShares
    <2>1. \A w \in Writers : gains[w] = growth * Shares[w]
      BY DEF Shares
    <2>2. CASE growth = 0
      <3>1. gains \in [Writers -> {0}]
        BY <1>2, <2>2
      <3> HIDE DEF gains
      <3>2. Total(gains) = 0
        BY <3>1, TotalOfZeros
      <3>3. QED
        BY <2>2, <3>2, TotalsNat
    <2>3. CASE growth # 0
      <3> HIDE DEF gains
      <3>1. growth \in Nat \ {0} /\ Shares \in [Writers -> Nat]
        BY <2>3, FunctionTypes
      <3>2. Total(gains) = growth * Total(Shares)
        BY <1>3, <2>1, <3>1, AccountsFinite, TotalTimes
      <3>3. QED
        BY <3>2, FunctionTypes
    <2>4. QED
      BY <2>2, <2>3
  <1> HIDE DEF gains, bounds
  <1>8. QED
    BY <1>5, <1>6, <1>7

\* The surplus does not shrink if entitlements grow by no more than the funds.
LEMMA SurplusKept ==
    ASSUME TypeOK, TypeOK', NEW d \in Int, Funds' = Funds + d,
           Total(Entitlements') <= Total(Entitlements) + Scale * d
    PROVE  Surplus' >= Surplus
  <1>1. Funds \in Int /\ Total(Entitlements) \in Nat /\ Scale \in Nat
    BY ScaleNat, FundsTypes, EntitlementTypes
  <1>2. Total(Entitlements') \in Nat
    <2>1. (TypeOK => Total(Entitlements) \in Nat)'
      BY EntitlementTypes, PTL
    <2>2. QED
      BY <2>1
  <1>3. /\ Scale * (Funds + d) = Scale * Funds + Scale * d
        /\ Scale * Funds \in Int /\ Scale * d \in Int
    BY <1>1
  <1>4. QED
    BY <1>1, <1>2, <1>3 DEF Surplus

\* Nobody's entitlement changes.
LEMMA SurplusSame ==
    ASSUME TypeOK, TypeOK', Funds' = Funds,
           vault'.premium_per_share_cumulative = vault.premium_per_share_cumulative,
           \A w \in Writers :
              /\ position'[w].shares = position[w].shares
              /\ position'[w].premium_debt = position[w].premium_debt
              /\ position'[w].premium_claimed = position[w].premium_claimed
    PROVE  Surplus' = Surplus
  <1>1. Entitlements' = Entitlements
    BY DEF Entitlements, Entitlement
  <1>2. QED
    BY <1>1 DEF Surplus

\* One writer's entitlement changes.
LEMMA SurplusOfOne ==
    ASSUME TypeOK, TypeOK', NEW w \in Writers, NEW d \in Int, Funds' = Funds + d,
           vault'.premium_per_share_cumulative = vault.premium_per_share_cumulative,
           \A x \in Writers \ {w} : position'[x] = position[x],
           Entitlement(w)' \in Int,
           Entitlement(w)' <= Entitlement(w) + Scale * d
    PROVE  Surplus' >= Surplus
  <1>1. Total(Entitlements') = Total(Entitlements) - Entitlement(w) + Entitlement(w)'
    BY EntitlementChange
  <1>2. Total(Entitlements) \in Nat /\ Entitlement(w) \in Nat /\ Scale * d \in Int
    BY EntitlementTypes, ScaleNat
  <1>3. Total(Entitlements') <= Total(Entitlements) + Scale * d
    BY <1>1, <1>2
  <1>4. QED
    BY <1>3, SurplusKept

\* A checkpoint that drops a fraction of a unit is counted as a rounding.
LEMMA CheckpointDrops ==
    ASSUME TypeOK, NEW shares \in Nat
    PROVE  LET n == shares * vault.premium_per_share_cumulative
               debt == MulDiv(shares, vault.premium_per_share_cumulative, Scale)
           IN  /\ n \in Nat /\ debt \in Nat /\ Scale * debt \in Nat
               /\ Scale * debt <= n
               /\ n - Scale * debt <= Scale * DroppedFraction(shares)
               /\ DroppedFraction(shares) \in Nat
  <1> DEFINE n == shares * vault.premium_per_share_cumulative
  <1>1. n \in Nat
    BY VaultTypes
  <1>2. /\ MulDiv(shares, vault.premium_per_share_cumulative, Scale) = n \div Scale
        /\ DroppedFraction(shares) = IF n % Scale = 0 THEN 0 ELSE 1
    BY DEF MulDiv, DroppedFraction
  <1> HIDE DEF n
  <1>3. n \div Scale \in Nat
    BY <1>1, ScaleNat, QuotientBounds
  <1>4. /\ Scale * (n \div Scale) \in Nat /\ Scale * (n \div Scale) <= n
        /\ n - Scale * (n \div Scale) <= IF n % Scale = 0 THEN 0 ELSE Scale
    BY <1>1, ScaleNat, DroppedByFloor
  <1>5. Scale * DroppedFraction(shares) = IF n % Scale = 0 THEN 0 ELSE Scale
    BY <1>2, ScaleNat
  <1>6. QED
    BY <1>1, <1>2, <1>3, <1>4, <1>5 DEF n

LEMMA SurplusCredit ==
    ASSUME TypeOK, TypeOK', NEW w \in Writers, NEW amount \in Nat, NEW shares \in Nat,
           Credit(w, amount, shares), Owed' = Owed + amount,
           vault'.premium_per_share_cumulative = vault.premium_per_share_cumulative
    PROVE  Surplus' >= Surplus
  <1> DEFINE a == vault.premium_per_share_cumulative
             debt == MulDiv(shares, a, Scale)
             base == PositionToCredit(w)
             d == DroppedFraction(shares)
  <1>1. base \in PositionRecord
    BY DEF TypeOK, PositionToCredit, PositionRecord, EmptyPosition
  <1>2. /\ shares * a \in Nat /\ debt \in Nat /\ Scale * debt \in Nat
        /\ Scale * debt <= shares * a
        /\ shares * a - Scale * debt <= Scale * d
        /\ d \in Nat
    BY CheckpointDrops
  <1>3. Funds' = Funds + d
    <2>1. vault_usdc' = vault_usdc + amount /\ roundings' = roundings + d
      BY DEF Credit
    <2> HIDE DEF d
    <2>2. QED
      BY <1>2, <2>1, FundsTypes DEF Funds
  <1>4. /\ position'[w].shares = base.shares + shares
        /\ position'[w].premium_debt = base.premium_debt + debt
        /\ position'[w].premium_claimed = base.premium_claimed
        /\ \A x \in Writers \ {w} : position'[x] = position[x]
    <2> HIDE DEF debt, base
    <2>1. position' = [position EXCEPT ![w] =
             [base EXCEPT !.shares = @ + shares,
                          !.deposited_collateral = @ + amount,
                          !.premium_debt = @ + debt]]
      BY DEF Credit, debt, base
    <2>2. QED
      BY <1>1, <2>1 DEF TypeOK, PositionRecord
  <1>5. /\ base.shares \in Nat /\ base.premium_debt \in Nat /\ base.premium_claimed \in Nat
        /\ a \in Nat
    BY <1>1, VaultTypes DEF PositionRecord
  <1> DEFINE p == base.premium_debt + base.premium_claimed
             n == base.shares * a
  <1>6. n \in Nat /\ p \in Nat /\ Scale * p \in Nat
    BY <1>5, ScaleNat
  <1>7. SatSub(n, Scale * p) <= Entitlement(w)
    <2>1. CASE position[w].shares = 0 /\ position[w].deposited_collateral = 0
      <3>1. base.shares = 0
        BY <2>1 DEF PositionToCredit, EmptyPosition
      <3>2. n = 0
        BY <1>5, <3>1
      <3>3. SatSub(n, Scale * p) = 0
        BY <1>6, <3>2 DEF SatSub
      <3>4. QED
        BY <3>3, EntitlementTypes
    <2>2. CASE ~(position[w].shares = 0 /\ position[w].deposited_collateral = 0)
      <3>1. base = position[w]
        BY <2>2 DEF PositionToCredit
      <3>2. Entitlement(w) = SatSub(n, Scale * p)
        BY <3>1 DEF Entitlement
      <3>3. Entitlement(w) \in Nat
        BY EntitlementTypes
      <3>4. QED
        BY <3>2, <3>3
    <2>3. QED
      BY <2>1, <2>2
  <1>8. Entitlement(w)' = SatSub(n + shares * a, Scale * p + Scale * debt)
    <2>1. (base.shares + shares) * a = n + shares * a
      BY <1>5
    <2>2. Scale * ((base.premium_debt + debt) + base.premium_claimed)
              = Scale * p + Scale * debt
      <3> HIDE DEF debt
      <3>1. QED
        BY <1>2, <1>5, ScaleNat
    <2> HIDE DEF debt, base
    <2>3. QED
      BY <1>4, <2>1, <2>2 DEF Entitlement
  <1> HIDE DEF n, p, debt, a, d
  <1> DEFINE gain == shares * a
             y == Scale * p
             b == Scale * debt
             s == Scale * d
  <1>9. gain \in Nat /\ y \in Nat /\ b \in Nat /\ s \in Nat /\ b <= gain /\ gain - b <= s
    BY <1>2, <1>6, ScaleNat
  <1>10. Entitlement(w)' = SatSub(n + gain, y + b) /\ SatSub(n, y) <= Entitlement(w)
    BY <1>7, <1>8
  <1> HIDE DEF gain, y, b, s
  <1>11. Entitlement(w)' \in Nat /\ Entitlement(w)' <= SatSub(n, y) + s /\ SatSub(n, y) \in Nat
    BY <1>6, <1>9, <1>10 DEF SatSub
  <1>12. Entitlement(w)' <= Entitlement(w) + s
    BY <1>9, <1>10, <1>11, EntitlementTypes
  <1>13. d \in Int
    BY <1>2
  <1>14. QED
    BY <1>3, <1>4, <1>11, <1>12, <1>13, SurplusOfOne DEF s

LEMMA SurplusWithdraw ==
    ASSUME TypeOK, TypeOK', AccountsInv, NEW w \in Writers, NEW shares \in Quantities,
           WithdrawFromVault(w, shares)
    PROVE  Surplus' >= Surplus
  <1> DEFINE rest == position[w].shares - shares
             a == vault.premium_per_share_cumulative
             debt == MulDiv(rest, a, Scale)
             d == DroppedFraction(rest)
             amount == MulDiv(shares, vault.total_collateral, vault.total_shares)
  <1>1. Unresolved /\ shares \in Nat /\ rest \in Nat
    BY WithdrawEffect, InputsAssumption DEF WithdrawFromVault, TypeOK, PositionRecord
  <1>2. amount = shares
    BY <1>1, ShareIsUnit DEF WithdrawFromVault
  <1>3. /\ rest * a \in Nat /\ debt \in Nat /\ Scale * debt \in Nat
        /\ Scale * debt <= rest * a
        /\ rest * a - Scale * debt <= Scale * d
        /\ d \in Nat
    <2> HIDE DEF rest
    <2>1. QED
      BY <1>1, CheckpointDrops
  <1>4. Owed' = Owed - shares
    <2>1. /\ vault'.total_collateral = vault.total_collateral - shares
          /\ vault'.early_exercise_payout = vault.early_exercise_payout
          /\ vault'.is_settled = vault.is_settled /\ vault'.voided = vault.voided
      BY WithdrawEffect DEF TypeOK, VaultRecord
    <2>2. Unresolved'
      BY <1>1, <2>1 DEF Unresolved
    <2>3. vault.total_collateral \in Nat /\ vault.early_exercise_payout \in Nat
      BY DEF TypeOK, VaultRecord
    <2>4. QED
      BY <1>1, <2>1, <2>2, <2>3 DEF Owed
  <1>5. Funds' = Funds + d
    <2>1. vault_usdc' = vault_usdc - shares /\ roundings' = roundings + d
      BY <1>2 DEF WithdrawFromVault
    <2> HIDE DEF d
    <2>2. QED
      BY <1>1, <1>3, <1>4, <2>1, FundsTypes DEF Funds
  <1>6. /\ position'[w].shares = rest
        /\ position'[w].premium_debt = debt
        /\ position'[w].premium_claimed = 0
        /\ \A x \in Writers \ {w} : position'[x] = position[x]
    BY DEF WithdrawFromVault, TypeOK, PositionRecord
  <1>7. vault'.premium_per_share_cumulative = a
    BY DEF WithdrawFromVault, TypeOK, VaultRecord
  <1>8. Entitlement(w)' = SatSub(rest * a, Scale * debt)
    <2> HIDE DEF rest, debt, a
    <2>1. debt + 0 = debt
      BY <1>3
    <2>2. QED
      BY <1>6, <1>7, <2>1 DEF Entitlement
  <1> DEFINE n == rest * a
             b == Scale * debt
             s == Scale * d
  <1>9. n \in Nat /\ b \in Nat /\ s \in Int /\ n - b <= s /\ b <= n
    <2> HIDE DEF rest, debt, a, d
    <2>1. QED
      BY <1>3, ScaleNat
  <1>10. Entitlement(w)' = SatSub(n, b)
    BY <1>8
  <1> HIDE DEF n, b, s, d, rest, debt
  <1>11. Entitlement(w)' \in Int /\ Entitlement(w)' <= Entitlement(w) + s
    BY <1>9, <1>10, EntitlementTypes DEF SatSub
  <1>12. d \in Int
    BY <1>3
  <1>13. QED
    BY <1>5, <1>6, <1>7, <1>11, <1>12, SurplusOfOne DEF s

LEMMA SurplusClaim ==
    ASSUME TypeOK, TypeOK', NEW w \in Writers, ClaimPremium(w)
    PROVE  Surplus' >= Surplus
  <1> DEFINE u == UnclaimedPremium(w)
             n == position[w].shares * vault.premium_per_share_cumulative
             p == position[w].premium_debt + position[w].premium_claimed
             d == 0 - u
  <1>1. u \in Nat /\ u > 0 /\ Scale * u <= Entitlement(w) /\ Entitlement(w) \in Nat
    BY ClaimsNat, EntitlementTypes DEF ClaimPremium
  <1>2. Owed' = Owed
    BY DEF ClaimPremium, Owed, Unresolved
  <1>3. Funds' = Funds + d
    <2>1. vault_usdc' = vault_usdc - u /\ roundings' = roundings
      BY DEF ClaimPremium
    <2> HIDE DEF u
    <2>2. QED
      BY <1>1, <1>2, <2>1, FundsTypes DEF Funds
  <1>4. /\ position'[w].shares = position[w].shares
        /\ position'[w].premium_debt = position[w].premium_debt
        /\ position'[w].premium_claimed = position[w].premium_claimed + u
        /\ \A x \in Writers \ {w} : position'[x] = position[x]
    BY DEF ClaimPremium, TypeOK, PositionRecord
  <1>5. /\ position[w].premium_debt \in Nat /\ position[w].premium_claimed \in Nat
        /\ n \in Nat /\ p \in Nat
    BY VaultTypes DEF TypeOK, PositionRecord
  <1>6. Entitlement(w)' = SatSub(n, Scale * p + Scale * u)
    <2>1. Scale * (position[w].premium_debt + (position[w].premium_claimed + u))
              = Scale * p + Scale * u
      <3> HIDE DEF u
      <3>1. QED
        BY <1>1, <1>5, ScaleNat
    <2>2. vault' = vault
      BY DEF ClaimPremium
    <2> HIDE DEF u
    <2>3. QED
      BY <1>4, <2>1, <2>2 DEF Entitlement
  <1>7. Entitlement(w) = SatSub(n, Scale * p)
    BY DEF Entitlement
  <1> HIDE DEF u, n, p
  <1> DEFINE y == Scale * p
             s == Scale * u
  <1>8. y \in Nat /\ s \in Nat /\ Scale * d = 0 - s
    BY <1>1, <1>5, ScaleNat
  <1>9. /\ Entitlement(w)' = SatSub(n, y + s)
        /\ Entitlement(w) = SatSub(n, y) /\ s <= SatSub(n, y)
    BY <1>1, <1>6, <1>7
  <1> HIDE DEF y, s, d
  <1>10. Entitlement(w)' \in Int /\ Entitlement(w)' <= Entitlement(w) + Scale * d
    BY <1>5, <1>8, <1>9 DEF SatSub
  <1>11. /\ d \in Int
         /\ vault'.premium_per_share_cumulative = vault.premium_per_share_cumulative
    BY <1>1 DEF d, ClaimPremium
  <1>12. QED
    BY <1>3, <1>4, <1>10, <1>11, SurplusOfOne

\* A writer without shares is entitled to nothing.
LEMMA NoSharesNoEntitlement ==
    ASSUME TypeOK, NEW w \in Writers, position[w].shares = 0
    PROVE  Entitlement(w) = 0
  <1>1. 0 * vault.premium_per_share_cumulative = 0
    BY VaultTypes
  <1>2. Scale * (position[w].premium_debt + position[w].premium_claimed) \in Nat
    BY ScaleNat DEF TypeOK, PositionRecord
  <1>3. QED
    BY <1>1, <1>2 DEF Entitlement, SatSub

LEMMA SurplusExit ==
    ASSUME TypeOK, TypeOK', ~Unresolved, NEW w \in Writers, NEW residual \in Nat,
           WriterExit(w, residual),
           vault_usdc' = vault_usdc - UnclaimedPremium(w) - residual,
           roundings' = roundings, position'[w].shares = 0,
           \A x \in Writers \ {w} : position'[x] = position[x]
    PROVE  Surplus' >= Surplus
  <1> DEFINE u == UnclaimedPremium(w)
             d == 0 - u
  <1>1. u \in Nat /\ Scale * u <= Entitlement(w) /\ Entitlement(w) \in Nat
    BY ClaimsNat, EntitlementTypes
  <1>2. Owed' = Owed - residual
    <2>1. /\ vault'.is_settled = vault.is_settled /\ vault'.voided = vault.voided
          /\ vault'.collateral_remaining = vault.collateral_remaining - residual
      BY DEF WriterExit, TypeOK, VaultRecord
    <2>2. ~Unresolved'
      BY <2>1 DEF Unresolved
    <2>3. QED
      BY <2>1, <2>2 DEF Owed
  <1>3. Funds' = Funds + d
    <2>1. vault_usdc' = vault_usdc - u - residual
      OBVIOUS
    <2> HIDE DEF u
    <2>2. QED
      BY <1>1, <1>2, <2>1, FundsTypes DEF Funds
  <1>4. vault'.premium_per_share_cumulative = vault.premium_per_share_cumulative
    BY DEF WriterExit, TypeOK, VaultRecord
  <1>5. Entitlement(w)' = 0
    <2>1. ((TypeOK /\ position[w].shares = 0) => Entitlement(w) = 0)'
      BY NoSharesNoEntitlement, PTL
    <2>2. QED
      BY <2>1
  <1> HIDE DEF u
  <1>6. Scale * d = 0 - Scale * u /\ Scale * u \in Nat /\ d \in Int
    BY <1>1, ScaleNat
  <1> HIDE DEF d
  <1>7. Entitlement(w)' \in Int /\ Entitlement(w)' <= Entitlement(w) + Scale * d
    BY <1>1, <1>5, <1>6
  <1>8. QED
    BY <1>3, <1>4, <1>6, <1>7, SurplusOfOne

\* The writers' share of a premium covers what the accumulator promises them.
LEMMA SurplusPremium ==
    ASSUME TypeOK, TypeOK', NEW share \in Nat, Owed' = Owed,
           vault_usdc' = vault_usdc + share, roundings' = roundings,
           position' = position, TotalShares <= vault.total_shares,
           vault'.premium_per_share_cumulative = AccumulatorAfter(share)
    PROVE  Surplus' >= Surplus
  <1> DEFINE growth == IF vault.total_shares > 0
                       THEN MulDiv(share, Scale, vault.total_shares) ELSE 0
  <1>1. Funds' = Funds + share
    BY FundsTypes DEF Funds
  <1>2. /\ TotalShares \in Nat /\ vault.total_shares \in Nat
        /\ vault.premium_per_share_cumulative \in Nat
    BY TotalsNat, VaultTypes
  <1>3. growth \in Nat /\ growth * TotalShares <= Scale * share
    <2>1. CASE vault.total_shares > 0
      <3> DEFINE n == share * Scale
                 q == n \div vault.total_shares
      <3>1. n \in Nat /\ n = Scale * share /\ vault.total_shares \in Nat \ {0}
        BY <1>2, <2>1, ScaleNat
      <3>2. growth = q
        BY <2>1 DEF MulDiv
      <3> HIDE DEF n, growth
      <3>3. q \in Nat /\ vault.total_shares * q <= n
        BY <3>1, QuotientBounds
      <3> HIDE DEF q
      <3>4. q * TotalShares <= q * vault.total_shares
        BY <1>2, <3>3
      <3>5. q * vault.total_shares = vault.total_shares * q
        BY <1>2, <3>3
      <3>6. q * TotalShares \in Nat /\ vault.total_shares * q \in Nat
        BY <1>2, <3>3
      <3>7. QED
        BY <3>1, <3>2, <3>3, <3>4, <3>5, <3>6
    <2>2. CASE ~(vault.total_shares > 0)
      BY <1>2, <2>2, ScaleNat
    <2>3. QED
      BY <2>1, <2>2
  <1>4. vault'.premium_per_share_cumulative
            = vault.premium_per_share_cumulative + growth
    BY DEF AccumulatorAfter
  <1> HIDE DEF growth
  <1>5. Total(Entitlements') <= Total(Entitlements) + growth * TotalShares
    BY <1>3, <1>4, EntitlementGrowth
  <1>6. /\ Total(Entitlements) \in Nat /\ growth * TotalShares \in Nat
        /\ Scale * share \in Nat /\ Total(Entitlements') \in Nat
    <2>1. (TypeOK => Total(Entitlements) \in Nat)'
      BY EntitlementTypes, PTL
    <2>2. QED
      BY <1>2, <1>3, <2>1, EntitlementTypes, ScaleNat
  <1>7. Total(Entitlements') <= Total(Entitlements) + Scale * share
    BY <1>3, <1>5, <1>6
  <1>8. share \in Int
    OBVIOUS
  <1>9. QED
    BY <1>1, <1>7, <1>8, SurplusKept

\* The premium a purchase leaves with the writers is a natural number.
LEMMA PurchaseShareNat ==
    ASSUME TypeOK, NEW m \in Mints, NEW quantity \in Nat
    PROVE  LET premium == quantity * mint[m].premium_per_contract
           IN  premium - ProtocolFee(premium, FeeBps) \in Nat
  <1> DEFINE premium == quantity * mint[m].premium_per_contract
  <1>1. premium \in Nat
    BY DEF TypeOK, MintRecord
  <1> HIDE DEF premium
  <1>2. premium - ProtocolFee(premium, FeeBps) \in Nat
    BY <1>1, NetPremiumNat
  <1>3. QED
    BY <1>2 DEF premium

\* No instruction of the pool takes from the surplus while the account is open.
LEMMA SurplusPool ==
    ASSUME TypeOK, TypeOK', AccountsInv, PoolNext,
           Unresolved => TotalShares <= vault.total_shares,
           (usdc_open \/ ~vault.created)'
    PROVE  (usdc_open \/ ~vault.created) /\ Surplus' >= Surplus
  <1> DEFINE Kept == (usdc_open \/ ~vault.created) /\ Surplus' >= Surplus
  <1>1. Surplus \in Int
    BY EntitlementTypes
  <1>2. ASSUME UNCHANGED <<vault, vault_usdc, usdc_open, position, roundings>>
        PROVE  Kept
    <2>1. Owed' = Owed
      BY <1>2 DEF Owed, Unresolved
    <2>2. Funds' = Funds
      BY <1>2, <2>1 DEF Funds
    <2>3. Surplus' = Surplus
      BY <1>2, <2>2, SurplusSame
    <2>4. QED
      BY <1>1, <1>2, <2>3
  <1>3. ASSUME NEW w \in Writers, WriterNext(w) PROVE Kept
    <2>1. ASSUME CreateSharedVault(w) PROVE Kept
      <3>1. /\ vault.early_exercise_payout = 0 /\ vault.total_collateral = 0 /\ Unresolved
            /\ vault.premium_per_share_cumulative = 0
        BY <2>1 DEF CreateSharedVault, AccountsInv, EmptyVault, Unresolved
      <3>2. /\ Owed' = Owed
            /\ vault'.premium_per_share_cumulative = vault.premium_per_share_cumulative
        BY <2>1, <3>1 DEF CreateSharedVault, TypeOK, VaultRecord, Owed, Unresolved
      <3>3. Funds' = Funds /\ position' = position
        BY <2>1, <3>2 DEF CreateSharedVault, Funds
      <3>4. Surplus' = Surplus
        BY <3>2, <3>3, SurplusSame
      <3>5. QED
        BY <1>1, <2>1, <3>4 DEF CreateSharedVault
    <2>2. ASSUME NEW amount \in Amounts, CreateAndDeposit(w, amount) PROVE Kept
      <3>1. amount \in Nat
        BY InputsAssumption
      <3>2. /\ vault.early_exercise_payout = 0 /\ vault.total_collateral = 0 /\ Unresolved
        BY <2>2 DEF CreateAndDeposit, AccountsInv, EmptyVault, Unresolved
      <3>3. /\ vault'.total_collateral = amount
            /\ vault'.early_exercise_payout = 0
            /\ vault'.is_settled = vault.is_settled /\ vault'.voided = vault.voided
            /\ vault'.premium_per_share_cumulative = vault.premium_per_share_cumulative
        BY <2>2, <3>2 DEF CreateAndDeposit, TypeOK, VaultRecord
      <3>4. Owed' = Owed + amount
        BY <3>1, <3>2, <3>3 DEF Owed, Unresolved
      <3>5. Surplus' >= Surplus
        BY <2>2, <3>1, <3>3, <3>4, SurplusCredit DEF CreateAndDeposit
      <3>6. QED
        BY <2>2, <3>5 DEF CreateAndDeposit
    <2>3. ASSUME NEW amount \in Amounts, DepositToVault(w, amount) PROVE Kept
      <3>1. amount \in Nat
        BY InputsAssumption
      <3>2. Unresolved /\ SharesFor(amount) \in Nat
        BY <2>3, <3>1, LiveUnresolved, ShareIsUnit DEF DepositToVault
      <3>3. /\ vault'.total_collateral = vault.total_collateral + amount
            /\ vault'.early_exercise_payout = vault.early_exercise_payout
            /\ vault'.is_settled = vault.is_settled /\ vault'.voided = vault.voided
            /\ vault'.premium_per_share_cumulative = vault.premium_per_share_cumulative
            /\ vault'.created = vault.created /\ usdc_open' = usdc_open
        BY <2>3 DEF DepositToVault, TypeOK, VaultRecord
      <3>4. Owed' = Owed + amount
        <4>1. vault.total_collateral \in Nat /\ vault.early_exercise_payout \in Nat
          BY DEF TypeOK, VaultRecord
        <4>2. QED
          BY <3>1, <3>2, <3>3, <4>1 DEF Owed, Unresolved
      <3>5. Surplus' >= Surplus
        BY <2>3, <3>1, <3>2, <3>3, <3>4, SurplusCredit DEF DepositToVault
      <3>6. QED
        BY <3>3, <3>5
    <2>4. ASSUME NEW m \in Mints,
                 \/ \E quantity \in Quantities, premium \in Premiums :
                       MintFromVault(w, m, quantity, premium)
                 \/ BurnUnsoldFromVault(w, m)
          PROVE  Kept
      <3>1. /\ vault'.total_collateral = vault.total_collateral
            /\ vault'.early_exercise_payout = vault.early_exercise_payout
            /\ vault'.collateral_remaining = vault.collateral_remaining
            /\ vault'.is_settled = vault.is_settled /\ vault'.voided = vault.voided
            /\ vault'.premium_per_share_cumulative = vault.premium_per_share_cumulative
            /\ vault'.created = vault.created
            /\ UNCHANGED <<usdc_open, vault_usdc, roundings>>
        BY <2>4 DEF MintFromVault, BurnUnsoldFromVault, TypeOK, VaultRecord
      <3>2. \A x \in Writers :
               /\ position'[x].shares = position[x].shares
               /\ position'[x].premium_debt = position[x].premium_debt
               /\ position'[x].premium_claimed = position[x].premium_claimed
        BY <2>4 DEF MintFromVault, BurnUnsoldFromVault, TypeOK, PositionRecord
      <3>3. Funds' = Funds
        BY <3>1 DEF Funds, Owed, Unresolved
      <3>4. Surplus' = Surplus
        BY <3>1, <3>2, <3>3, SurplusSame
      <3>5. QED
        BY <1>1, <3>1, <3>4
    <2>5. ASSUME NEW shares \in Quantities, WithdrawFromVault(w, shares) PROVE Kept
      <3>1. vault'.created = vault.created /\ usdc_open' = usdc_open
        BY <2>5 DEF WithdrawFromVault, TypeOK, VaultRecord
      <3>2. QED
        BY <2>5, <3>1, SurplusWithdraw
    <2>6. ASSUME ClaimPremium(w) PROVE Kept
      BY <2>6, SurplusClaim DEF ClaimPremium
    <2>7. ASSUME WithdrawPostSettlement(w) PROVE Kept
      <3>1. ResidualClaim(w) \in Nat /\ ~Unresolved /\ vault.created
        BY <2>7, ClaimsNat, VaultTypes, ResolvedCreated
           DEF WithdrawPostSettlement, Unresolved
      <3>2. vault'.created
        BY <2>7, <3>1 DEF WithdrawPostSettlement, WriterExit, TypeOK, VaultRecord
      <3>3. vault_usdc' = vault_usdc - UnclaimedPremium(w) - ResidualClaim(w)
        BY <2>7, <3>2 DEF WithdrawPostSettlement, SweepIfDrained
      <3>4. /\ position'[w].shares = 0
            /\ \A x \in Writers \ {w} : position'[x] = position[x]
            /\ WriterExit(w, ResidualClaim(w)) /\ roundings' = roundings /\ usdc_open
        BY <2>7 DEF WithdrawPostSettlement, TypeOK, EmptyPosition, WriterExit
      <3>5. QED
        BY <3>1, <3>3, <3>4, SurplusExit
    <2>8. ASSUME AutoFinalizeWriters(w) PROVE Kept
      <3>1. FinalClaim(w) \in Nat /\ ~Unresolved /\ vault.created
        BY <2>8, ClaimsNat, ResolvedCreated DEF AutoFinalizeWriters, Unresolved
      <3>2. vault'.created
        BY <2>8, <3>1 DEF AutoFinalizeWriters, WriterExit, TypeOK, VaultRecord
      <3>3. vault_usdc' = vault_usdc - UnclaimedPremium(w) - FinalClaim(w)
        BY <2>8, <3>2 DEF AutoFinalizeWriters, SweepIfDrained
      <3>4. /\ position'[w].shares = 0
            /\ \A x \in Writers \ {w} : position'[x] = position[x]
            /\ WriterExit(w, FinalClaim(w)) /\ roundings' = roundings /\ usdc_open
        BY <2>8 DEF AutoFinalizeWriters, TypeOK, EmptyPosition, WriterExit
      <3>5. QED
        BY <3>1, <3>3, <3>4, SurplusExit
    <2>9. ASSUME ReclaimUnsettled(w) PROVE Kept
      <3>1. ResidualClaim(w) \in Nat /\ ~Unresolved
        BY <2>9, ClaimsNat, VaultTypes DEF ReclaimUnsettled, Unresolved
      <3>2. /\ position'[w].shares = 0
            /\ \A x \in Writers \ {w} : position'[x] = position[x]
            /\ WriterExit(w, ResidualClaim(w)) /\ roundings' = roundings /\ usdc_open
            /\ vault_usdc' = vault_usdc - UnclaimedPremium(w) - ResidualClaim(w)
        BY <2>9 DEF ReclaimUnsettled, TypeOK, PositionRecord, WriterExit
      <3>3. QED
        BY <3>1, <3>2, SurplusExit
    <2>10. QED
      BY <1>3, <2>1, <2>2, <2>3, <2>4, <2>5, <2>6, <2>7, <2>8, <2>9 DEF WriterNext
  <1>4. ASSUME NEW h \in Holders, NEW quantity \in Nat, PayHolder(h, quantity) PROVE Kept
    <2> DEFINE payout == AtMost(quantity * PayoutPerContract(vault.settlement_price),
                                vault.collateral_remaining)
    <2>1. /\ vault'.collateral_remaining = vault.collateral_remaining - payout
          /\ vault'.is_settled = vault.is_settled /\ vault'.voided = vault.voided
          /\ vault'.premium_per_share_cumulative = vault.premium_per_share_cumulative
          /\ vault_usdc' = vault_usdc - payout
          /\ ~Unresolved /\ usdc_open
          /\ UNCHANGED <<position, roundings>>
      BY <1>4 DEF PayHolder, TypeOK, VaultRecord, Unresolved
    <2>2. payout \in Nat
      <3>1. quantity * PayoutPerContract(vault.settlement_price) \in Nat
        BY VaultTypes, PayoutNat
      <3>2. QED
        BY <3>1, VaultTypes, AtMostNat
    <2> HIDE DEF payout
    <2>3. Owed' = Owed - payout
      BY <2>1 DEF Owed, Unresolved
    <2>4. Funds' = Funds
      BY <2>1, <2>2, <2>3, FundsTypes DEF Funds
    <2>5. Surplus' = Surplus
      BY <2>1, <2>4, SurplusSame
    <2>6. QED
      BY <1>1, <2>1, <2>5
  <1>5. ASSUME NEW h \in Holders, HolderNext(h) PROVE Kept
    <2>1. ASSUME NEW m \in Mints, NEW quantity \in Quantities,
                 PurchaseFromVault(h, m, quantity)
          PROVE  Kept
      <3> DEFINE premium == quantity * mint[m].premium_per_contract
                 share == premium - ProtocolFee(premium, FeeBps)
      <3>1. share \in Nat
        BY InputsAssumption, PurchaseShareNat
      <3>2. Unresolved
        BY <2>1, LiveUnresolved DEF PurchaseFromVault
      <3>3. /\ vault'.premium_per_share_cumulative = AccumulatorAfter(share)
            /\ vault'.total_collateral = vault.total_collateral
            /\ vault'.early_exercise_payout = vault.early_exercise_payout
            /\ vault'.is_settled = vault.is_settled /\ vault'.voided = vault.voided
            /\ vault'.created = vault.created /\ usdc_open' = usdc_open
            /\ vault_usdc' = vault_usdc + share
            /\ UNCHANGED <<position, roundings>>
        BY <2>1 DEF PurchaseFromVault, TypeOK, VaultRecord
      <3> HIDE DEF share, premium
      <3>4. Owed' = Owed
        BY <3>2, <3>3 DEF Owed, Unresolved
      <3>5. Surplus' >= Surplus
        BY <3>1, <3>2, <3>3, <3>4, SurplusPremium
      <3>6. QED
        BY <3>3, <3>5
    <2>2. ASSUME NEW quantity \in Quantities, ExerciseFromVault(h, quantity) PROVE Kept
      BY <1>4, <2>2, InputsAssumption DEF ExerciseFromVault
    <2>3. ASSUME AutoFinalizeHolders(h) PROVE Kept
      BY <1>4, <2>3 DEF AutoFinalizeHolders, TypeOK
    <2>4. QED
      BY <1>5, <2>1, <2>2, <2>3 DEF HolderNext
  <1>6. CASE AutoFinalizeNoWriters \/ CloseSettledWriterAskVault
    <2>1. vault.created /\ vault' = vault /\ ~usdc_open'
      BY <1>6, ResolvedCreated
         DEF AutoFinalizeNoWriters, CloseSettledWriterAskVault, Unresolved
    <2>2. QED
      BY <2>1
  <1>7. QED
    BY <1>2, <1>3, <1>5, <1>6 DEF PoolNext, Tick, SettleExpiry

\* While the account is open its funds cover what writers are entitled to.
SurplusInv == (usdc_open \/ ~vault.created) => Surplus >= 0

LEMMA SurplusInvInit == Init => SurplusInv
  <1> SUFFICES ASSUME Init PROVE Surplus >= 0
    BY DEF SurplusInv
  <1>1. Funds = 0
    BY DEF Init, EmptyVault, Funds, Owed, Unresolved
  <1>2. Entitlements \in [Writers -> {0}]
    <2>1. ASSUME NEW w \in Writers PROVE Entitlement(w) = 0
      <3>1. TypeOK /\ position[w].shares = 0
        BY TypeOKInit DEF Init, EmptyPosition
      <3>2. QED
        BY <3>1, NoSharesNoEntitlement
    <2>2. QED
      BY <2>1 DEF Entitlements
  <1>3. Total(Entitlements) = 0
    BY <1>2, TotalOfZeros
  <1>4. QED
    BY <1>1, <1>3, ScaleNat DEF Surplus

LEMMA SurplusInvariant == Spec => []SurplusInv
  <1>1. TypeOK /\ TypeOK' /\ AccountsInv /\ NoPot /\ TotalsInv /\ SurplusInv /\ [Next]_vars
            => SurplusInv'
    <2> SUFFICES ASSUME TypeOK, TypeOK', AccountsInv, NoPot, TotalsInv, SurplusInv,
                        [Next]_vars, (usdc_open \/ ~vault.created)'
                 PROVE  Surplus' >= 0
      BY DEF SurplusInv
    <2>1. CASE PoolNext
      <3>1. Unresolved => TotalShares <= vault.total_shares
        BY TotalsNat DEF TotalsInv
      <3>2. (usdc_open \/ ~vault.created) /\ Surplus' >= Surplus
        BY <2>1, <3>1, SurplusPool
      <3>3. Surplus' \in Int
        <4>1. (TypeOK => Surplus \in Int)'
          BY EntitlementTypes, PTL
        <4>2. QED
          BY <4>1
      <3>4. QED
        BY <3>2, <3>3, EntitlementTypes DEF SurplusInv
    <2>2. CASE SettleVault \/ InitializeVoid
      <3>1. Unresolved /\ usdc_open
        BY <2>2 DEF SettleVault, SettleVaultSweeping, InitializeVoid,
                    InitializeVoidSweeping, AccountsInv, Unresolved
      <3>2. /\ vault_usdc' = vault_usdc + 0 /\ UNCHANGED <<position, roundings>>
            /\ vault'.premium_per_share_cumulative = vault.premium_per_share_cumulative
            /\ vault'.is_settled \/ vault'.voided
            /\ \/ vault'.collateral_remaining = SatSub(vault.total_collateral + 0, 0)
               \/ vault'.collateral_remaining = vault.total_collateral + 0 - 0
        <4>1. CASE SettleVault
          BY <4>1 DEF SettleVault, SettleVaultSweeping, NoPot, TypeOK, VaultRecord
        <4>2. CASE InitializeVoid
          BY <4>2 DEF InitializeVoid, InitializeVoidSweeping, NoPot, TypeOK, VaultRecord
        <4>3. QED
          BY <2>2, <4>1, <4>2
      <3>3. Owed' = Owed
        BY <3>1, <3>2, VaultTypes DEF Owed, Unresolved, NoPot, SatSub
      <3>4. Funds' = Funds
        BY <3>2, <3>3, FundsTypes DEF Funds
      <3>5. Surplus' = Surplus
        BY <3>2, <3>4, SurplusSame
      <3>6. QED
        BY <3>1, <3>5 DEF SurplusInv
    <2>3. CASE UNCHANGED vars
      <3>1. Surplus' = Surplus
        BY <2>3 DEF vars, Surplus, Funds, Owed, Unresolved, Entitlements, Entitlement
      <3>2. QED
        BY <2>3, <3>1 DEF vars, SurplusInv
    <2>4. QED
      BY <2>1, <2>2, <2>3 DEF Next
  <1>2. QED
    BY <1>1, SurplusInvInit, TypeCorrect, AccountsInvariant, NoPotInvariant,
       TotalsInvariant, PTL DEF Spec

\* What the entitlements amount to covers the premium writers may claim.
LEMMA UnclaimedCovered ==
    ASSUME TypeOK, NEW slack \in Nat, Surplus + Scale * slack >= 0
    PROVE  Owed + TotalUnclaimed <= vault_usdc + roundings + slack
  <1> DEFINE unclaimed == [w \in Writers |-> UnclaimedPremium(w)]
             scaled == [w \in Writers |-> Scale * UnclaimedPremium(w)]
  <1>1. /\ unclaimed \in [Writers -> Nat] /\ scaled \in [Writers -> Nat]
    BY ClaimsNat, ScaleNat
  <1>2. TotalUnclaimed = Total(unclaimed)
    BY DEF TotalUnclaimed
  <1>3. /\ \A w \in Writers : scaled[w] = Scale * unclaimed[w]
        /\ \A w \in Writers : scaled[w] <= Entitlements[w]
    BY EntitlementTypes
  <1> HIDE DEF unclaimed, scaled
  <1>4. Total(scaled) = Scale * Total(unclaimed)
    BY <1>1, <1>3, ScaleNat, AccountsFinite, TotalTimes
  <1>5. Total(scaled) <= Total(Entitlements)
    BY <1>1, <1>3, EntitlementTypes, AccountsFinite, TotalMonotone
  <1>6. Total(unclaimed) \in Nat /\ Total(Entitlements) \in Nat
    BY <1>1, EntitlementTypes, AccountsFinite, UnitsFinite
  <1> DEFINE f == Funds + slack
             u == Total(unclaimed)
  <1>7. f \in Int /\ Scale * f = Scale * Funds + Scale * slack
        /\ Scale * Funds \in Int /\ Scale * slack \in Int
    BY ScaleNat, FundsTypes
  <1>8. Scale * u <= Scale * f /\ u \in Nat
    BY <1>4, <1>5, <1>6, <1>7, ScaleNat DEF Surplus
  <1> HIDE DEF f, u
  <1>9. u <= f
    <2>1. SUFFICES ASSUME f + 1 <= u PROVE FALSE
      BY <1>7, <1>8
    <2>2. Scale * (f + 1) <= Scale * u /\ Scale * (f + 1) = Scale * f + Scale
      BY <1>7, <1>8, <2>1, ScaleNat
    <2>3. Scale * f \in Int /\ Scale * u \in Int
      BY <1>7, <1>8, ScaleNat
    <2>4. QED
      BY <1>8, <2>2, <2>3, ScaleNat
  <1>10. QED
    BY <1>2, <1>8, <1>9, FundsTypes DEF f, u, Funds

\* The vault's USDC covers its principal and all unclaimed premium, short of at
\* most one unit for each premium checkpoint that was rounded down.
THEOREM SolventButForRounding == Spec => []SolventUpToRounding
  <1>1. TypeOK /\ NoPot /\ SurplusInv => SolventUpToRounding
    <2> SUFFICES ASSUME TypeOK, NoPot, SurplusInv, usdc_open
                 PROVE  Principal + TotalUnclaimed <= vault_usdc + roundings
      BY DEF SolventUpToRounding
    <2>1. Surplus + Scale * 0 >= 0
      BY EntitlementTypes, ScaleNat DEF SurplusInv
    <2>2. Owed + TotalUnclaimed <= vault_usdc + roundings + 0
      BY <2>1, UnclaimedCovered
    <2>3. Owed = Principal
      BY VaultTypes DEF Owed, Principal, NoPot
    <2>4. QED
      BY <2>2, <2>3, FundsTypes
  <1>2. QED
    BY <1>1, TypeCorrect, NoPotInvariant, SurplusInvariant, PTL
=============================================================================
