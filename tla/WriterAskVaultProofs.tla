-------------------------- MODULE WriterAskVaultProofs --------------------------
(***************************************************************************)
(* Theorems about WriterAskVault: an American vault with writer asks, the  *)
(* peg and early exercise.  The pool's own steps keep what SharedVaultProofs*)
(* shows they keep; this module adds what the asks and the pot do.         *)
(***************************************************************************)
EXTENDS WriterAskVault, SharedVaultProofs

LEMMA AskConstants ==
    /\ Style = "American" /\ IsFiniteSet(Orders)
    /\ Quantities \subseteq Nat \ {0} /\ Premiums \subseteq Nat \ {0}
    /\ Prices \subseteq Nat \ {0} /\ Amounts \subseteq Nat \ {0}
  BY AsksAssumption, InputsAssumption DEF AsksAssumption

-----------------------------------------------------------------------------
(* What the steps of the asks and the pot change. *)

\* A sale at the peg: tokens of the pool, and premium for its writers.
LEMMA PegEffect ==
    ASSUME TypeOK, NEW h \in Holders, NEW quantity \in Nat, NEW quote \in Nat,
           FillVaultPeg(h, quantity, quote)
    PROVE  /\ TypeOK'
           /\ \E share \in Nat :
                /\ vault_usdc' = vault_usdc + share
                /\ vault'.premium_per_share_cumulative = AccumulatorAfter(share)
           /\ vault'.total_options_minted = vault.total_options_minted + quantity
           /\ vault'.total_options_sold = vault.total_options_sold + quantity
           /\ vault'.created = vault.created
           /\ vault'.is_settled = vault.is_settled /\ vault'.voided = vault.voided
           /\ vault'.settlement_price = vault.settlement_price
           /\ vault'.total_collateral = vault.total_collateral
           /\ vault'.total_shares = vault.total_shares
           /\ vault'.collateral_remaining = vault.collateral_remaining
           /\ vault'.early_exercise_payout = vault.early_exercise_payout
           /\ vault'.exercised_options = vault.exercised_options
           /\ vault'.writer_ask_collateral_swept = vault.writer_ask_collateral_swept
           /\ vault'.writer_ask_equiv_shares = vault.writer_ask_equiv_shares
           /\ holding' = [holding EXCEPT ![h] = @ + quantity]
           /\ UNCHANGED <<now, usdc_open, position, mint, settlement_record,
                          roundings, askVars>>
           /\ vault.created /\ Live
           /\ VaultFreeAtLeast(quantity * Cpc)
  <1> DEFINE premium == quantity * quote
             share == premium - ProtocolFee(premium, FeeBps)
             after == AccumulatorAfter(share)
  <1>1. share \in Nat
    <2>1. premium \in Nat
      OBVIOUS
    <2> HIDE DEF premium
    <2>2. QED
      BY <2>1, NetPremiumNat
  <1>2. after \in Nat
    <2> HIDE DEF share
    <2>1. ASSUME vault.total_shares > 0
          PROVE  MulDiv(share, Scale, vault.total_shares) \in Nat
      <3>1. vault.total_shares \in Nat \ {0} /\ Scale \in Nat
        BY <2>1, VaultTypes, ScaleNat
      <3>2. QED
        BY <1>1, <3>1, MulDivNat, Zenon
    <2>2. QED
      BY <2>1, VaultTypes DEF AccumulatorAfter
  <1>3. /\ vault_usdc' = vault_usdc + share
        /\ vault' = [vault EXCEPT
              !.total_options_minted = @ + quantity,
              !.total_options_sold = @ + quantity,
              !.premium_per_share_cumulative = after]
        /\ holding' = [holding EXCEPT ![h] = @ + quantity]
        /\ UNCHANGED <<now, usdc_open, position, mint, settlement_record,
                       roundings, askVars>>
        /\ vault.created /\ Live
        /\ VaultFreeAtLeast(quantity * Cpc)
    BY DEF FillVaultPeg
  <1>4. vault'.premium_per_share_cumulative = AccumulatorAfter(share)
    BY <1>3 DEF TypeOK, VaultRecord
  <1> HIDE DEF after, share, premium
  <1>5. /\ vault'.total_options_minted = vault.total_options_minted + quantity
        /\ vault'.total_options_sold = vault.total_options_sold + quantity
        /\ vault'.created = vault.created
        /\ vault'.is_settled = vault.is_settled /\ vault'.voided = vault.voided
        /\ vault'.settlement_price = vault.settlement_price
        /\ vault'.total_collateral = vault.total_collateral
        /\ vault'.total_shares = vault.total_shares
        /\ vault'.collateral_remaining = vault.collateral_remaining
        /\ vault'.early_exercise_payout = vault.early_exercise_payout
        /\ vault'.exercised_options = vault.exercised_options
        /\ vault'.writer_ask_collateral_swept = vault.writer_ask_collateral_swept
        /\ vault'.writer_ask_equiv_shares = vault.writer_ask_equiv_shares
    BY <1>3 DEF TypeOK, VaultRecord
  <1>6. vault' \in VaultRecord
    <2>1. vault' = VaultRebuilt(vault')
      BY <1>3 DEF TypeOK, VaultRecord, VaultRebuilt
    <2>2. VaultFields(vault')
      BY <1>2, <1>3 DEF TypeOK, VaultRecord, VaultFields
    <2>3. QED
      BY <2>1, <2>2, VaultFromFields, Zenon
  <1>7. TypeOK'
    BY <1>1, <1>3, <1>6 DEF TypeOK
  <1>8. QED
    BY <1>1, <1>3, <1>4, <1>5, <1>7

\* An early exercise: the vault pays, and once it is empty the pot does.
LEMMA ExerciseEffect ==
    ASSUME AskTypeOK, NEW h \in Holders, NEW quantity \in Nat, NEW spot \in Nat,
           NEW own \in BOOLEAN, ExerciseAmerican(h, quantity, spot, own)
    PROVE  \E paid \in Nat, drawn \in Nat :
             /\ paid + drawn <= quantity * Cpc
             /\ TypeOK'
             /\ vault_usdc' = vault_usdc - paid
             /\ drawn > 0 => vault_usdc' = 0
             /\ drawn <= pot.total_collateral
             /\ pot_usdc' \in Nat /\ pot_usdc - drawn <= pot_usdc'
             /\ pot_drawn' = pot_drawn + drawn
             /\ draws' = draws + (IF drawn > 0 THEN 1 ELSE 0)
             /\ pot' \in PotRecord
             /\ pot'.total_collateral = pot.total_collateral - drawn
             /\ pot'.total_contracts
                    = IF drawn = 0 THEN pot.total_contracts
                      ELSE SatSub(pot.total_contracts, quantity)
             /\ vault'.early_exercise_payout = vault.early_exercise_payout + paid
             /\ vault'.exercised_options = vault.exercised_options + quantity
             /\ vault'.created = vault.created
             /\ vault'.is_settled = vault.is_settled /\ vault'.voided = vault.voided
             /\ vault'.settlement_price = vault.settlement_price
             /\ vault'.total_collateral = vault.total_collateral
             /\ vault'.total_shares = vault.total_shares
             /\ vault'.total_options_minted = vault.total_options_minted
             /\ vault'.total_options_sold = vault.total_options_sold
             /\ vault'.premium_per_share_cumulative
                    = vault.premium_per_share_cumulative
             /\ vault'.collateral_remaining = vault.collateral_remaining
             /\ vault'.writer_ask_collateral_swept = vault.writer_ask_collateral_swept
             /\ vault'.writer_ask_equiv_shares = vault.writer_ask_equiv_shares
             /\ quantity <= holding[h]
             /\ holding' = [holding EXCEPT ![h] = @ - quantity]
             /\ UNCHANGED <<now, usdc_open, position, mint, settlement_record,
                            roundings, ask, backing, elsewhere>>
             /\ vault.created /\ now < Expiry
  <1> DEFINE payout == quantity * PayoutPerContract(spot)
             paid == AtMost(payout, vault_usdc)
             drawn == SatSub(payout, paid)
             from_pot == IF own THEN drawn ELSE 0
  <1>1. payout \in Nat /\ payout <= quantity * Cpc
    <2>1. PayoutPerContract(spot) \in Nat /\ PayoutPerContract(spot) <= Cpc
      BY PayoutNat
    <2>2. QED
      BY <2>1, ConstantsFacts, ProductMonotone
  <1>2. vault_usdc \in Nat /\ pot_usdc \in Nat /\ pot \in PotRecord
    BY DEF AskTypeOK, TypeOK
  <1>3. /\ from_pot <= pot_usdc /\ drawn <= pot.total_collateral
        /\ vault_usdc' = vault_usdc - paid
        /\ pot_usdc' = pot_usdc - from_pot
        /\ pot' = PotAfterDraw(drawn, quantity)
        /\ pot_drawn' = pot_drawn + drawn
        /\ draws' = draws + (IF drawn > 0 THEN 1 ELSE 0)
        /\ vault' = [vault EXCEPT !.exercised_options = @ + quantity,
                                  !.early_exercise_payout = @ + paid]
        /\ quantity <= holding[h]
        /\ holding' = [holding EXCEPT ![h] = @ - quantity]
        /\ UNCHANGED <<now, usdc_open, position, mint, settlement_record,
                       roundings, ask, backing, elsewhere>>
        /\ vault.created /\ now < Expiry
    BY DEF ExerciseAmerican
  <1>4. /\ paid \in Nat /\ drawn \in Nat /\ paid + drawn = payout
        /\ paid <= vault_usdc /\ (drawn > 0 => paid = vault_usdc)
    <2> HIDE DEF payout
    <2>1. QED
      BY <1>1, <1>2 DEF AtMost, SatSub
  <1> HIDE DEF payout, paid, drawn
  <1>10. pot_usdc' \in Nat /\ pot_usdc - drawn <= pot_usdc'
    BY <1>2, <1>3, <1>4
  <1>5. /\ vault'.early_exercise_payout = vault.early_exercise_payout + paid
        /\ vault'.exercised_options = vault.exercised_options + quantity
        /\ vault'.created = vault.created
        /\ vault'.is_settled = vault.is_settled /\ vault'.voided = vault.voided
        /\ vault'.settlement_price = vault.settlement_price
        /\ vault'.total_collateral = vault.total_collateral
        /\ vault'.total_shares = vault.total_shares
        /\ vault'.total_options_minted = vault.total_options_minted
        /\ vault'.total_options_sold = vault.total_options_sold
        /\ vault'.premium_per_share_cumulative = vault.premium_per_share_cumulative
        /\ vault'.collateral_remaining = vault.collateral_remaining
        /\ vault'.writer_ask_collateral_swept = vault.writer_ask_collateral_swept
        /\ vault'.writer_ask_equiv_shares = vault.writer_ask_equiv_shares
    BY <1>3 DEF AskTypeOK, TypeOK, VaultRecord
  <1>6. TypeOK'
    <2>1. vault' = VaultRebuilt(vault')
      BY <1>3 DEF AskTypeOK, TypeOK, VaultRecord, VaultRebuilt
    <2>2. VaultFields(vault')
      BY <1>3, <1>4 DEF AskTypeOK, TypeOK, VaultRecord, VaultFields
    <2>3. vault' \in VaultRecord
      BY <2>1, <2>2, VaultFromFields, Zenon
    <2>4. holding' \in [Holders -> Nat]
      BY <1>3 DEF AskTypeOK, TypeOK
    <2>5. vault_usdc' \in Nat
      BY <1>2, <1>3, <1>4
    <2>6. QED
      BY <1>3, <2>3, <2>4, <2>5 DEF AskTypeOK, TypeOK
  <1>7. /\ pot' \in PotRecord
        /\ pot'.total_collateral = pot.total_collateral - drawn
        /\ pot'.total_contracts = IF drawn = 0 THEN pot.total_contracts
                                  ELSE SatSub(pot.total_contracts, quantity)
    <2>1. pot.total_collateral \in Nat /\ pot.total_contracts \in Nat
      BY <1>2 DEF PotRecord
    <2>2. SatSub(pot.total_contracts, quantity) \in Nat
      BY <2>1 DEF SatSub
    <2>3. CASE drawn = 0
      BY <1>2, <1>3, <2>1, <2>3 DEF PotAfterDraw
    <2>4. CASE drawn # 0
      BY <1>3, <1>4, <2>1, <2>2, <2>4 DEF PotAfterDraw, PotRecord
    <2>5. QED
      BY <2>3, <2>4
  <1>8. paid + drawn <= quantity * Cpc /\ (drawn > 0 => vault_usdc' = 0)
    BY <1>1, <1>2, <1>3, <1>4
  <1>9. QED
    BY <1>3, <1>4, <1>5, <1>6, <1>7, <1>8, <1>10

\* A fill of an ask: tokens of the series, backed by what moves to the pot.
LEMMA AskFillEffect ==
    ASSUME AskTypeOK, NEW h \in Holders, NEW o \in Orders, NEW quantity \in Nat,
           FillWriterAsk(h, o, quantity)
    PROVE  \E backer \in Writers :
             /\ TypeOK'
             /\ ask' \in [Orders -> AskRecord]
             /\ pot' \in PotRecord
             /\ pot'.total_collateral = pot.total_collateral + quantity * Cpc
             /\ pot'.total_contracts = pot.total_contracts + quantity
             /\ pot_usdc' = pot_usdc + quantity * Cpc
             /\ backing' \in [Writers -> BackingRecord]
             /\ backing'[backer].committed = backing[backer].committed + quantity * Cpc
             /\ backing'[backer].written = backing[backer].written + quantity
             /\ \A x \in Writers \ {backer} : backing'[x] = backing[x]
             /\ holding' = [holding EXCEPT ![h] = @ + quantity]
             /\ UNCHANGED <<now, vault, vault_usdc, usdc_open, position, mint,
                            settlement_record, roundings, pot_drawn, draws, elsewhere>>
             /\ Live /\ ~vault.voided
  <1> DEFINE backer == ask[o].owner
             locked == quantity * Cpc
  <1>1. locked \in Nat
    BY ConstantsFacts
  <1>2. backer \in Writers /\ ask[o] \in AskRecord
    BY DEF AskTypeOK, AskRecord, FillWriterAsk
  <1>3. /\ ask' = [ask EXCEPT ![o] = AskAfterFill(o, quantity)]
        /\ quantity <= ask[o].remaining /\ locked <= ask[o].escrow
        /\ pot' = [total_collateral |-> pot.total_collateral + locked,
                   total_contracts |-> pot.total_contracts + quantity]
        /\ pot_usdc' = pot_usdc + locked
        /\ backing' = [backing EXCEPT ![backer] =
              [committed |-> backing[backer].committed + locked,
               written |-> backing[backer].written + quantity]]
        /\ holding' = [holding EXCEPT ![h] = @ + quantity]
        /\ UNCHANGED <<now, vault, vault_usdc, usdc_open, position, mint,
                       settlement_record, roundings, pot_drawn, draws, elsewhere>>
        /\ Live /\ ~vault.voided
    BY DEF FillWriterAsk
  <1>4. AskAfterFill(o, quantity) \in AskRecord
    <2>1. CASE ask[o].remaining = quantity
      BY <2>1 DEF AskAfterFill, NoAsk, AskRecord
    <2>2. CASE ask[o].remaining # quantity
      BY <1>1, <1>2, <1>3, <2>2 DEF AskAfterFill, AskRecord
    <2>3. QED
      BY <2>1, <2>2
  <1> HIDE DEF locked, backer
  <1>5. ask' \in [Orders -> AskRecord]
    BY <1>3, <1>4 DEF AskTypeOK
  <1>6. /\ pot' \in PotRecord
        /\ pot'.total_collateral = pot.total_collateral + locked
        /\ pot'.total_contracts = pot.total_contracts + quantity
    BY <1>1, <1>3 DEF AskTypeOK, PotRecord
  <1>7. /\ backing' \in [Writers -> BackingRecord]
        /\ backing'[backer].committed = backing[backer].committed + locked
        /\ backing'[backer].written = backing[backer].written + quantity
        /\ \A x \in Writers \ {backer} : backing'[x] = backing[x]
    BY <1>1, <1>2, <1>3 DEF AskTypeOK, BackingRecord
  <1>8. TypeOK'
    BY <1>3 DEF AskTypeOK, TypeOK
  <1>9. QED
    BY <1>2, <1>3, <1>5, <1>6, <1>7, <1>8 DEF locked

\* What a backer may claim is a natural number.
LEMMA BackerClaimNat ==
    ASSUME AskTypeOK, NEW w \in Writers
    PROVE  /\ EquivClaim(w) \in Nat
           /\ (EquivClaim(w) > 0 => vault.total_shares > 0) => BackerPayout(w) \in Nat
  <1>1. /\ backing[w].committed \in Nat /\ vault.writer_ask_equiv_shares \in Nat
        /\ vault.writer_ask_collateral_swept \in Nat
        /\ vault.total_shares \in Nat /\ vault.collateral_remaining \in Nat
    BY DEF AskTypeOK, TypeOK, BackingRecord, VaultRecord
  <1>2. EquivClaim(w) \in Nat
    <2>1. CASE vault.writer_ask_collateral_swept = 0
      BY <2>1 DEF EquivClaim
    <2>2. CASE vault.writer_ask_collateral_swept # 0
      <3>1. vault.writer_ask_collateral_swept \in Nat \ {0}
        BY <1>1, <2>2
      <3>2. QED
        BY <1>1, <2>2, <3>1, MulDivNat DEF EquivClaim
    <2>3. QED
      BY <2>1, <2>2
  <1>3. ASSUME EquivClaim(w) > 0 => vault.total_shares > 0
        PROVE  BackerPayout(w) \in Nat
    <2>1. CASE EquivClaim(w) = 0
      BY <2>1 DEF BackerPayout
    <2>2. CASE EquivClaim(w) # 0
      <3>1. vault.total_shares \in Nat \ {0}
        BY <1>1, <1>2, <1>3, <2>2
      <3>2. MulDiv(EquivClaim(w), vault.collateral_remaining, vault.total_shares) \in Nat
        BY <1>1, <1>2, <3>1, MulDivNat
      <3>3. QED
        BY <2>2, <3>2 DEF BackerPayout
    <2>3. QED
      BY <2>1, <2>2
  <1>4. QED
    BY <1>2, <1>3

\* A backer leaves a resolved vault with its part of the residual.
LEMMA BackerExitEffect ==
    ASSUME AskTypeOK, NEW w \in Writers, BackerExit(w)
    PROVE  /\ TypeOK'
           /\ backing' \in [Writers -> BackingRecord]
           /\ backing'[w] = NoBacking
           /\ \A x \in Writers \ {w} : backing'[x] = backing[x]
           /\ BackerPayout(w) \in Nat /\ EquivClaim(w) \in Nat
           /\ vault_usdc' = vault_usdc - BackerPayout(w)
           /\ vault'.collateral_remaining = vault.collateral_remaining - BackerPayout(w)
           /\ vault'.total_shares = vault.total_shares - EquivClaim(w)
           /\ vault'.created = vault.created
           /\ vault'.is_settled = vault.is_settled /\ vault'.voided = vault.voided
           /\ vault'.settlement_price = vault.settlement_price
           /\ vault'.total_options_minted = vault.total_options_minted
           /\ vault'.total_options_sold = vault.total_options_sold
           /\ vault'.premium_per_share_cumulative = vault.premium_per_share_cumulative
           /\ vault'.writer_ask_collateral_swept = vault.writer_ask_collateral_swept
           /\ vault'.writer_ask_equiv_shares = vault.writer_ask_equiv_shares
           /\ UNCHANGED <<now, usdc_open, position, mint, holding, settlement_record,
                          roundings, ask, potVars>>
           /\ usdc_open /\ vault.writer_ask_collateral_swept > 0
  <1> DEFINE paid == BackerPayout(w)
             shares == EquivClaim(w)
  <1>1. paid \in Nat /\ shares \in Nat
    BY BackerClaimNat DEF BackerExit
  <1>2. /\ shares <= vault.total_shares
        /\ paid <= vault_usdc /\ paid <= vault.collateral_remaining
        /\ vault_usdc' = vault_usdc - paid
        /\ vault' = [vault EXCEPT !.collateral_remaining = @ - paid,
                                  !.total_shares = @ - shares]
        /\ backing' = [backing EXCEPT ![w] = NoBacking]
        /\ UNCHANGED <<now, usdc_open, position, mint, holding, settlement_record,
                       roundings, ask, potVars>>
        /\ usdc_open /\ vault.writer_ask_collateral_swept > 0
    BY DEF BackerExit
  <1> HIDE DEF paid, shares
  <1>3. vault' \in VaultRecord
    <2>1. vault' = VaultRebuilt(vault')
      BY <1>2 DEF AskTypeOK, TypeOK, VaultRecord, VaultRebuilt
    <2>2. VaultFields(vault')
      BY <1>1, <1>2 DEF AskTypeOK, TypeOK, VaultRecord, VaultFields
    <2>3. QED
      BY <2>1, <2>2, VaultFromFields, Zenon
  <1>4. /\ vault'.collateral_remaining = vault.collateral_remaining - paid
        /\ vault'.total_shares = vault.total_shares - shares
        /\ vault'.created = vault.created
        /\ vault'.is_settled = vault.is_settled /\ vault'.voided = vault.voided
        /\ vault'.settlement_price = vault.settlement_price
        /\ vault'.total_options_minted = vault.total_options_minted
        /\ vault'.total_options_sold = vault.total_options_sold
        /\ vault'.premium_per_share_cumulative = vault.premium_per_share_cumulative
        /\ vault'.writer_ask_collateral_swept = vault.writer_ask_collateral_swept
        /\ vault'.writer_ask_equiv_shares = vault.writer_ask_equiv_shares
    BY <1>2 DEF AskTypeOK, TypeOK, VaultRecord
  <1>5. TypeOK'
    BY <1>1, <1>2, <1>3 DEF AskTypeOK, TypeOK
  <1>6. /\ backing' \in [Writers -> BackingRecord]
        /\ backing'[w] = NoBacking
        /\ \A x \in Writers \ {w} : backing'[x] = backing[x]
    BY <1>2 DEF AskTypeOK, BackingRecord, NoBacking
  <1>7. QED
    BY <1>1, <1>2, <1>4, <1>5, <1>6 DEF paid, shares

-----------------------------------------------------------------------------
(* Types and accounts. *)

LEMMA AskTypeOKInit == AskInit => AskTypeOK
  <1> SUFFICES ASSUME AskInit PROVE AskTypeOK
    OBVIOUS
  <1>1. TypeOK
    BY TypeOKInit DEF AskInit
  <1>2. NoAsk \in AskRecord /\ EmptyPot \in PotRecord /\ NoBacking \in BackingRecord
    BY DEF NoAsk, AskRecord, EmptyPot, PotRecord, NoBacking, BackingRecord
  <1>3. QED
    BY <1>1, <1>2 DEF AskInit, AskTypeOK

\* The steps that touch nothing but an ask, or the pot's account on behalf of
\* another series.
AskOnly ==
    /\ UNCHANGED <<vars, backing, pot, pot_drawn, draws>>
    /\ pot_usdc' + elsewhere' = pot_usdc + elsewhere

LEMMA AskTypeOKStep == AskTypeOK /\ [AskNext]_allVars => AskTypeOK'
  <1> SUFFICES ASSUME AskTypeOK, [AskNext]_allVars PROVE AskTypeOK'
    OBVIOUS
  <1> USE AskConstants
  <1>1. CASE PoolNext /\ UNCHANGED askVars
    BY <1>1, TypeOKPool DEF AskTypeOK, askVars, potVars
  <1>2. ASSUME AskOnly, ask' \in [Orders -> AskRecord],
               pot_usdc' \in Nat, elsewhere' \in Nat
        PROVE  AskTypeOK'
    BY <1>2 DEF AskOnly, AskTypeOK, TypeOK, vars
  <1>3. ASSUME NEW w \in Writers, NEW o \in Orders, NEW quantity \in Quantities,
               PostWriterAsk(w, o, quantity)
        PROVE  AskTypeOK'
    <2>1. quantity * Cpc \in Nat
      BY ConstantsFacts
    <2>2. ask' \in [Orders -> AskRecord]
      BY <1>3, <2>1 DEF PostWriterAsk, AskTypeOK, AskRecord
    <2>3. QED
      BY <1>2, <1>3, <2>2 DEF PostWriterAsk, AskOnly, AskTypeOK, potVars
  <1>4. ASSUME NEW o \in Orders, CancelWriterAsk(o) PROVE AskTypeOK'
    <2>1. ask' \in [Orders -> AskRecord]
      BY <1>4 DEF CancelWriterAsk, AskTypeOK, AskRecord, NoAsk
    <2>2. QED
      BY <1>2, <1>4, <2>1 DEF CancelWriterAsk, AskOnly, AskTypeOK, potVars
  <1>5. ASSUME NEW w \in Writers, BackerExit(w) PROVE AskTypeOK'
    BY <1>5, BackerExitEffect DEF AskTypeOK, potVars
  <1>6. ASSUME NEW h \in Holders, NEW o \in Orders, NEW quantity \in Quantities,
               FillWriterAsk(h, o, quantity)
        PROVE  AskTypeOK'
    <2>1. quantity * Cpc \in Nat /\ quantity \in Nat
      BY ConstantsFacts
    <2>2. QED
      BY <1>6, <2>1, AskFillEffect DEF AskTypeOK
  <1>7. ASSUME NEW h \in Holders, NEW quantity \in Quantities, NEW quote \in Premiums,
               FillVaultPeg(h, quantity, quote)
        PROVE  AskTypeOK'
    BY <1>7, PegEffect DEF AskTypeOK, askVars, potVars
  <1>8. ASSUME NEW h \in Holders, NEW quantity \in Quantities, NEW spot \in Prices,
               NEW own \in BOOLEAN, ExerciseAmerican(h, quantity, spot, own)
        PROVE  AskTypeOK'
    <2>1. PICK drawn \in Nat :
             /\ TypeOK' /\ pot' \in PotRecord
             /\ pot_usdc' \in Nat
             /\ pot_drawn' = pot_drawn + drawn
             /\ draws' = draws + (IF drawn > 0 THEN 1 ELSE 0)
             /\ UNCHANGED <<ask, backing, elsewhere>>
      BY <1>8, ExerciseEffect
    <2>2. pot_usdc' \in Nat /\ pot_drawn' \in Nat /\ draws' \in Nat
      BY <2>1 DEF AskTypeOK
    <2>3. QED
      BY <2>1, <2>2 DEF AskTypeOK
  <1>9. CASE SettleVaultWithPot \/ InitializeVoidWithPot
    <2>1. pot.total_collateral \in Nat /\ pot_usdc' \in Nat
      BY <1>9 DEF AskTypeOK, PotRecord, SettleVaultWithPot, InitializeVoidWithPot
    <2>2. TypeOK'
      BY <1>9, <2>1, ResolveTypes
         DEF AskTypeOK, SettleVaultWithPot, InitializeVoidWithPot
    <2>3. QED
      BY <1>9, <2>1, <2>2 DEF AskTypeOK, SettleVaultWithPot, InitializeVoidWithPot
  <1>10. CASE UNCHANGED allVars
    BY <1>2, <1>10 DEF AskOnly, AskTypeOK, allVars, askVars, potVars
  <1>12. ASSUME NEW amount \in Amounts, PotPaysElsewhere(amount) PROVE AskTypeOK'
    <2>1. amount \in Nat
      BY AskConstants
    <2>2. pot_usdc' \in Nat /\ elsewhere' \in Nat /\ AskOnly
      BY <1>12, <2>1 DEF PotPaysElsewhere, AskOnly, AskTypeOK
    <2>3. QED
      BY <1>2, <1>12, <2>2 DEF PotPaysElsewhere, AskTypeOK
  <1>13. ASSUME NEW o \in Orders, NEW amount \in Amounts, AskPaysElsewhere(o, amount)
         PROVE  AskTypeOK'
    <2>1. amount \in Nat
      BY AskConstants
    <2>2. ask' \in [Orders -> AskRecord]
      BY <1>13, <2>1 DEF AskPaysElsewhere, AskTypeOK, AskRecord
    <2>3. QED
      BY <1>2, <1>13, <2>2 DEF AskPaysElsewhere, AskOnly, AskTypeOK, potVars
  <1>11. QED
    BY <1>1, <1>3, <1>4, <1>5, <1>6, <1>7, <1>8, <1>9, <1>10, <1>12, <1>13
       DEF AskNext, BackerNext, TakerNext, WithdrawWriterAskResidual,
           ReclaimWriterAskResidual, SweepExpiredAsk

\* Every balance and counter of the pool, the asks and the pot stays natural.
THEOREM AskTypesCorrect == AskSpec => []AskTypeOK
  BY AskTypeOKInit, AskTypeOKStep, PTL DEF AskSpec

LEMMA AskAccountsStep ==
    AskTypeOK /\ AskTypeOK' /\ AccountsInv /\ [AskNext]_allVars => AccountsInv'
  <1> SUFFICES ASSUME AskTypeOK, AskTypeOK', AccountsInv, [AskNext]_allVars
               PROVE  AccountsInv'
    OBVIOUS
  <1> USE AskConstants
  <1>0. TypeOK /\ TypeOK' /\ now \in Nat
    BY DEF AskTypeOK, TypeOK
  <1>1. CASE PoolNext
    BY <1>0, <1>1, AccountsInvPool
  <1>2. ASSUME UNCHANGED <<now, vault, usdc_open, position, settlement_record>>
        PROVE  AccountsInv'
    BY <1>0, <1>2, AccountsInvFrame
  <1>3. ASSUME NEW w \in Writers, BackerExit(w), ~Unresolved PROVE AccountsInv'
    <2>1. vault.created
      BY <1>3, ResolvedCreated
    <2>2. QED
      BY <1>0, <1>3, <2>1, BackerExitEffect, AccountsInvResolved
  <1>4. ASSUME NEW h \in Holders, NEW quantity \in Quantities, NEW quote \in Premiums,
               FillVaultPeg(h, quantity, quote)
        PROVE  AccountsInv'
    <2>1. quantity \in Nat /\ quote \in Nat
      BY AskConstants
    <2>2. /\ vault.created /\ vault'.created = vault.created
           /\ vault'.is_settled = vault.is_settled /\ vault'.voided = vault.voided
           /\ vault'.settlement_price = vault.settlement_price
           /\ vault'.total_collateral = vault.total_collateral
           /\ vault'.total_shares = vault.total_shares
           /\ UNCHANGED <<now, usdc_open, settlement_record, position>>
      BY <1>0, <1>4, <2>1, PegEffect
    <2>3. QED
      BY <1>0, <2>2, AccountsInvFrame
  <1>5. ASSUME NEW h \in Holders, NEW quantity \in Quantities, NEW spot \in Prices,
               NEW own \in BOOLEAN, ExerciseAmerican(h, quantity, spot, own)
        PROVE  AccountsInv'
    <2>1. quantity \in Nat /\ spot \in Nat
      BY AskConstants
    <2>2. /\ vault.created /\ vault'.created = vault.created
           /\ vault'.is_settled = vault.is_settled /\ vault'.voided = vault.voided
           /\ vault'.settlement_price = vault.settlement_price
           /\ vault'.total_collateral = vault.total_collateral
           /\ vault'.total_shares = vault.total_shares
           /\ UNCHANGED <<now, usdc_open, settlement_record, position>>
      BY <1>0, <1>5, <2>1, ExerciseEffect
    <2>3. QED
      BY <1>0, <2>2, AccountsInvFrame
  <1>6. CASE SettleVaultWithPot \/ InitializeVoidWithPot
    BY <1>0, <1>6, AccountsInvResolve
       DEF SettleVaultWithPot, InitializeVoidWithPot, AskTypeOK, PotRecord
  <1>7. ASSUME NEW h \in Holders, NEW o \in Orders, NEW quantity \in Quantities,
               FillWriterAsk(h, o, quantity)
        PROVE  AccountsInv'
    BY <1>2, <1>7 DEF FillWriterAsk
  <1>8. ASSUME AskOnly PROVE AccountsInv'
    BY <1>2, <1>8 DEF AskOnly, vars
  <1>10. ASSUME NEW amount \in Amounts,
                PotPaysElsewhere(amount) \/ (\E o \in Orders : AskPaysElsewhere(o, amount))
         PROVE  AccountsInv'
    BY <1>2, <1>10 DEF PotPaysElsewhere, AskPaysElsewhere, vars
  <1>9. QED
    BY <1>1, <1>3, <1>4, <1>5, <1>6, <1>7, <1>8, <1>10
       DEF AskNext, BackerNext, TakerNext, WithdrawWriterAskResidual,
           ReclaimWriterAskResidual, SweepExpiredAsk, CancelWriterAsk, PostWriterAsk,
           AskOnly, allVars, askVars, potVars, Unresolved

LEMMA AskAccountsInvariant == AskSpec => []AccountsInv
  <1>1. AskInit => AccountsInv
    BY AccountsInvInit DEF AskInit
  <1>2. QED
    BY <1>1, AskAccountsStep, AskTypesCorrect, PTL DEF AskSpec

-----------------------------------------------------------------------------
(* What the pool's own steps change of what asks and holders rely on. *)

\* The pool's steps resolve nothing, and no rounding is forgotten.
LEMMA PoolResolvesNothing ==
    ASSUME TypeOK, AccountsInv, PoolNext
    PROVE  /\ vault'.is_settled = vault.is_settled /\ vault'.voided = vault.voided
           /\ vault'.settlement_price = vault.settlement_price
           /\ now <= now' /\ roundings <= roundings'
           /\ Unresolved' = Unresolved
  <1> DEFINE Kept ==
        /\ vault'.is_settled = vault.is_settled /\ vault'.voided = vault.voided
        /\ vault'.settlement_price = vault.settlement_price
        /\ now' = now \/ now' = now + 1
        /\ roundings' = roundings \/ \E n \in Nat : roundings' = roundings + n
  <1>1. ASSUME NEW w \in Writers, WriterNext(w) PROVE Kept
    <2>1. \A s : DroppedFraction(s) \in Nat
      BY DEF DroppedFraction
    <2>2. CASE \E amount \in Amounts : CreateAndDeposit(w, amount)
      <3>1. PICK amount \in Amounts : CreateAndDeposit(w, amount)
        BY <2>2
      <3>2. roundings' = roundings + DroppedFraction(amount)
        BY <3>1 DEF CreateAndDeposit, Credit
      <3>3. QED
        BY <2>1, <3>1, <3>2 DEF CreateAndDeposit, TypeOK, VaultRecord
    <2>3. CASE \E amount \in Amounts : DepositToVault(w, amount)
      <3>1. PICK amount \in Amounts : DepositToVault(w, amount)
        BY <2>3
      <3>2. roundings' = roundings + DroppedFraction(SharesFor(amount))
        BY <3>1 DEF DepositToVault, Credit
      <3>3. QED
        BY <2>1, <3>1, <3>2 DEF DepositToVault, TypeOK, VaultRecord
    <2>4. CASE \E shares \in Quantities : WithdrawFromVault(w, shares)
      <3>1. PICK shares \in Quantities : WithdrawFromVault(w, shares)
        BY <2>4
      <3>2. roundings' = roundings + DroppedFraction(position[w].shares - shares)
        BY <3>1 DEF WithdrawFromVault
      <3>3. QED
        BY <2>1, <3>1, <3>2 DEF WithdrawFromVault, TypeOK, VaultRecord
    <2>5. CASE CreateSharedVault(w) \/ ClaimPremium(w)
      BY <2>5 DEF CreateSharedVault, ClaimPremium, TypeOK, VaultRecord
    <2>6. CASE \/ \E m \in Mints, quantity \in Quantities, premium \in Premiums :
                     MintFromVault(w, m, quantity, premium)
               \/ \E m \in Mints : BurnUnsoldFromVault(w, m)
      BY <2>6 DEF MintFromVault, BurnUnsoldFromVault, TypeOK, VaultRecord
    <2>7. CASE WithdrawPostSettlement(w) \/ AutoFinalizeWriters(w) \/ ReclaimUnsettled(w)
      BY <2>7 DEF WithdrawPostSettlement, AutoFinalizeWriters, ReclaimUnsettled,
                  WriterExit, TypeOK, VaultRecord
    <2>8. QED
      BY <1>1, <2>2, <2>3, <2>4, <2>5, <2>6, <2>7 DEF WriterNext
  <1>2. ASSUME NEW h \in Holders, HolderNext(h) PROVE Kept
    BY <1>2 DEF HolderNext, PurchaseFromVault, ExerciseFromVault,
                AutoFinalizeHolders, PayHolder, TypeOK, VaultRecord
  <1>3. Kept
    BY <1>1, <1>2 DEF PoolNext, Tick, SettleExpiry, AutoFinalizeNoWriters,
                      CloseSettledWriterAskVault
  <1>4. now <= now' /\ roundings <= roundings'
    BY <1>3 DEF TypeOK
  <1>5. QED
    BY <1>3, <1>4 DEF Unresolved

\* The steps of the pool that move tokens; every other leaves them alone.
LEMMA PoolMoves ==
    ASSUME TypeOK, AccountsInv, PoolNext
    PROVE  \/ \E w \in Writers, m \in Mints :
                 \/ \E quantity \in Quantities, premium \in Premiums :
                       MintFromVault(w, m, quantity, premium)
                 \/ BurnUnsoldFromVault(w, m)
           \/ \E h \in Holders, m \in Mints, quantity \in Quantities :
                 PurchaseFromVault(h, m, quantity)
           \/ \E h \in Holders, quantity \in Nat : PayHolder(h, quantity)
           \/ /\ UNCHANGED <<mint, holding>>
              /\ vault'.total_options_minted = vault.total_options_minted
              /\ vault'.total_options_sold = vault.total_options_sold
  <1> DEFINE Still == /\ UNCHANGED <<mint, holding>>
                      /\ vault'.total_options_minted = vault.total_options_minted
                      /\ vault'.total_options_sold = vault.total_options_sold
  <1>1. ASSUME NEW w \in Writers, WriterNext(w)
        PROVE  \/ \E m \in Mints :
                    \/ \E quantity \in Quantities, premium \in Premiums :
                          MintFromVault(w, m, quantity, premium)
                    \/ BurnUnsoldFromVault(w, m)
               \/ Still
    <2>1. CASE \/ CreateSharedVault(w)
               \/ \E amount \in Amounts :
                     CreateAndDeposit(w, amount) \/ DepositToVault(w, amount)
               \/ \E shares \in Quantities : WithdrawFromVault(w, shares)
               \/ ClaimPremium(w)
               \/ WithdrawPostSettlement(w) \/ AutoFinalizeWriters(w)
               \/ ReclaimUnsettled(w)
      BY <2>1 DEF CreateSharedVault, CreateAndDeposit, DepositToVault,
                  WithdrawFromVault, ClaimPremium, WithdrawPostSettlement,
                  AutoFinalizeWriters, ReclaimUnsettled, WriterExit, TypeOK, VaultRecord
    <2>2. QED
      BY <1>1, <2>1 DEF WriterNext
  <1>2. ASSUME NEW h \in Holders, HolderNext(h)
        PROVE  \/ \E m \in Mints, quantity \in Quantities :
                     PurchaseFromVault(h, m, quantity)
               \/ \E quantity \in Nat : PayHolder(h, quantity)
    BY <1>2, InputsAssumption
       DEF HolderNext, ExerciseFromVault, AutoFinalizeHolders, TypeOK
  <1>3. QED
    BY <1>1, <1>2 DEF PoolNext, Tick, SettleExpiry, AutoFinalizeNoWriters,
                      CloseSettledWriterAskVault

\* Tokens in escrow, sold and held by the pool's steps: a token leaves the
\* escrow when it is sold or burned, and only settled tokens leave the holders.
LEMMA PoolTokens ==
    ASSUME TypeOK, TypeOK', AccountsInv, PoolNext
    PROVE  /\ TotalEscrowed' + vault'.total_options_sold - vault'.total_options_minted
                = TotalEscrowed + vault.total_options_sold - vault.total_options_minted
           /\ TotalHeld' - vault'.total_options_sold
                <= TotalHeld - vault.total_options_sold
           /\ Unresolved => TotalHeld' - vault'.total_options_sold
                                = TotalHeld - vault.total_options_sold
  <1> DEFINE Flow ==
        /\ TotalEscrowed' + vault'.total_options_sold - vault'.total_options_minted
             = TotalEscrowed + vault.total_options_sold - vault.total_options_minted
        /\ TotalHeld' - vault'.total_options_sold <= TotalHeld - vault.total_options_sold
        /\ Unresolved => TotalHeld' - vault'.total_options_sold
                             = TotalHeld - vault.total_options_sold
  <1>0. /\ TotalEscrowed \in Nat /\ TotalHeld \in Nat
        /\ vault.total_options_sold \in Nat /\ vault.total_options_minted \in Nat
    BY TotalsNat, VaultTypes
  <1>1. ASSUME holding' = holding PROVE TotalHeld' = TotalHeld
    BY <1>1 DEF TotalHeld
  <1>2. ASSUME mint' = mint PROVE TotalEscrowed' = TotalEscrowed
    BY <1>2 DEF TotalEscrowed
  <1>3. ASSUME NEW w \in Writers, NEW m \in Mints, NEW quantity \in Quantities,
               NEW premium \in Premiums, MintFromVault(w, m, quantity, premium)
        PROVE  Flow
    <2>1. /\ quantity \in Nat /\ mint[m].escrow = 0 /\ mint'[m].escrow = quantity
          /\ \A x \in Mints \ {m} : mint'[x] = mint[x]
          /\ vault'.total_options_minted = vault.total_options_minted + quantity
          /\ vault'.total_options_sold = vault.total_options_sold
          /\ holding' = holding
      BY <1>3, InputsAssumption DEF MintFromVault, UnusedMint, TypeOK, VaultRecord
    <2>2. TotalEscrowed' = TotalEscrowed + quantity
      BY <1>0, <2>1, EscrowChange
    <2>3. QED
      BY <1>0, <1>1, <2>1, <2>2
  <1>4. ASSUME NEW w \in Writers, NEW m \in Mints, BurnUnsoldFromVault(w, m)
        PROVE  Flow
    <2>1. /\ mint[m].escrow \in Nat /\ mint'[m].escrow = 0
          /\ \A x \in Mints \ {m} : mint'[x] = mint[x]
          /\ vault'.total_options_minted = vault.total_options_minted - mint[m].escrow
          /\ vault'.total_options_sold = vault.total_options_sold
          /\ holding' = holding
      BY <1>4 DEF BurnUnsoldFromVault, TypeOK, VaultRecord, MintRecord
    <2>2. TotalEscrowed' = TotalEscrowed - mint[m].escrow
      BY <1>0, <2>1, EscrowChange
    <2>3. QED
      BY <1>0, <1>1, <2>1, <2>2
  <1>5. ASSUME NEW h \in Holders, NEW m \in Mints, NEW quantity \in Quantities,
               PurchaseFromVault(h, m, quantity)
        PROVE  Flow
    <2>1. /\ quantity \in Nat /\ mint[m].escrow \in Nat /\ holding[h] \in Nat
          /\ mint'[m].escrow = mint[m].escrow - quantity
          /\ \A x \in Mints \ {m} : mint'[x] = mint[x]
          /\ holding'[h] = holding[h] + quantity
          /\ \A x \in Holders \ {h} : holding'[x] = holding[x]
          /\ vault'.total_options_minted = vault.total_options_minted
          /\ vault'.total_options_sold = vault.total_options_sold + quantity
      BY <1>5, InputsAssumption DEF PurchaseFromVault, TypeOK, VaultRecord, MintRecord
    <2>2. TotalEscrowed' = TotalEscrowed - quantity
      BY <1>0, <2>1, EscrowChange
    <2>3. TotalHeld' = TotalHeld + quantity
      BY <1>0, <2>1, HeldChange
    <2>4. QED
      BY <1>0, <2>1, <2>2, <2>3
  <1>6. ASSUME NEW h \in Holders, NEW quantity \in Nat, PayHolder(h, quantity)
        PROVE  Flow
    <2>1. /\ holding[h] \in Nat /\ holding'[h] = holding[h] - quantity
          /\ \A x \in Holders \ {h} : holding'[x] = holding[x]
          /\ vault'.total_options_minted = vault.total_options_minted
          /\ vault'.total_options_sold = vault.total_options_sold
          /\ mint' = mint /\ ~Unresolved
      BY <1>6 DEF PayHolder, TypeOK, VaultRecord, Unresolved
    <2>2. TotalHeld' = TotalHeld - quantity
      BY <1>0, <2>1, HeldChange
    <2>3. QED
      BY <1>0, <1>2, <2>1, <2>2
  <1>7. QED
    BY <1>0, <1>1, <1>2, <1>3, <1>4, <1>5, <1>6, PoolMoves

\* Shares are issued to and taken from writers one for one.
LEMMA PoolShares ==
    ASSUME TypeOK, TypeOK', AccountsInv, PoolNext
    PROVE  vault'.total_shares - TotalShares' = vault.total_shares - TotalShares
  <1> DEFINE Even == vault'.total_shares - TotalShares' = vault.total_shares - TotalShares
  <1>0. TotalShares \in Nat /\ vault.total_shares \in Nat
        /\ \A x \in Writers : position[x].shares \in Nat
    BY TotalsNat, VaultTypes DEF TypeOK, PositionRecord
  <1>1. ASSUME NEW w \in Writers, NEW n \in Int,
               position'[w].shares = position[w].shares + n,
               \A x \in Writers \ {w} : position'[x].shares = position[x].shares,
               vault'.total_shares = vault.total_shares + n
        PROVE  Even
    <2>1. TotalShares' = TotalShares - position[w].shares + position'[w].shares
      BY <1>1, SharesChange
    <2>2. QED
      BY <1>0, <1>1, <2>1
  <1>2. ASSUME \A x \in Writers : position'[x].shares = position[x].shares,
               vault'.total_shares = vault.total_shares
        PROVE  Even
    <2>1. Shares' = Shares
      BY <1>2 DEF Shares
    <2>2. TotalShares' = TotalShares
      BY <2>1 DEF Shares, TotalShares
    <2>3. QED
      BY <1>2, <2>2
  <1>3. ASSUME NEW w \in Writers, NEW amount \in Amounts,
               CreateAndDeposit(w, amount) \/ DepositToVault(w, amount)
        PROVE  Even
    <2>1. amount \in Nat /\ Unresolved /\ SharesFor(amount) = amount
      <3>1. amount \in Nat /\ Unresolved
        BY <1>3, InputsAssumption, LiveUnresolved
           DEF CreateAndDeposit, DepositToVault, AccountsInv, EmptyVault, Unresolved
      <3>2. QED
        BY <3>1, ShareIsUnit
    <2>2. Credit(w, amount, amount)
      BY <1>3, <2>1 DEF CreateAndDeposit, DepositToVault
    <2>3. vault'.total_shares = vault.total_shares + amount
      <3>1. CASE CreateAndDeposit(w, amount)
        BY <2>1, <3>1 DEF CreateAndDeposit, AccountsInv, EmptyVault
      <3>2. CASE DepositToVault(w, amount)
        BY <2>1, <3>2 DEF DepositToVault, TypeOK, VaultRecord
      <3>3. QED
        BY <1>3, <3>1, <3>2
    <2>4. /\ position'[w].shares = position[w].shares + amount
          /\ \A x \in Writers \ {w} : position'[x] = position[x]
      BY <2>1, <2>2, CreditEffect
    <2>5. QED
      BY <1>1, <2>1, <2>3, <2>4
  <1>4. ASSUME NEW w \in Writers, NEW shares \in Quantities, WithdrawFromVault(w, shares)
        PROVE  Even
    <2> DEFINE n == 0 - shares
    <2>1. /\ shares \in Nat /\ position'[w].shares = position[w].shares - shares
          /\ \A x \in Writers \ {w} : position'[x] = position[x]
          /\ vault'.total_shares = vault.total_shares - shares
      BY <1>4, WithdrawEffect DEF TypeOK, VaultRecord
    <2>2. /\ n \in Int /\ position'[w].shares = position[w].shares + n
          /\ vault'.total_shares = vault.total_shares + n
      BY <1>0, <2>1
    <2>3. QED
      BY <1>1, <2>1, <2>2
  <1>5. ASSUME NEW w \in Writers, NEW residual, WriterExit(w, residual),
               position'[w].shares = 0, \A x \in Writers \ {w} : position'[x] = position[x]
        PROVE  Even
    <2> DEFINE n == 0 - position[w].shares
    <2>1. vault'.total_shares = vault.total_shares - position[w].shares
      BY <1>5 DEF WriterExit, TypeOK, VaultRecord
    <2>2. /\ n \in Int /\ position'[w].shares = position[w].shares + n
          /\ vault'.total_shares = vault.total_shares + n
      BY <1>0, <1>5, <2>1
    <2>3. QED
      BY <1>1, <1>5, <2>2
  <1>6. ASSUME NEW w \in Writers, WriterNext(w) PROVE Even
    <2>1. CASE WithdrawPostSettlement(w) \/ AutoFinalizeWriters(w)
      BY <1>5, <2>1 DEF WithdrawPostSettlement, AutoFinalizeWriters, EmptyPosition, TypeOK
    <2>2. CASE ReclaimUnsettled(w)
      BY <1>5, <2>2 DEF ReclaimUnsettled, TypeOK, PositionRecord
    <2>3. CASE \/ \E m \in Mints, quantity \in Quantities, premium \in Premiums :
                     MintFromVault(w, m, quantity, premium)
               \/ \E m \in Mints : BurnUnsoldFromVault(w, m)
      BY <1>2, <2>3 DEF MintFromVault, BurnUnsoldFromVault, TypeOK, PositionRecord,
                        VaultRecord
    <2>4. CASE CreateSharedVault(w)
      BY <1>2, <2>4 DEF CreateSharedVault, TypeOK, VaultRecord
    <2>5. CASE ClaimPremium(w)
      BY <1>2, <2>5 DEF ClaimPremium, TypeOK, PositionRecord
    <2>6. QED
      BY <1>3, <1>4, <1>6, <2>1, <2>2, <2>3, <2>4, <2>5 DEF WriterNext
  <1>7. ASSUME NEW h \in Holders, HolderNext(h) PROVE Even
    BY <1>2, <1>7 DEF HolderNext, PurchaseFromVault, ExerciseFromVault,
                      AutoFinalizeHolders, PayHolder, TypeOK, VaultRecord
  <1>8. QED
    BY <1>2, <1>6, <1>7 DEF PoolNext, Tick, SettleExpiry, AutoFinalizeNoWriters,
                            CloseSettledWriterAskVault

\* A step of the pool adds no claim on the collateral, unless the free
\* collateral was checked to cover it.
LEMMA PoolLimits ==
    ASSUME TypeOK, TypeOK', AccountsInv, PoolNext, Unresolved
    PROVE  \/ /\ vault'.total_options_minted <= vault.total_options_minted
              /\ vault'.total_collateral >= vault.total_collateral
           \/ /\ vault.exercised_options <= vault.total_options_minted
              /\ vault.total_options_minted <= vault'.total_options_minted
              /\ (vault'.total_options_minted - vault.exercised_options) * Cpc
                     + vault.early_exercise_payout <= vault'.total_collateral
  <1> DEFINE Looser == /\ vault'.total_options_minted <= vault.total_options_minted
                       /\ vault'.total_collateral >= vault.total_collateral
             Checked == /\ vault.exercised_options <= vault.total_options_minted
                        /\ vault.total_options_minted <= vault'.total_options_minted
                        /\ (vault'.total_options_minted - vault.exercised_options) * Cpc
                             + vault.early_exercise_payout <= vault'.total_collateral
  <1> USE AskConstants
  <1>0. /\ vault.total_collateral \in Nat /\ vault.total_options_minted \in Nat
        /\ vault.exercised_options \in Nat /\ vault.early_exercise_payout \in Nat
        /\ Cpc \in Nat
    BY ConstantsFacts DEF TypeOK, VaultRecord
  <1>1. ASSUME vault'.total_options_minted = vault.total_options_minted,
               vault'.total_collateral = vault.total_collateral
        PROVE  Looser
    BY <1>0, <1>1
  <1>2. ASSUME NEW w \in Writers, NEW amount \in Amounts,
               CreateAndDeposit(w, amount) \/ DepositToVault(w, amount)
        PROVE  Looser
    <2>1. amount \in Nat
      BY InputsAssumption
    <2>2. CASE CreateAndDeposit(w, amount)
      BY <1>0, <2>1, <2>2 DEF CreateAndDeposit, AccountsInv, EmptyVault
    <2>3. CASE DepositToVault(w, amount)
      BY <1>0, <2>1, <2>3 DEF DepositToVault, TypeOK, VaultRecord
    <2>4. QED
      BY <1>2, <2>2, <2>3
  <1>3. ASSUME NEW w \in Writers, NEW m \in Mints, NEW quantity \in Quantities,
               NEW premium \in Premiums, MintFromVault(w, m, quantity, premium)
        PROVE  Checked
    <2> DEFINE x == vault.total_options_minted - vault.exercised_options
    <2>1. /\ VaultFreeAtLeast(quantity * Cpc) /\ quantity \in Nat
          /\ vault'.total_options_minted = vault.total_options_minted + quantity
          /\ vault'.total_collateral = vault.total_collateral
      BY <1>3 DEF MintFromVault, TypeOK, VaultRecord
    <2>2. /\ vault.early_exercise_payout <= vault.total_collateral
          /\ vault.exercised_options <= vault.total_options_minted
          /\ x * Cpc + quantity * Cpc <= vault.total_collateral - vault.early_exercise_payout
      BY <2>1 DEF VaultFreeAtLeast
    <2>3. /\ x \in Nat
          /\ vault'.total_options_minted - vault.exercised_options = x + quantity
      BY <1>0, <2>1, <2>2
    <2> HIDE DEF x
    <2>4. (x + quantity) * Cpc = x * Cpc + quantity * Cpc
          /\ x * Cpc \in Nat /\ quantity * Cpc \in Nat
      BY <1>0, <2>1, <2>3
    <2>5. QED
      BY <1>0, <2>1, <2>2, <2>3, <2>4
  <1>4. ASSUME NEW w \in Writers, NEW m \in Mints, BurnUnsoldFromVault(w, m)
        PROVE  Looser
    BY <1>0, <1>4 DEF BurnUnsoldFromVault, TypeOK, VaultRecord, MintRecord
  <1>5. ASSUME NEW w \in Writers, NEW shares \in Quantities, WithdrawFromVault(w, shares)
        PROVE  Checked
    <2> DEFINE x == vault.total_options_minted - vault.exercised_options
    <2>1. /\ shares \in Nat
          /\ vault'.total_options_minted = vault.total_options_minted
          /\ vault'.total_collateral = vault.total_collateral - shares
      BY <1>5, WithdrawEffect DEF TypeOK, VaultRecord
    <2>2. VaultFreeAtLeast(shares)
      BY <1>5, <2>1, ShareIsUnit DEF WithdrawFromVault
    <2>3. /\ vault.early_exercise_payout <= vault.total_collateral
          /\ vault.exercised_options <= vault.total_options_minted
          /\ x * Cpc + shares <= vault.total_collateral - vault.early_exercise_payout
      BY <2>2 DEF VaultFreeAtLeast
    <2>4. x \in Nat
      BY <1>0, <2>3
    <2>5. vault'.total_options_minted - vault.exercised_options = x
      BY <2>1
    <2> HIDE DEF x
    <2>6. x * Cpc \in Nat
      BY <1>0, <2>4
    <2>7. QED
      BY <1>0, <2>1, <2>3, <2>5, <2>6
  <1>6. ASSUME NEW w \in Writers, WriterNext(w) PROVE Looser \/ Checked
    <2>1. CASE CreateSharedVault(w) \/ ClaimPremium(w)
      BY <1>1, <2>1 DEF CreateSharedVault, ClaimPremium, TypeOK, VaultRecord
    <2>2. ~(WithdrawPostSettlement(w) \/ AutoFinalizeWriters(w) \/ ReclaimUnsettled(w))
      BY DEF WithdrawPostSettlement, AutoFinalizeWriters, ReclaimUnsettled, Unresolved
    <2>3. QED
      BY <1>2, <1>3, <1>4, <1>5, <1>6, <2>1, <2>2 DEF WriterNext
  <1>7. ASSUME NEW h \in Holders, HolderNext(h) PROVE Looser
    BY <1>1, <1>7 DEF HolderNext, PurchaseFromVault, ExerciseFromVault,
                      AutoFinalizeHolders, PayHolder, TypeOK, VaultRecord
  <1>8. QED
    BY <1>1, <1>6, <1>7 DEF PoolNext, Tick, SettleExpiry, AutoFinalizeNoWriters,
                            CloseSettledWriterAskVault

-----------------------------------------------------------------------------
(* The inductive invariant. *)

TotalWrittenByAsks == Total([w \in Writers |-> backing[w].written])

\* The pot: its account holds what it counts but for what other series took, it
\* counts what its backers committed less what was drawn, and it backs its
\* contracts.
PotInv ==
    /\ \A w \in Writers : backing[w].committed = backing[w].written * Cpc
    /\ Unresolved => /\ pot.total_collateral <= pot_usdc + elsewhere
                     /\ pot.total_contracts * Cpc <= pot.total_collateral
                     /\ pot.total_collateral + pot_drawn = TotalCommitted

\* Where the tokens are: the pool's in escrow or sold, and until the vault is
\* resolved what was sold or written by asks is held or was exercised.
TokensInv ==
    /\ TotalEscrowed + vault.total_options_sold = vault.total_options_minted
    /\ TotalHeld <= vault.total_options_sold + pot.total_contracts
    /\ Unresolved => TotalHeld + vault.exercised_options
                         = vault.total_options_sold + TotalWrittenByAsks

\* What early exercises took: no more than a full collateral per token, no more
\* than the pool's collateral can bear for tokens of the pool, and from the pot
\* no more than the dust as long as the pool has tokens left.
LimitsInv ==
    Unresolved =>
        /\ pot_drawn + vault.early_exercise_payout <= vault.exercised_options * Cpc
        /\ vault.total_options_minted * Cpc + pot_drawn + vault.early_exercise_payout
               <= vault.total_collateral + vault.exercised_options * Cpc + Dust
        /\ vault.exercised_options <= vault.total_options_minted => pot_drawn <= Dust

\* Whose the shares are: writers', and after the merge of an undrawn pot also
\* its backers', one for each unit they committed.
BackersInv ==
    /\ Unresolved => /\ vault.total_shares = TotalShares
                     /\ vault.writer_ask_collateral_swept = 0
                     /\ vault.writer_ask_equiv_shares = 0
    /\ ~Unresolved =>
           vault.writer_ask_equiv_shares = vault.writer_ask_collateral_swept
    /\ (~Unresolved /\ pot_drawn = 0) =>
           /\ vault.total_shares = TotalShares + TotalCommitted
           /\ vault.writer_ask_collateral_swept = 0 => TotalCommitted = 0

\* After settlement: holders are covered up to the dust while their window is
\* open, and where nothing was sold nobody holds a token.
WindowInv ==
    /\ AllHoldersCoveredInWindow
    /\ (vault.is_settled /\ vault.total_options_sold = 0
            /\ vault.writer_ask_collateral_swept = 0) => TotalHeld = 0

\* The funds cover what is owed, up to the dust that settlement writes off.
FundsInv ==
    (usdc_open \/ ~vault.created) =>
        Surplus + Scale * (IF Unresolved THEN 0 ELSE Dust) >= 0

AskInv == PotInv /\ TokensInv /\ LimitsInv /\ BackersInv /\ WindowInv /\ FundsInv

Committed == [w \in Writers |-> backing[w].committed]
WrittenByAsks == [w \in Writers |-> backing[w].written]

LEMMA PotTypes ==
    ASSUME AskTypeOK
    PROVE  /\ pot.total_collateral \in Nat /\ pot.total_contracts \in Nat
           /\ pot_usdc \in Nat /\ pot_drawn \in Nat /\ draws \in Nat /\ elsewhere \in Nat
           /\ Dust \in Nat
           /\ Committed \in [Writers -> Nat] /\ WrittenByAsks \in [Writers -> Nat]
           /\ TotalCommitted = Total(Committed) /\ TotalCommitted \in Nat
           /\ TotalWrittenByAsks = Total(WrittenByAsks) /\ TotalWrittenByAsks \in Nat
           /\ \A w \in Writers : /\ backing[w].committed \in Nat
                                 /\ backing[w].written \in Nat
           /\ vault.exercised_options \in Nat /\ vault.early_exercise_payout \in Nat
           /\ vault.writer_ask_collateral_swept \in Nat
           /\ vault.writer_ask_equiv_shares \in Nat
           /\ roundings \in Nat /\ vault_usdc \in Nat /\ now \in Nat
  <1>1. Committed \in [Writers -> Nat] /\ WrittenByAsks \in [Writers -> Nat]
    BY DEF AskTypeOK, BackingRecord, Committed, WrittenByAsks
  <1>2. Total(Committed) \in Nat /\ Total(WrittenByAsks) \in Nat
    BY <1>1, AccountsFinite, UnitsFinite
  <1>3. roundings \in Nat /\ draws \in Nat /\ roundings * draws \in Nat
    BY DEF AskTypeOK, TypeOK
  <1>4. TotalCommitted = Total(Committed) /\ TotalWrittenByAsks = Total(WrittenByAsks)
    BY DEF TotalCommitted, TotalWrittenByAsks, Committed, WrittenByAsks
  <1>5. QED
    BY <1>1, <1>2, <1>3, <1>4
       DEF AskTypeOK, TypeOK, VaultRecord, PotRecord, BackingRecord, Dust

\* One backer's position changes.
LEMMA BackingChange ==
    ASSUME AskTypeOK, AskTypeOK', NEW w \in Writers,
           \A x \in Writers \ {w} : backing'[x] = backing[x]
    PROVE  /\ TotalCommitted' = TotalCommitted - backing[w].committed
                                    + backing'[w].committed
           /\ TotalWrittenByAsks' = TotalWrittenByAsks - backing[w].written
                                        + backing'[w].written
  <1>1. /\ Committed \in [Writers -> Nat] /\ Committed' \in [Writers -> Nat]
        /\ WrittenByAsks \in [Writers -> Nat] /\ WrittenByAsks' \in [Writers -> Nat]
    BY DEF AskTypeOK, BackingRecord, Committed, WrittenByAsks
  <1>2. \A x \in Writers \ {w} : /\ Committed'[x] = Committed[x]
                                 /\ WrittenByAsks'[x] = WrittenByAsks[x]
    BY DEF Committed, WrittenByAsks
  <1>3. Total(Committed') = Total(Committed) - Committed[w] + Committed'[w]
    BY <1>1, <1>2, AccountsFinite, TotalChange
  <1>4. Total(WrittenByAsks') = Total(WrittenByAsks) - WrittenByAsks[w] + WrittenByAsks'[w]
    BY <1>1, <1>2, AccountsFinite, TotalChange
  <1>5. QED
    BY <1>3, <1>4 DEF Committed, WrittenByAsks, TotalCommitted, TotalWrittenByAsks

\* What backers committed is a collateral for each contract they wrote.
LEMMA CommittedForWritten ==
    ASSUME AskTypeOK, PotInv
    PROVE  TotalCommitted = Cpc * TotalWrittenByAsks
  <1>1. \A w \in Writers : Committed[w] = Cpc * WrittenByAsks[w]
    BY PotTypes, ConstantsFacts DEF PotInv, Committed, WrittenByAsks
  <1>2. Total(Committed) = Cpc * Total(WrittenByAsks)
    BY <1>1, PotTypes, ConstantsFacts, AccountsFinite, TotalTimes
  <1>3. QED
    BY <1>2, PotTypes

\* More roundings and more draws leave more dust.
LEMMA DustGrows ==
    ASSUME AskTypeOK, AskTypeOK', roundings <= roundings', draws <= draws'
    PROVE  Dust <= Dust' /\ Dust' \in Nat
  <1>1. /\ roundings \in Nat /\ draws \in Nat /\ roundings' \in Nat /\ draws' \in Nat
    BY DEF AskTypeOK, TypeOK
  <1> DEFINE a == roundings
             b == roundings'
             c == draws
             d == draws'
  <1>2. a \in Nat /\ b \in Nat /\ c \in Nat /\ d \in Nat /\ a <= b /\ c <= d
    BY <1>1
  <1> HIDE DEF a, b, c, d
  <1>3. a * c <= b * d /\ b * d \in Nat
    BY <1>2, ProductMonotone
  <1>4. QED
    BY <1>3 DEF Dust, a, b, c, d

\* Pool and pot together hold a full collateral for every token.
LEMMA MergedCovers ==
    ASSUME AskTypeOK, PotInv, TokensInv, LimitsInv, Unresolved
    PROVE  TotalOutstanding * Cpc + vault.early_exercise_payout
               <= vault.total_collateral + pot.total_collateral + Dust
  <1> DEFINE m == vault.total_options_minted
             x == vault.exercised_options
             wr == TotalWrittenByAsks
             out == TotalOutstanding
  <1>1. /\ m \in Nat /\ x \in Nat /\ wr \in Nat /\ Cpc \in Nat
        /\ TotalEscrowed \in Nat /\ TotalHeld \in Nat /\ vault.total_options_sold \in Nat
    BY PotTypes, VaultTypes, TotalsNat, ConstantsFacts DEF AskTypeOK
  <1>2. out \in Nat /\ out + x = m + wr
    BY <1>1 DEF TokensInv, TotalOutstanding
  <1>3. m * Cpc + pot_drawn + vault.early_exercise_payout
            <= vault.total_collateral + x * Cpc + Dust
    BY DEF LimitsInv
  <1>4. Cpc * wr = pot.total_collateral + pot_drawn
    BY CommittedForWritten DEF PotInv
  <1> HIDE DEF m, x, wr, out
  <1>5. (out + x) * Cpc = (m + wr) * Cpc
    BY <1>2
  <1>6. /\ (out + x) * Cpc = out * Cpc + x * Cpc
        /\ (m + wr) * Cpc = m * Cpc + Cpc * wr
        /\ out * Cpc \in Nat /\ x * Cpc \in Nat /\ m * Cpc \in Nat
    BY <1>1, <1>2
  <1>7. out * Cpc + vault.early_exercise_payout
            <= vault.total_collateral + pot.total_collateral + Dust
    BY <1>3, <1>4, <1>5, <1>6, PotTypes, VaultTypes DEF AskTypeOK
  <1>8. QED
    BY <1>7 DEF out

-----------------------------------------------------------------------------
(* The pot, the tokens and the limits. *)

LEMMA AskInvInit == AskInit => AskInv
  <1> SUFFICES ASSUME AskInit PROVE AskInv
    OBVIOUS
  <1>0. AskTypeOK /\ AccountsInv /\ Unresolved
    BY AskTypeOKInit, AccountsInvInit DEF AskInit, Init, EmptyVault, Unresolved
  <1>1. /\ vault = EmptyVault /\ pot = EmptyPot /\ pot_usdc = 0 /\ pot_drawn = 0
        /\ elsewhere = 0 /\ draws = 0 /\ roundings = 0
        /\ \A w \in Writers : /\ backing[w].committed = 0 /\ backing[w].written = 0
                              /\ position[w].shares = 0
        /\ \A m \in Mints : mint[m].escrow = 0
        /\ \A h \in Holders : holding[h] = 0
    BY DEF AskInit, Init, NoBacking, EmptyPosition, UnusedMint
  <1>2. /\ Committed \in [Writers -> {0}] /\ WrittenByAsks \in [Writers -> {0}]
        /\ Shares \in [Writers -> {0}] /\ Escrowed \in [Mints -> {0}]
        /\ holding \in [Holders -> {0}]
    BY <1>1 DEF Committed, WrittenByAsks, Shares, Escrowed, AskInit, Init
  <1>3. /\ TotalCommitted = 0 /\ TotalWrittenByAsks = 0 /\ TotalShares = 0
        /\ TotalEscrowed = 0 /\ TotalHeld = 0
    BY <1>2, TotalOfZeros
       DEF TotalCommitted, TotalWrittenByAsks, TotalShares, TotalEscrowed, TotalHeld,
           Committed, WrittenByAsks, Shares, Escrowed
  <1>4. /\ vault.total_collateral = 0 /\ vault.total_shares = 0
        /\ vault.total_options_minted = 0 /\ vault.total_options_sold = 0
        /\ vault.exercised_options = 0 /\ vault.early_exercise_payout = 0
        /\ vault.writer_ask_collateral_swept = 0 /\ vault.writer_ask_equiv_shares = 0
        /\ pot.total_collateral = 0 /\ pot.total_contracts = 0
        /\ ~vault.is_settled
    BY <1>1 DEF EmptyVault, EmptyPot
  <1>5. Cpc \in Nat /\ 0 * Cpc = 0 /\ Dust = 0
    BY <1>1, ConstantsFacts DEF Dust
  <1>6. PotInv /\ TokensInv
    BY <1>1, <1>3, <1>4, <1>5 DEF PotInv, TokensInv
  <1>7. LimitsInv /\ BackersInv /\ WindowInv
    BY <1>0, <1>1, <1>3, <1>4, <1>5
       DEF LimitsInv, BackersInv, WindowInv, AllHoldersCoveredInWindow
  <1>8. FundsInv
    <2>1. SurplusInv /\ Init
      BY SurplusInvInit DEF AskInit
    <2>2. Surplus + Scale * 0 = Surplus
      BY <1>0, EntitlementTypes, ScaleNat DEF AskTypeOK
    <2>3. QED
      BY <1>0, <2>1, <2>2 DEF FundsInv, SurplusInv
  <1>9. QED
    BY <1>6, <1>7, <1>8 DEF AskInv

\* The cases of a step, with what each leaves alone.
LEMMA AskCases ==
    ASSUME AskTypeOK, AccountsInv, [AskNext]_allVars
    PROVE  \/ PoolNext /\ UNCHANGED askVars
           \/ AskOnly
           \/ \E h \in Holders, o \in Orders, quantity \in Nat \ {0} :
                 FillWriterAsk(h, o, quantity)
           \/ \E h \in Holders, quantity \in Nat \ {0}, quote \in Nat :
                 FillVaultPeg(h, quantity, quote)
           \/ \E h \in Holders, quantity \in Nat \ {0}, spot \in Nat, own \in BOOLEAN :
                 ExerciseAmerican(h, quantity, spot, own)
           \/ SettleVaultWithPot
           \/ InitializeVoidWithPot
           \/ \E w \in Writers : /\ BackerExit(w) /\ ~Unresolved
                                 /\ vault.is_settled => now >= WindowEnd
  <1>1. ASSUME NEW w \in Writers, BackerNext(w)
        PROVE  \/ AskOnly
               \/ BackerExit(w) /\ ~Unresolved /\ (vault.is_settled => now >= WindowEnd)
    BY <1>1 DEF BackerNext, PostWriterAsk, WithdrawWriterAskResidual,
                ReclaimWriterAskResidual, Unresolved, AskOnly, potVars
  <1>2. ASSUME NEW h \in Holders, TakerNext(h)
        PROVE  \/ \E o \in Orders, quantity \in Nat \ {0} : FillWriterAsk(h, o, quantity)
               \/ \E quantity \in Nat \ {0}, quote \in Nat :
                     FillVaultPeg(h, quantity, quote)
               \/ \E quantity \in Nat \ {0}, spot \in Nat, own \in BOOLEAN :
                     ExerciseAmerican(h, quantity, spot, own)
    <2>1. /\ \A q \in Quantities : q \in Nat \ {0}
          /\ \A p \in Premiums : p \in Nat
          /\ \A s \in Prices : s \in Nat
      BY AskConstants
    <2>2. QED
      BY <1>2, <2>1 DEF TakerNext
  <1>3. ASSUME NEW o \in Orders, CancelWriterAsk(o) \/ SweepExpiredAsk(o) PROVE AskOnly
    BY <1>3 DEF CancelWriterAsk, SweepExpiredAsk, AskOnly, potVars
  <1>4. CASE UNCHANGED allVars
    BY <1>4 DEF allVars, askVars, potVars, AskOnly
  <1>6. ASSUME NEW amount \in Amounts,
               PotPaysElsewhere(amount) \/ (\E o \in Orders : AskPaysElsewhere(o, amount))
        PROVE  AskOnly
    <2>1. amount \in Nat /\ pot_usdc \in Nat /\ elsewhere \in Nat
      BY AskConstants DEF AskTypeOK
    <2>2. QED
      BY <1>6, <2>1 DEF PotPaysElsewhere, AskPaysElsewhere, AskOnly, potVars
  <1>5. QED
    BY <1>1, <1>2, <1>3, <1>4, <1>6 DEF AskNext

\* Settlement and void resolve the vault for good.
LEMMA MergeResolves ==
    ASSUME AskTypeOK, AccountsInv, SettleVaultWithPot \/ InitializeVoidWithPot
    PROVE  /\ Unresolved /\ ~Unresolved' /\ usdc_open
           /\ UNCHANGED <<now, usdc_open, position, mint, holding, settlement_record,
                          roundings, ask, pot, backing, pot_drawn, draws,
                          elsewhere>>
           /\ vault'.created = vault.created
           /\ vault'.total_options_minted = vault.total_options_minted
           /\ vault'.total_options_sold = vault.total_options_sold
           /\ vault'.total_collateral = vault.total_collateral
           /\ vault'.early_exercise_payout = vault.early_exercise_payout
           /\ vault'.premium_per_share_cumulative = vault.premium_per_share_cumulative
           /\ vault'.writer_ask_collateral_swept = pot.total_collateral
           /\ vault'.writer_ask_equiv_shares = EquivShares(pot.total_collateral)
           /\ vault'.total_shares
                  = vault.total_shares + EquivShares(pot.total_collateral)
           /\ vault'.collateral_remaining
                  = SatSub(vault.total_collateral + pot.total_collateral,
                           vault.early_exercise_payout)
           /\ vault_usdc' = vault_usdc + pot.total_collateral
  <1>1. TypeOK
    BY DEF AskTypeOK
  <1>2. CASE SettleVaultWithPot
    BY <1>1, <1>2 DEF SettleVaultWithPot, SettleVaultSweeping, AccountsInv, Unresolved,
                      TypeOK, VaultRecord
  <1>3. CASE InitializeVoidWithPot
    <2>1. /\ vault.early_exercise_payout <= vault.total_collateral + pot.total_collateral
          /\ vault.total_collateral \in Nat /\ pot.total_collateral \in Nat
          /\ vault.early_exercise_payout \in Nat
      BY <1>3, PotTypes, VaultTypes, <1>1 DEF InitializeVoidWithPot, InitializeVoidSweeping
    <2>2. SatSub(vault.total_collateral + pot.total_collateral, vault.early_exercise_payout)
            = vault.total_collateral + pot.total_collateral - vault.early_exercise_payout
      BY <2>1 DEF SatSub
    <2>3. QED
      BY <1>1, <1>3, <2>2 DEF InitializeVoidWithPot, InitializeVoidSweeping, AccountsInv,
                              Unresolved, TypeOK, VaultRecord
  <1>4. QED
    BY <1>2, <1>3

\* Where nothing of them changes, the conditions on the pot stand.
LEMMA PotInvFrame ==
    ASSUME PotInv, UNCHANGED <<backing, pot, pot_drawn>>,
           pot_usdc' + elsewhere' = pot_usdc + elsewhere,
           Unresolved' => Unresolved
    PROVE  PotInv'
  <1>1. TotalCommitted' = TotalCommitted
    BY DEF TotalCommitted
  <1>2. QED
    BY <1>1 DEF PotInv, Cpc

LEMMA PotInvFill ==
    ASSUME AskTypeOK, AskTypeOK', PotInv, NEW h \in Holders, NEW o \in Orders,
           NEW quantity \in Nat, FillWriterAsk(h, o, quantity)
    PROVE  PotInv'
  <1> DEFINE locked == quantity * Cpc
  <1>1. PICK backer \in Writers :
          /\ pot'.total_collateral = pot.total_collateral + locked
          /\ pot'.total_contracts = pot.total_contracts + quantity
          /\ pot_usdc' = pot_usdc + locked
          /\ backing'[backer].committed = backing[backer].committed + locked
          /\ backing'[backer].written = backing[backer].written + quantity
          /\ \A x \in Writers \ {backer} : backing'[x] = backing[x]
          /\ UNCHANGED <<vault, pot_drawn, elsewhere>>
    BY AskFillEffect
  <1>2. locked \in Nat /\ Cpc \in Nat /\ Cpc' = Cpc
    BY ConstantsFacts
  <1>3. Unresolved' = Unresolved
    BY <1>1 DEF Unresolved
  <1>4. TotalCommitted' = TotalCommitted + locked
    BY <1>1, <1>2, BackingChange, PotTypes
  <1>5. \A w \in Writers : backing'[w].committed = backing'[w].written * Cpc
    <2>1. /\ (backing[backer].written + quantity) * Cpc
               = backing[backer].written * Cpc + locked
          /\ backing[backer].committed = backing[backer].written * Cpc
      BY <1>2, PotTypes DEF PotInv
    <2>2. QED
      BY <1>1, <2>1 DEF PotInv
  <1>6. ASSUME Unresolved
        PROVE  /\ pot'.total_collateral <= pot_usdc' + elsewhere'
               /\ pot'.total_contracts * Cpc <= pot'.total_collateral
               /\ pot'.total_collateral + pot_drawn = TotalCommitted'
    <2>1. (pot.total_contracts + quantity) * Cpc = pot.total_contracts * Cpc + locked
          /\ pot.total_contracts * Cpc \in Nat
      BY <1>2, PotTypes
    <2> HIDE DEF locked
    <2>2. QED
      BY <1>1, <1>2, <1>4, <1>6, <2>1, PotTypes DEF PotInv
  <1>7. QED
    BY <1>1, <1>2, <1>3, <1>5, <1>6 DEF PotInv

\* A draw leaves the pot backing the contracts it still counts: it takes at
\* most a collateral for each token exercised, and retires as many contracts.
LEMMA PotInvExercise ==
    ASSUME AskTypeOK, AskTypeOK', PotInv, NEW h \in Holders,
           NEW quantity \in Nat, NEW spot \in Nat, NEW own \in BOOLEAN,
           ExerciseAmerican(h, quantity, spot, own)
    PROVE  PotInv'
  <1>1. PICK paid \in Nat, drawn \in Nat :
          /\ paid + drawn <= quantity * Cpc
          /\ pot_usdc' \in Nat /\ pot_usdc - drawn <= pot_usdc'
          /\ elsewhere' = elsewhere
          /\ pot_drawn' = pot_drawn + drawn
          /\ pot'.total_collateral = pot.total_collateral - drawn
          /\ pot'.total_contracts = IF drawn = 0 THEN pot.total_contracts
                                    ELSE SatSub(pot.total_contracts, quantity)
          /\ vault'.is_settled = vault.is_settled /\ vault'.voided = vault.voided
          /\ backing' = backing
    BY ExerciseEffect
  <1>2. Cpc \in Nat /\ Cpc' = Cpc /\ quantity * Cpc \in Nat
    BY ConstantsFacts
  <1>3. Unresolved' = Unresolved /\ TotalCommitted' = TotalCommitted
    BY <1>1 DEF Unresolved, TotalCommitted
  <1>4. ASSUME Unresolved
        PROVE  pot'.total_contracts * Cpc <= pot'.total_collateral
    <2> DEFINE c == pot.total_contracts
    <2>1. c \in Nat /\ c * Cpc <= pot.total_collateral /\ pot'.total_collateral \in Nat
      BY <1>4, PotTypes DEF PotInv, AskTypeOK, PotRecord
    <2>2. CASE drawn = 0
      BY <1>1, <2>1, <2>2, PotTypes
    <2>3. CASE drawn # 0 /\ c <= quantity
      <3>1. pot'.total_contracts = 0
        BY <1>1, <2>1, <2>3 DEF SatSub
      <3>2. QED
        BY <1>2, <2>1, <3>1
    <2>4. CASE drawn # 0 /\ quantity < c
      <3>1. pot'.total_contracts = c - quantity
        BY <1>1, <2>1, <2>4 DEF SatSub
      <3> HIDE DEF c
      <3>2. (c - quantity) * Cpc = c * Cpc - quantity * Cpc /\ c * Cpc \in Nat
        BY <1>2, <2>1
      <3>3. QED
        BY <1>1, <1>2, <2>1, <3>1, <3>2, PotTypes
    <2>5. QED
      BY <2>1, <2>2, <2>3, <2>4
  <1>5. QED
    BY <1>1, <1>2, <1>3, <1>4, PotTypes DEF PotInv

LEMMA PotInvStep ==
    ASSUME AskTypeOK, AskTypeOK', AccountsInv, PotInv, [AskNext]_allVars
    PROVE  PotInv'
  <1>0. TypeOK
    BY DEF AskTypeOK
  <1>1. CASE PoolNext /\ UNCHANGED askVars
    BY <1>0, <1>1, PoolResolvesNothing, PotInvFrame DEF askVars, potVars
  <1>2. CASE AskOnly
    BY <1>2, PotInvFrame DEF AskOnly, vars, potVars, Unresolved
  <1>3. ASSUME NEW h \in Holders, NEW quantity \in Nat, NEW quote \in Nat,
               FillVaultPeg(h, quantity, quote)
        PROVE  PotInv'
    BY <1>0, <1>3, PegEffect, PotInvFrame DEF askVars, potVars, Unresolved
  <1>4. CASE SettleVaultWithPot \/ InitializeVoidWithPot
    <2>1. ~Unresolved' /\ UNCHANGED backing
      BY <1>4, MergeResolves
    <2>2. QED
      BY <2>1 DEF PotInv, Cpc
  <1>5. ASSUME NEW w \in Writers, BackerExit(w), ~Unresolved PROVE PotInv'
    <2>1. /\ backing'[w] = NoBacking
          /\ \A x \in Writers \ {w} : backing'[x] = backing[x]
          /\ ~Unresolved'
      BY <1>5, BackerExitEffect DEF Unresolved
    <2>2. \A x \in Writers : backing'[x].committed = backing'[x].written * Cpc
      BY <2>1, ConstantsFacts DEF PotInv, NoBacking
    <2>3. QED
      BY <2>1, <2>2 DEF PotInv, Cpc
  <1>6. QED
    BY <1>1, <1>2, <1>3, <1>4, <1>5, AskCases, PotInvFill, PotInvExercise

\* Steps that move no token.
LEMMA TokensInvFrame ==
    ASSUME TokensInv, UNCHANGED <<mint, holding, backing, pot>>,
           vault'.total_options_minted = vault.total_options_minted,
           vault'.total_options_sold = vault.total_options_sold,
           Unresolved' => Unresolved /\ vault'.exercised_options = vault.exercised_options
    PROVE  TokensInv'
  <1>1. /\ TotalEscrowed' = TotalEscrowed /\ TotalHeld' = TotalHeld
        /\ TotalWrittenByAsks' = TotalWrittenByAsks
    BY DEF TotalEscrowed, TotalHeld, TotalWrittenByAsks
  <1>2. QED
    BY <1>1 DEF TokensInv

LEMMA TokensInvStep ==
    ASSUME AskTypeOK, AskTypeOK', AccountsInv, TokensInv, [AskNext]_allVars
    PROVE  TokensInv'
  <1>0. /\ TypeOK /\ TypeOK'
        /\ TotalEscrowed \in Nat /\ TotalHeld \in Nat
        /\ vault.total_options_minted \in Nat /\ vault.total_options_sold \in Nat
        /\ vault.exercised_options \in Nat /\ pot.total_contracts \in Nat
        /\ TotalWrittenByAsks \in Nat
    BY TotalsNat, VaultTypes, PotTypes DEF AskTypeOK
  <1>1. CASE PoolNext /\ UNCHANGED askVars
    <2>1. /\ TotalWrittenByAsks' = TotalWrittenByAsks /\ pot' = pot
      BY <1>1 DEF TotalWrittenByAsks, askVars, potVars
    <2>2. /\ Unresolved' = Unresolved
          /\ vault'.exercised_options = vault.exercised_options
      BY <1>0, <1>1, PoolResolvesNothing, PotFieldsKept
    <2>3. /\ TotalEscrowed' + vault'.total_options_sold - vault'.total_options_minted
                = TotalEscrowed + vault.total_options_sold - vault.total_options_minted
          /\ TotalHeld' - vault'.total_options_sold
                <= TotalHeld - vault.total_options_sold
          /\ Unresolved => TotalHeld' - vault'.total_options_sold
                                = TotalHeld - vault.total_options_sold
      BY <1>0, <1>1, PoolTokens
    <2>4. /\ TotalEscrowed' \in Nat /\ TotalHeld' \in Nat
          /\ vault'.total_options_minted \in Nat /\ vault'.total_options_sold \in Nat
      <3>1. (TypeOK => TotalEscrowed \in Nat /\ TotalHeld \in Nat)'
        BY TotalsNat, PTL
      <3>2. QED
        BY <1>0, <3>1 DEF TypeOK, VaultRecord
    <2>5. QED
      BY <1>0, <2>1, <2>2, <2>3, <2>4 DEF TokensInv
  <1>2. CASE AskOnly
    BY <1>2, TokensInvFrame DEF AskOnly, vars, potVars, Unresolved
  <1>3. ASSUME NEW h \in Holders, NEW o \in Orders, NEW quantity \in Nat,
               FillWriterAsk(h, o, quantity)
        PROVE  TokensInv'
    <2>1. PICK backer \in Writers :
            /\ pot'.total_contracts = pot.total_contracts + quantity
            /\ backing'[backer].written = backing[backer].written + quantity
            /\ \A x \in Writers \ {backer} : backing'[x] = backing[x]
            /\ holding' = [holding EXCEPT ![h] = @ + quantity]
            /\ UNCHANGED <<vault, mint>>
      BY <1>3, AskFillEffect
    <2>2. TotalHeld' = TotalHeld + quantity
      <3>1. /\ holding[h] \in Nat /\ holding'[h] = holding[h] + quantity
            /\ \A x \in Holders \ {h} : holding'[x] = holding[x]
        BY <1>0, <2>1 DEF TypeOK
      <3>2. QED
        BY <1>0, <3>1, HeldChange
    <2>3. TotalWrittenByAsks' = TotalWrittenByAsks + quantity
      BY <2>1, BackingChange, PotTypes
    <2>4. TotalEscrowed' = TotalEscrowed /\ Unresolved' = Unresolved
      BY <2>1 DEF TotalEscrowed, Unresolved
    <2>5. /\ vault'.total_options_minted = vault.total_options_minted
          /\ vault'.total_options_sold = vault.total_options_sold
          /\ vault'.exercised_options = vault.exercised_options
          /\ pot'.total_contracts = pot.total_contracts + quantity
      BY <2>1
    <2>6. QED
      BY <1>0, <2>2, <2>3, <2>4, <2>5 DEF TokensInv
  <1>4. ASSUME NEW h \in Holders, NEW quantity \in Nat, NEW quote \in Nat,
               FillVaultPeg(h, quantity, quote)
        PROVE  TokensInv'
    <2>1. /\ vault'.total_options_minted = vault.total_options_minted + quantity
          /\ vault'.total_options_sold = vault.total_options_sold + quantity
          /\ vault'.exercised_options = vault.exercised_options
          /\ vault'.is_settled = vault.is_settled /\ vault'.voided = vault.voided
          /\ holding' = [holding EXCEPT ![h] = @ + quantity]
          /\ UNCHANGED <<mint, backing, pot>>
      BY <1>0, <1>4, PegEffect DEF askVars, potVars
    <2>2. TotalHeld' = TotalHeld + quantity
      <3>1. /\ holding[h] \in Nat /\ holding'[h] = holding[h] + quantity
            /\ \A x \in Holders \ {h} : holding'[x] = holding[x]
        BY <1>0, <2>1 DEF TypeOK
      <3>2. QED
        BY <1>0, <3>1, HeldChange
    <2>3. /\ TotalEscrowed' = TotalEscrowed /\ Unresolved' = Unresolved
          /\ TotalWrittenByAsks' = TotalWrittenByAsks
      BY <2>1 DEF TotalEscrowed, Unresolved, TotalWrittenByAsks
    <2>4. QED
      BY <1>0, <2>1, <2>2, <2>3 DEF TokensInv
  <1>5. ASSUME NEW h \in Holders, NEW quantity \in Nat, NEW spot \in Nat,
               NEW own \in BOOLEAN, ExerciseAmerican(h, quantity, spot, own)
        PROVE  TokensInv'
    <2>1. PICK drawn \in Nat :
            /\ pot'.total_contracts = IF drawn = 0 THEN pot.total_contracts
                                      ELSE SatSub(pot.total_contracts, quantity)
            /\ vault'.exercised_options = vault.exercised_options + quantity
            /\ vault'.total_options_minted = vault.total_options_minted
            /\ vault'.total_options_sold = vault.total_options_sold
            /\ vault'.is_settled = vault.is_settled /\ vault'.voided = vault.voided
            /\ holding' = [holding EXCEPT ![h] = @ - quantity]
            /\ UNCHANGED <<mint, backing>>
      BY <1>5, ExerciseEffect
    <2>2. TotalHeld' = TotalHeld - quantity
      <3>1. /\ holding[h] \in Nat /\ holding'[h] = holding[h] - quantity
            /\ \A x \in Holders \ {h} : holding'[x] = holding[x]
        BY <1>0, <2>1 DEF TypeOK
      <3>2. QED
        BY <1>0, <3>1, HeldChange
    <2>3. /\ TotalEscrowed' = TotalEscrowed /\ Unresolved' = Unresolved
          /\ TotalWrittenByAsks' = TotalWrittenByAsks
      BY <2>1 DEF TotalEscrowed, Unresolved, TotalWrittenByAsks
    <2>4. pot'.total_contracts \in Nat
          /\ pot.total_contracts <= pot'.total_contracts + quantity
      BY <1>0, <2>1 DEF SatSub
    <2>5. QED
      BY <1>0, <2>1, <2>2, <2>3, <2>4 DEF TokensInv
  <1>6. CASE SettleVaultWithPot \/ InitializeVoidWithPot
    BY <1>6, MergeResolves, TokensInvFrame
  <1>7. ASSUME NEW w \in Writers, BackerExit(w), ~Unresolved PROVE TokensInv'
    <2>1. /\ vault'.total_options_minted = vault.total_options_minted
          /\ vault'.total_options_sold = vault.total_options_sold
          /\ vault'.is_settled = vault.is_settled /\ vault'.voided = vault.voided
          /\ UNCHANGED <<mint, holding, pot>>
      BY <1>7, BackerExitEffect DEF potVars
    <2>2. TotalEscrowed' = TotalEscrowed /\ TotalHeld' = TotalHeld /\ ~Unresolved'
      BY <1>7, <2>1 DEF TotalEscrowed, TotalHeld, Unresolved
    <2>3. QED
      BY <2>1, <2>2 DEF TokensInv
  <1>8. QED
    BY <1>1, <1>2, <1>3, <1>4, <1>5, <1>6, <1>7, AskCases

\* Before expiry a vault is unresolved.
LEMMA EarlyUnresolved ==
    ASSUME TypeOK, AccountsInv, now < Expiry
    PROVE  Unresolved
  BY ConstantsFacts, NumbersAssumption DEF TypeOK, AccountsInv, Unresolved

\* An early exercise takes from the vault's USDC and from what it owes alike.
LEMMA SurplusExercise ==
    ASSUME AskTypeOK, AskTypeOK', AccountsInv, NEW h \in Holders,
           NEW quantity \in Nat, NEW spot \in Nat, NEW own \in BOOLEAN,
           ExerciseAmerican(h, quantity, spot, own)
    PROVE  Surplus' = Surplus
  <1>1. PICK paid \in Nat :
          /\ vault_usdc' = vault_usdc - paid
          /\ vault'.early_exercise_payout = vault.early_exercise_payout + paid
          /\ vault'.is_settled = vault.is_settled /\ vault'.voided = vault.voided
          /\ vault'.total_collateral = vault.total_collateral
          /\ vault'.premium_per_share_cumulative = vault.premium_per_share_cumulative
          /\ UNCHANGED <<position, roundings>>
    BY ExerciseEffect
  <1>2. TypeOK /\ TypeOK' /\ Unresolved /\ Unresolved'
    BY <1>1, EarlyUnresolved DEF AskTypeOK, ExerciseAmerican, Unresolved
  <1>3. vault.total_collateral \in Nat
    BY <1>2, VaultTypes
  <1>4. Owed' = Owed - paid
    BY <1>1, <1>2, <1>3, FundsTypes DEF Owed
  <1>5. Funds' = Funds
    BY <1>1, <1>2, <1>4, FundsTypes DEF Funds
  <1>6. QED
    BY <1>1, <1>2, <1>5, SurplusSame

\* A surplus says that USDC and roundings cover what is owed.
LEMMA SurplusCovers ==
    ASSUME TypeOK, Surplus >= 0
    PROVE  Owed <= vault_usdc + roundings
  <1>1. Total(Entitlements) \in Nat /\ Funds \in Int /\ Scale \in Nat \ {0}
    BY EntitlementTypes, FundsTypes, ScaleNat
  <1>2. Scale * Funds >= 0 /\ Scale * Funds \in Int
    BY <1>1 DEF Surplus
  <1>3. Funds >= 0
    BY <1>1, <1>2
  <1>4. QED
    BY <1>3, FundsTypes DEF Funds

\* A step that was checked against the free collateral keeps the limits.
LEMMA LimitsChecked ==
    ASSUME AskTypeOK, AskTypeOK', LimitsInv, Unresolved, Dust <= Dust', Dust' \in Nat,
           vault.exercised_options <= vault.total_options_minted,
           vault.total_options_minted <= vault'.total_options_minted,
           (vault'.total_options_minted - vault.exercised_options) * Cpc
                + vault.early_exercise_payout <= vault'.total_collateral,
           vault'.early_exercise_payout = vault.early_exercise_payout,
           vault'.exercised_options = vault.exercised_options,
           pot_drawn' = pot_drawn
    PROVE  LimitsInv'
  <1> DEFINE x == vault.exercised_options
             m == vault'.total_options_minted
             rest == m - x
  <1>1. /\ x \in Nat /\ m \in Nat /\ rest \in Nat /\ m = x + rest
        /\ Cpc \in Nat /\ Cpc' = Cpc
    BY ConstantsFacts, PotTypes DEF AskTypeOK, TypeOK, VaultRecord
  <1>2. /\ rest * Cpc + vault.early_exercise_payout <= vault'.total_collateral
        /\ pot_drawn <= Dust
        /\ pot_drawn + vault.early_exercise_payout <= x * Cpc
    BY DEF LimitsInv
  <1>3. vault'.total_collateral \in Nat
    BY DEF AskTypeOK, TypeOK, VaultRecord
  <1> HIDE DEF rest
  <1>4. m * Cpc = x * Cpc + rest * Cpc /\ x * Cpc \in Nat /\ rest * Cpc \in Nat
    BY <1>1
  <1> HIDE DEF m, x
  <1>5. /\ m * Cpc + pot_drawn + vault.early_exercise_payout
              <= vault'.total_collateral + x * Cpc + Dust'
        /\ pot_drawn <= Dust'
    BY <1>2, <1>3, <1>4, PotTypes
  <1>6. QED
    BY <1>1, <1>2, <1>5 DEF LimitsInv, m, x

\* An early exercise: once the vault is empty its books are short of roundings
\* only, so that a draw adds no more than those to what the pot has lost.
LEMMA LimitsInvExercise ==
    ASSUME AskTypeOK, AskTypeOK', AccountsInv, LimitsInv, FundsInv, NEW h \in Holders,
           NEW quantity \in Nat, NEW spot \in Nat, NEW own \in BOOLEAN,
           ExerciseAmerican(h, quantity, spot, own)
    PROVE  LimitsInv'
  <1>1. PICK paid \in Nat, drawn \in Nat :
          /\ paid + drawn <= quantity * Cpc
          /\ drawn > 0 => vault_usdc' = 0
          /\ pot_drawn' = pot_drawn + drawn
          /\ draws' = draws + (IF drawn > 0 THEN 1 ELSE 0)
          /\ vault'.early_exercise_payout = vault.early_exercise_payout + paid
          /\ vault'.exercised_options = vault.exercised_options + quantity
          /\ vault'.total_collateral = vault.total_collateral
          /\ vault'.total_options_minted = vault.total_options_minted
          /\ vault'.is_settled = vault.is_settled /\ vault'.voided = vault.voided
          /\ UNCHANGED <<usdc_open, roundings>>
          /\ vault.created /\ now < Expiry
    BY ExerciseEffect
  <1>2. TypeOK /\ TypeOK' /\ Unresolved /\ Unresolved'
    BY <1>1, EarlyUnresolved DEF AskTypeOK, Unresolved
  <1> DEFINE x == vault.exercised_options
             m == vault.total_options_minted
             took == pot_drawn + vault.early_exercise_payout
             took2 == pot_drawn' + vault'.early_exercise_payout
             more == quantity * Cpc
             tc == vault.total_collateral
  <1>3. /\ x \in Nat /\ m \in Nat /\ Cpc \in Nat /\ Cpc' = Cpc /\ tc \in Nat
        /\ took \in Nat /\ more \in Nat /\ Dust \in Nat /\ m * Cpc \in Nat
        /\ pot_drawn \in Nat /\ vault.early_exercise_payout \in Nat
    BY <1>2, ConstantsFacts, PotTypes, VaultTypes
  <1>4. /\ took <= x * Cpc
        /\ m * Cpc + took <= tc + x * Cpc + Dust
        /\ x <= m => pot_drawn <= Dust
    BY <1>2, <1>3 DEF LimitsInv
  <1>5. (x + quantity) * Cpc = x * Cpc + more /\ x * Cpc \in Nat
    BY <1>3
  <1>6. took2 <= took + more /\ took2 \in Nat
    BY <1>1, <1>3
  <1>7. Dust <= Dust' /\ Dust' \in Nat
    <2>1. draws <= draws' /\ roundings <= roundings'
      BY <1>1, PotTypes
    <2>2. QED
      BY <2>1, DustGrows
  <1> HIDE DEF more, took, took2
  <1>8. /\ took2 <= (x + quantity) * Cpc
        /\ m * Cpc + took2 <= tc + (x + quantity) * Cpc + Dust
    BY <1>3, <1>4, <1>5, <1>6
  <1>9. ASSUME x + quantity <= m PROVE pot_drawn' <= Dust'
    <2>1. pot_drawn <= Dust
      BY <1>3, <1>4, <1>9
    <2>2. CASE drawn = 0
      BY <1>1, <1>3, <1>7, <2>1, <2>2
    <2>3. CASE drawn # 0
      <3>1. tc - vault'.early_exercise_payout <= roundings
        <4>1. Surplus >= 0
          <5>1. usdc_open
            BY <1>1, <1>2 DEF AccountsInv
          <5>2. Surplus + Scale * 0 = Surplus
            BY <1>2, EntitlementTypes, ScaleNat
          <5>3. QED
            BY <1>2, <5>1, <5>2 DEF FundsInv
        <4>2. Surplus' >= 0
          BY <4>1, SurplusExercise
        <4>3. Owed' <= vault_usdc' + roundings'
          <5>1. (TypeOK /\ Surplus >= 0 => Owed <= vault_usdc + roundings)'
            BY SurplusCovers, PTL
          <5>2. QED
            BY <1>2, <4>2, <5>1
        <4>4. Owed' = tc - vault'.early_exercise_payout
          BY <1>1, <1>2 DEF Owed
        <4>5. vault_usdc' = 0 /\ roundings' = roundings
          BY <1>1, <2>3
        <4>6. QED
          BY <4>3, <4>4, <4>5, PotTypes
      <3>2. (x + quantity) * Cpc <= m * Cpc /\ (x + quantity) * Cpc \in Nat
        BY <1>3, <1>9
      <3>3. pot_drawn' + vault'.early_exercise_payout <= tc + Dust
        BY <1>3, <1>6, <1>8, <3>2 DEF took2
      <3>4. Dust' = Dust + roundings
        <4>1. draws' = draws + 1 /\ roundings' = roundings
          BY <1>1, <2>3
        <4>2. roundings * (draws + 1) = roundings * draws + roundings
          BY PotTypes
        <4>3. QED
          BY <4>1, <4>2 DEF Dust
      <3>5. /\ pot_drawn' \in Nat /\ vault'.early_exercise_payout \in Nat
            /\ roundings \in Nat
        BY <1>1, <1>3, PotTypes
      <3>6. QED
        BY <1>3, <3>1, <3>3, <3>4, <3>5
    <2>4. QED
      BY <2>2, <2>3
  <1>10. /\ pot_drawn' + vault'.early_exercise_payout
                <= vault'.exercised_options * Cpc
         /\ vault'.total_options_minted * Cpc + pot_drawn' + vault'.early_exercise_payout
                <= vault'.total_collateral + vault'.exercised_options * Cpc + Dust'
    <2>1. pot_drawn' \in Nat /\ vault'.early_exercise_payout \in Nat
      BY <1>1, <1>3
    <2>2. QED
      BY <1>1, <1>3, <1>5, <1>7, <1>8, <2>1 DEF took2
  <1>11. QED
    BY <1>1, <1>3, <1>9, <1>10 DEF LimitsInv

\* Steps that take nothing early and sell nothing new.
LEMMA LimitsInvFrame ==
    ASSUME AskTypeOK, AskTypeOK', LimitsInv, Unresolved, Dust <= Dust', Dust' \in Nat,
           vault'.total_options_minted <= vault.total_options_minted,
           vault'.total_collateral >= vault.total_collateral,
           vault'.early_exercise_payout = vault.early_exercise_payout,
           vault'.exercised_options = vault.exercised_options,
           pot_drawn' = pot_drawn
    PROVE  LimitsInv'
  <1> DEFINE m == vault.total_options_minted
             m2 == vault'.total_options_minted
  <1>1. /\ m \in Nat /\ m2 \in Nat /\ Cpc \in Nat /\ Cpc' = Cpc
        /\ vault.exercised_options \in Nat
        /\ vault.total_collateral \in Nat /\ vault'.total_collateral \in Nat
    BY ConstantsFacts DEF AskTypeOK, TypeOK, VaultRecord
  <1>2. m2 * Cpc <= m * Cpc /\ m2 * Cpc \in Nat /\ m * Cpc \in Nat
    BY <1>1
  <1>3. /\ m * Cpc + pot_drawn + vault.early_exercise_payout
              <= vault.total_collateral + vault.exercised_options * Cpc + Dust
        /\ pot_drawn + vault.early_exercise_payout <= vault.exercised_options * Cpc
        /\ vault.exercised_options <= m => pot_drawn <= Dust
        /\ vault.exercised_options * Cpc \in Nat
    BY <1>1 DEF LimitsInv
  <1> HIDE DEF m, m2
  <1>4. /\ m2 * Cpc + pot_drawn + vault.early_exercise_payout
              <= vault'.total_collateral + vault.exercised_options * Cpc + Dust'
        /\ vault.exercised_options <= m2 => pot_drawn <= Dust'
    <2>1. m2 <= m
      BY DEF m, m2
    <2>2. QED
      BY <1>1, <1>2, <1>3, <2>1, PotTypes
  <1>5. QED
    BY <1>1, <1>3, <1>4 DEF LimitsInv, m2

LEMMA LimitsInvStep ==
    ASSUME AskTypeOK, AskTypeOK', AccountsInv, LimitsInv, FundsInv, [AskNext]_allVars
    PROVE  LimitsInv'
  <1>0. TypeOK /\ TypeOK' /\ Dust \in Nat
    BY PotTypes DEF AskTypeOK
  <1>1. CASE PoolNext /\ UNCHANGED askVars
    <2>1. SUFFICES ASSUME Unresolved PROVE LimitsInv'
      BY <1>0, <1>1, PoolResolvesNothing DEF LimitsInv
    <2>2. /\ vault'.early_exercise_payout = vault.early_exercise_payout
          /\ vault'.exercised_options = vault.exercised_options
          /\ pot_drawn' = pot_drawn /\ draws' = draws
      BY <1>0, <1>1, PotFieldsKept DEF askVars, potVars
    <2>3. Dust <= Dust' /\ Dust' \in Nat
      <3>1. roundings <= roundings' /\ draws <= draws'
        BY <1>0, <1>1, <2>2, PoolResolvesNothing, PotTypes
      <3>2. QED
        BY <3>1, DustGrows
    <2>4. QED
      BY <1>0, <1>1, <2>1, <2>2, <2>3, PoolLimits, LimitsChecked, LimitsInvFrame
  <1>2. ASSUME UNCHANGED <<vault, roundings, pot_drawn, draws>> PROVE LimitsInv'
    BY <1>2 DEF LimitsInv, Unresolved, Dust, Cpc
  <1>3. ASSUME NEW h \in Holders, NEW quantity \in Nat, NEW quote \in Nat,
               FillVaultPeg(h, quantity, quote)
        PROVE  LimitsInv'
    <2>1. /\ vault'.total_options_minted = vault.total_options_minted + quantity
          /\ vault'.total_collateral = vault.total_collateral
          /\ vault'.early_exercise_payout = vault.early_exercise_payout
          /\ vault'.exercised_options = vault.exercised_options
          /\ UNCHANGED <<roundings, pot_drawn, draws>>
          /\ Live /\ VaultFreeAtLeast(quantity * Cpc)
      BY <1>0, <1>3, PegEffect DEF askVars, potVars
    <2>2. Dust' = Dust /\ Unresolved
      BY <1>0, <2>1, LiveUnresolved DEF Dust
    <2>3. /\ vault.exercised_options <= vault.total_options_minted
          /\ (vault.total_options_minted - vault.exercised_options) * Cpc + quantity * Cpc
                <= vault.total_collateral - vault.early_exercise_payout
      BY <2>1 DEF VaultFreeAtLeast
    <2>4. /\ vault.total_options_minted \in Nat /\ vault.exercised_options \in Nat
          /\ vault.total_collateral \in Nat /\ vault.early_exercise_payout \in Nat
          /\ Cpc \in Nat
      BY <1>0, VaultTypes, PotTypes, ConstantsFacts
    <2> DEFINE rest == vault.total_options_minted - vault.exercised_options
    <2>5. rest \in Nat /\ vault'.total_options_minted - vault.exercised_options
                              = rest + quantity
      BY <2>1, <2>3, <2>4
    <2>6. rest * Cpc + quantity * Cpc + vault.early_exercise_payout
              <= vault.total_collateral
      <3>1. rest * Cpc + quantity * Cpc
                <= vault.total_collateral - vault.early_exercise_payout
        BY <2>3
      <3> HIDE DEF rest
      <3>2. rest * Cpc \in Nat /\ quantity * Cpc \in Nat
        BY <2>4, <2>5
      <3>3. QED
        BY <2>4, <3>1, <3>2
    <2> HIDE DEF rest
    <2>7. (rest + quantity) * Cpc = rest * Cpc + quantity * Cpc
      BY <2>4, <2>5
    <2>8. (vault'.total_options_minted - vault.exercised_options) * Cpc
              + vault.early_exercise_payout <= vault'.total_collateral
      BY <2>1, <2>5, <2>6, <2>7
    <2>9. vault.total_options_minted <= vault'.total_options_minted
      BY <2>1, <2>4
    <2>10. QED
      BY <1>0, <2>1, <2>2, <2>3, <2>8, <2>9, LimitsChecked
  <1>4. CASE SettleVaultWithPot \/ InitializeVoidWithPot
    BY <1>4, MergeResolves DEF LimitsInv
  <1>5. ASSUME NEW w \in Writers, BackerExit(w), ~Unresolved PROVE LimitsInv'
    BY <1>5, BackerExitEffect DEF LimitsInv, Unresolved
  <1>6. ASSUME NEW h \in Holders, NEW o \in Orders, NEW quantity \in Nat,
               FillWriterAsk(h, o, quantity)
        PROVE  LimitsInv'
    BY <1>2, <1>6 DEF FillWriterAsk
  <1>7. CASE AskOnly
    BY <1>2, <1>7 DEF AskOnly, vars, potVars
  <1>8. QED
    BY <1>1, <1>3, <1>4, <1>5, <1>6, <1>7, AskCases, LimitsInvExercise

-----------------------------------------------------------------------------
(* Shares and claims, the window, and the funds.                              *)

\* The merge issues one share for each unit of the pot.
LEMMA EquivSharesAreUnits ==
    ASSUME TypeOK, AccountsInv, Unresolved, NEW swept \in Nat
    PROVE  EquivShares(swept) = swept
  <1>1. vault.total_shares = vault.total_collateral /\ vault.total_collateral \in Nat
    BY VaultTypes DEF AccountsInv, SharesMatchCollateral
  <1>2. CASE swept = 0 \/ vault.total_collateral = 0
    BY <1>2 DEF EquivShares
  <1>3. CASE ~(swept = 0 \/ vault.total_collateral = 0)
    <2>1. vault.total_collateral \in Nat \ {0}
      BY <1>1, <1>3
    <2>2. MulDiv(swept, vault.total_collateral, vault.total_collateral) = swept
      BY <2>1, MulDivOneToOne, Zenon
    <2>3. QED
      BY <1>1, <1>3, <2>2 DEF EquivShares
  <1>4. QED
    BY <1>2, <1>3

\* After the merge a backer's claim is what it committed.
LEMMA ClaimIsCommitted ==
    ASSUME AskTypeOK, BackersInv, ~Unresolved, vault.writer_ask_collateral_swept # 0,
           NEW w \in Writers
    PROVE  EquivClaim(w) = backing[w].committed
  <1> DEFINE swept == vault.writer_ask_collateral_swept
  <1>1. swept \in Nat \ {0} /\ backing[w].committed \in Nat
    BY PotTypes
  <1>2. vault.writer_ask_equiv_shares = swept
    BY DEF BackersInv
  <1>3. EquivClaim(w) = MulDiv(backing[w].committed, swept, swept)
    BY <1>1, <1>2 DEF EquivClaim
  <1> HIDE DEF swept
  <1>4. MulDiv(backing[w].committed, swept, swept) = backing[w].committed
    BY <1>1, MulDivOneToOne
  <1>5. QED
    BY <1>3, <1>4

\* Steps that issue no share and commit nothing.
LEMMA BackersInvFrame ==
    ASSUME BackersInv, UNCHANGED <<position, pot_drawn>>,
           Unresolved' = Unresolved, Unresolved \/ backing' = backing,
           vault'.total_shares = vault.total_shares,
           vault'.writer_ask_collateral_swept = vault.writer_ask_collateral_swept,
           vault'.writer_ask_equiv_shares = vault.writer_ask_equiv_shares
    PROVE  BackersInv'
  <1>1. TotalShares' = TotalShares
    BY DEF TotalShares
  <1>2. ~Unresolved => TotalCommitted' = TotalCommitted
    BY DEF TotalCommitted
  <1>3. QED
    BY <1>1, <1>2 DEF BackersInv

LEMMA BackersInvStep ==
    ASSUME AskTypeOK, AskTypeOK', AccountsInv, PotInv, BackersInv, [AskNext]_allVars
    PROVE  BackersInv'
  <1>0. /\ TypeOK /\ TypeOK' /\ TotalShares \in Nat /\ vault.total_shares \in Nat
        /\ TotalCommitted \in Nat
    BY TotalsNat, VaultTypes, PotTypes DEF AskTypeOK
  <1>1. CASE PoolNext /\ UNCHANGED askVars
    <2>1. /\ vault'.writer_ask_collateral_swept = vault.writer_ask_collateral_swept
          /\ vault'.writer_ask_equiv_shares = vault.writer_ask_equiv_shares
          /\ Unresolved' = Unresolved
          /\ pot_drawn' = pot_drawn /\ backing' = backing
      BY <1>0, <1>1, PotFieldsKept, PoolResolvesNothing DEF askVars, potVars
    <2>2. TotalCommitted' = TotalCommitted
      BY <2>1 DEF TotalCommitted
    <2>3. vault'.total_shares - TotalShares' = vault.total_shares - TotalShares
      BY <1>0, <1>1, PoolShares
    <2>4. TotalShares' \in Nat /\ vault'.total_shares \in Nat
      <3>1. (TypeOK => TotalShares \in Nat /\ vault.total_shares \in Nat)'
        BY TotalsNat, VaultTypes, PTL
      <3>2. QED
        BY <1>0, <3>1
    <2>5. QED
      BY <1>0, <2>1, <2>2, <2>3, <2>4 DEF BackersInv
  <1>2. CASE AskOnly
    BY <1>2, BackersInvFrame DEF AskOnly, vars, potVars, Unresolved
  <1>3. ASSUME NEW h \in Holders, NEW o \in Orders, NEW quantity \in Nat,
               FillWriterAsk(h, o, quantity)
        PROVE  BackersInv'
    BY <1>0, <1>3, LiveUnresolved, BackersInvFrame DEF FillWriterAsk, Unresolved
  <1>4. ASSUME NEW h \in Holders, NEW quantity \in Nat, NEW quote \in Nat,
               FillVaultPeg(h, quantity, quote)
        PROVE  BackersInv'
    BY <1>0, <1>4, PegEffect, BackersInvFrame DEF askVars, potVars, Unresolved
  <1>5. ASSUME NEW h \in Holders, NEW quantity \in Nat, NEW spot \in Nat,
               NEW own \in BOOLEAN, ExerciseAmerican(h, quantity, spot, own)
        PROVE  BackersInv'
    <2>1. /\ vault'.total_shares = vault.total_shares
          /\ vault'.writer_ask_collateral_swept = vault.writer_ask_collateral_swept
          /\ vault'.writer_ask_equiv_shares = vault.writer_ask_equiv_shares
          /\ vault'.is_settled = vault.is_settled /\ vault'.voided = vault.voided
          /\ UNCHANGED position /\ now < Expiry
      BY <1>5, ExerciseEffect
    <2>2. Unresolved /\ Unresolved'
      BY <1>0, <2>1, EarlyUnresolved DEF Unresolved
    <2>3. TotalShares' = TotalShares
      BY <2>1 DEF TotalShares
    <2>4. QED
      BY <2>1, <2>2, <2>3 DEF BackersInv
  <1>6. CASE SettleVaultWithPot \/ InitializeVoidWithPot
    <2> DEFINE swept == pot.total_collateral
    <2>1. /\ Unresolved /\ ~Unresolved'
          /\ UNCHANGED <<position, backing, pot_drawn>>
          /\ vault'.writer_ask_collateral_swept = swept
          /\ vault'.writer_ask_equiv_shares = EquivShares(swept)
          /\ vault'.total_shares = vault.total_shares + EquivShares(swept)
      BY <1>6, MergeResolves
    <2>2. swept \in Nat
      BY PotTypes
    <2>3. EquivShares(swept) = swept
      BY <1>0, <2>1, <2>2, EquivSharesAreUnits
    <2>4. TotalShares' = TotalShares /\ TotalCommitted' = TotalCommitted
      BY <2>1 DEF TotalShares, TotalCommitted
    <2>5. swept + pot_drawn = TotalCommitted /\ vault.total_shares = TotalShares
      BY <2>1 DEF PotInv, BackersInv
    <2> HIDE DEF swept
    <2>6. QED
      BY <1>0, <2>1, <2>2, <2>3, <2>4, <2>5 DEF BackersInv
  <1>7. ASSUME NEW w \in Writers, BackerExit(w), ~Unresolved PROVE BackersInv'
    <2>1. /\ backing'[w] = NoBacking
          /\ \A x \in Writers \ {w} : backing'[x] = backing[x]
          /\ vault'.total_shares = vault.total_shares - EquivClaim(w)
          /\ vault'.is_settled = vault.is_settled /\ vault'.voided = vault.voided
          /\ vault'.writer_ask_collateral_swept = vault.writer_ask_collateral_swept
          /\ vault'.writer_ask_equiv_shares = vault.writer_ask_equiv_shares
          /\ UNCHANGED <<position, pot_drawn>>
          /\ vault.writer_ask_collateral_swept > 0
      BY <1>7, BackerExitEffect DEF potVars
    <2>2. EquivClaim(w) = backing[w].committed /\ backing[w].committed \in Nat
      BY <1>7, <2>1, ClaimIsCommitted, PotTypes
    <2>3. TotalCommitted' = TotalCommitted - backing[w].committed
      BY <1>0, <2>1, <2>2, BackingChange DEF NoBacking
    <2>4. TotalShares' = TotalShares /\ ~Unresolved'
      BY <1>7, <2>1 DEF TotalShares, Unresolved
    <2>5. vault'.writer_ask_collateral_swept # 0
      BY <2>1, PotTypes
    <2>6. QED
      BY <1>0, <1>7, <2>1, <2>2, <2>3, <2>4, <2>5 DEF BackersInv
  <1>8. QED
    BY <1>1, <1>2, <1>3, <1>4, <1>5, <1>6, <1>7, AskCases

\* What the pool's steps do to a settled vault's residual and to the tokens.
LEMMA PoolAfterSettlement ==
    ASSUME TypeOK, AccountsInv, PoolNext, vault.is_settled
    PROVE  \/ \E h \in Holders, quantity \in Nat : PayHolder(h, quantity)
           \/ /\ UNCHANGED holding
              /\ vault'.total_options_sold = vault.total_options_sold
              /\ \/ vault'.collateral_remaining = vault.collateral_remaining
                 \/ WriterWindowOpen
  <1> DEFINE Kept == /\ UNCHANGED holding
                     /\ vault'.total_options_sold = vault.total_options_sold
                     /\ \/ vault'.collateral_remaining = vault.collateral_remaining
                        \/ WriterWindowOpen
  <1>0. vault.created /\ ~vault.voided
    BY DEF AccountsInv, ResolvedOneWay, EmptyVault
  <1>1. ASSUME NEW w \in Writers, WriterNext(w) PROVE Kept
    BY <1>0, <1>1
       DEF WriterNext, CreateSharedVault, CreateAndDeposit, DepositToVault, Live,
           MintFromVault, BurnUnsoldFromVault, WithdrawFromVault, ClaimPremium,
           WithdrawPostSettlement, AutoFinalizeWriters, ReclaimUnsettled, WriterExit,
           TypeOK, VaultRecord
  <1>2. ASSUME NEW h \in Holders, HolderNext(h)
        PROVE  \E quantity \in Nat : PayHolder(h, quantity)
    BY <1>2, InputsAssumption
       DEF HolderNext, PurchaseFromVault, Live, ExerciseFromVault,
           AutoFinalizeHolders, TypeOK
  <1>3. QED
    BY <1>1, <1>2 DEF PoolNext, Tick, SettleExpiry, AutoFinalizeNoWriters,
                      CloseSettledWriterAskVault

\* What a holder is paid: no more than its tokens' payout, and no less but for
\* the dust; what is left covers the other tokens up to the dust.
LEMMA HolderPaidUpToDust ==
    ASSUME AskTypeOK, AskTypeOK', NEW h \in Holders, NEW quantity \in Nat,
           PayHolder(h, quantity), now < WindowEnd, AllHoldersCoveredInWindow
    PROVE  LET each == PayoutPerContract(vault.settlement_price)
               paid == vault.collateral_remaining - vault'.collateral_remaining
           IN  /\ TotalHeld' = TotalHeld - quantity
               /\ paid <= quantity * each /\ quantity * each <= paid + Dust
               /\ TotalHeld' * each <= vault'.collateral_remaining + Dust
  <1> DEFINE each == PayoutPerContract(vault.settlement_price)
             owed == quantity * each
             cr == vault.collateral_remaining
             cr2 == vault'.collateral_remaining
  <1>0. TypeOK /\ TypeOK' /\ Dust \in Nat
    BY PotTypes DEF AskTypeOK
  <1>1. each \in Nat /\ cr \in Nat /\ cr2 \in Nat
    BY <1>0, VaultTypes, PayoutNat DEF TypeOK, VaultRecord
  <1>2. /\ holding'[h] = holding[h] - quantity /\ holding[h] \in Nat
        /\ \A x \in Holders \ {h} : holding'[x] = holding[x]
        /\ quantity <= holding[h] /\ vault.is_settled
        /\ cr2 = cr - AtMost(owed, cr)
    BY <1>0 DEF PayHolder, TypeOK, VaultRecord
  <1>3. TotalHeld \in Nat /\ TotalHeld' = TotalHeld - quantity /\ quantity <= TotalHeld
    BY <1>0, <1>2, TotalsNat, HeldChange
  <1>4. TotalHeld * each <= cr + Dust
    BY <1>2 DEF AllHoldersCoveredInWindow
  <1> HIDE DEF each, cr, cr2
  <1>5. /\ (TotalHeld - quantity) * each = TotalHeld * each - owed
        /\ owed \in Nat /\ TotalHeld * each \in Nat
    BY <1>1, <1>3
  <1>6. owed <= TotalHeld * each
    BY <1>1, <1>3, ProductMonotone
  <1> HIDE DEF owed
  <1>7. /\ cr - cr2 <= owed /\ owed <= (cr - cr2) + Dust
        /\ TotalHeld * each - owed <= cr2 + Dust
    <2>1. CASE owed <= cr
      BY <1>0, <1>1, <1>2, <1>4, <1>5, <2>1 DEF AtMost
    <2>2. CASE ~(owed <= cr)
      BY <1>0, <1>1, <1>2, <1>4, <1>5, <1>6, <2>2 DEF AtMost
    <2>3. QED
      BY <2>1, <2>2
  <1>8. QED
    BY <1>3, <1>5, <1>7 DEF owed, each, cr, cr2

LEMMA WindowInvPool ==
    ASSUME AskTypeOK, AskTypeOK', AccountsInv, WindowInv, PoolNext, UNCHANGED askVars
    PROVE  WindowInv'
  <1>0. /\ TypeOK /\ TypeOK' /\ TotalHeld \in Nat /\ Dust \in Nat /\ now \in Nat
        /\ vault.collateral_remaining \in Nat /\ vault'.collateral_remaining \in Nat
    BY TotalsNat, PotTypes, VaultTypes DEF AskTypeOK, TypeOK, VaultRecord
  <1>1. /\ vault'.is_settled = vault.is_settled
        /\ vault'.settlement_price = vault.settlement_price
        /\ vault'.writer_ask_collateral_swept = vault.writer_ask_collateral_swept
        /\ now <= now' /\ now' \in Nat /\ roundings <= roundings' /\ draws' = draws
    BY <1>0, PoolResolvesNothing, PotFieldsKept DEF askVars, potVars, TypeOK
  <1>2. Dust <= Dust' /\ Dust' \in Nat
    <2>1. draws <= draws'
      BY <1>1, PotTypes
    <2>2. QED
      BY <1>1, <2>1, DustGrows
  <1>3. SUFFICES ASSUME vault.is_settled PROVE WindowInv'
    BY <1>1 DEF WindowInv, AllHoldersCoveredInWindow
  <1> DEFINE each == PayoutPerContract(vault.settlement_price)
  <1>4. each \in Nat /\ PayoutPerContract(vault'.settlement_price) = each
        /\ WindowEnd' = WindowEnd /\ WindowEnd \in Nat
    BY <1>0, <1>1, VaultTypes, PayoutNat, ConstantsFacts
  <1>5. ASSUME NEW h \in Holders, NEW quantity \in Nat, PayHolder(h, quantity)
        PROVE  WindowInv'
    <2>1. /\ now' = now /\ vault'.total_options_sold = vault.total_options_sold
          /\ holding'[h] = holding[h] - quantity /\ holding[h] \in Nat
          /\ \A x \in Holders \ {h} : holding'[x] = holding[x]
          /\ quantity <= holding[h] /\ holding[h] <= TotalHeld
      BY <1>0, <1>5, TotalsNat DEF PayHolder, TypeOK, VaultRecord
    <2>2. TotalHeld' = TotalHeld - quantity /\ quantity <= TotalHeld
      BY <1>0, <2>1, HeldChange
    <2>3. ASSUME now < WindowEnd
          PROVE  TotalHeld' * each <= vault'.collateral_remaining + Dust'
      <3>1. AllHoldersCoveredInWindow
        BY DEF WindowInv
      <3>2. TotalHeld' * each <= vault'.collateral_remaining + Dust
        BY <1>5, <2>3, <3>1, HolderPaidUpToDust
      <3>3. TotalHeld' * each \in Nat
        <4> DEFINE held == TotalHeld'
        <4>1. held \in Nat
          BY <1>0, <2>2
        <4> HIDE DEF each, held
        <4>2. held * each \in Nat
          BY <1>4, <4>1
        <4>3. QED
          BY <4>2 DEF held
      <3>4. QED
        BY <1>0, <1>2, <3>2, <3>3
    <2>4. (vault.total_options_sold = 0 /\ vault.writer_ask_collateral_swept = 0)
              => TotalHeld' = 0
      BY <1>0, <1>3, <2>2 DEF WindowInv
    <2>5. QED
      BY <1>1, <1>4, <2>1, <2>3, <2>4
         DEF WindowInv, AllHoldersCoveredInWindow, PayoutPerContract, Cpc, WindowEnd
  <1>6. ASSUME UNCHANGED holding,
               vault'.total_options_sold = vault.total_options_sold,
               \/ vault'.collateral_remaining = vault.collateral_remaining
               \/ WriterWindowOpen
        PROVE  WindowInv'
    <2>1. TotalHeld' = TotalHeld
      BY <1>6 DEF TotalHeld
    <2>2. ASSUME now < WindowEnd
          PROVE  TotalHeld * each <= vault'.collateral_remaining + Dust'
      <3>1. CASE vault'.collateral_remaining = vault.collateral_remaining
        <4>1. TotalHeld * each <= vault.collateral_remaining + Dust
          BY <1>3, <2>2 DEF WindowInv, AllHoldersCoveredInWindow
        <4>2. TotalHeld * each \in Nat
          <5> HIDE DEF each
          <5>1. QED
            BY <1>0, <1>4
        <4>3. QED
          BY <1>0, <1>2, <3>1, <4>1, <4>2
      <3>2. CASE WriterWindowOpen
        <4>1. /\ ~(vault.total_options_sold > 0)
              /\ ~(vault.writer_ask_collateral_swept > 0)
          BY <1>0, <1>4, <2>2, <3>2 DEF WriterWindowOpen
        <4>2. vault.total_options_sold = 0 /\ vault.writer_ask_collateral_swept = 0
          BY <1>0, <4>1, VaultTypes, PotTypes
        <4>3. TotalHeld = 0
          BY <1>3, <4>2 DEF WindowInv
        <4> HIDE DEF each
        <4>4. TotalHeld * each = 0
          BY <1>4, <4>3
        <4>5. QED
          BY <1>0, <1>2, <4>4
      <3>3. QED
        BY <1>6, <3>1, <3>2
    <2>3. now' < WindowEnd => now < WindowEnd
      BY <1>0, <1>1, <1>4
    <2>4. (vault.total_options_sold = 0 /\ vault.writer_ask_collateral_swept = 0)
              => TotalHeld = 0
      BY <1>3 DEF WindowInv
    <2>5. QED
      BY <1>1, <1>4, <1>6, <2>1, <2>2, <2>3, <2>4
         DEF WindowInv, AllHoldersCoveredInWindow, PayoutPerContract, Cpc, WindowEnd
  <1>7. QED
    BY <1>0, <1>3, <1>5, <1>6, PoolAfterSettlement

\* Settlement: the merged collateral covers every token at any price.
LEMMA WindowInvSettle ==
    ASSUME AskTypeOK, AskTypeOK', AccountsInv, PotInv, TokensInv, LimitsInv,
           SettleVaultWithPot
    PROVE  WindowInv'
  <1> DEFINE each == PayoutPerContract(vault'.settlement_price)
             whole == vault.total_collateral + pot.total_collateral
             early == vault.early_exercise_payout
  <1>0. /\ TypeOK /\ TypeOK' /\ TotalHeld \in Nat /\ TotalEscrowed \in Nat
        /\ Dust \in Nat /\ whole \in Nat /\ early \in Nat /\ Cpc \in Nat \ {0}
        /\ pot.total_contracts \in Nat /\ pot.total_collateral \in Nat
        /\ vault.total_options_sold \in Nat
    BY TotalsNat, PotTypes, VaultTypes, ConstantsFacts DEF AskTypeOK
  <1>1. /\ Unresolved
        /\ UNCHANGED <<now, holding, roundings, pot, draws>>
        /\ vault'.total_options_sold = vault.total_options_sold
        /\ vault'.writer_ask_collateral_swept = pot.total_collateral
        /\ vault'.collateral_remaining = SatSub(whole, early)
    BY MergeResolves
  <1>2. each \in Nat /\ each <= Cpc
    <2>1. vault'.settlement_price \in Nat
      BY <1>0 DEF TypeOK, VaultRecord
    <2>2. QED
      BY <2>1, PayoutNat
  <1>3. TotalHeld' = TotalHeld /\ Dust' = Dust
    BY <1>1 DEF TotalHeld, Dust
  <1>4. TotalOutstanding * Cpc + early <= whole + Dust
    BY <1>1, MergedCovers
  <1> HIDE DEF each, whole, early
  <1>5. TotalHeld * each <= vault'.collateral_remaining + Dust
    <2>1. TotalHeld <= TotalOutstanding /\ TotalOutstanding \in Nat
      BY <1>0 DEF TotalOutstanding
    <2>2. TotalHeld * each <= TotalOutstanding * Cpc
          /\ TotalHeld * each \in Nat /\ TotalOutstanding * Cpc \in Nat
      BY <1>0, <1>2, <2>1, ProductMonotone
    <2>3. SatSub(whole, early) \in Nat /\ whole - early <= SatSub(whole, early)
      BY <1>0 DEF SatSub
    <2>4. QED
      BY <1>0, <1>1, <1>4, <2>2, <2>3
  <1>6. (vault.total_options_sold = 0 /\ pot.total_collateral = 0) => TotalHeld = 0
    <2>1. SUFFICES ASSUME vault.total_options_sold = 0, pot.total_collateral = 0
                   PROVE  TotalHeld = 0
      OBVIOUS
    <2>2. pot.total_contracts * Cpc <= 0
      BY <1>1, <2>1 DEF PotInv
    <2>3. pot.total_contracts = 0
      BY <1>0, <2>2
    <2>4. QED
      BY <1>0, <2>1, <2>3 DEF TokensInv
  <1>7. QED
    BY <1>1, <1>3, <1>5, <1>6
       DEF WindowInv, AllHoldersCoveredInWindow, PayoutPerContract, Cpc, WindowEnd, each

LEMMA WindowInvStep ==
    ASSUME AskTypeOK, AskTypeOK', AccountsInv, PotInv, TokensInv, LimitsInv, WindowInv,
           [AskNext]_allVars
    PROVE  WindowInv'
  <1>0. TypeOK
    BY DEF AskTypeOK
  <1>1. ASSUME Unresolved, vault'.is_settled = vault.is_settled PROVE WindowInv'
    BY <1>1 DEF WindowInv, AllHoldersCoveredInWindow, Unresolved
  <1>2. CASE AskOnly
    BY <1>2 DEF AskOnly, vars, potVars, WindowInv, AllHoldersCoveredInWindow, TotalHeld,
                Dust, PayoutPerContract, Cpc, WindowEnd
  <1>3. ASSUME NEW h \in Holders, NEW o \in Orders, NEW quantity \in Nat,
               FillWriterAsk(h, o, quantity)
        PROVE  WindowInv'
    BY <1>0, <1>1, <1>3, LiveUnresolved DEF FillWriterAsk
  <1>4. ASSUME NEW h \in Holders, NEW quantity \in Nat, NEW quote \in Nat,
               FillVaultPeg(h, quantity, quote)
        PROVE  WindowInv'
    BY <1>0, <1>1, <1>4, LiveUnresolved, PegEffect
  <1>5. ASSUME NEW h \in Holders, NEW quantity \in Nat, NEW spot \in Nat,
               NEW own \in BOOLEAN, ExerciseAmerican(h, quantity, spot, own)
        PROVE  WindowInv'
    <2>1. vault'.is_settled = vault.is_settled /\ now < Expiry
      BY <1>5, ExerciseEffect
    <2>2. QED
      BY <1>0, <1>1, <2>1, EarlyUnresolved
  <1>6. CASE InitializeVoidWithPot
    <2>1. Unresolved
      BY <1>6, MergeResolves
    <2>2. vault'.is_settled = vault.is_settled
      BY <1>0, <1>6 DEF InitializeVoidWithPot, InitializeVoidSweeping, TypeOK, VaultRecord
    <2>3. QED
      BY <1>1, <2>1, <2>2
  <1>7. ASSUME NEW w \in Writers, BackerExit(w), vault.is_settled => now >= WindowEnd
        PROVE  WindowInv'
    <2>1. /\ vault'.is_settled = vault.is_settled /\ now' = now
          /\ vault'.writer_ask_collateral_swept > 0
      BY <1>7, BackerExitEffect
    <2>2. now \in Nat /\ WindowEnd \in Nat /\ WindowEnd' = WindowEnd
      BY <1>0, ConstantsFacts DEF TypeOK
    <2>3. vault'.is_settled => ~(now < WindowEnd)
      BY <1>7, <2>1, <2>2
    <2>4. QED
      BY <2>1, <2>2, <2>3 DEF WindowInv, AllHoldersCoveredInWindow
  <1>8. QED
    BY <1>2, <1>3, <1>4, <1>5, <1>6, <1>7, AskCases, WindowInvPool, WindowInvSettle

\* The merge writes off the dust, and no more.
LEMMA SurplusMerge ==
    ASSUME AskTypeOK, AskTypeOK', AccountsInv, PotInv, TokensInv, LimitsInv, FundsInv,
           SettleVaultWithPot \/ InitializeVoidWithPot
    PROVE  Surplus' + Scale * Dust >= 0
  <1> DEFINE whole == vault.total_collateral + pot.total_collateral
             early == vault.early_exercise_payout
  <1>0. /\ TypeOK /\ TypeOK' /\ Scale \in Nat \ {0} /\ Dust \in Nat
        /\ whole \in Nat /\ early \in Nat /\ pot.total_collateral \in Nat
        /\ vault.total_collateral \in Nat
    BY PotTypes, VaultTypes, ScaleNat DEF AskTypeOK
  <1>1. /\ Unresolved /\ ~Unresolved' /\ usdc_open
        /\ vault'.collateral_remaining = SatSub(whole, early)
        /\ vault_usdc' = vault_usdc + pot.total_collateral
        /\ vault'.premium_per_share_cumulative = vault.premium_per_share_cumulative
        /\ UNCHANGED <<position, roundings>>
    BY MergeResolves
  <1>2. early <= whole + Dust
    <2>1. TotalOutstanding * Cpc + early <= whole + Dust
      BY <1>1, MergedCovers
    <2>2. TotalOutstanding \in Nat
      BY <1>0, TotalsNat DEF TotalOutstanding
    <2>3. TotalOutstanding * Cpc \in Nat
      BY <2>2, ConstantsFacts
    <2> HIDE DEF whole, early
    <2>4. QED
      BY <1>0, <2>1, <2>3
  <1>3. Funds' + Dust >= Funds /\ Funds \in Int /\ Funds' \in Int
    <2>1. /\ Owed' = SatSub(whole, early)
          /\ Owed = vault.total_collateral - early
      BY <1>1 DEF Owed
    <2>2. SatSub(whole, early) <= (whole - early) + Dust /\ SatSub(whole, early) \in Nat
      <3> HIDE DEF whole, early
      <3>1. QED
        BY <1>0, <1>2 DEF SatSub
    <2>3. /\ Funds' = vault_usdc + pot.total_collateral + roundings - SatSub(whole, early)
          /\ Funds = vault_usdc + roundings - (vault.total_collateral - early)
      BY <1>1, <2>1 DEF Funds
    <2>4. whole - early = pot.total_collateral + (vault.total_collateral - early)
      BY <1>0
    <2> HIDE DEF whole, early
    <2>5. QED
      BY <1>0, <2>2, <2>3, <2>4, FundsTypes
  <1>4. Entitlements' = Entitlements
    BY <1>1 DEF Entitlements, Entitlement
  <1>5. Scale * Funds - Total(Entitlements) >= 0 /\ Total(Entitlements) \in Nat
    <2>1. Surplus + Scale * 0 >= 0 /\ Surplus \in Int /\ Total(Entitlements) \in Nat
      BY <1>0, <1>1, EntitlementTypes DEF FundsInv
    <2>2. QED
      BY <1>0, <2>1 DEF Surplus
  <1>6. Surplus' = Scale * Funds' - Total(Entitlements)
    BY <1>4 DEF Surplus
  <1> DEFINE f == Funds
             g == Funds'
             d == Dust
             e == Total(Entitlements)
  <1>7. /\ f \in Int /\ g \in Int /\ d \in Nat /\ e \in Nat /\ f <= g + d
        /\ Scale * f - e >= 0
    BY <1>0, <1>3, <1>5
  <1> HIDE DEF f, g, d, e
  <1>8. Scale * f <= Scale * (g + d) /\ Scale * (g + d) = Scale * g + Scale * d
    BY <1>0, <1>7
  <1>9. Scale * f \in Int /\ Scale * g \in Int /\ Scale * d \in Int
    BY <1>0, <1>7
  <1>10. (Scale * g - e) + Scale * d >= 0
    BY <1>7, <1>8, <1>9
  <1>11. QED
    BY <1>6, <1>10 DEF g, d, e

\* A step that costs no surplus and forgets no dust.
LEMMA FundsInvKept ==
    ASSUME AskTypeOK, AskTypeOK', FundsInv, usdc_open \/ ~vault.created,
           Surplus' >= Surplus, Unresolved' = Unresolved, Dust <= Dust'
    PROVE  FundsInv'
  <1>0. TypeOK /\ TypeOK' /\ Scale \in Nat \ {0}
    BY ScaleNat DEF AskTypeOK
  <1>1. Surplus \in Int /\ Surplus' \in Int
    <2>1. (TypeOK => Surplus \in Int)'
      BY EntitlementTypes, PTL
    <2>2. QED
      BY <1>0, <2>1, EntitlementTypes
  <1>2. Dust \in Nat /\ Dust' \in Nat
    <2>1. (AskTypeOK => Dust \in Nat)'
      BY PotTypes, PTL
    <2>2. QED
      BY <2>1, PotTypes
  <1> DEFINE d == Dust
             d2 == Dust'
             s == Surplus
             s2 == Surplus'
  <1>3. d \in Nat /\ d2 \in Nat /\ d <= d2 /\ s \in Int /\ s2 \in Int /\ s2 >= s
    BY <1>1, <1>2
  <1>4. IF Unresolved THEN s + Scale * 0 >= 0 ELSE s + Scale * d >= 0
    BY DEF FundsInv
  <1> HIDE DEF d, d2, s, s2
  <1>5. Scale * d <= Scale * d2 /\ Scale * d \in Nat /\ Scale * d2 \in Nat /\ Scale * 0 = 0
    BY <1>0, <1>3
  <1>6. IF Unresolved THEN s2 + Scale * 0 >= 0 ELSE s2 + Scale * d2 >= 0
    BY <1>3, <1>4, <1>5
  <1>7. Surplus' + Scale * (IF Unresolved' THEN 0 ELSE Dust') >= 0
    BY <1>6 DEF s2, d2
  <1>8. QED
    BY <1>7 DEF FundsInv

LEMMA FundsInvStep ==
    ASSUME AskTypeOK, AskTypeOK', AccountsInv, PotInv, TokensInv, LimitsInv, BackersInv,
           FundsInv, [AskNext]_allVars
    PROVE  FundsInv'
  <1>0. TypeOK /\ TypeOK' /\ Dust \in Nat /\ Surplus \in Int
    BY PotTypes, EntitlementTypes DEF AskTypeOK
  <1>1. CASE PoolNext /\ UNCHANGED askVars
    <2>1. SUFFICES ASSUME (usdc_open \/ ~vault.created)' PROVE FundsInv'
      BY DEF FundsInv
    <2>2. Unresolved => TotalShares <= vault.total_shares
      BY <1>0, TotalsNat DEF BackersInv
    <2>3. (usdc_open \/ ~vault.created) /\ Surplus' >= Surplus
      BY <1>0, <1>1, <2>1, <2>2, SurplusPool
    <2>4. Unresolved' = Unresolved /\ roundings <= roundings' /\ draws <= draws'
      BY <1>0, <1>1, PoolResolvesNothing, PotTypes DEF askVars, potVars
    <2>5. Dust <= Dust'
      BY <2>4, DustGrows
    <2>6. QED
      BY <2>3, <2>4, <2>5, FundsInvKept
  <1>2. ASSUME UNCHANGED <<vault, vault_usdc, usdc_open, position, roundings, draws>>
        PROVE  FundsInv'
    BY <1>2 DEF FundsInv, Surplus, Funds, Owed, Unresolved, Entitlements, Entitlement, Dust
  <1>3. ASSUME NEW h \in Holders, NEW quantity \in Nat, NEW quote \in Nat,
               FillVaultPeg(h, quantity, quote)
        PROVE  FundsInv'
    <2>1. PICK share \in Nat :
            /\ vault_usdc' = vault_usdc + share
            /\ vault'.premium_per_share_cumulative = AccumulatorAfter(share)
            /\ vault'.is_settled = vault.is_settled /\ vault'.voided = vault.voided
            /\ vault'.total_collateral = vault.total_collateral
            /\ vault'.early_exercise_payout = vault.early_exercise_payout
            /\ UNCHANGED <<usdc_open, position, roundings, draws>>
            /\ vault.created /\ Live
      BY <1>0, <1>3, PegEffect DEF askVars, potVars
    <2>2. Unresolved /\ Unresolved' = Unresolved /\ Dust' = Dust
      BY <1>0, <2>1, LiveUnresolved DEF Unresolved, Dust
    <2>3. Owed' = Owed
      BY <2>1, <2>2 DEF Owed
    <2>4. TotalShares <= vault.total_shares
      BY <1>0, <2>2, TotalsNat DEF BackersInv
    <2>5. Surplus' >= Surplus
      BY <1>0, <2>1, <2>3, <2>4, SurplusPremium
    <2>6. usdc_open
      BY <2>1, <2>2 DEF AccountsInv
    <2>7. QED
      BY <1>0, <2>2, <2>5, <2>6, FundsInvKept
  <1>4. ASSUME NEW h \in Holders, NEW quantity \in Nat, NEW spot \in Nat,
               NEW own \in BOOLEAN, ExerciseAmerican(h, quantity, spot, own)
        PROVE  FundsInv'
    <2>1. /\ vault'.is_settled = vault.is_settled /\ vault'.voided = vault.voided
          /\ roundings' = roundings /\ vault.created /\ now < Expiry
      BY <1>4, ExerciseEffect
    <2>2. draws <= draws' /\ roundings <= roundings'
      BY <1>4, <2>1, PotTypes DEF ExerciseAmerican
    <2>3. Unresolved /\ Unresolved' = Unresolved
      BY <1>0, <2>1, EarlyUnresolved DEF Unresolved
    <2>4. usdc_open
      BY <2>1, <2>3 DEF AccountsInv
    <2>5. Dust <= Dust' /\ Surplus' >= Surplus
      BY <1>0, <1>4, <2>2, DustGrows, SurplusExercise
    <2>6. QED
      BY <2>3, <2>4, <2>5, FundsInvKept
  <1>5. CASE SettleVaultWithPot \/ InitializeVoidWithPot
    <2>1. ~Unresolved' /\ Dust' = Dust
      BY <1>5, MergeResolves DEF Dust
    <2>2. Surplus' + Scale * Dust >= 0
      BY <1>5, SurplusMerge
    <2>3. QED
      BY <2>1, <2>2 DEF FundsInv
  <1>6. ASSUME NEW w \in Writers, BackerExit(w), ~Unresolved PROVE FundsInv'
    <2>1. /\ BackerPayout(w) \in Nat
          /\ vault_usdc' = vault_usdc - BackerPayout(w)
          /\ vault'.collateral_remaining = vault.collateral_remaining - BackerPayout(w)
          /\ vault'.is_settled = vault.is_settled /\ vault'.voided = vault.voided
          /\ vault'.premium_per_share_cumulative = vault.premium_per_share_cumulative
          /\ UNCHANGED <<position, roundings, draws>>
          /\ usdc_open
      BY <1>6, BackerExitEffect DEF potVars
    <2>2. ~Unresolved' /\ Unresolved' = Unresolved /\ Dust' = Dust
      BY <1>6, <2>1 DEF Unresolved, Dust
    <2>3. Owed' = Owed - BackerPayout(w)
      BY <1>6, <2>1, <2>2 DEF Owed
    <2>4. Funds' = Funds
      BY <1>0, <2>1, <2>3, FundsTypes DEF Funds
    <2>5. Surplus' = Surplus
      BY <1>0, <2>1, <2>4, SurplusSame
    <2>6. QED
      BY <1>0, <2>1, <2>2, <2>5, FundsInvKept
  <1>7. ASSUME NEW h \in Holders, NEW o \in Orders, NEW quantity \in Nat,
               FillWriterAsk(h, o, quantity)
        PROVE  FundsInv'
    BY <1>2, <1>7 DEF FillWriterAsk
  <1>8. CASE AskOnly
    BY <1>2, <1>8 DEF AskOnly, vars, potVars
  <1>9. QED
    BY <1>1, <1>3, <1>4, <1>5, <1>6, <1>7, <1>8, AskCases

-----------------------------------------------------------------------------
(* Theorems. *)

LEMMA AskInvStep ==
    AskTypeOK /\ AskTypeOK' /\ AccountsInv /\ AskInv /\ [AskNext]_allVars => AskInv'
  BY PotInvStep, TokensInvStep, LimitsInvStep, BackersInvStep, WindowInvStep,
     FundsInvStep DEF AskInv

LEMMA AskInvariant == AskSpec => []AskInv
  BY AskInvInit, AskInvStep, AskTypesCorrect, AskAccountsInvariant, PTL DEF AskSpec

\* Pool and pot together hold a full collateral for every token that is out,
\* whichever of them sold it and whichever paid the early exercises.
THEOREM PoolAndPotCoverTokens == AskSpec => []MergedCollateralCoversTokens
  <1>1. AskTypeOK /\ AskInv => MergedCollateralCoversTokens
    BY MergedCovers DEF AskInv, MergedCollateralCoversTokens
  <1>2. QED
    BY <1>1, AskTypesCorrect, AskInvariant, PTL

\* The pot backs the contracts it counts in full and its account holds what it
\* counts, whatever early exercises drew from it.
THEOREM PotBacksContracts == AskSpec => []PotBacksItsContracts
  <1>1. AskTypeOK /\ AskInv => PotBacksItsContracts
    BY PotTypes DEF AskInv, PotInv, PotBacksItsContracts
  <1>2. QED
    BY <1>1, AskTypesCorrect, AskInvariant, PTL

\* The pot holds what its backers committed, less what was drawn from it.
THEOREM PotHoldsCommitments == AskSpec => []PotMatchesCommitments
  <1>1. AskInv => PotMatchesCommitments
    BY DEF AskInv, PotInv, PotMatchesCommitments
  <1>2. QED
    BY <1>1, AskInvariant, PTL

\* Vault and pot can pay every token in full before expiry, up to the rounded
\* premium: an early exercise is never refused for want of money.
THEOREM EarlyExerciseCanBePaid == AskSpec => []EarlyExerciseIsFunded
  <1>1. AskTypeOK /\ AccountsInv /\ AskInv => EarlyExerciseIsFunded
    <2> SUFFICES ASSUME AskTypeOK, AccountsInv, AskInv, Unresolved
                 PROVE  TotalHeld * Cpc
                            <= vault_usdc + AtMost(pot.total_collateral, pot_usdc + elsewhere)
                                   + roundings + Dust
      BY DEF EarlyExerciseIsFunded
    <2>0. /\ TypeOK /\ TotalHeld \in Nat /\ TotalEscrowed \in Nat /\ Cpc \in Nat
          /\ vault.total_collateral \in Nat
      BY TotalsNat, VaultTypes, ConstantsFacts DEF AskTypeOK
    <2>1. TotalOutstanding * Cpc + vault.early_exercise_payout
              <= vault.total_collateral + pot.total_collateral + Dust
      BY MergedCovers DEF AskInv
    <2>2. AtMost(pot.total_collateral, pot_usdc + elsewhere) = pot.total_collateral
      BY PotTypes DEF AskInv, PotInv, AtMost
    <2>3. vault.total_collateral - vault.early_exercise_payout <= vault_usdc + roundings
      <3>1. usdc_open \/ ~vault.created
        BY DEF AccountsInv
      <3>2. Surplus + Scale * 0 >= 0 /\ Surplus \in Int
        BY <2>0, <3>1, EntitlementTypes DEF AskInv, FundsInv
      <3>3. Surplus >= 0
        BY <3>2, ScaleNat
      <3>4. Owed = vault.total_collateral - vault.early_exercise_payout
        BY DEF Owed
      <3>5. QED
        BY <2>0, <3>3, <3>4, SurplusCovers
    <2>4. TotalHeld * Cpc <= TotalOutstanding * Cpc
          /\ TotalHeld * Cpc \in Nat /\ TotalOutstanding * Cpc \in Nat
      <3>1. TotalHeld <= TotalOutstanding /\ TotalOutstanding \in Nat
        BY <2>0 DEF TotalOutstanding
      <3>2. QED
        BY <2>0, <3>1, ProductMonotone
    <2>5. QED
      BY <2>0, <2>1, <2>2, <2>3, <2>4, PotTypes
  <1>2. QED
    BY <1>1, AskTypesCorrect, AskAccountsInvariant, AskInvariant, PTL

\* The vault's USDC covers what it owes writers, after early exercises drained
\* it and after the pot was merged, short of roundings and dust.
THEOREM SolventAfterMerge == AskSpec => []SolventWithPot
  <1>1. AskTypeOK /\ AskInv => SolventWithPot
    <2> SUFFICES ASSUME AskTypeOK, AskInv, usdc_open
                 PROVE  IF Unresolved
                        THEN vault.total_collateral + TotalUnclaimed
                               <= vault_usdc + vault.early_exercise_payout + roundings
                        ELSE vault.collateral_remaining + TotalUnclaimed
                               <= vault_usdc + roundings + Dust
      BY DEF SolventWithPot
    <2>1. TypeOK /\ Dust \in Nat /\ vault.total_collateral \in Nat
      BY PotTypes, VaultTypes DEF AskTypeOK
    <2>2. TotalUnclaimed \in Nat
      <3>1. [w \in Writers |-> UnclaimedPremium(w)] \in [Writers -> Nat]
        BY <2>1, ClaimsNat
      <3>2. QED
        BY <3>1, AccountsFinite, UnitsFinite DEF TotalUnclaimed
    <2>3. CASE Unresolved
      <3>1. Surplus + Scale * 0 >= 0
        BY <2>3 DEF AskInv, FundsInv
      <3>2. Owed + TotalUnclaimed <= vault_usdc + roundings + 0
        BY <2>1, <3>1, UnclaimedCovered
      <3>3. Owed = vault.total_collateral - vault.early_exercise_payout
        BY <2>3 DEF Owed
      <3>4. QED
        BY <2>1, <2>2, <2>3, <3>2, <3>3, FundsTypes
    <2>4. CASE ~Unresolved
      <3>1. Surplus + Scale * Dust >= 0
        BY <2>4 DEF AskInv, FundsInv
      <3>2. Owed + TotalUnclaimed <= vault_usdc + roundings + Dust
        BY <2>1, <3>1, UnclaimedCovered
      <3>3. QED
        BY <2>4, <3>2 DEF Owed
    <2>5. QED
      BY <2>3, <2>4
  <1>2. QED
    BY <1>1, AskTypesCorrect, AskInvariant, PTL

\* A settled vault can pay every holder, of pool tokens and of ask tokens alike,
\* while the exercise window is open, up to the dust.
THEOREM AllHoldersCovered == AskSpec => []AllHoldersCoveredInWindow
  <1>1. AskInv => AllHoldersCoveredInWindow
    BY DEF AskInv, WindowInv
  <1>2. QED
    BY <1>1, AskInvariant, PTL

\* Where nothing was drawn, the claims of a resolved vault's backers are what
\* they committed.
LEMMA ClaimsAreCommitted ==
    ASSUME AskTypeOK, BackersInv, ~Unresolved, pot_drawn = 0
    PROVE  \A w \in Writers : EquivClaim(w) = backing[w].committed
  <1>1. CASE vault.writer_ask_collateral_swept = 0
    <2>1. Total(Committed) = 0
      BY <1>1, PotTypes DEF BackersInv
    <2>2. \A w \in Writers : Committed[w] <= 0
      BY <2>1, PotTypes, AccountsFinite, EntryAtMostTotal
    <2>3. \A w \in Writers : backing[w].committed = 0
      BY <2>2, PotTypes DEF Committed
    <2>4. QED
      BY <1>1, <2>3 DEF EquivClaim
  <1>2. CASE vault.writer_ask_collateral_swept # 0
    BY <1>2, ClaimIsCommitted
  <1>3. QED
    BY <1>1, <1>2

\* Pool writers and backers of an undrawn pot never claim more shares than
\* there are, in whatever order they leave.
THEOREM UndrawnClaimsFit == AskSpec => []ClaimsFitUndrawnPot
  <1>1. AskTypeOK /\ AskInv => ClaimsFitUndrawnPot
    <2> SUFFICES ASSUME AskTypeOK, AskInv, ~Unresolved, pot_drawn = 0
                 PROVE  TotalShares + TotalEquivClaims <= vault.total_shares
      BY DEF ClaimsFitUndrawnPot
    <2>1. BackersInv /\ TypeOK
      BY DEF AskInv, AskTypeOK
    <2>2. \A w \in Writers : EquivClaim(w) = backing[w].committed
      BY <2>1, ClaimsAreCommitted
    <2>3. TotalEquivClaims = TotalCommitted
      <3>1. [w \in Writers |-> EquivClaim(w)] = [w \in Writers |-> backing[w].committed]
        BY <2>2
      <3>2. QED
        BY <3>1, Zenon DEF TotalEquivClaims, TotalCommitted
    <2>4. vault.total_shares = TotalShares + TotalCommitted
      BY <2>1 DEF BackersInv
    <2>5. QED
      BY <2>1, <2>3, <2>4, TotalsNat, PotTypes
  <1>2. QED
    BY <1>1, AskTypesCorrect, AskInvariant, PTL

\* The account of an undrawn vault is closed only when neither a pool writer
\* nor a backer has a claim on it.
THEOREM ClosedWithoutClaims == AskSpec => []ClosedOwesNobody
  <1>1. AskTypeOK /\ AccountsInv /\ AskInv => ClosedOwesNobody
    <2> SUFFICES ASSUME AskTypeOK, AccountsInv, AskInv, vault.created, ~usdc_open,
                        pot_drawn = 0, NEW w \in Writers
                 PROVE  /\ position[w].shares = 0
                        /\ UnclaimedPremium(w) = 0
                        /\ EquivClaim(w) = 0
      BY DEF ClosedOwesNobody
    <2>1. /\ TypeOK /\ BackersInv /\ ~Unresolved /\ vault.total_shares = 0
          /\ position[w].shares \in Nat /\ position[w].shares <= TotalShares
          /\ TotalShares \in Nat /\ TotalCommitted \in Nat
      BY TotalsNat, PotTypes DEF AskInv, AskTypeOK, AccountsInv, TypeOK, PositionRecord
    <2>2. TotalShares = 0 /\ TotalCommitted = 0
      BY <2>1 DEF BackersInv
    <2>3. position[w].shares = 0
      BY <2>1, <2>2
    <2>4. UnclaimedPremium(w) = 0
      <3>1. Entitlement(w) = 0
        BY <2>1, <2>3, NoSharesNoEntitlement
      <3>2. UnclaimedPremium(w) \in Nat /\ Scale * UnclaimedPremium(w) <= 0
        BY <2>1, <3>1, ClaimsNat, EntitlementTypes
      <3>3. QED
        BY <3>2, ScaleNat
    <2>5. EquivClaim(w) = 0
      <3>1. Committed[w] <= 0
        BY <2>2, PotTypes, AccountsFinite, EntryAtMostTotal
      <3>2. EquivClaim(w) = backing[w].committed
        BY <2>1, ClaimsAreCommitted
      <3>3. QED
        BY <3>1, <3>2, PotTypes DEF Committed
    <2>6. QED
      BY <2>3, <2>4, <2>5
  <1>2. QED
    BY <1>1, AskTypesCorrect, AskAccountsInvariant, AskInvariant, PTL

\* While the window of a vault that sold contracts is open, only holders are
\* paid from the residual, their payout short of the dust.
THEOREM WindowPaysHoldersOnly == AskSpec => WindowIsForHolders
  <1> DEFINE paid == vault.collateral_remaining - vault'.collateral_remaining
             due == (TotalHeld - TotalHeld') * PayoutPerContract(vault.settlement_price)
             ForHolders ==
               (vault.is_settled /\ now < WindowEnd
                  /\ (vault.total_options_sold > 0
                        \/ vault.writer_ask_collateral_swept > 0))
                 => paid <= due /\ due <= paid + Dust
  <1>1. AskTypeOK /\ AskTypeOK' /\ AccountsInv /\ AskInv /\ [AskNext]_allVars
            => ForHolders
    <2> SUFFICES ASSUME AskTypeOK, AskTypeOK', AccountsInv, AskInv, [AskNext]_allVars,
                        vault.is_settled, now < WindowEnd,
                        vault.total_options_sold > 0
                            \/ vault.writer_ask_collateral_swept > 0
                 PROVE  paid <= due /\ due <= paid + Dust
      OBVIOUS
    <2>0. /\ TypeOK /\ TotalHeld \in Nat /\ vault.collateral_remaining \in Nat
          /\ PayoutPerContract(vault.settlement_price) \in Nat /\ Dust \in Nat
          /\ ~Unresolved /\ ~WriterWindowOpen
      <3>1. TypeOK /\ now \in Nat /\ WindowEnd \in Nat
        BY ConstantsFacts DEF AskTypeOK, TypeOK
      <3>2. QED
        BY <3>1, TotalsNat, VaultTypes, PayoutNat, PotTypes
           DEF Unresolved, WriterWindowOpen
    <2>1. ASSUME UNCHANGED holding,
                 vault'.collateral_remaining = vault.collateral_remaining
          PROVE  paid <= due /\ due <= paid + Dust
      <3>1. TotalHeld' = TotalHeld
        BY <2>1 DEF TotalHeld
      <3>2. (TotalHeld - TotalHeld) * PayoutPerContract(vault.settlement_price) = 0
        BY <2>0
      <3>3. paid = 0 /\ due = 0
        BY <2>0, <2>1, <3>1, <3>2
      <3>4. QED
        BY <2>0, <3>3
    <2>2. ASSUME NEW h \in Holders, NEW quantity \in Nat, PayHolder(h, quantity)
          PROVE  paid <= due /\ due <= paid + Dust
      <3>1. AllHoldersCoveredInWindow
        BY DEF AskInv, WindowInv
      <3>2. /\ TotalHeld' = TotalHeld - quantity
            /\ paid <= quantity * PayoutPerContract(vault.settlement_price)
            /\ quantity * PayoutPerContract(vault.settlement_price) <= paid + Dust
        BY <2>2, <3>1, HolderPaidUpToDust
      <3>3. TotalHeld - TotalHeld' = quantity
        BY <2>0, <3>2
      <3>4. QED
        BY <3>2, <3>3
    <2>3. CASE PoolNext
      BY <2>0, <2>1, <2>2, <2>3, PoolAfterSettlement
    <2>4. ASSUME AskOnly PROVE paid <= due /\ due <= paid + Dust
      BY <2>1, <2>4 DEF AskOnly, vars
    <2>5. ASSUME NEW w \in Writers, BackerExit(w), vault.is_settled => now >= WindowEnd
          PROVE  FALSE
      BY <2>5, ConstantsFacts DEF AskTypeOK, TypeOK
    <2>6. ASSUME Live PROVE FALSE
      BY <2>6 DEF Live
    <2>7. ASSUME NEW h \in Holders, NEW quantity \in Nat, NEW spot \in Nat,
                 NEW own \in BOOLEAN, ExerciseAmerican(h, quantity, spot, own)
          PROVE  FALSE
      BY <2>0, <2>7, EarlyUnresolved DEF ExerciseAmerican
    <2>8. ~(SettleVaultWithPot \/ InitializeVoidWithPot)
      BY <2>0, MergeResolves
    <2>9. QED
      BY <2>3, <2>4, <2>5, <2>6, <2>7, <2>8, AskCases DEF FillWriterAsk, FillVaultPeg
  <1>2. QED
    BY <1>1, AskTypesCorrect, AskAccountsInvariant, AskInvariant, PTL
       DEF AskSpec, WindowIsForHolders
=============================================================================
