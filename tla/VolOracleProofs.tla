-------------------------- MODULE VolOracleProofs --------------------------
(***************************************************************************)
(* Theorems about VolOracle, for every ring, cadence and price: the        *)
(* running sums are those of the ring, and samples are one interval apart. *)
(***************************************************************************)
EXTENDS VolOracle, ArithmeticProofs

USE DEF VolAssumption

\* The history of the oracle: until the ring is full it is filled from the
\* bottom, and a spot is as old as the sample that adopted it.
VolHistory ==
    /\ sample_count < RingSize => head = sample_count
    /\ last_spot_price # NoSpot => spot_age = age
    /\ \A i \in Slots :
           i < sample_count => MinInterval <= span[i] /\ span[i] <= MaxGap

VolInv == VolTypeOK /\ VolHistory /\ SumsMatchRing

LEMMA SquareIsNat ==
    ASSUME NEW n \in Int
    PROVE  n * n \in Nat
  <1>1. CASE n >= 0
    BY <1>1
  <1>2. CASE n < 0
    <2>1. (-n) * (-n) \in Nat
      BY <1>2
    <2>2. n * n = (-n) * (-n)
      OBVIOUS
    <2>3. QED
      BY <2>1, <2>2
  <1>3. QED
    BY <1>1, <1>2

LEMMA SlotsFinite == IsFiniteSet(Slots) /\ 0 \in Slots /\ Slots \subseteq Nat
  <1>1. RingSize \in Nat \ {0}
    BY VolAssumption
  <1>2. IsFiniteSet(0..RingSize - 1)
    BY <1>1, FS_Interval
  <1>3. QED
    BY <1>1, <1>2 DEF Slots

LEMMA PartsAreTotals ==
    ASSUME VolTypeOK
    PROVE  /\ \A i \in Slots : InUse(i) \in Int
           /\ Gains \in [Slots -> Nat] /\ Losses \in [Slots -> Nat]
           /\ Squares \in [Slots -> Nat]
           /\ Total(Gains) \in Nat /\ Total(Losses) \in Nat
           /\ Total(Squares) \in Nat
  <1>1. \A i \in Slots : InUse(i) \in Int
    BY DEF VolTypeOK, InUse
  <1>2. Gains \in [Slots -> Nat] /\ Losses \in [Slots -> Nat]
    BY <1>1 DEF Gains, Losses
  <1>3. Squares \in [Slots -> Nat]
    BY <1>1, SquareIsNat DEF Squares
  <1>4. QED
    BY <1>1, <1>2, <1>3, SlotsFinite, UnitsFinite

-----------------------------------------------------------------------------
(* The ring. *)

\* A ring of zeros, as the allocation and a reset leave it.
LEMMA EmptyRingSums ==
    ASSUME sample_count = 0, sum_log_returns = 0, sum_log_returns_sq = 0
    PROVE  SumsMatchRing
  <1>1. \A i \in Slots : InUse(i) = 0
    BY SlotsFinite DEF InUse, Slots
  <1>2. /\ Gains \in [Slots -> {0}] /\ Losses \in [Slots -> {0}]
        /\ Squares \in [Slots -> {0}]
    BY <1>1 DEF Gains, Losses, Squares
  <1>3. Total(Gains) = 0 /\ Total(Losses) = 0 /\ Total(Squares) = 0
    BY <1>2, TotalOfZeros
  <1>4. QED
    BY <1>3 DEF SumsMatchRing

InUseAfter(i) == IF i < sample_count' THEN samples'[i] ELSE 0

\* What a push does to the samples in use: it replaces the one at the head,
\* which counts as zero while the ring is not full.
LEMMA PushReplacesHead ==
    ASSUME VolTypeOK, VolHistory, NEW r \in Int, ApplyNormalPush(r)
    PROVE  /\ InUseAfter(head) = r
           /\ InUse(head) = IF sample_count < RingSize THEN 0 ELSE samples[head]
           /\ \A i \in Slots \ {head} : InUseAfter(i) = InUse(i)
           /\ samples' \in [Slots -> Int]
           /\ head' \in Slots /\ sample_count' \in 0..RingSize
           /\ sample_count' < RingSize => head' = sample_count'

  <1>1. /\ RingSize \in Nat \ {0} /\ head \in 0..RingSize - 1
        /\ sample_count \in 0..RingSize
    BY VolAssumption DEF VolTypeOK, Slots
  <1>2. samples \in [Slots -> Int] /\ head \in Slots
    BY DEF VolTypeOK
  <1>3. samples' = [samples EXCEPT ![head] = r]
    BY DEF ApplyNormalPush
  <1>4. samples' \in [Slots -> Int] /\ samples'[head] = r
    BY <1>2, <1>3
  <1>5. \A i \in Slots \ {head} : samples'[i] = samples[i]
    BY <1>2, <1>3
  <1>6. sample_count' = IF sample_count < RingSize THEN sample_count + 1
                                                  ELSE sample_count
    BY DEF ApplyNormalPush
  <1>7. head' = (head + 1) % RingSize
    BY DEF ApplyNormalPush
  <1>8. Slots = 0..RingSize - 1
    BY DEF Slots
  <1>9. CASE sample_count < RingSize
    <2>1. head = sample_count /\ sample_count' = sample_count + 1
      BY <1>6, <1>9 DEF VolHistory
    <2>2. InUseAfter(head) = r /\ InUse(head) = 0
      BY <1>1, <1>4, <2>1 DEF InUseAfter, InUse
    <2>3. \A i \in Slots \ {head} : InUseAfter(i) = InUse(i)
      BY <1>1, <1>5, <1>8, <2>1 DEF InUseAfter, InUse
    <2>4. head' \in Slots /\ sample_count' \in 0..RingSize
      BY <1>1, <1>7, <1>8, <2>1
    <2>5. sample_count' < RingSize => head' = sample_count'
      BY <1>1, <1>7, <2>1
    <2>6. QED
      BY <1>4, <1>9, <2>2, <2>3, <2>4, <2>5
  <1>10. CASE ~(sample_count < RingSize)
    <2>1. sample_count = RingSize /\ sample_count' = RingSize
      BY <1>1, <1>6, <1>10
    <2>2. InUseAfter(head) = r /\ InUse(head) = samples[head]
      BY <1>1, <1>4, <2>1 DEF InUseAfter, InUse
    <2>3. \A i \in Slots \ {head} : InUseAfter(i) = InUse(i)
      BY <1>1, <1>5, <1>8, <2>1 DEF InUseAfter, InUse
    <2>4. head' \in Slots
      BY <1>1, <1>7, <1>8
    <2>5. QED
      BY <1>1, <1>4, <1>10, <2>1, <2>2, <2>3, <2>4
  <1>11. QED
    BY <1>9, <1>10

\* The sums after a push are those of the new ring.
LEMMA PushKeepsSums ==
    ASSUME VolInv, NEW r \in Int, ApplyNormalPush(r)
    PROVE  /\ SumsMatchRing'
           /\ sum_log_returns' \in Int /\ sum_log_returns_sq' \in Nat
  <1> DEFINE old == InUse(head)
  <1>1. VolTypeOK /\ VolHistory /\ SumsMatchRing
    BY DEF VolInv
  <1>2. /\ head \in Slots /\ IsFiniteSet(Slots)
        /\ \A i \in Slots : InUse(i) \in Int
        /\ \A i \in Slots : InUseAfter(i) = InUse(i)'
    BY <1>1, SlotsFinite, PartsAreTotals DEF VolTypeOK, InUse, InUseAfter
  <1>3. /\ InUseAfter(head) = r /\ old \in Int
        /\ \A i \in Slots \ {head} : InUseAfter(i) = InUse(i)
    BY <1>1, <1>2, PushReplacesHead
  <1>4. old = IF sample_count < RingSize THEN 0 ELSE samples[head]
    BY <1>1, PushReplacesHead
  <1>5. /\ Gains \in [Slots -> Nat] /\ Losses \in [Slots -> Nat]
        /\ Squares \in [Slots -> Nat]
        /\ Total(Gains) \in Nat /\ Total(Losses) \in Nat
        /\ Total(Squares) \in Nat
    BY <1>1, PartsAreTotals
  <1>6. /\ Gains' \in [Slots -> Nat] /\ Losses' \in [Slots -> Nat]
        /\ Squares' \in [Slots -> Nat]
    <2>1. \A i \in Slots : InUse(i)' \in Int
      <3>1. samples' \in [Slots -> Int]
        BY <1>1, PushReplacesHead
      <3>2. QED
        BY <3>1 DEF InUse
    <2>2. QED
      BY <2>1, SquareIsNat DEF Gains, Losses, Squares
  <1>7. /\ Gains[head] - Losses[head] = old
        /\ Squares[head] = old * old
        /\ Gains[head] \in Nat /\ Losses[head] \in Nat
    BY <1>2, <1>3, <1>5 DEF Gains, Losses, Squares
  <1>8. /\ Gains'[head] - Losses'[head] = r
        /\ Squares'[head] = r * r
        /\ Gains'[head] \in Nat /\ Losses'[head] \in Nat
    BY <1>2, <1>3, <1>6 DEF Gains, Losses, Squares
  <1>9. /\ \A i \in Slots \ {head} : Gains'[i] = Gains[i]
        /\ \A i \in Slots \ {head} : Losses'[i] = Losses[i]
        /\ \A i \in Slots \ {head} : Squares'[i] = Squares[i]
    BY <1>2, <1>3 DEF Gains, Losses, Squares
  <1>10. Total(Gains') = Total(Gains) - Gains[head] + Gains'[head]
    BY <1>2, <1>5, <1>6, <1>9, TotalChange
  <1>11. Total(Losses') = Total(Losses) - Losses[head] + Losses'[head]
    BY <1>2, <1>5, <1>6, <1>9, TotalChange
  <1>12. Total(Squares') = Total(Squares) - Squares[head] + Squares'[head]
    BY <1>2, <1>5, <1>6, <1>9, TotalChange
  <1>13. /\ sum_log_returns' = sum_log_returns - old + r
         /\ sum_log_returns_sq' = sum_log_returns_sq - old * old + r * r
    BY <1>4 DEF ApplyNormalPush
  <1>14. /\ sum_log_returns = Total(Gains) - Total(Losses)
         /\ sum_log_returns_sq = Total(Squares)
    BY <1>1 DEF SumsMatchRing
  <1>15. sum_log_returns' = Total(Gains') - Total(Losses')
    <2> HIDE DEF old
    <2>1. QED
      BY <1>3, <1>5, <1>7, <1>8, <1>10, <1>11, <1>13, <1>14
  <1>16. sum_log_returns_sq' = Total(Squares')
    <2>1. Squares[head] \in Nat /\ Squares'[head] \in Nat
      BY <1>2, <1>5, <1>6
    <2>2. sum_log_returns_sq' = sum_log_returns_sq - Squares[head] + Squares'[head]
      BY <1>7, <1>8, <1>13
    <2>3. QED
      BY <2>1, <2>2, <1>5, <1>12, <1>14
  <1>17. /\ Total(Gains') \in Nat /\ Total(Losses') \in Nat
         /\ Total(Squares') \in Nat
    BY <1>2, <1>6, UnitsFinite
  <1>18. sum_log_returns' \in Int /\ sum_log_returns_sq' \in Nat
    BY <1>15, <1>16, <1>17
  <1>19. QED
    BY <1>15, <1>16, <1>18 DEF SumsMatchRing, Total, Units

-----------------------------------------------------------------------------
(* The invariant. *)

LEMMA VolInitEstablishes == VolInit => VolInv
  <1> SUFFICES ASSUME VolInit PROVE VolInv
    OBVIOUS
  <1>1. VolTypeOK
    BY SlotsFinite, VolAssumption DEF VolInit, VolTypeOK
  <1>2. VolHistory
    BY SlotsFinite DEF VolInit, VolHistory, Slots
  <1>3. SumsMatchRing
    BY EmptyRingSums DEF VolInit
  <1>4. QED
    BY <1>1, <1>2, <1>3 DEF VolInv

\* The ring does not move: waiting and seeding.
LEMMA RingAtRest ==
    ASSUME VolInv, UNCHANGED ringVars
    PROVE  SumsMatchRing'
  BY DEF VolInv, ringVars, SumsMatchRing, Gains, Losses, Squares, InUse

LEMMA AdoptingReseeds ==
    ASSUME VolInv, NEW new_spot \in LogSpots, Adopt(new_spot), UNCHANGED ringVars
    PROVE  VolInv'
  <1>1. VolTypeOK'
    BY DEF VolInv, VolTypeOK, Adopt, ringVars
  <1>2. VolHistory'
    BY DEF VolInv, VolTypeOK, VolHistory, Adopt, ringVars
  <1>3. QED
    BY <1>1, <1>2, RingAtRest DEF VolInv

LEMMA WaitKeeps ==
    ASSUME VolInv, Wait
    PROVE  VolInv'
  <1>1. VolTypeOK'
    BY DEF VolInv, VolTypeOK, Wait, Aged, ringVars
  <1>2. VolHistory'
    BY DEF VolInv, VolTypeOK, VolHistory, Wait, Aged, ringVars
  <1>3. QED
    BY <1>1, <1>2, RingAtRest DEF VolInv, Wait

LEMMA NormalPushKeeps ==
    ASSUME VolInv, NEW new_spot \in LogSpots, NormalPush(new_spot)
    PROVE  VolInv'
  <1> DEFINE r == new_spot - last_spot_price
  <1>1. VolTypeOK /\ VolHistory
    BY DEF VolInv
  <1>2. r \in Int /\ ApplyNormalPush(r) /\ Adopt(new_spot)
    BY <1>1, VolAssumption DEF VolTypeOK, NormalPush
  <1>3. spot_age = age /\ MinInterval <= age /\ age <= MaxGap
    BY <1>1 DEF VolHistory, NormalPush
  <1> HIDE DEF r
  <1>4. /\ samples' \in [Slots -> Int]
        /\ head' \in Slots /\ sample_count' \in 0..RingSize
        /\ sample_count' < RingSize => head' = sample_count'
    BY <1>1, <1>2, PushReplacesHead
  <1>5. /\ SumsMatchRing'
        /\ sum_log_returns' \in Int /\ sum_log_returns_sq' \in Nat
    BY <1>2, PushKeepsSums
  <1>6. /\ span' = [span EXCEPT ![head] = spot_age]
        /\ span \in [Slots -> Nat] /\ head \in Slots /\ spot_age \in Nat
    BY <1>1, <1>2 DEF VolTypeOK, ApplyNormalPush
  <1>7. VolTypeOK'
    BY <1>1, <1>2, <1>4, <1>5, <1>6 DEF VolTypeOK, Adopt
  <1>8. ASSUME NEW i \in Slots, i < sample_count'
        PROVE  MinInterval <= span'[i] /\ span'[i] <= MaxGap
    <2>1. CASE i = head
      BY <1>3, <1>6, <2>1
    <2>2. CASE i # head
      <3>1. i < sample_count
        BY <1>1, <1>2, <1>8, <2>2
           DEF VolTypeOK, VolHistory, ApplyNormalPush, Slots
      <3>2. QED
        BY <1>1, <1>6, <2>2, <3>1 DEF VolHistory
    <2>3. QED
      BY <2>1, <2>2
  <1>9. VolHistory'
    BY <1>2, <1>4, <1>8 DEF VolHistory, Adopt
  <1>10. QED
    BY <1>5, <1>7, <1>9 DEF VolInv

LEMMA ResetKeeps ==
    ASSUME VolInv, NEW seed \in SeedVols, Reset(seed)
    PROVE  VolInv'
  <1>1. VolTypeOK'
    BY SlotsFinite, VolAssumption DEF Reset, VolTypeOK
  <1>2. VolHistory'
    BY SlotsFinite DEF Reset, VolHistory, Slots
  <1>3. SumsMatchRing'
    <2>1. \A i \in Slots : InUse(i)' = 0
      BY SlotsFinite DEF Reset, InUse, Slots
    <2>2. /\ Gains' \in [Slots -> {0}] /\ Losses' \in [Slots -> {0}]
          /\ Squares' \in [Slots -> {0}]
      BY <2>1 DEF Gains, Losses, Squares
    <2>3. Total(Gains') = 0 /\ Total(Losses') = 0 /\ Total(Squares') = 0
      BY <2>2, TotalOfZeros
    <2>4. QED
      BY <2>3 DEF Reset, SumsMatchRing, Total, Units
  <1>4. QED
    BY <1>1, <1>2, <1>3 DEF VolInv

LEMMA VolStepKeeps == VolInv /\ [VolNext]_volVars => VolInv'
  <1> SUFFICES ASSUME VolInv, [VolNext]_volVars PROVE VolInv'
    OBVIOUS
  <1>1. CASE Wait
    BY <1>1, WaitKeeps
  <1>2. ASSUME NEW new_spot \in LogSpots,
               SeedPush(new_spot) \/ ReseedAfterGap(new_spot)
        PROVE  VolInv'
    BY <1>2, AdoptingReseeds DEF SeedPush, ReseedAfterGap
  <1>3. ASSUME NEW new_spot \in LogSpots, NormalPush(new_spot)
        PROVE  VolInv'
    BY <1>3, NormalPushKeeps
  <1>4. ASSUME NEW seed \in SeedVols, Reset(seed)
        PROVE  VolInv'
    BY <1>4, ResetKeeps
  <1>5. CASE UNCHANGED volVars
    <2>1. VolTypeOK' /\ VolHistory'
      BY <1>5 DEF VolInv, VolTypeOK, VolHistory, volVars, ringVars
    <2>2. SumsMatchRing'
      BY <1>5, RingAtRest DEF volVars
    <2>3. QED
      BY <2>1, <2>2 DEF VolInv
  <1>6. QED
    BY <1>1, <1>2, <1>3, <1>4, <1>5 DEF VolNext

LEMMA VolAlways == VolSpec => []VolInv
  BY VolInitEstablishes, VolStepKeeps, PTL DEF VolSpec

-----------------------------------------------------------------------------
(* The theorems. *)

\* Every variable of the oracle keeps its type; above all the sum of squares,
\* which is changed by difference, never goes below zero.
THEOREM VolTypesCorrect == VolSpec => []VolTypeOK
  <1>1. VolInv => VolTypeOK
    BY DEF VolInv
  <1>2. QED
    BY <1>1, VolAlways, PTL

\* For any size of ring and any returns, the running sums that the volatility is
\* computed from are those of the samples in the ring (apply_normal_push).
THEOREM SumsAreTheRings == VolSpec => []SumsMatchRing
  <1>1. VolInv => SumsMatchRing
    BY DEF VolInv
  <1>2. QED
    BY <1>1, VolAlways, PTL

\* For any limits in order, a sample is the move over one admissible interval,
\* and an oracle that may be quoted from has a recent spot (push_vol_sample.rs).
THEOREM SamplesAreOnCadence == VolSpec => []SamplesOnCadence
  <1>1. VolInv => SamplesOnCadence
    BY DEF VolInv, VolHistory, SamplesOnCadence, Quotable
  <1>2. QED
    BY <1>1, VolAlways, PTL
=============================================================================
