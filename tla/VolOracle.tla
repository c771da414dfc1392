----------------------------- MODULE VolOracle -----------------------------
(***************************************************************************)
(* The realized-volatility oracle of one feed: a ring of hourly log        *)
(* returns with running sums, pushed to by anybody (push_vol_sample).      *)
(*                                                                         *)
(* Volatility is annualized on the assumption that a sample is the move of *)
(* about one hour, so a push that comes too early is refused, and one that *)
(* comes after a long silence starts afresh without recording a sample.    *)
(*                                                                         *)
(* Spots are represented by their logarithms, so that a return is a        *)
(* difference; the price itself is read and validated elsewhere.  Of time, *)
(* only how long ago things happened matters.                              *)
(***************************************************************************)
EXTENDS Integers, Totals

CONSTANTS
    RingSize,      \* VOL_ORACLE_RING_SIZE
    Warmup,        \* VOL_ORACLE_WARMUP_SAMPLES
    MinInterval,   \* VOL_ORACLE_MIN_PUSH_INTERVAL_SECS
    MaxGap,        \* VOL_ORACLE_MAX_SAMPLE_GAP_SECS
    Staleness,     \* VOL_ORACLE_STALENESS_SECS
    LogSpots,      \* logarithms of the spots a push may read
    NoSpot,        \* last_spot_price = 0: nothing has been read
    SeedVols       \* volatilities in bounds that may be given; 0 is none

ASSUME VolAssumption ==
    /\ RingSize \in Nat \ {0}
    /\ Warmup \in Nat \ {0} /\ Warmup <= RingSize
    /\ MinInterval \in Nat \ {0} /\ MaxGap \in Nat /\ Staleness \in Nat
    /\ MinInterval <= MaxGap /\ MaxGap <= Staleness
    /\ LogSpots \subseteq Int /\ NoSpot \notin LogSpots
    /\ SeedVols \subseteq Nat

Slots == 0..RingSize - 1

VARIABLES
    samples,          \* the ring
    head,             \* slot the next sample goes to
    sample_count,     \* slots in use
    sum_log_returns, sum_log_returns_sq,
    last_spot_price,
    seed_vol,
    age,              \* seconds since last_sample_ts
    spot_age,         \* history: seconds since last_spot_price was read
    span              \* history: seconds from one spot to the next, per sample

ringVars == <<samples, head, sample_count, sum_log_returns, sum_log_returns_sq,
              span>>
volVars == <<ringVars, last_spot_price, seed_vol, age, spot_age>>

\* Ages beyond the longest limit are all alike.
Aged(seconds) == IF seconds > Staleness THEN seconds ELSE seconds + 1

\* The ring is zeroed by the allocation, and the oracle is born with a spot.
VolInit ==
    /\ samples = [i \in Slots |-> 0]
    /\ span = [i \in Slots |-> 0]
    /\ head = 0 /\ sample_count = 0
    /\ sum_log_returns = 0 /\ sum_log_returns_sq = 0
    /\ last_spot_price \in LogSpots
    /\ seed_vol \in SeedVols
    /\ age = 0 /\ spot_age = 0

Wait ==
    /\ age' = Aged(age)
    /\ spot_age' = Aged(spot_age)
    /\ UNCHANGED <<ringVars, last_spot_price, seed_vol>>

\* The spot just read becomes the one the next return is computed from.
Adopt(new_spot) ==
    /\ last_spot_price' = new_spot
    /\ age' = 0 /\ spot_age' = 0
    /\ UNCHANGED seed_vol

\* After a reset, the first push only seeds.
SeedPush(new_spot) ==
    /\ last_spot_price = NoSpot
    /\ Adopt(new_spot)
    /\ UNCHANGED ringVars

\* Mutant: the clock is set and the old spot stays.
ReseedKeepsSpot(new_spot) ==
    /\ last_spot_price # NoSpot
    /\ age > MaxGap
    /\ age' = 0
    /\ UNCHANGED <<ringVars, last_spot_price, seed_vol, spot_age>>

\* After a long silence, so does the next one.
ReseedAfterGap(new_spot) ==
    /\ last_spot_price # NoSpot
    /\ age > MaxGap
    /\ Adopt(new_spot)
    /\ UNCHANGED ringVars

\* The ring takes the return; when it is full, the oldest one leaves the sums.
ApplyNormalPush(log_return) ==
    LET evicted == IF sample_count < RingSize THEN 0 ELSE samples[head] IN
    /\ samples' = [samples EXCEPT ![head] = log_return]
    /\ span' = [span EXCEPT ![head] = spot_age]
    /\ sum_log_returns' = sum_log_returns - evicted + log_return
    /\ sum_log_returns_sq' =
           sum_log_returns_sq - evicted * evicted + log_return * log_return
    /\ head' = (head + 1) % RingSize
    /\ sample_count' = IF sample_count < RingSize THEN sample_count + 1
                                                  ELSE sample_count

NormalPush(new_spot) ==
    /\ last_spot_price # NoSpot
    /\ age <= MaxGap
    /\ age >= MinInterval
    /\ ApplyNormalPush(new_spot - last_spot_price)
    /\ Adopt(new_spot)

\* Mutant: the next sample goes where it would have gone without the reset.
ResetKeepsHead(seed) ==
    /\ samples' = [i \in Slots |-> 0]
    /\ span' = [i \in Slots |-> 0]
    /\ head' = head /\ sample_count' = 0
    /\ sum_log_returns' = 0 /\ sum_log_returns_sq' = 0
    /\ last_spot_price' = NoSpot
    /\ seed_vol' = seed
    /\ age' = Staleness + 1 /\ spot_age' = Staleness + 1

\* The administrator's repair: last_sample_ts is zero, long ago.
Reset(seed) ==
    /\ samples' = [i \in Slots |-> 0]
    /\ span' = [i \in Slots |-> 0]
    /\ head' = 0 /\ sample_count' = 0
    /\ sum_log_returns' = 0 /\ sum_log_returns_sq' = 0
    /\ last_spot_price' = NoSpot
    /\ seed_vol' = seed
    /\ age' = Staleness + 1 /\ spot_age' = Staleness + 1

VolNext ==
    \/ Wait
    \/ \E new_spot \in LogSpots :
           SeedPush(new_spot) \/ ReseedAfterGap(new_spot) \/ NormalPush(new_spot)
    \/ \E seed \in SeedVols : Reset(seed)

VolSpec == VolInit /\ [][VolNext]_volVars

-----------------------------------------------------------------------------
(* What a quote takes from the oracle (price_american).                    *)

UsesRealizedVol == sample_count >= Warmup

Quotable ==
    /\ age <= Staleness
    /\ last_spot_price # NoSpot
    /\ UsesRealizedVol \/ seed_vol # 0

-----------------------------------------------------------------------------
(* Properties. *)

\* Every variable has its type.
VolTypeOK ==
    /\ samples \in [Slots -> Int] /\ span \in [Slots -> Nat]
    /\ head \in Slots /\ sample_count \in 0..RingSize
    /\ sum_log_returns \in Int /\ sum_log_returns_sq \in Nat
    /\ last_spot_price \in LogSpots \cup {NoSpot}
    /\ seed_vol \in SeedVols
    /\ age \in Nat /\ spot_age \in Nat

\* The samples in use, as gains, losses and squares.
InUse(i) == IF i < sample_count THEN samples[i] ELSE 0
Gains == [i \in Slots |-> IF InUse(i) > 0 THEN InUse(i) ELSE 0]
Losses == [i \in Slots |-> IF InUse(i) < 0 THEN - InUse(i) ELSE 0]
Squares == [i \in Slots |-> InUse(i) * InUse(i)]

\* The running sums are those of the samples in use, through wrap-around and
\* reset (push_vol_sample.rs: apply_normal_push; the accumulators never drift).
SumsMatchRing ==
    /\ sum_log_returns = Total(Gains) - Total(Losses)
    /\ sum_log_returns_sq = Total(Squares)

\* Whatever silences and resets there were, each sample in use is the move over
\* one admissible interval, and a quote rests on a recent spot
\* (push_vol_sample.rs: a move over a gap must not count as an hour's).
SamplesOnCadence ==
    /\ \A i \in Slots :
           i < sample_count => MinInterval <= span[i] /\ span[i] <= MaxGap
    /\ Quotable => spot_age <= Staleness
=============================================================================
