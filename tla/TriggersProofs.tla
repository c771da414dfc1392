--------------------------- MODULE TriggersProofs ---------------------------
(***************************************************************************)
(* Theorems about Triggers, for any set of addresses, terms, prices and    *)
(* pegs: an open buy's escrow lacks nothing of its ceiling but what is on  *)
(* record, a fire takes the same contracts from both legs of a pair, and   *)
(* the owner's dollars change only within the terms of an order whose      *)
(* condition holds, or as is on record.                                    *)
(***************************************************************************)
EXTENDS Triggers, ArithmeticProofs

LEMMA TriggerConstants ==
    /\ IsFiniteSet(TriggerIds)
    /\ "none" \notin TriggerIds
    /\ TriggerTerms \subseteq OrderTerms
    /\ TriggerStrike \in Nat
    /\ TriggerFeeBps \in Nat /\ TriggerFeeBps <= 10000
    /\ Spots \subseteq Nat /\ Pegs \subseteq PegType
    /\ Rests \subseteq RestType /\ NoRest \in RestType
    /\ OwnerUsdc \in Nat /\ OwnerOptions \in Nat /\ MaxPlaced \in Nat
  BY TriggerAssumption DEF NoRest, RestType

Links == TriggerIds \cup {NoLink}

-----------------------------------------------------------------------------
(* Trigger records. *)

TriggerRebuilt(x) ==
    [open |-> x.open, kind |-> x.kind, comparator |-> x.comparator,
     tape |-> x.tape, threshold |-> x.threshold, quantity |-> x.quantity,
     max_premium |-> x.max_premium, escrow |-> x.escrow,
     oco_link |-> x.oco_link, uncounted |-> x.uncounted, drawn |-> x.drawn]

TriggerFields(x) ==
    /\ x.open \in BOOLEAN /\ x.kind \in TriggerKinds
    /\ x.comparator \in {"le", "ge"} /\ x.tape \in {"Underlying", "Contract"}
    /\ x.threshold \in Nat /\ x.quantity \in Nat
    /\ x.max_premium \in Nat /\ x.escrow \in Nat
    /\ x.oco_link \in Links
    /\ x.uncounted \in Nat /\ x.drawn \in Nat

\* A record is its fields.
LEMMA TriggerFromFields ==
    ASSUME NEW x
    PROVE  x \in TriggerType <=> x = TriggerRebuilt(x) /\ TriggerFields(x)
  BY DEF TriggerType, TriggerRebuilt, TriggerFields, Links

\* What a change of an order leaves alone.
SameTerms(y, x) ==
    /\ y.open = x.open /\ y.kind = x.kind /\ y.max_premium = x.max_premium
    /\ y.drawn = x.drawn

\* An order that is partly filled.
Cut(x, q, e) == [x EXCEPT !.quantity = q, !.escrow = e, !.oco_link = NoLink]

LEMMA OrderCut ==
    ASSUME NEW x \in TriggerType, NEW q \in Nat, NEW e \in Nat, NEW y,
           y = Cut(x, q, e)
    PROVE  /\ y \in TriggerType
           /\ SameTerms(y, x)
           /\ y.quantity = q
           /\ y.escrow = e
           /\ y.oco_link = NoLink
           /\ y.uncounted = x.uncounted
  <1>1. /\ y.open = x.open /\ y.kind = x.kind /\ y.comparator = x.comparator
        /\ y.tape = x.tape /\ y.threshold = x.threshold
        /\ y.quantity = q
        /\ y.max_premium = x.max_premium
        /\ y.escrow = e
        /\ y.oco_link = NoLink
        /\ y.uncounted = x.uncounted /\ y.drawn = x.drawn
    BY DEF TriggerType, Cut
  <1>2. y = TriggerRebuilt(y)
    BY DEF TriggerType, TriggerRebuilt, Cut
  <1>3. TriggerFields(y)
    BY <1>1 DEF TriggerType, TriggerFields, Links
  <1>4. QED
    BY <1>1, <1>2, <1>3, TriggerFromFields, Zenon DEF SameTerms

\* An order whose fire is not written back.
Stale(x, n, spent) == [x EXCEPT !.escrow = @ - spent, !.uncounted = @ + n]

LEMMA StaleCut ==
    ASSUME NEW x \in TriggerType, NEW n \in Nat, NEW spent \in Nat,
           spent <= x.escrow, NEW y,
           y = Stale(x, n, spent)
    PROVE  /\ y \in TriggerType
           /\ SameTerms(y, x)
           /\ y.quantity = x.quantity
           /\ y.escrow = x.escrow - spent
           /\ y.oco_link = x.oco_link
           /\ y.uncounted = x.uncounted + n
  <1>1. /\ y.open = x.open /\ y.kind = x.kind /\ y.comparator = x.comparator
        /\ y.tape = x.tape /\ y.threshold = x.threshold
        /\ y.quantity = x.quantity
        /\ y.max_premium = x.max_premium
        /\ y.escrow = x.escrow - spent
        /\ y.oco_link = x.oco_link
        /\ y.uncounted = x.uncounted + n /\ y.drawn = x.drawn
    BY DEF TriggerType, Stale
  <1>2. y = TriggerRebuilt(y)
    BY DEF TriggerType, TriggerRebuilt, Stale
  <1>3. x.escrow - spent \in Nat /\ x.uncounted + n \in Nat
    BY DEF TriggerType
  <1>4. TriggerFields(y)
    BY <1>1, <1>3 DEF TriggerType, TriggerFields, Links
  <1>5. QED
    BY <1>1, <1>2, <1>4, TriggerFromFields, Zenon DEF SameTerms

\* An order from whose escrow others have drawn.
Drained(x, amount) == [x EXCEPT !.escrow = @ - amount, !.drawn = @ + amount]

LEMMA EscrowDrawn ==
    ASSUME NEW x \in TriggerType, NEW amount \in Nat, amount <= x.escrow,
           NEW y, y = Drained(x, amount)
    PROVE  /\ y \in TriggerType
           /\ y.open = x.open /\ y.kind = x.kind
           /\ y.max_premium = x.max_premium
           /\ y.quantity = x.quantity
           /\ y.escrow = x.escrow - amount
           /\ y.oco_link = x.oco_link
           /\ y.uncounted = x.uncounted
           /\ y.drawn = x.drawn + amount
  <1>1. /\ y.open = x.open /\ y.kind = x.kind /\ y.comparator = x.comparator
        /\ y.tape = x.tape /\ y.threshold = x.threshold
        /\ y.quantity = x.quantity
        /\ y.max_premium = x.max_premium
        /\ y.escrow = x.escrow - amount
        /\ y.oco_link = x.oco_link
        /\ y.uncounted = x.uncounted /\ y.drawn = x.drawn + amount
    BY DEF TriggerType, Drained
  <1>2. y = TriggerRebuilt(y)
    BY DEF TriggerType, TriggerRebuilt, Drained
  <1>3. x.escrow - amount \in Nat /\ x.drawn + amount \in Nat
    BY DEF TriggerType
  <1>4. TriggerFields(y)
    BY <1>1, <1>3 DEF TriggerType, TriggerFields, Links
  <1>5. QED
    BY <1>1, <1>2, <1>4, TriggerFromFields, Zenon

\* The sibling of an order that fires.
LEMMA SiblingCut ==
    ASSUME NEW x \in TriggerType, NEW n \in Nat, NEW y,
           y = [x EXCEPT !.quantity = SatSub(@, n), !.oco_link = NoLink]
    PROVE  /\ y \in TriggerType
           /\ SameTerms(y, x)
           /\ y.quantity = SatSub(x.quantity, n)
           /\ y.escrow = x.escrow
           /\ y.oco_link = NoLink
           /\ y.uncounted = x.uncounted
  <1>1. /\ y.open = x.open /\ y.kind = x.kind /\ y.comparator = x.comparator
        /\ y.tape = x.tape /\ y.threshold = x.threshold
        /\ y.quantity = SatSub(x.quantity, n)
        /\ y.max_premium = x.max_premium
        /\ y.escrow = x.escrow
        /\ y.oco_link = NoLink
        /\ y.uncounted = x.uncounted /\ y.drawn = x.drawn
    BY DEF TriggerType
  <1>2. y = TriggerRebuilt(y)
    BY DEF TriggerType, TriggerRebuilt
  <1>3. SatSub(x.quantity, n) \in Nat
    BY DEF SatSub, TriggerType
  <1>4. TriggerFields(y)
    BY <1>1, <1>3 DEF TriggerType, TriggerFields, Links
  <1>5. QED
    BY <1>1, <1>2, <1>4, TriggerFromFields, Zenon DEF SameTerms

\* An order whose link changes.
LEMMA LinkSet ==
    ASSUME NEW x \in TriggerType, NEW l \in Links, NEW y,
           y = [x EXCEPT !.oco_link = l]
    PROVE  /\ y \in TriggerType
           /\ SameTerms(y, x)
           /\ y.quantity = x.quantity
           /\ y.escrow = x.escrow
           /\ y.oco_link = l
           /\ y.uncounted = x.uncounted
  <1>1. /\ y.open = x.open /\ y.kind = x.kind /\ y.comparator = x.comparator
        /\ y.tape = x.tape /\ y.threshold = x.threshold
        /\ y.quantity = x.quantity
        /\ y.max_premium = x.max_premium
        /\ y.escrow = x.escrow
        /\ y.oco_link = l
        /\ y.uncounted = x.uncounted /\ y.drawn = x.drawn
    BY DEF TriggerType
  <1>2. y = TriggerRebuilt(y)
    BY DEF TriggerType, TriggerRebuilt
  <1>3. TriggerFields(y)
    BY <1>1 DEF TriggerType, TriggerFields, Links
  <1>4. QED
    BY <1>1, <1>2, <1>3, TriggerFromFields, Zenon DEF SameTerms

LEMMA NoTriggerType ==
    /\ NoTrigger \in TriggerType
    /\ NoTrigger.open = FALSE /\ NoTrigger.quantity = 0
    /\ NoTrigger.escrow = 0 /\ NoTrigger.oco_link = NoLink
    /\ NoTrigger.uncounted = 0 /\ NoTrigger.drawn = 0
  BY DEF NoTrigger, TriggerType, TriggerKinds

-----------------------------------------------------------------------------
(* Money. *)

\* What is left after the protocol's fee grows with the amount.
LEMMA NetOfFeeMonotone ==
    ASSUME NEW a \in Nat, NEW b \in Nat, a <= b
    PROVE  /\ a - ProtocolFee(a, TriggerFeeBps) \in Nat
           /\ b - ProtocolFee(b, TriggerFeeBps) \in Nat
           /\ a - ProtocolFee(a, TriggerFeeBps)
                  <= b - ProtocolFee(b, TriggerFeeBps)
  <1> DEFINE f == TriggerFeeBps
             d == b - a
             qa == (a * f) \div 10000
             qb == (b * f) \div 10000
  <1>1. f \in Nat /\ f <= 10000
    BY TriggerConstants
  <1>2. d \in Nat /\ b = a + d
    OBVIOUS
  <1> HIDE DEF f, d
  <1>3. a * f \in Nat /\ b * f \in Nat /\ d * f \in Nat
    BY <1>1, <1>2
  <1>4. b * f = a * f + d * f
    BY <1>1, <1>2
  <1>5. d * f <= 10000 * d
    BY <1>1, <1>2
  <1>6. qa \in Nat /\ 10000 * qa <= a * f /\ a * f < 10000 * qa + 10000
    BY <1>3, QuotientBounds
  <1>7. qb \in Nat /\ 10000 * qb <= b * f
    BY <1>3, QuotientBounds
  <1>8. a * f <= 10000 * a /\ b * f <= 10000 * b
    BY <1>1
  <1> HIDE DEF qa, qb
  <1>9. qa <= a /\ qb <= b
    BY <1>3, <1>6, <1>7, <1>8
  <1>10. qb <= qa + d
    BY <1>2, <1>3, <1>4, <1>5, <1>6, <1>7
  <1>11. ProtocolFee(a, TriggerFeeBps) = qa /\ ProtocolFee(b, TriggerFeeBps) = qb
    BY DEF ProtocolFee, MulDiv, qa, qb, f
  <1>12. QED
    BY <1>2, <1>6, <1>7, <1>9, <1>10, <1>11

\* Where only one escrow changes, so do the owner's dollars.
LEMMA DollarsChange ==
    ASSUME NEW t \in TriggerIds,
           trigger \in [TriggerIds -> TriggerType],
           trigger' \in [TriggerIds -> TriggerType],
           cash \in Nat, cash' \in Nat,
           \A s \in TriggerIds \ {t} : trigger'[s].escrow = trigger[s].escrow
    PROVE  /\ OwnersDollars \in Nat /\ OwnersDollars' \in Nat
           /\ OwnersDollars' = OwnersDollars + (cash' - cash)
                                 + (trigger'[t].escrow - trigger[t].escrow)
  <1> DEFINE f == [s \in TriggerIds |-> trigger[s].escrow]
             g == [s \in TriggerIds |-> trigger'[s].escrow]
  <1>1. f \in [TriggerIds -> Nat] /\ g \in [TriggerIds -> Nat]
    BY DEF TriggerType
  <1>2. /\ f[t] = trigger[t].escrow /\ g[t] = trigger'[t].escrow
        /\ f[t] \in Nat /\ g[t] \in Nat
    BY <1>1
  <1>3. \A s \in TriggerIds \ {t} : g[s] = f[s]
    OBVIOUS
  <1>4. OwnersDollars = cash + Total(f) /\ OwnersDollars' = cash' + Total(g)
    BY DEF OwnersDollars
  <1> HIDE DEF f, g
  <1>5. IsFiniteSet(TriggerIds)
    BY TriggerConstants
  <1>6. Total(f) \in Nat /\ Total(g) \in Nat
    BY <1>1, <1>5, UnitsFinite, Zenon
  <1>7. Total(g) = Total(f) - f[t] + g[t]
    BY <1>1, <1>3, <1>5, TotalChange
  <1>8. QED
    BY <1>2, <1>4, <1>6, <1>7

-----------------------------------------------------------------------------
(* The invariant. *)

\* An order is never its own sibling.
NoSelfLinks == \A t \in TriggerIds : trigger[t].oco_link # t

TriggerInv == TriggerTypeOK /\ EscrowCoversCeiling /\ NoSelfLinks

\* The invariant without the world's part, order by order.
OrderSound(t, x) ==
    /\ x \in TriggerType
    /\ x.oco_link # t
    /\ IF x.open /\ x.kind = "StopEntryBuy"
       THEN x.escrow + x.drawn + x.max_premium * x.uncounted
                >= x.max_premium * x.quantity
       ELSE x.escrow = 0

WorldTypes ==
    /\ spot \in Nat /\ quote \in Nat /\ room \in Nat
    /\ best_ask \in RestType /\ best_bid \in RestType
    /\ expired \in BOOLEAN
    /\ placed \in 0..MaxPlaced

LEMMA InvByOrder ==
    TriggerInv <=>
        /\ trigger \in [TriggerIds -> TriggerType]
        /\ \A t \in TriggerIds : OrderSound(t, trigger[t])
        /\ cash \in Nat /\ held \in Nat
        /\ WorldTypes
  BY DEF TriggerInv, TriggerTypeOK, EscrowCoversCeiling, NoSelfLinks,
         OrderSound, WorldTypes

LEMMA InvFromOrders ==
    ASSUME trigger' \in [TriggerIds -> TriggerType],
           \A t \in TriggerIds : OrderSound(t, trigger'[t]),
           cash' \in Nat, held' \in Nat, WorldTypes'
    PROVE  TriggerInv'
  BY DEF TriggerInv, TriggerTypeOK, EscrowCoversCeiling, NoSelfLinks,
         OrderSound, WorldTypes

\* An empty address is sound.
LEMMA NoTriggerSound ==
    ASSUME NEW t \in TriggerIds
    PROVE  OrderSound(t, NoTrigger)
  BY NoTriggerType, TriggerConstants DEF OrderSound, NoLink

\* An order that keeps its terms and its size, and is not linked to itself.
LEMMA SoundWhenRelinked ==
    ASSUME NEW t \in TriggerIds, NEW x, OrderSound(t, x),
           NEW l \in Links, l # t
    PROVE  OrderSound(t, [x EXCEPT !.oco_link = l])
  <1>1. x \in TriggerType
    BY DEF OrderSound
  <1>2. PICK y : y = [x EXCEPT !.oco_link = l]
    OBVIOUS
  <1>3. /\ y \in TriggerType /\ SameTerms(y, x)
        /\ y.quantity = x.quantity /\ y.escrow = x.escrow
        /\ y.oco_link = l /\ y.uncounted = x.uncounted
    BY <1>1, <1>2, LinkSet
  <1>4. OrderSound(t, y)
    BY <1>3 DEF OrderSound, SameTerms
  <1>5. QED
    BY <1>2, <1>4

-----------------------------------------------------------------------------
(* What a fire does, whatever its route. *)

\* A buy of n contracts, within its ceiling.
Bought(t, peer, n, spent) ==
    /\ trigger[t].kind = "StopEntryBuy"
    /\ spent <= trigger[t].max_premium * n
    /\ FireBuy(t, peer, n, spent)

\* A sale of n contracts, at its floor or at the intrinsic value.
Sold(t, peer, n, proceeds) ==
    /\ trigger[t].kind # "StopEntryBuy"
    /\ n <= held
    /\ proceeds >= LeastProceeds(t, n)
    /\ FireSell(t, peer, n, proceeds)

Fires(t, peer) ==
    /\ trigger[t].open
    /\ ConditionHolds(trigger[t])
    /\ PeerMatches(t, peer)
    /\ \E n \in Nat, money \in Nat :
          /\ n # 0 /\ n <= trigger[t].quantity
          /\ Bought(t, peer, n, money) \/ Sold(t, peer, n, money)

Skipped(t) ==
    /\ trigger' = trigger \/ trigger' = [trigger EXCEPT ![t].oco_link = NoLink]
    /\ UNCHANGED <<cash, held>>

LEMMA TakeFromType ==
    ASSUME NEW rest \in RestType, NEW n \in Nat, n <= rest.depth
    PROVE  TakeFrom(rest, n) \in RestType
  BY TriggerConstants DEF TakeFrom, RestType

LEMMA IntrinsicNat == TriggerTypeOK => Intrinsic \in Nat
  BY TriggerConstants, PayoutAtMostCap DEF TriggerTypeOK, Intrinsic

\* Lifting an ask.
LEMMA LiftAskBuys ==
    ASSUME TriggerInv, NEW t \in TriggerIds, NEW peer,
           trigger[t].kind = "StopEntryBuy", LiftAsk(t, peer)
    PROVE  /\ best_ask' \in RestType
           /\ \E n \in Nat, money \in Nat :
                 /\ n # 0 /\ n <= trigger[t].quantity
                 /\ Bought(t, peer, n, money)
  <1> DEFINE n == AskFill(t)
             spent == n * best_ask.price
  <1>1. /\ trigger[t].quantity \in Nat /\ trigger[t].max_premium \in Nat
        /\ best_ask \in RestType
        /\ best_ask.price \in Nat /\ best_ask.depth \in Nat
    BY DEF TriggerInv, TriggerTypeOK, TriggerType, RestType
  <1>2. n \in Nat /\ n <= trigger[t].quantity /\ n <= best_ask.depth
    BY <1>1, AtMostNat DEF AskFill
  <1>3. n # 0 /\ best_ask.price <= trigger[t].max_premium
    BY DEF LiftAsk
  <1>4. /\ FireBuy(t, peer, n, spent)
        /\ best_ask' = TakeFrom(best_ask, n)
    BY DEF LiftAsk
  <1> HIDE DEF n
  <1>5. spent \in Nat /\ spent <= trigger[t].max_premium * n
    <2>1. n * best_ask.price <= n * trigger[t].max_premium
      BY <1>1, <1>2, <1>3, ProductMonotone
    <2>2. n * trigger[t].max_premium = trigger[t].max_premium * n
      BY <1>1, <1>2
    <2>3. n * best_ask.price \in Nat
      BY <1>1, <1>2
    <2>4. QED
      BY <2>1, <2>2, <2>3
  <1> HIDE DEF spent
  <1>6. best_ask' \in RestType
    BY <1>1, <1>2, <1>4, TakeFromType
  <1>7. Bought(t, peer, n, spent)
    BY <1>4, <1>5 DEF Bought
  <1>8. QED
    BY <1>2, <1>3, <1>5, <1>6, <1>7

\* Buying from the vault at its peg.
LEMMA PegBuys ==
    ASSUME TriggerInv, NEW t \in TriggerIds, NEW peer,
           trigger[t].kind = "StopEntryBuy", BuyAtPeg(t, peer)
    PROVE  /\ room' \in Nat
           /\ \E n \in Nat, money \in Nat :
                 /\ n # 0 /\ n <= trigger[t].quantity
                 /\ Bought(t, peer, n, money)
  <1> DEFINE n == trigger[t].quantity
             spent == n * quote
  <1>1. /\ n \in Nat /\ trigger[t].max_premium \in Nat
        /\ quote \in Nat /\ room \in Nat
    BY DEF TriggerInv, TriggerTypeOK, TriggerType
  <1>2. /\ n # 0 /\ quote <= trigger[t].max_premium /\ FireBuy(t, peer, n, spent)
        /\ n <= room /\ room' = room - n
    BY <1>1 DEF BuyAtPeg
  <1>3. spent \in Nat /\ spent <= trigger[t].max_premium * n
    <2>1. n * quote <= n * trigger[t].max_premium
      BY <1>1, <1>2, ProductMonotone
    <2>2. n * trigger[t].max_premium = trigger[t].max_premium * n
      BY <1>1
    <2>3. n * quote \in Nat
      BY <1>1
    <2>4. QED
      BY <2>1, <2>2, <2>3
  <1> HIDE DEF spent
  <1>4. Bought(t, peer, n, spent)
    BY <1>2, <1>3 DEF Bought
  <1>5. QED
    BY <1>1, <1>2, <1>3, <1>4

\* Hitting a bid.
LEMMA HitBidSells ==
    ASSUME TriggerInv, NEW t \in TriggerIds, NEW peer,
           trigger[t].kind # "StopEntryBuy", HitBid(t, peer)
    PROVE  /\ best_bid' \in RestType
           /\ \E n \in Nat, money \in Nat :
                 /\ n # 0 /\ n <= trigger[t].quantity
                 /\ Sold(t, peer, n, money)
  <1> DEFINE n == BidFill(t)
             floor == n * trigger[t].max_premium
             gross == n * best_bid.price
             net == gross - ProtocolFee(gross, TriggerFeeBps)
             least == floor - ProtocolFee(floor, TriggerFeeBps)
  <1>1. /\ trigger[t].quantity \in Nat /\ trigger[t].max_premium \in Nat
        /\ held \in Nat
        /\ best_bid \in RestType
        /\ best_bid.price \in Nat /\ best_bid.depth \in Nat
    BY DEF TriggerInv, TriggerTypeOK, TriggerType, RestType
  <1>2. /\ n \in Nat /\ n <= trigger[t].quantity
        /\ n <= best_bid.depth /\ n <= held
    <2> DEFINE m == AtMost(trigger[t].quantity, best_bid.depth)
    <2>1. m \in Nat /\ m <= trigger[t].quantity /\ m <= best_bid.depth
      BY <1>1, AtMostNat
    <2>2. n = AtMost(m, held)
      BY DEF BidFill
    <2> HIDE DEF m, n
    <2>3. n \in Nat /\ n <= m /\ n <= held
      BY <1>1, <2>1, <2>2, AtMostNat
    <2>4. QED
      BY <1>1, <2>1, <2>3
  <1>3. n # 0 /\ trigger[t].max_premium <= best_bid.price
    BY <1>1 DEF HitBid
  <1>4. /\ FireSell(t, peer, n, net)
        /\ best_bid' = TakeFrom(best_bid, n)
    BY DEF HitBid
  <1> HIDE DEF n
  <1>5. floor \in Nat /\ gross \in Nat /\ floor <= gross
    BY <1>1, <1>2, <1>3, ProductMonotone
  <1>6. Intrinsic \in Nat
    BY IntrinsicNat DEF TriggerInv
  <1> HIDE DEF floor, gross
  <1>7. net \in Nat /\ least \in Nat /\ least <= net
    BY <1>5, NetOfFeeMonotone
  <1>8. AtMost(least, n * Intrinsic) <= net
    <2>1. n * Intrinsic \in Nat
      BY <1>2, <1>6
    <2>2. QED
      BY <1>7, <2>1 DEF AtMost
  <1>9. Sold(t, peer, n, net)
    BY <1>2, <1>4, <1>7, <1>8 DEF Sold, LeastProceeds, floor
  <1>10. best_bid' \in RestType
    BY <1>1, <1>2, <1>4, TakeFromType
  <1> HIDE DEF net
  <1>11. QED
    BY <1>2, <1>3, <1>7, <1>9, <1>10

\* Exercising into the vault.
LEMMA ExerciseSells ==
    ASSUME TriggerInv, NEW t \in TriggerIds, NEW peer,
           trigger[t].kind # "StopEntryBuy", ExerciseAtVault(t, peer)
    PROVE  \E n \in Nat, money \in Nat :
              /\ n # 0 /\ n <= trigger[t].quantity
              /\ Sold(t, peer, n, money)
  <1> DEFINE n == AtMost(trigger[t].quantity, held)
             proceeds == n * Intrinsic
             floor == n * trigger[t].max_premium
             least == floor - ProtocolFee(floor, TriggerFeeBps)
  <1>1. /\ trigger[t].quantity \in Nat /\ trigger[t].max_premium \in Nat
        /\ held \in Nat
    BY DEF TriggerInv, TriggerTypeOK, TriggerType
  <1>2. n \in Nat /\ n <= trigger[t].quantity /\ n <= held
    BY <1>1, AtMostNat
  <1>3. n # 0 /\ FireSell(t, peer, n, proceeds)
    BY <1>1 DEF ExerciseAtVault
  <1>4. Intrinsic \in Nat
    BY IntrinsicNat DEF TriggerInv
  <1> HIDE DEF n
  <1>5. proceeds \in Nat /\ floor \in Nat
    BY <1>1, <1>2, <1>4
  <1> HIDE DEF proceeds, floor
  <1>6. least \in Nat
    BY <1>5, NetOfFeeMonotone
  <1>7. AtMost(least, proceeds) <= proceeds
    BY <1>5, <1>6 DEF AtMost
  <1>8. Sold(t, peer, n, proceeds)
    BY <1>2, <1>3, <1>7 DEF Sold, LeastProceeds, floor, proceeds
  <1>9. QED
    BY <1>2, <1>3, <1>5, <1>8

\* Whoever executes, with whatever accounts: the order skips or fires.
LEMMA ExecuteSkipsOrFires ==
    ASSUME TriggerInv, NEW t \in TriggerIds, NEW route \in Routes,
           NEW peer \in Links, ExecuteTrigger(t, route, peer)
    PROVE  /\ WorldTypes'
           /\ Skipped(t) \/ Fires(t, peer)
  <1>1. /\ trigger[t].open /\ ConditionHolds(trigger[t])
        /\ placed' = placed
        /\ SkipFire(t, route, peer) \/ (PeerMatches(t, peer) /\ Fire(t, route, peer))
    BY DEF ExecuteTrigger
  <1>2. WorldTypes
    BY InvByOrder
  <1>3. CASE SkipFire(t, route, peer)
    BY <1>1, <1>2, <1>3 DEF SkipFire, Skipped, WorldTypes, worldVars
  <1>4. CASE PeerMatches(t, peer) /\ Fire(t, route, peer)
    <2>1. PeerMatches(t, peer)
      BY <1>4
    <2>2. CASE trigger[t].kind = "StopEntryBuy" /\ LiftAsk(t, peer)
      <3>1. UNCHANGED <<spot, quote, room, best_bid, expired>>
        BY <2>2 DEF LiftAsk
      <3>2. QED
        BY <1>1, <1>2, <2>1, <2>2, <3>1, LiftAskBuys DEF Fires, WorldTypes
    <2>3. CASE trigger[t].kind = "StopEntryBuy" /\ BuyAtPeg(t, peer)
      <3>1. UNCHANGED <<spot, quote, best_ask, best_bid, expired>>
        BY <2>3 DEF BuyAtPeg
      <3>2. QED
        BY <1>1, <1>2, <2>1, <2>3, <3>1, PegBuys DEF Fires, WorldTypes
    <2>4. CASE trigger[t].kind # "StopEntryBuy" /\ HitBid(t, peer)
      <3>1. UNCHANGED <<spot, quote, room, best_ask, expired>>
        BY <2>4 DEF HitBid
      <3>2. QED
        BY <1>1, <1>2, <2>1, <2>4, <3>1, HitBidSells DEF Fires, WorldTypes
    <2>5. CASE trigger[t].kind # "StopEntryBuy" /\ ExerciseAtVault(t, peer)
      <3>1. UNCHANGED worldVars
        BY <2>5 DEF ExerciseAtVault
      <3>2. QED
        BY <1>1, <1>2, <2>1, <2>5, <3>1, ExerciseSells
        DEF Fires, WorldTypes, worldVars
    <2>6. QED
      BY <1>4, <2>2, <2>3, <2>4, <2>5 DEF Fire
  <1>5. QED
    BY <1>1, <1>3, <1>4

-----------------------------------------------------------------------------
(* The orders after a fire. *)

\* What is left of an order that fires: its contracts are counted, or put on
\* record as not counted.
FireLeaves(t, peer, n, spent) ==
    IF trigger[t].quantity = n THEN trigger'[t] = NoTrigger
    ELSE /\ SameTerms(trigger'[t], trigger[t])
         /\ trigger'[t].escrow = trigger[t].escrow - spent
         /\ IF peer = t
            THEN /\ trigger'[t].quantity = trigger[t].quantity
                 /\ trigger'[t].oco_link = trigger[t].oco_link
                 /\ trigger'[t].uncounted = trigger[t].uncounted + n
            ELSE /\ trigger'[t].quantity = trigger[t].quantity - n
                 /\ trigger'[t].oco_link = NoLink
                 /\ trigger'[t].uncounted = trigger[t].uncounted

FireShape(t, peer, n, spent) ==
    /\ trigger' \in [TriggerIds -> TriggerType]
    /\ FireLeaves(t, peer, n, spent)
    /\ \A s \in TriggerIds \ {t} :
          IF s = trigger[t].oco_link
          THEN /\ SameTerms(trigger'[s], trigger[s])
               /\ trigger'[s].quantity = SatSub(trigger[s].quantity, n)
               /\ trigger'[s].escrow = trigger[s].escrow
               /\ trigger'[s].oco_link = NoLink
               /\ trigger'[s].uncounted = trigger[s].uncounted
          ELSE trigger'[s] = trigger[s]

LEMMA AfterFireShape ==
    ASSUME TriggerInv, NEW t \in TriggerIds, NEW peer,
           NEW n \in Nat, NEW spent \in Nat,
           n <= trigger[t].quantity, spent <= trigger[t].escrow,
           trigger' = AfterFire(t, peer, n, spent)
    PROVE  FireShape(t, peer, n, spent)
  <1>1. trigger \in [TriggerIds -> TriggerType] /\ trigger[t].oco_link # t
    BY DEF TriggerInv, TriggerTypeOK, NoSelfLinks
  <1>2. trigger[t].quantity \in Nat /\ trigger[t].escrow \in Nat
    BY <1>1 DEF TriggerType
  <1>3. trigger'[t] \in TriggerType /\ FireLeaves(t, peer, n, spent)
    <2> DEFINE x == trigger[t]
               y == trigger'[t]
    <2>1. x \in TriggerType
      BY <1>1
    <2>2. CASE x.quantity = n
      <3>1. trigger'[t] = NoTrigger
        BY <1>1, <2>2, Zenon DEF AfterFire
      <3>2. QED
        BY <2>2, <3>1, NoTriggerType DEF FireLeaves
    <2>3. CASE x.quantity # n /\ peer = t
      <3>1. y = Stale(x, n, spent)
        BY <1>1, <2>3 DEF AfterFire, Remainder, Stale
      <3>2. spent <= x.escrow
        OBVIOUS
      <3> HIDE DEF x, y
      <3>3. y \in TriggerType
        BY <2>1, <3>1, <3>2, StaleCut, Zenon
      <3>4. SameTerms(y, x)
        BY <2>1, <3>1, <3>2, StaleCut, Zenon
      <3>5. /\ y.quantity = x.quantity /\ y.escrow = x.escrow - spent
            /\ y.oco_link = x.oco_link /\ y.uncounted = x.uncounted + n
        BY <2>1, <3>1 DEF Stale, TriggerType
      <3>6. QED
        BY <2>3, <3>3, <3>4, <3>5 DEF FireLeaves, x, y
    <2>4. CASE x.quantity # n /\ peer # t
      <3> DEFINE q == x.quantity - n
                 e == x.escrow - spent
      <3>1. y = Cut(x, q, e)
        <4>1. y = [x EXCEPT !.quantity = @ - n, !.escrow = @ - spent,
                            !.oco_link = NoLink]
          BY <1>1, <2>4 DEF AfterFire, Remainder
        <4>2. QED
          BY <2>1, <4>1 DEF Cut
      <3>2. q \in Nat /\ e \in Nat
        BY <1>2
      <3> HIDE DEF x, y, q, e
      <3>3. y \in TriggerType
        BY <2>1, <3>1, <3>2, OrderCut, Zenon
      <3>4. SameTerms(y, x)
        BY <2>1, <3>1, <3>2, OrderCut, Zenon
      <3>5. /\ y.quantity = q /\ y.escrow = e /\ y.oco_link = NoLink
            /\ y.uncounted = x.uncounted
        BY <2>1, <3>1 DEF Cut, TriggerType
      <3>6. QED
        BY <2>4, <3>3, <3>4, <3>5 DEF FireLeaves, x, y, q, e
    <2>5. QED
      BY <2>2, <2>3, <2>4
  <1>4. ASSUME NEW s \in TriggerIds \ {t}
        PROVE  /\ trigger'[s] \in TriggerType
               /\ IF s = trigger[t].oco_link
                  THEN /\ SameTerms(trigger'[s], trigger[s])
                       /\ trigger'[s].quantity = SatSub(trigger[s].quantity, n)
                       /\ trigger'[s].escrow = trigger[s].escrow
                       /\ trigger'[s].oco_link = NoLink
                       /\ trigger'[s].uncounted = trigger[s].uncounted
                  ELSE trigger'[s] = trigger[s]
    <2>1. trigger[s] \in TriggerType /\ s # t
      BY <1>1
    <2>2. CASE s = trigger[t].oco_link
      <3>1. trigger'[s] = [trigger[s] EXCEPT !.quantity = SatSub(@, n),
                                             !.oco_link = NoLink]
        BY <2>1, <2>2 DEF AfterFire
      <3>2. QED
        <4> DEFINE x == trigger[s]
                   y == trigger'[s]
        <4>1. /\ x \in TriggerType
              /\ y = [x EXCEPT !.quantity = SatSub(@, n), !.oco_link = NoLink]
          BY <2>1, <3>1
        <4> HIDE DEF x, y
        <4>2. /\ y \in TriggerType /\ SameTerms(y, x)
              /\ y.quantity = SatSub(x.quantity, n)
              /\ y.escrow = x.escrow
              /\ y.oco_link = NoLink /\ y.uncounted = x.uncounted
          BY <4>1, SiblingCut
        <4>3. QED
          BY <2>2, <4>2 DEF x, y
    <2>3. CASE s # trigger[t].oco_link
      <3>1. trigger'[s] = trigger[s]
        BY <2>1, <2>3 DEF AfterFire
      <3>2. QED
        BY <2>1, <2>3, <3>1
    <2>4. QED
      BY <2>2, <2>3
  <1>5. trigger' \in [TriggerIds -> TriggerType]
    <2>1. \A s \in TriggerIds : trigger'[s] \in TriggerType
      BY <1>3, <1>4
    <2> DEFINE after(s) ==
                 CASE s = t /\ trigger[t].quantity = n -> NoTrigger
                   [] s = t /\ trigger[t].quantity # n ->
                        Remainder(t, peer, n, spent)
                   [] s = trigger[t].oco_link ->
                        [trigger[s] EXCEPT !.quantity = SatSub(@, n),
                                           !.oco_link = NoLink]
                   [] OTHER -> trigger[s]
    <2>2. trigger' = [s \in TriggerIds |-> after(s)]
      BY DEF AfterFire
    <2> HIDE DEF after
    <2>3. QED
      BY <2>1, <2>2
  <1>6. QED
    BY <1>3, <1>4, <1>5 DEF FireShape

-----------------------------------------------------------------------------
(* A fire keeps the invariant, takes from both legs, and pays within terms. *)

LEMMA BoughtShape ==
    ASSUME TriggerInv, NEW t \in TriggerIds, NEW peer,
           NEW n \in Nat, NEW spent \in Nat,
           n # 0, n <= trigger[t].quantity, Bought(t, peer, n, spent)
    PROVE  /\ FireShape(t, peer, n, spent)
           /\ spent <= trigger[t].escrow
           /\ cash' = cash + Refund(t, n, spent) /\ cash' \in Nat
           /\ held' = held + n /\ held' \in Nat
  <1>1. /\ spent <= trigger[t].escrow
        /\ trigger' = AfterFire(t, peer, n, spent)
        /\ cash' = cash + Refund(t, n, spent)
        /\ held' = held + n
    BY DEF Bought, FireBuy
  <1>2. FireShape(t, peer, n, spent)
    BY <1>1, AfterFireShape
  <1>3. trigger[t].escrow \in Nat /\ cash \in Nat /\ held \in Nat
    BY DEF TriggerInv, TriggerTypeOK, TriggerType
  <1>4. Refund(t, n, spent) \in Nat
    BY <1>1, <1>3 DEF Refund
  <1>5. QED
    BY <1>1, <1>2, <1>3, <1>4

LEMMA SoldShape ==
    ASSUME TriggerInv, NEW t \in TriggerIds, NEW peer,
           NEW n \in Nat, NEW proceeds \in Nat,
           n # 0, n <= trigger[t].quantity, Sold(t, peer, n, proceeds)
    PROVE  /\ FireShape(t, peer, n, 0)
           /\ trigger[t].escrow = 0
           /\ cash' = cash + proceeds /\ cash' \in Nat
           /\ held' = held - n /\ held' \in Nat
  <1>1. /\ trigger' = AfterFire(t, peer, n, 0)
        /\ cash' = cash + proceeds
        /\ held' = held - n /\ n <= held
        /\ trigger[t].kind # "StopEntryBuy"
    BY DEF Sold, FireSell
  <1>2. cash \in Nat /\ held \in Nat
    BY DEF TriggerInv, TriggerTypeOK
  <1>3. trigger[t].escrow = 0
    BY <1>1 DEF TriggerInv, EscrowCoversCeiling
  <1>4. FireShape(t, peer, n, 0)
    BY <1>1, <1>3, AfterFireShape
  <1>5. QED
    BY <1>1, <1>2, <1>3, <1>4

\* What an order that fires, its sibling and the others hold afterwards.
LEMMA FireSound ==
    ASSUME TriggerInv, NEW t \in TriggerIds, NEW peer,
           NEW n \in Nat, NEW spent \in Nat,
           n # 0, n <= trigger[t].quantity, spent <= trigger[t].escrow,
           spent <= trigger[t].max_premium * n,
           trigger[t].open, FireShape(t, peer, n, spent)
    PROVE  \A s \in TriggerIds : OrderSound(s, trigger'[s])
  <1>1. trigger' \in [TriggerIds -> TriggerType]
    BY DEF FireShape
  <1>2. \A s \in TriggerIds : OrderSound(s, trigger[s])
    BY InvByOrder
  <1>3. NoLink \notin TriggerIds
    BY TriggerConstants DEF NoLink
  <1>4. OrderSound(t, trigger'[t])
    <2>1. CASE trigger[t].quantity = n
      BY <2>1, NoTriggerSound DEF FireShape, FireLeaves
    <2>2. CASE trigger[t].quantity # n
      <3> DEFINE q == trigger[t].quantity
                 m == trigger[t].max_premium
                 e == trigger[t].escrow
                 d == trigger[t].drawn
                 u == trigger[t].uncounted
                 r == trigger'[t].quantity
                 v == trigger'[t].uncounted
      <3>1. /\ SameTerms(trigger'[t], trigger[t])
            /\ trigger'[t].escrow = e - spent
        BY <2>2 DEF FireShape, FireLeaves
      <3>2. /\ q \in Nat /\ m \in Nat /\ e \in Nat /\ d \in Nat /\ u \in Nat
            /\ r \in Nat /\ v \in Nat
        BY <1>1, <1>2 DEF OrderSound, TriggerType
      <3>3. (r = q /\ v = u + n) \/ (r = q - n /\ v = u)
        BY <2>2 DEF FireShape, FireLeaves
      <3>4. trigger[t].kind = "StopEntryBuy" => e - spent + d + m * v >= m * r
        <4>1. SUFFICES ASSUME trigger[t].kind = "StopEntryBuy"
                       PROVE  e - spent + d + m * v >= m * r
          OBVIOUS
        <4>2. e + d + m * u >= m * q
          BY <1>2, <4>1 DEF OrderSound
        <4>3. spent <= m * n
          BY DEF m
        <4> HIDE DEF q, m, e, d, u, r, v
        <4>4. m * (u + n) = m * u + m * n /\ m * (q - n) = m * q - m * n
          BY <3>2
        <4>5. m * q \in Nat /\ m * n \in Nat /\ m * u \in Nat
          BY <3>2
        <4>6. CASE r = q /\ v = u + n
          BY <3>2, <4>2, <4>3, <4>4, <4>5, <4>6
        <4>7. CASE r = q - n /\ v = u
          BY <3>2, <4>2, <4>3, <4>4, <4>5, <4>7
        <4>8. QED
          BY <3>3, <4>6, <4>7
      <3>5. trigger[t].kind # "StopEntryBuy" => e - spent = 0
        BY <1>2, <3>2 DEF OrderSound
      <3>6. trigger'[t] \in TriggerType
        BY <1>1
      <3>7. trigger'[t].oco_link # t
        BY <1>2, <1>3, <2>2 DEF FireShape, FireLeaves, OrderSound
      <3> HIDE DEF q, e, u
      <3>8. IF trigger'[t].open /\ trigger'[t].kind = "StopEntryBuy"
            THEN trigger'[t].escrow + trigger'[t].drawn
                     + trigger'[t].max_premium * trigger'[t].uncounted
                         >= trigger'[t].max_premium * trigger'[t].quantity
            ELSE trigger'[t].escrow = 0
        BY <3>1, <3>4, <3>5 DEF SameTerms, m, d, r, v
      <3>9. QED
        BY <3>6, <3>7, <3>8 DEF OrderSound
    <2>3. QED
      BY <2>1, <2>2
  <1>5. ASSUME NEW s \in TriggerIds \ {t}
        PROVE  OrderSound(s, trigger'[s])
    <2>1. CASE s = trigger[t].oco_link
      <3> DEFINE q == trigger[s].quantity
                 p == SatSub(q, n)
                 m == trigger[s].max_premium
                 whole == trigger[s].escrow + trigger[s].drawn
                              + m * trigger[s].uncounted
      <3>1. /\ SameTerms(trigger'[s], trigger[s])
            /\ trigger'[s].quantity = p
            /\ trigger'[s].uncounted = trigger[s].uncounted
            /\ trigger'[s].escrow = trigger[s].escrow
            /\ trigger'[s].oco_link = NoLink
        BY <2>1 DEF FireShape
      <3>2. q \in Nat /\ m \in Nat /\ whole \in Nat
        BY <1>2 DEF OrderSound, TriggerType
      <3> HIDE DEF q
      <3>3. p \in Nat /\ p <= q
        BY <3>2, AtMostNat
      <3> HIDE DEF p, m
      <3>4. m * p <= m * q /\ m * p \in Nat /\ m * q \in Nat
        BY <3>2, <3>3, ProductMonotone
      <3>5. trigger'[s] \in TriggerType /\ trigger'[s].oco_link # s
        BY <1>1, <1>3, <3>1
      <3>6. IF trigger[s].open /\ trigger[s].kind = "StopEntryBuy"
            THEN whole >= m * q
            ELSE trigger[s].escrow = 0
        BY <1>2 DEF OrderSound, m, q
      <3>7. IF trigger'[s].open /\ trigger'[s].kind = "StopEntryBuy"
            THEN trigger'[s].escrow + trigger'[s].drawn
                     + trigger'[s].max_premium * trigger'[s].uncounted
                         >= trigger'[s].max_premium * trigger'[s].quantity
            ELSE trigger'[s].escrow = 0
        <4>1. /\ trigger'[s].open = trigger[s].open
              /\ trigger'[s].kind = trigger[s].kind
              /\ trigger'[s].max_premium = m
          BY <3>1 DEF SameTerms, m
        <4>2. trigger'[s].escrow + trigger'[s].drawn
                  + trigger'[s].max_premium * trigger'[s].uncounted = whole
          BY <3>1, <4>1 DEF SameTerms, whole
        <4> HIDE DEF whole
        <4>3. QED
          BY <3>1, <3>2, <3>4, <3>6, <4>1, <4>2
      <3>8. QED
        BY <3>5, <3>7 DEF OrderSound
    <2>2. CASE s # trigger[t].oco_link
      BY <1>2, <2>2 DEF FireShape
    <2>3. QED
      BY <2>1, <2>2
  <1>6. QED
    BY <1>4, <1>5

\* What one contract more or less in a fire means for its two legs.
LEMMA FireBothLegs ==
    ASSUME TriggerInv, NEW t \in TriggerIds, NEW peer,
           NEW n \in Nat, NEW spent \in Nat,
           n # 0, n <= trigger[t].quantity, FireShape(t, peer, n, spent),
           PeerMatches(t, peer),
           held \in Nat, held' = held + n \/ held' = held - n
    PROVE  \A u \in TriggerIds : BothLegsMove(u)
  <1> SUFFICES ASSUME NEW u \in TriggerIds, LinksBack(u),
                      trigger'[u].quantity < trigger[u].quantity
               PROVE  BothLegsMove(u)
    BY DEF BothLegsMove
  <1> DEFINE other == trigger[u].oco_link
  <1>1. \A s \in TriggerIds : trigger[s].quantity \in Nat
    BY DEF TriggerInv, TriggerTypeOK, TriggerType
  <1>2. NoLink \notin TriggerIds
    BY TriggerConstants DEF NoLink
  <1>3. (IF held' > held THEN held' - held ELSE held - held') = n
    OBVIOUS
  <1>4. other \in TriggerIds /\ trigger[other].oco_link = u
    BY DEF LinksBack
  <1>5. SatSub(trigger[t].quantity, n) = trigger[t].quantity - n
    BY <1>1 DEF SatSub
  <1>6. other # u /\ trigger[t].oco_link # t
    BY DEF TriggerInv, NoSelfLinks
  <1>7. ASSUME trigger[t].oco_link # NoLink
         PROVE  /\ LinksBack(t)
                /\ trigger'[t].quantity = trigger[t].quantity - n
                /\ trigger'[t].oco_link = NoLink
    <2>1. peer # t /\ LinksBack(t)
      BY <1>6, <1>7 DEF PeerMatches
    <2>2. CASE trigger[t].quantity = n
      BY <1>1, <2>1, <2>2, NoTriggerType DEF FireShape, FireLeaves
    <2>3. CASE trigger[t].quantity # n
      BY <2>1, <2>3 DEF FireShape, FireLeaves
    <2>4. QED
      BY <2>1, <2>2, <2>3
  <1>8. CASE u = t
    <2>1. /\ trigger'[u].quantity = SatSub(trigger[u].quantity, n)
          /\ trigger'[u].oco_link = NoLink
      BY <1>2, <1>4, <1>5, <1>8, <1>7
    <2>2. /\ trigger'[other].quantity = SatSub(trigger[other].quantity, n)
          /\ trigger'[other].oco_link = NoLink
          /\ \A s \in TriggerIds \ {u, other} : trigger'[s] = trigger[s]
      BY <1>4, <1>6, <1>8 DEF FireShape
    <2>3. QED
      BY <1>3, <2>1, <2>2 DEF BothLegsMove
  <1>9. CASE u # t
    <2>1. u = trigger[t].oco_link
      <3>1. SUFFICES ASSUME u # trigger[t].oco_link PROVE FALSE
        OBVIOUS
      <3>2. trigger'[u] = trigger[u]
        BY <1>9, <3>1 DEF FireShape
      <3>3. QED
        BY <1>1, <3>2
    <2>2. other = t
      BY <1>2, <1>7, <2>1 DEF LinksBack
    <2>3. /\ trigger'[u].quantity = SatSub(trigger[u].quantity, n)
          /\ trigger'[u].oco_link = NoLink
          /\ \A s \in TriggerIds \ {u, other} : trigger'[s] = trigger[s]
      BY <1>9, <2>1, <2>2 DEF FireShape
    <2>4. /\ trigger'[other].quantity = SatSub(trigger[other].quantity, n)
          /\ trigger'[other].oco_link = NoLink
      BY <1>2, <1>5, <1>7, <2>1, <2>2
    <2>5. QED
      BY <1>3, <2>3, <2>4 DEF BothLegsMove
  <1>10. QED
    BY <1>8, <1>9

\* Where one order is filled, its escrow is the only one that moves.
LEMMA FireDollars ==
    ASSUME TriggerInv, NEW t \in TriggerIds, NEW peer,
           NEW n \in Nat, NEW spent \in Nat,
           FireShape(t, peer, n, spent), cash' \in Nat
    PROVE  /\ OwnersDollars \in Nat /\ OwnersDollars' \in Nat
           /\ OwnersDollars' = OwnersDollars + (cash' - cash)
                                 + (trigger'[t].escrow - trigger[t].escrow)
  <1>1. /\ trigger \in [TriggerIds -> TriggerType] /\ cash \in Nat
        /\ trigger' \in [TriggerIds -> TriggerType]
    BY DEF TriggerInv, TriggerTypeOK, FireShape
  <1>2. \A s \in TriggerIds \ {t} : trigger'[s].escrow = trigger[s].escrow
    BY DEF FireShape
  <1>3. QED
    BY <1>1, <1>2, DollarsChange

\* The step of a fire, in full.
LEMMA FireStep ==
    ASSUME TriggerInv, NEW t \in TriggerIds, NEW peer,
           Fires(t, peer), WorldTypes'
    PROVE  /\ TriggerInv'
           /\ \A u \in TriggerIds : BothLegsMove(u)
           /\ MoneyWithinTerms
  <1>1. /\ trigger[t].open /\ ConditionHolds(trigger[t])
        /\ PeerMatches(t, peer)
    BY DEF Fires
  <1>2. PICK n \in Nat, money \in Nat :
            /\ n # 0 /\ n <= trigger[t].quantity
            /\ Bought(t, peer, n, money) \/ Sold(t, peer, n, money)
    BY DEF Fires
  <1>3. /\ trigger[t].quantity \in Nat /\ trigger[t].escrow \in Nat
        /\ trigger[t].max_premium \in Nat
        /\ cash \in Nat /\ held \in Nat
    BY DEF TriggerInv, TriggerTypeOK, TriggerType
  <1>4. ASSUME NEW spent \in Nat, FireShape(t, peer, n, spent)
        PROVE  CountsDown(t, n)
    <2>1. trigger[t].uncounted \in Nat
      BY DEF TriggerInv, TriggerTypeOK, TriggerType
    <2>2. CASE trigger[t].quantity = n
      BY <1>2, <1>3, <1>4, <2>2, NoTriggerType DEF FireShape, FireLeaves, CountsDown
    <2>3. CASE trigger[t].quantity # n
      <3>1. trigger[t].oco_link # t
        BY DEF TriggerInv, NoSelfLinks
      <3>2. QED
        BY <1>1, <1>4, <2>3, <3>1 DEF FireShape, FireLeaves, CountsDown, PeerMatches
    <2>4. QED
      BY <2>2, <2>3
  <1>5. CASE Bought(t, peer, n, money)
    <2>1. /\ FireShape(t, peer, n, money) /\ money <= trigger[t].escrow
          /\ cash' = cash + Refund(t, n, money) /\ cash' \in Nat
          /\ held' = held + n /\ held' \in Nat
      BY <1>2, <1>5, BoughtShape
    <2>2. /\ money <= trigger[t].max_premium * n
          /\ trigger[t].kind = "StopEntryBuy"
      BY <1>5 DEF Bought
    <2>3. \A s \in TriggerIds : OrderSound(s, trigger'[s])
      BY <1>1, <1>2, <2>1, <2>2, FireSound
    <2>4. TriggerInv'
      <3>1. trigger' \in [TriggerIds -> TriggerType]
        BY <2>1 DEF FireShape
      <3>2. QED
        BY <2>1, <2>3, <3>1, InvFromOrders
    <2>5. \A u \in TriggerIds : BothLegsMove(u)
      BY <1>1, <1>2, <1>3, <2>1, FireBothLegs
    <2>6. /\ OwnersDollars \in Nat /\ OwnersDollars' \in Nat
          /\ OwnersDollars - OwnersDollars' = money
      <3>1. /\ OwnersDollars \in Nat /\ OwnersDollars' \in Nat
            /\ OwnersDollars' = OwnersDollars + (cash' - cash)
                                  + (trigger'[t].escrow - trigger[t].escrow)
        BY <2>1, FireDollars
      <3>2. cash' - cash + (trigger'[t].escrow - trigger[t].escrow) = 0 - money
        <4>1. CASE trigger[t].quantity = n
          <5>1. trigger'[t].escrow = 0
            BY <2>1, <4>1, NoTriggerType DEF FireShape, FireLeaves
          <5>2. cash' = cash + (trigger[t].escrow - money)
            BY <2>1, <4>1 DEF Refund
          <5>3. QED
            BY <1>3, <5>1, <5>2
        <4>2. CASE trigger[t].quantity # n
          <5>1. trigger'[t].escrow = trigger[t].escrow - money
            BY <2>1, <4>2 DEF FireShape, FireLeaves
          <5>2. cash' = cash
            BY <1>3, <2>1, <4>2 DEF Refund
          <5>3. QED
            BY <1>3, <5>1, <5>2
        <4>3. QED
          BY <4>1, <4>2
      <3>3. trigger'[t].escrow \in Nat
        BY <2>1 DEF FireShape, TriggerType
      <3> DEFINE before == OwnersDollars
                 after == OwnersDollars'
      <3> HIDE DEF before, after
      <3>4. before \in Nat /\ after \in Nat
            /\ after = before + (cash' - cash)
                          + (trigger'[t].escrow - trigger[t].escrow)
        BY <3>1 DEF before, after
      <3>5. before - after = money
        BY <1>3, <2>1, <3>2, <3>3, <3>4
      <3>6. QED
        BY <3>1, <3>5 DEF before, after
    <2>7. BuyWithinTerms(t, held' - held)
      <3>1. held' - held = n
        BY <1>3, <2>1
      <3>2. OwnersDollars - OwnersDollars' <= trigger[t].max_premium * n
        BY <2>2, <2>6
      <3>3. QED
        BY <1>1, <1>2, <1>4, <2>1, <2>2, <3>1, <3>2 DEF BuyWithinTerms
    <2>8. held' > held
      BY <1>2, <1>3, <2>1
    <2>9. MoneyWithinTerms
      BY <1>3, <2>1, <2>7, <2>8 DEF MoneyWithinTerms
    <2>10. QED
      BY <2>4, <2>5, <2>9
  <1>6. CASE Sold(t, peer, n, money)
    <2>1. /\ FireShape(t, peer, n, 0) /\ trigger[t].escrow = 0
          /\ cash' = cash + money /\ cash' \in Nat
          /\ held' = held - n /\ held' \in Nat
      BY <1>2, <1>6, SoldShape
    <2>2. /\ money >= LeastProceeds(t, n)
          /\ trigger[t].kind # "StopEntryBuy"
      BY <1>6 DEF Sold
    <2>3. \A s \in TriggerIds : OrderSound(s, trigger'[s])
      <3>1. 0 <= trigger[t].max_premium * n /\ 0 <= trigger[t].escrow
        BY <1>3
      <3>2. /\ trigger[t].open /\ FireShape(t, peer, n, 0)
            /\ n # 0 /\ n <= trigger[t].quantity
        BY <1>1, <1>2, <2>1
      <3>3. QED
        BY <3>1, <3>2, FireSound
    <2>4. TriggerInv'
      <3>1. trigger' \in [TriggerIds -> TriggerType]
        BY <2>1 DEF FireShape
      <3>2. QED
        BY <2>1, <2>3, <3>1, InvFromOrders
    <2>5. \A u \in TriggerIds : BothLegsMove(u)
      BY <1>1, <1>2, <1>3, <2>1, FireBothLegs
    <2>6. /\ OwnersDollars \in Nat /\ OwnersDollars' \in Nat
          /\ OwnersDollars' - OwnersDollars = money
      <3>1. /\ OwnersDollars \in Nat /\ OwnersDollars' \in Nat
            /\ OwnersDollars' = OwnersDollars + (cash' - cash)
                                  + (trigger'[t].escrow - trigger[t].escrow)
        BY <2>1, FireDollars
      <3>2. trigger'[t].escrow = 0
        BY <1>3, <2>1, NoTriggerType DEF FireShape, FireLeaves
      <3> DEFINE before == OwnersDollars
                 after == OwnersDollars'
      <3> HIDE DEF before, after
      <3>3. before \in Nat /\ after \in Nat
            /\ after = before + (cash' - cash)
                          + (trigger'[t].escrow - trigger[t].escrow)
        BY <3>1 DEF before, after
      <3>4. after - before = money
        BY <1>3, <2>1, <3>2, <3>3
      <3>5. QED
        BY <3>1, <3>4 DEF before, after
    <2>7. SaleWithinTerms(t, held - held')
      <3>1. held - held' = n
        BY <1>3, <2>1
      <3>2. QED
        BY <1>1, <1>2, <1>4, <2>1, <2>2, <2>6, <3>1 DEF SaleWithinTerms
    <2>8. held' < held
      BY <1>2, <1>3, <2>1
    <2>9. MoneyWithinTerms
      BY <1>3, <2>1, <2>7, <2>8 DEF MoneyWithinTerms
    <2>10. QED
      BY <2>4, <2>5, <2>9
  <1>7. QED
    BY <1>2, <1>5, <1>6

-----------------------------------------------------------------------------
(* The other steps. *)

\* A step that fires nothing: what it must show.
Quiet ==
    /\ held' = held
    /\ OwnersDollars' = OwnersDollars

LEMMA QuietStep ==
    ASSUME Quiet, TriggerTypeOK
    PROVE  /\ \A u \in TriggerIds : BothLegsMove(u)
           /\ MoneyWithinTerms
  BY DEF Quiet, TriggerTypeOK, BothLegsMove, MoneyWithinTerms

LEMMA InvInit == TriggerInit => TriggerInv
  <1> SUFFICES ASSUME TriggerInit PROVE TriggerInv
    OBVIOUS
  <1>1. trigger \in [TriggerIds -> TriggerType]
    BY NoTriggerType DEF TriggerInit
  <1>2. \A t \in TriggerIds : OrderSound(t, trigger[t])
    BY NoTriggerSound DEF TriggerInit
  <1>3. cash \in Nat /\ held \in Nat /\ WorldTypes
    <2>1. expired \in BOOLEAN
      BY DEF TriggerInit
    <2>2. placed \in 0..MaxPlaced
      BY TriggerConstants DEF TriggerInit
    <2>3. spot \in Nat /\ quote \in Nat /\ room \in Nat
      BY TriggerConstants DEF TriggerInit, PegType
    <2>4. best_ask \in RestType /\ best_bid \in RestType
      BY TriggerConstants DEF TriggerInit
    <2>5. cash \in Nat /\ held \in Nat
      BY TriggerConstants DEF TriggerInit
    <2>6. QED
      BY <2>1, <2>2, <2>3, <2>4, <2>5 DEF WorldTypes
  <1>4. QED
    BY <1>1, <1>2, <1>3, InvByOrder

\* The world moves, or nothing does; the owner may spend a token.
LEMMA WorldStep ==
    ASSUME TriggerInv, TriggerWorld \/ UNCHANGED triggerVars
    PROVE  /\ TriggerInv'
           /\ \A u \in TriggerIds : BothLegsMove(u)
           /\ MoneyWithinTerms
  <1>1. trigger' = trigger /\ cash' = cash
    BY DEF TriggerWorld, Trade, AsksMove, BidsMove, Expire, SpendToken,
           triggerVars, ownerVars
  <1>2. OwnersDollars' = OwnersDollars
    BY <1>1 DEF OwnersDollars
  <1>3. held \in Nat /\ held' \in Nat
    BY DEF TriggerInv, TriggerTypeOK, TriggerWorld, Trade, AsksMove, BidsMove,
           Expire, SpendToken, triggerVars, ownerVars
  <1>4. held' = held \/ held' < held
    BY <1>3 DEF TriggerInv, TriggerTypeOK, TriggerWorld, Trade, AsksMove,
                BidsMove, Expire, SpendToken, triggerVars, ownerVars
  <1>5. WorldTypes'
    <2>1. WorldTypes
      BY InvByOrder
    <2>2. CASE Trade
      BY <2>1, <2>2, TriggerConstants DEF Trade, WorldTypes, PegType
    <2>3. CASE AsksMove
      BY <2>1, <2>3, TriggerConstants DEF AsksMove, WorldTypes
    <2>4. CASE BidsMove
      BY <2>1, <2>4, TriggerConstants DEF BidsMove, WorldTypes
    <2>5. CASE Expire
      BY <2>1, <2>5 DEF Expire, WorldTypes
    <2>6. CASE SpendToken \/ UNCHANGED triggerVars
      BY <2>1, <2>6 DEF SpendToken, WorldTypes, triggerVars, worldVars
    <2>7. QED
      BY <2>2, <2>3, <2>4, <2>5, <2>6 DEF TriggerWorld
  <1>6. TriggerInv'
    <2>1. /\ trigger \in [TriggerIds -> TriggerType] /\ cash \in Nat
          /\ \A t \in TriggerIds : OrderSound(t, trigger[t])
      BY InvByOrder
    <2>2. QED
      BY <1>1, <1>3, <1>5, <2>1, InvFromOrders
  <1>7. \A u \in TriggerIds : BothLegsMove(u)
    BY <1>1 DEF TriggerInv, TriggerTypeOK, TriggerType, BothLegsMove
  <1>8. MoneyWithinTerms
    BY <1>2, <1>3, <1>4 DEF MoneyWithinTerms
  <1>9. QED
    BY <1>6, <1>7, <1>8

\* A change of one order that leaves the world and the tokens alone, and moves
\* dollars only between hand and escrow.
LEMMA OwnerStep ==
    ASSUME TriggerInv, NEW t \in TriggerIds,
           trigger' \in [TriggerIds -> TriggerType],
           \A s \in TriggerIds : OrderSound(s, trigger'[s]),
           \A s \in TriggerIds \ {t} : trigger'[s].escrow = trigger[s].escrow,
           cash' \in Nat,
           cash' = cash + trigger[t].escrow - trigger'[t].escrow,
           held' = held, WorldTypes'
    PROVE  /\ TriggerInv'
           /\ \A u \in TriggerIds : BothLegsMove(u)
           /\ MoneyWithinTerms
  <1>1. /\ trigger \in [TriggerIds -> TriggerType]
        /\ cash \in Nat /\ held \in Nat
    BY DEF TriggerInv, TriggerTypeOK
  <1>2. TriggerInv'
    BY <1>1, InvFromOrders
  <1>3. /\ OwnersDollars \in Nat /\ OwnersDollars' \in Nat
        /\ OwnersDollars' = OwnersDollars + (cash' - cash)
                              + (trigger'[t].escrow - trigger[t].escrow)
    BY <1>1, DollarsChange
  <1>4. trigger[t].escrow \in Nat /\ trigger'[t].escrow \in Nat
    BY <1>1 DEF TriggerType
  <1> DEFINE before == OwnersDollars
             after == OwnersDollars'
  <1>5. /\ before \in Nat /\ after \in Nat
        /\ after = before + (cash' - cash)
                      + (trigger'[t].escrow - trigger[t].escrow)
    BY <1>3
  <1> HIDE DEF before, after
  <1>6. after = before
    BY <1>1, <1>4, <1>5
  <1>7. Quiet
    BY <1>6 DEF Quiet, before, after
  <1>8. QED
    BY <1>2, <1>7, QuietStep DEF TriggerInv

LEMMA PlaceStep ==
    ASSUME TriggerInv, NEW t \in TriggerIds, NEW terms \in TriggerTerms,
           PlaceTrigger(t, terms)
    PROVE  /\ TriggerInv'
           /\ \A u \in TriggerIds : BothLegsMove(u)
           /\ MoneyWithinTerms
  <1> DEFINE need == NeededEscrow(terms)
  <1>1. terms \in OrderTerms
    BY TriggerConstants
  <1>2. need \in Nat
    BY <1>1 DEF NeededEscrow, OrderTerms
  <1>3. /\ trigger \in [TriggerIds -> TriggerType]
        /\ \A s \in TriggerIds : OrderSound(s, trigger[s])
        /\ cash \in Nat /\ held \in Nat /\ WorldTypes
    BY InvByOrder
  <1> DEFINE new ==
               [open |-> TRUE, kind |-> terms.kind,
                comparator |-> terms.comparator, tape |-> terms.tape,
                threshold |-> terms.threshold, quantity |-> terms.quantity,
                max_premium |-> terms.max_premium,
                escrow |-> need, oco_link |-> NoLink,
                uncounted |-> 0, drawn |-> 0]
  <1>4. /\ trigger' = [trigger EXCEPT ![t] = new]
        /\ need <= cash /\ cash' = cash - need
        /\ held' = held /\ UNCHANGED worldVars
        /\ placed < MaxPlaced /\ placed' = placed + 1
        /\ trigger[t].open = FALSE
    BY <1>3 DEF PlaceTrigger, TriggerType
  <1>5. new \in TriggerType
    BY <1>1, <1>2 DEF TriggerType, OrderTerms, TriggerKinds
  <1>6. OrderSound(t, new)
    <2>1. new.oco_link # t
      BY TriggerConstants DEF NoLink
    <2>2. terms.kind # "StopEntryBuy" => need = 0
      BY DEF NeededEscrow
    <2>3. terms.kind = "StopEntryBuy" => need = terms.max_premium * terms.quantity
      BY DEF NeededEscrow
    <2>4. terms.max_premium * terms.quantity \in Nat
      BY <1>1 DEF OrderTerms
    <2>5. terms.max_premium * 0 = 0 /\ need + 0 + 0 = need
      BY <1>1, <1>2 DEF OrderTerms
    <2>6. QED
      BY <1>2, <1>5, <2>1, <2>2, <2>3, <2>4, <2>5 DEF OrderSound
  <1>7. new.escrow = need
    OBVIOUS
  <1> HIDE DEF new, need
  <1>8. trigger' \in [TriggerIds -> TriggerType]
    BY <1>3, <1>4, <1>5
  <1>9. \A s \in TriggerIds : OrderSound(s, trigger'[s])
    <2>1. trigger'[t] = new /\ \A s \in TriggerIds \ {t} : trigger'[s] = trigger[s]
      BY <1>3, <1>4
    <2>2. QED
      BY <1>3, <1>6, <2>1
  <1>10. \A s \in TriggerIds \ {t} : trigger'[s].escrow = trigger[s].escrow
    BY <1>3, <1>4
  <1>11. trigger[t].escrow = 0 /\ trigger'[t].escrow = need
    BY <1>3, <1>4, <1>7 DEF OrderSound
  <1>12. cash' \in Nat /\ cash' = cash + trigger[t].escrow - trigger'[t].escrow
    BY <1>2, <1>3, <1>4, <1>11
  <1>13. WorldTypes'
    BY <1>3, <1>4, TriggerConstants DEF WorldTypes, worldVars
  <1>14. QED
    BY <1>4, <1>8, <1>9, <1>10, <1>12, <1>13, OwnerStep

LEMMA CancelStep ==
    ASSUME TriggerInv, NEW t \in TriggerIds, CancelTrigger(t)
    PROVE  /\ TriggerInv'
           /\ \A u \in TriggerIds : BothLegsMove(u)
           /\ MoneyWithinTerms
  <1>1. /\ trigger \in [TriggerIds -> TriggerType]
        /\ \A s \in TriggerIds : OrderSound(s, trigger[s])
        /\ cash \in Nat /\ held \in Nat /\ WorldTypes
    BY InvByOrder
  <1>2. /\ trigger' = [s \in TriggerIds |->
                          IF s = t THEN NoTrigger
                          ELSE IF s = trigger[t].oco_link
                               THEN [trigger[s] EXCEPT !.oco_link = NoLink]
                               ELSE trigger[s]]
        /\ cash' = cash + trigger[t].escrow
        /\ held' = held /\ UNCHANGED worldVars /\ placed' = placed
    BY DEF CancelTrigger
  <1>3. trigger'[t] = NoTrigger
    BY <1>2
  <1>4. ASSUME NEW s \in TriggerIds \ {t}
        PROVE  /\ trigger'[s] \in TriggerType
               /\ trigger'[s].escrow = trigger[s].escrow
               /\ OrderSound(s, trigger'[s])
    <2>1. OrderSound(s, trigger[s]) /\ trigger[s] \in TriggerType
      BY <1>1
    <2>2. CASE s = trigger[t].oco_link
      <3>1. trigger'[s] = [trigger[s] EXCEPT !.oco_link = NoLink]
        BY <1>2, <2>2
      <3>2. NoLink \in Links /\ NoLink # s
        BY TriggerConstants DEF NoLink, Links
      <3>3. OrderSound(s, trigger'[s])
        BY <2>1, <3>1, <3>2, SoundWhenRelinked
      <3>4. trigger'[s].escrow = trigger[s].escrow
        BY <2>1, <3>1 DEF TriggerType
      <3>5. QED
        BY <3>3, <3>4 DEF OrderSound
    <2>3. CASE s # trigger[t].oco_link
      BY <1>2, <2>1, <2>3
    <2>4. QED
      BY <2>2, <2>3
  <1>5. \A s \in TriggerIds : OrderSound(s, trigger'[s])
    BY <1>3, <1>4, NoTriggerSound
  <1>6. trigger' \in [TriggerIds -> TriggerType]
    <2>1. \A s \in TriggerIds : trigger'[s] \in TriggerType
      BY <1>3, <1>4, NoTriggerType
    <2>2. QED
      BY <1>2, <2>1
  <1>7. trigger'[t].escrow = 0 /\ trigger[t].escrow \in Nat
    BY <1>1, <1>3, NoTriggerType DEF TriggerType
  <1>8. cash' \in Nat /\ cash' = cash + trigger[t].escrow - trigger'[t].escrow
    BY <1>1, <1>2, <1>7
  <1>9. WorldTypes'
    BY <1>1, <1>2 DEF WorldTypes, worldVars
  <1>10. QED
    BY <1>2, <1>4, <1>5, <1>6, <1>8, <1>9, OwnerStep

LEMMA LinkStep ==
    ASSUME TriggerInv, NEW a \in TriggerIds, NEW b \in TriggerIds,
           LinkOco(a, b)
    PROVE  /\ TriggerInv'
           /\ \A u \in TriggerIds : BothLegsMove(u)
           /\ MoneyWithinTerms
  <1>1. /\ trigger \in [TriggerIds -> TriggerType]
        /\ \A s \in TriggerIds : OrderSound(s, trigger[s])
        /\ cash \in Nat /\ held \in Nat /\ WorldTypes
    BY InvByOrder
  <1>2. /\ a # b
        /\ trigger' = [trigger EXCEPT ![a].oco_link = b, ![b].oco_link = a]
        /\ cash' = cash /\ held' = held /\ placed' = placed
        /\ UNCHANGED worldVars
    BY DEF LinkOco
  <1>3. /\ trigger'[a] = [trigger[a] EXCEPT !.oco_link = b]
        /\ trigger'[b] = [trigger[b] EXCEPT !.oco_link = a]
        /\ \A s \in TriggerIds \ {a, b} : trigger'[s] = trigger[s]
    BY <1>1, <1>2
  <1>4. a \in Links /\ b \in Links
    BY DEF Links
  <1>5. OrderSound(a, trigger'[a]) /\ OrderSound(b, trigger'[b])
    BY <1>1, <1>2, <1>3, <1>4, SoundWhenRelinked
  <1>6. \A s \in TriggerIds : OrderSound(s, trigger'[s])
    BY <1>1, <1>3, <1>5
  <1>7. \A s \in TriggerIds : trigger'[s].escrow = trigger[s].escrow
    BY <1>1, <1>3 DEF TriggerType
  <1>8. trigger' \in [TriggerIds -> TriggerType]
    <2>1. \A s \in TriggerIds : trigger'[s] \in TriggerType
      BY <1>6 DEF OrderSound
    <2>2. trigger' = [s \in TriggerIds |-> trigger'[s]]
      BY <1>1, <1>2
    <2>3. QED
      BY <2>1, <2>2
  <1>9. trigger[a].escrow \in Nat
    BY <1>1 DEF TriggerType
  <1>10. cash' \in Nat /\ cash' = cash + trigger[a].escrow - trigger'[a].escrow
    BY <1>1, <1>2, <1>7, <1>9
  <1>11. WorldTypes'
    BY <1>1, <1>2 DEF WorldTypes, worldVars
  <1>12. QED
    BY <1>2, <1>6, <1>7, <1>8, <1>10, <1>11, OwnerStep

LEMMA SkipStep ==
    ASSUME TriggerInv, NEW t \in TriggerIds, Skipped(t), WorldTypes'
    PROVE  /\ TriggerInv'
           /\ \A u \in TriggerIds : BothLegsMove(u)
           /\ MoneyWithinTerms
  <1>1. /\ trigger \in [TriggerIds -> TriggerType]
        /\ \A s \in TriggerIds : OrderSound(s, trigger[s])
        /\ cash \in Nat /\ held \in Nat
    BY InvByOrder
  <1>2. /\ trigger' = trigger \/ trigger' = [trigger EXCEPT ![t].oco_link = NoLink]
        /\ cash' = cash /\ held' = held
    BY DEF Skipped
  <1>3. /\ \/ trigger'[t] = trigger[t]
           \/ trigger'[t] = [trigger[t] EXCEPT !.oco_link = NoLink]
        /\ \A s \in TriggerIds \ {t} : trigger'[s] = trigger[s]
    BY <1>1, <1>2
  <1>4. NoLink \in Links /\ NoLink # t
    BY TriggerConstants DEF Links, NoLink
  <1>5. OrderSound(t, trigger'[t])
    BY <1>1, <1>3, <1>4, SoundWhenRelinked
  <1>6. \A s \in TriggerIds : OrderSound(s, trigger'[s])
    BY <1>1, <1>3, <1>5
  <1>7. \A s \in TriggerIds : trigger'[s].escrow = trigger[s].escrow
    BY <1>1, <1>3 DEF TriggerType
  <1>8. trigger' \in [TriggerIds -> TriggerType]
    <2>1. \A s \in TriggerIds : trigger'[s] \in TriggerType
      BY <1>6 DEF OrderSound
    <2>2. trigger' = [s \in TriggerIds |-> trigger'[s]]
      BY <1>1, <1>2
    <2>3. QED
      BY <2>1, <2>2
  <1>9. trigger[t].escrow \in Nat
    BY <1>1 DEF TriggerType
  <1>10. cash' \in Nat /\ cash' = cash + trigger[t].escrow - trigger'[t].escrow
    BY <1>1, <1>2, <1>7, <1>9
  <1>11. QED
    BY <1>2, <1>6, <1>7, <1>8, <1>10, OwnerStep

\* Others draw on the escrow of an open order, which is put on record.
LEMMA DrawStep ==
    ASSUME TriggerInv, NEW t \in TriggerIds,
           NEW amount \in 1..trigger[t].escrow, EscrowPaysElsewhere(t, amount)
    PROVE  /\ TriggerInv'
           /\ \A u \in TriggerIds : BothLegsMove(u)
           /\ MoneyWithinTerms
  <1>1. /\ trigger \in [TriggerIds -> TriggerType]
        /\ \A s \in TriggerIds : OrderSound(s, trigger[s])
        /\ cash \in Nat /\ held \in Nat /\ WorldTypes
    BY InvByOrder
  <1> DEFINE x == trigger[t]
             y == Drained(x, amount)
  <1>2. /\ x \in TriggerType /\ x.escrow \in Nat /\ x.open
        /\ amount \in Nat /\ amount <= x.escrow
    BY <1>1 DEF TriggerType, EscrowPaysElsewhere
  <1>3. /\ trigger' = [trigger EXCEPT ![t] = y]
        /\ cash' = cash /\ held' = held /\ placed' = placed
        /\ UNCHANGED worldVars
    BY <1>1 DEF EscrowPaysElsewhere, Drained
  <1>4. OrderSound(t, x)
    BY <1>1
  <1>5. y \in TriggerType /\ y.open = x.open /\ y.kind = x.kind
        /\ y.max_premium = x.max_premium /\ y.quantity = x.quantity
        /\ y.escrow = x.escrow - amount /\ y.oco_link = x.oco_link
        /\ y.uncounted = x.uncounted /\ y.drawn = x.drawn + amount
    <2>1. y = Drained(x, amount)
      OBVIOUS
    <2> HIDE DEF x, y
    <2>2. y \in TriggerType
      BY <1>2, <2>1, EscrowDrawn, Zenon
    <2>3. QED
      BY <1>2, <2>1, <2>2 DEF Drained, TriggerType
  <1>6. trigger'[t] = y /\ \A s \in TriggerIds \ {t} : trigger'[s] = trigger[s]
    BY <1>1, <1>3
  <1> HIDE DEF y
  <1>7. OrderSound(t, y)
    <2>1. x.drawn \in Nat /\ x.max_premium * x.uncounted \in Nat
          /\ x.max_premium * x.quantity \in Nat
      BY <1>2 DEF TriggerType
    <2>2. x.kind = "StopEntryBuy"
      BY <1>2, <1>4 DEF OrderSound
    <2> HIDE DEF x
    <2>3. x.escrow + x.drawn = (x.escrow - amount) + (x.drawn + amount)
      BY <1>2, <2>1
    <2>4. x.escrow + x.drawn + x.max_premium * x.uncounted
              >= x.max_premium * x.quantity
      BY <1>2, <1>4, <2>2 DEF OrderSound
    <2>5. QED
      BY <1>2, <1>4, <1>5, <2>2, <2>3, <2>4 DEF OrderSound
  <1>8. trigger' \in [TriggerIds -> TriggerType]
    BY <1>1, <1>3, <1>5
  <1>9. TriggerInv'
    <2>1. \A s \in TriggerIds : OrderSound(s, trigger'[s])
      BY <1>1, <1>6, <1>7
    <2>2. WorldTypes'
      BY <1>1, <1>3 DEF WorldTypes, worldVars
    <2>3. QED
      BY <1>1, <1>3, <1>8, <2>1, <2>2, InvFromOrders
  <1>10. \A u \in TriggerIds : BothLegsMove(u)
    BY <1>3 DEF BothLegsMove
  <1>11. MoneyWithinTerms
    <2>1. /\ OwnersDollars \in Nat /\ OwnersDollars' \in Nat
          /\ OwnersDollars' = OwnersDollars + (cash' - cash)
                                + (trigger'[t].escrow - trigger[t].escrow)
      <3>1. \A s \in TriggerIds \ {t} : trigger'[s].escrow = trigger[s].escrow
        BY <1>6
      <3>2. cash' \in Nat
        BY <1>1, <1>3
      <3>3. QED
        BY <1>1, <1>8, <3>1, <3>2, DollarsChange
    <2> DEFINE before == OwnersDollars
               after == OwnersDollars'
    <2>2. /\ before \in Nat /\ after \in Nat
          /\ after = before + (cash' - cash) + (y.escrow - x.escrow)
      BY <1>6, <2>1
    <2> HIDE DEF before, after
    <2>3. before - after = amount
      BY <1>1, <1>2, <1>3, <1>5, <2>2
    <2>4. DrawnFrom(t, OwnersDollars - OwnersDollars')
      BY <1>2, <1>5, <1>6, <2>3 DEF DrawnFrom, before, after
    <2>5. QED
      BY <1>1, <1>3, <2>4 DEF MoneyWithinTerms
  <1>12. QED
    BY <1>9, <1>10, <1>11

LEMMA InvNext ==
    ASSUME TriggerInv, TriggerNext \/ UNCHANGED triggerVars
    PROVE  /\ TriggerInv'
           /\ \A u \in TriggerIds : BothLegsMove(u)
           /\ MoneyWithinTerms
  <1>1. CASE TriggerWorld \/ UNCHANGED triggerVars
    BY <1>1, WorldStep
  <1>2. CASE OwnerActs
    BY <1>2, PlaceStep, CancelStep, LinkStep DEF OwnerActs
  <1>3. CASE AnyoneExecutes
    <2>1. PICK t \in TriggerIds, route \in Routes, peer \in Links :
              ExecuteTrigger(t, route, peer)
      BY <1>3 DEF AnyoneExecutes, Links
    <2>2. WorldTypes' /\ (Skipped(t) \/ Fires(t, peer))
      BY <2>1, ExecuteSkipsOrFires
    <2>3. QED
      BY <2>2, SkipStep, FireStep
  <1>4. CASE EscrowsPayElsewhere
    BY <1>4, DrawStep DEF EscrowsPayElsewhere
  <1>5. QED
    BY <1>1, <1>2, <1>3, <1>4 DEF TriggerNext

LEMMA TriggersAlways == TriggerSpec => []TriggerInv
  <1>1. TriggerInv /\ [TriggerNext]_triggerVars => TriggerInv'
    BY InvNext
  <1>2. QED
    BY <1>1, InvInit, PTL DEF TriggerSpec

-----------------------------------------------------------------------------
(* The theorems. *)

\* Every variable has its type.
THEOREM TriggerTypesCorrect == TriggerSpec => []TriggerTypeOK
  <1>1. TriggerInv => TriggerTypeOK
    BY DEF TriggerInv
  <1>2. QED
    BY <1>1, TriggersAlways, PTL

\* However often an order is filled in part or cut with its sibling, an open
\* buy's escrow lacks nothing of its ceiling for all that is left but what other
\* calls drew from it, and the ceiling of what it fired uncounted
\* (execute_trigger.rs).
THEOREM CeilingsAreFunded == TriggerSpec => []EscrowCoversCeiling
  <1>1. TriggerInv => EscrowCoversCeiling
    BY DEF TriggerInv
  <1>2. QED
    BY <1>1, TriggersAlways, PTL

\* A fire takes its contracts from both legs of a pair (execute_trigger.rs).
THEOREM PairsMoveTogether == TriggerSpec => OcoMovesBothLegs
  <1> DEFINE Pair == \A t \in TriggerIds : BothLegsMove(t)
  <1>1. TriggerInv /\ [TriggerNext]_triggerVars => [Pair]_triggerVars
    BY InvNext
  <1>2. QED
    BY <1>1, TriggersAlways, PTL DEF TriggerSpec, OcoMovesBothLegs

\* Whoever executes, with whatever accounts and on whatever it believed, the
\* owner pays at most its ceiling and gets at least its floor or the intrinsic
\* value, for at most the contracts of an order whose condition holds
\* (execute_trigger.rs); a fire that is not counted, and a draw, are on record.
THEOREM TermsAlwaysHold == TriggerSpec => OwnersTermsHold
  <1>1. TriggerInv /\ [TriggerNext]_triggerVars => [MoneyWithinTerms]_triggerVars
    BY InvNext
  <1>2. QED
    BY <1>1, TriggersAlways, PTL DEF TriggerSpec, OwnersTermsHold
=============================================================================
