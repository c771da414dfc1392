------------------------- MODULE SeriesMarketProofs -------------------------
(***************************************************************************)
(* Theorems about what trades around a series.  The market maker, for any  *)
(* series, model prices, bounds and crashes: a bid pass that ends with its *)
(* cancels landed leaves no bid within the guard of an ask, if the spreads *)
(* are wide enough for the drift that is tolerated; and the bids the bot   *)
(* knows of never cost more than its cap.  And the three parts beside each *)
(* other: what holds of each alone holds of all.                           *)
(***************************************************************************)
EXTENDS MCSeriesMarket, TriggersProofs, VolOracleProofs, WellFoundedInduction

-----------------------------------------------------------------------------
(* Sums.  The least member of a set of naturals, and a smallest one among     *)
(* finite sets, stand in for induction.                                       *)

LEMMA LeastNatural ==
    ASSUME NEW T, T \subseteq Nat, T # {}
    PROVE  \E n \in T : \A m \in T : n <= m
  <1> DEFINE R == OpToRel(<, Nat)
  <1>1. IsWellFoundedOn(R, Nat)
    BY NatLessThanWellFounded
  <1>2. \A m, n \in Nat : m < n => <<m, n>> \in R
    BY DEF OpToRel
  <1> HIDE DEF R
  <1>3. \E n \in T : \A m \in T : ~ (<<m, n>> \in R)
    BY <1>1, WFMin
  <1>4. PICK n \in T : \A m \in T : ~ (<<m, n>> \in R)
    BY <1>3
  <1>5. ASSUME NEW m \in T PROVE n <= m
    <2>1. m \in Nat /\ n \in Nat /\ ~(m < n)
      BY <1>2, <1>4
    <2>2. QED
      BY <2>1
  <1>6. QED
    BY <1>5

\* Among finite sets there is one with no proper subset among them.
LEMMA SmallestSet ==
    ASSUME NEW F, \A s \in F : IsFiniteSet(s), F # {}
    PROVE  \E s \in F : \A t \in F : t \subseteq s => t = s
  <1> DEFINE T == {Cardinality(s) : s \in F}
  <1>1. T \subseteq Nat /\ T # {}
    BY FS_CardinalityType
  <1> HIDE DEF T
  <1>2. PICK n \in T : \A m \in T : n <= m
    BY <1>1, LeastNatural
  <1>3. PICK s \in F : Cardinality(s) = n
    BY <1>2 DEF T
  <1>4. ASSUME NEW t \in F, t \subseteq s PROVE t = s
    <2>1. Cardinality(t) <= Cardinality(s) /\ Cardinality(s) <= Cardinality(t)
      BY <1>2, <1>3, <1>4, FS_Subset DEF T
    <2>2. Cardinality(t) \in Nat /\ Cardinality(s) \in Nat
      BY <1>4, FS_CardinalityType
    <2>3. Cardinality(s) = Cardinality(t)
      BY <2>1, <2>2
    <2>4. QED
      BY <1>4, <2>3, FS_Subset
  <1>5. QED
    BY <1>4

Cost(o) == o.price * o.quantity

Pick(s) == CHOOSE x \in s : TRUE

\* What the fold of Notional defines, on the subsets of a set of orders.
IsSum(g, orders) ==
    g = [s \in SUBSET orders |->
            IF s = {} THEN 0 ELSE Cost(Pick(s)) + g[s \ {Pick(s)}]]

LEMMA NotionalIs ==
    ASSUME NEW orders
    PROVE  Notional(orders) = (CHOOSE g : IsSum(g, orders))[orders]
  BY DEF Notional, MapThenSumSet, MapThenFoldSet, IsSum, Cost, Pick

LEMMA PickIn == ASSUME NEW s, s # {} PROVE Pick(s) \in s /\ s \ {Pick(s)} # s
  BY DEF Pick

LEMMA SumAt ==
    ASSUME NEW g, NEW orders, IsSum(g, orders), NEW s \in SUBSET orders
    PROVE  g[s] = IF s = {} THEN 0 ELSE Cost(Pick(s)) + g[s \ {Pick(s)}]
  <1> DEFINE body(u) == IF u = {} THEN 0 ELSE Cost(Pick(u)) + g[u \ {Pick(u)}]
  <1>1. g = [u \in SUBSET orders |-> body(u)]
    BY DEF IsSum
  <1> HIDE DEF body
  <1>2. g[s] = body(s)
    BY <1>1
  <1>3. QED
    BY <1>2 DEF body

\* There is at most one such sum.
LEMMA SumsAgree ==
    ASSUME NEW g, NEW h, NEW S, NEW T, IsFiniteSet(S), IsSum(g, S), IsSum(h, T),
           NEW r, r \subseteq S, r \subseteq T
    PROVE  g[r] = h[r]
  <1> DEFINE F == {s \in SUBSET S : s \subseteq T /\ g[s] # h[s]}
  <1> SUFFICES ASSUME F # {} PROVE FALSE
    OBVIOUS
  <1>1. \A s \in F : IsFiniteSet(s)
    BY FS_Subset
  <1> HIDE DEF F
  <1>2. PICK s \in F : \A t \in F : t \subseteq s => t = s
    BY <1>1, SmallestSet
  <1>3. s \in SUBSET S /\ s \in SUBSET T /\ g[s] # h[s]
    BY DEF F
  <1>4. /\ g[s] = IF s = {} THEN 0 ELSE Cost(Pick(s)) + g[s \ {Pick(s)}]
        /\ h[s] = IF s = {} THEN 0 ELSE Cost(Pick(s)) + h[s \ {Pick(s)}]
    BY <1>3, SumAt
  <1>5. s # {}
    BY <1>3, <1>4
  <1>6. s \ {Pick(s)} \notin F
    BY <1>2, <1>5, PickIn
  <1>7. g[s \ {Pick(s)}] = h[s \ {Pick(s)}]
    BY <1>3, <1>6 DEF F
  <1>8. QED
    BY <1>3, <1>4, <1>7

\* There is one on every finite set.
LEMMA SumExists ==
    ASSUME NEW orders, IsFiniteSet(orders)
    PROVE  \E g : IsSum(g, orders)
  <1> DEFINE F == {s \in SUBSET orders : ~\E g : IsSum(g, s)}
  <1> SUFFICES ASSUME F # {} PROVE FALSE
    OBVIOUS
  <1>1. \A s \in F : IsFiniteSet(s)
    BY FS_Subset
  <1> HIDE DEF F
  <1>2. PICK s \in F : \A t \in F : t \subseteq s => t = s
    BY <1>1, SmallestSet
  <1>3. s \in SUBSET orders /\ ~\E g : IsSum(g, s)
    BY DEF F
  <1> DEFINE body(u) == IF u = {} THEN 0 ELSE Cost(Pick(u)) + Notional(u \ {Pick(u)})
             g == [u \in SUBSET s |-> body(u)]
  <1>4. ASSUME NEW u \in SUBSET s, u # s PROVE Notional(u) = body(u)
    <2>1. \E h : IsSum(h, u)
      BY <1>2, <1>3, <1>4 DEF F
    <2> DEFINE h == CHOOSE f : IsSum(f, u)
    <2>2. IsSum(h, u)
      BY <2>1
    <2>3. Notional(u) = h[u]
      BY NotionalIs
    <2> HIDE DEF h
    <2>4. h[u] = IF u = {} THEN 0 ELSE Cost(Pick(u)) + h[u \ {Pick(u)}]
      BY <2>2, SumAt
    <2>5. CASE u = {}
      BY <2>3, <2>4, <2>5
    <2>6. CASE u # {}
      <3> DEFINE v == u \ {Pick(u)}
      <3>1. v \in SUBSET s /\ v # s /\ v \subseteq u
        BY <1>4
      <3>2. \E f : IsSum(f, v)
        BY <1>2, <1>3, <3>1 DEF F
      <3> DEFINE f == CHOOSE f : IsSum(f, v)
      <3>3. IsSum(f, v)
        BY <3>2
      <3>4. Notional(v) = f[v]
        BY NotionalIs
      <3> HIDE DEF f
      <3>5. IsFiniteSet(v)
        BY <1>3, <3>1, FS_Subset
      <3> HIDE DEF v
      <3>6. f[v] = h[v]
        BY <2>2, <3>1, <3>3, <3>5, SumsAgree
      <3>7. QED
        BY <2>3, <2>4, <2>6, <3>4, <3>6 DEF v
    <2>7. QED
      BY <2>5, <2>6
  <1>5. ASSUME NEW u \in SUBSET s
        PROVE  body(u) = IF u = {} THEN 0 ELSE Cost(Pick(u)) + g[u \ {Pick(u)}]
    <2>1. CASE u = {}
      BY <2>1
    <2>2. CASE u # {}
      <3> DEFINE v == u \ {Pick(u)}
      <3>1. v \in SUBSET s /\ v # s
        BY <2>2, PickIn
      <3>2. g[v] = body(v) /\ Notional(v) = body(v)
        BY <1>4, <3>1
      <3> HIDE DEF g
      <3>3. QED
        BY <2>2, <3>2 DEF body
    <2>3. QED
      BY <2>1, <2>2
  <1> HIDE DEF body
  <1>6. g = [u \in SUBSET s |->
               IF u = {} THEN 0 ELSE Cost(Pick(u)) + g[u \ {Pick(u)}]]
    BY <1>5, Zenon
  <1>7. IsSum(g, s)
    BY <1>6, Zenon DEF IsSum
  <1>8. QED
    BY <1>3, <1>7

\* The sum over orders: nothing for none, else that of one and that of the rest.
LEMMA NotionalUnfolds ==
    ASSUME NEW S, IsFiniteSet(S)
    PROVE  Notional(S) = IF S = {} THEN 0
                         ELSE Cost(Pick(S)) + Notional(S \ {Pick(S)})
  <1> DEFINE g == CHOOSE f : IsSum(f, S)
             R == S \ {Pick(S)}
             h == CHOOSE f : IsSum(f, R)
  <1>1. IsFiniteSet(R)
    BY FS_Subset
  <1>2. IsSum(g, S) /\ IsSum(h, R)
    <2>1. (\E f : IsSum(f, S)) /\ (\E f : IsSum(f, R))
      BY <1>1, SumExists
    <2>2. QED
      BY <2>1
  <1>3. Notional(S) = g[S] /\ Notional(R) = h[R]
    BY NotionalIs
  <1> HIDE DEF g, h
  <1>4. g[S] = IF S = {} THEN 0 ELSE Cost(Pick(S)) + g[R]
    BY <1>2, SumAt
  <1>5. g[R] = h[R]
    BY <1>1, <1>2, SumsAgree
  <1>6. QED
    BY <1>3, <1>4, <1>5

\* Orders that cost something, each of them known.
Priced(S) == IsFiniteSet(S) /\ \A o \in S : Cost(o) \in Nat

LEMMA NotionalNat == ASSUME NEW S, Priced(S) PROVE Notional(S) \in Nat
  <1> DEFINE F == {s \in SUBSET S : Notional(s) \notin Nat}
  <1> SUFFICES ASSUME F # {} PROVE FALSE
    OBVIOUS
  <1>1. \A s \in F : IsFiniteSet(s)
    BY FS_Subset DEF Priced
  <1> HIDE DEF F
  <1>2. PICK s \in F : \A t \in F : t \subseteq s => t = s
    BY <1>1, SmallestSet
  <1>3. s \in SUBSET S /\ Notional(s) \notin Nat
    BY DEF F
  <1>4. Notional(s) = IF s = {} THEN 0 ELSE Cost(Pick(s)) + Notional(s \ {Pick(s)})
    BY <1>1, NotionalUnfolds
  <1>5. s # {}
    BY <1>3, <1>4
  <1>6. Pick(s) \in S /\ s \ {Pick(s)} \notin F
    BY <1>2, <1>3, <1>5, PickIn
  <1>7. Cost(Pick(s)) \in Nat /\ Notional(s \ {Pick(s)}) \in Nat
    BY <1>3, <1>6 DEF F, Priced
  <1>8. QED
    BY <1>3, <1>4, <1>5, <1>7

\* Any one order may be taken out of the sum.
LEMMA NotionalLess ==
    ASSUME NEW S, Priced(S), NEW x \in S
    PROVE  /\ Priced(S \ {x})
           /\ Notional(S) = Cost(x) + Notional(S \ {x})
  <1> DEFINE F == {s \in SUBSET S : \E y \in s : Notional(s) # Cost(y) + Notional(s \ {y})}
  <1>1. \A s \in SUBSET S : Priced(s)
    BY FS_Subset DEF Priced
  <1> SUFFICES ASSUME F # {} PROVE FALSE
    BY <1>1
  <1>2. \A s \in F : IsFiniteSet(s)
    BY <1>1 DEF Priced
  <1> HIDE DEF F
  <1>3. PICK s \in F : \A t \in F : t \subseteq s => t = s
    BY <1>2, SmallestSet
  <1>4. s \in SUBSET S
    BY DEF F
  <1>5. PICK y \in s : Notional(s) # Cost(y) + Notional(s \ {y})
    BY DEF F
  <1> DEFINE p == Pick(s)
             rest == (s \ {p}) \ {y}
  <1>6. s # {} /\ p \in s
    BY <1>5, PickIn
  <1>7. IsFiniteSet(s)
    BY <1>2
  <1>8. Notional(s) = Cost(p) + Notional(s \ {p})
    BY <1>6, <1>7, NotionalUnfolds
  <1> HIDE DEF p
  <1>9. p # y
    BY <1>5, <1>8
  <1>10. /\ s \ {p} \in SUBSET S /\ s \ {y} \in SUBSET S
         /\ s \ {p} # s /\ s \ {y} # s
         /\ y \in s \ {p} /\ p \in s \ {y}
         /\ (s \ {y}) \ {p} = rest
    BY <1>4, <1>5, <1>6, <1>9
  <1>11. s \ {p} \notin F /\ s \ {y} \notin F
    BY <1>3, <1>10
  <1>12. /\ Notional(s \ {p}) = Cost(y) + Notional(rest)
         /\ Notional(s \ {y}) = Cost(p) + Notional(rest)
    BY <1>10, <1>11 DEF F
  <1>13. Cost(p) \in Nat /\ Cost(y) \in Nat /\ Notional(rest) \in Nat
    <2>1. p \in S /\ y \in S /\ rest \in SUBSET S
      BY <1>4, <1>5, <1>6
    <2>2. QED
      BY <1>1, <2>1, NotionalNat DEF Priced
  <1>14. QED
    BY <1>5, <1>8, <1>12, <1>13

LEMMA NotionalOfNone == Notional({}) = 0
  BY NotionalUnfolds, FS_EmptySet

LEMMA NotionalMore ==
    ASSUME NEW S, Priced(S), NEW x, x \notin S, Cost(x) \in Nat
    PROVE  Priced(S \cup {x}) /\ Notional(S \cup {x}) = Notional(S) + Cost(x)
  <1>1. Priced(S \cup {x}) /\ (S \cup {x}) \ {x} = S
    BY FS_AddElement DEF Priced
  <1>2. Notional(S \cup {x}) = Cost(x) + Notional(S)
    BY <1>1, NotionalLess
  <1>3. QED
    BY <1>1, <1>2, NotionalNat

\* The same order, perhaps with more left of it.
SameKey(o, p) == p.cell = o.cell /\ p.nonce = o.nonce

UniqueKeys(S) == \A o, p \in S : SameKey(o, p) => o = p

\* Orders that are, one for one, no smaller than others cost no less.
LEMMA NotionalDominated ==
    ASSUME NEW S, NEW T, Priced(S), Priced(T), UniqueKeys(S), UniqueKeys(T),
           \A o \in S : \E p \in T : SameKey(o, p) /\ Cost(o) <= Cost(p)
    PROVE  Notional(S) <= Notional(T)
  <1> DEFINE Match(o) == CHOOSE p \in T : SameKey(o, p) /\ Cost(o) <= Cost(p)
             Image(s) == {Match(o) : o \in s}
             F == {s \in SUBSET S : ~(Notional(s) <= Notional(Image(s)))}
  <1>1. ASSUME NEW o \in S
        PROVE  Match(o) \in T /\ SameKey(o, Match(o)) /\ Cost(o) <= Cost(Match(o))
    OBVIOUS
  <1>2. \A o, q \in S : Match(o) = Match(q) => o = q
    BY <1>1 DEF UniqueKeys, SameKey
  <1> HIDE DEF Match
  <1>3. \A s \in SUBSET S : Priced(s) /\ Image(s) \in SUBSET T
    BY <1>1, FS_Subset DEF Priced
  <1>4. \A t \in SUBSET T : Priced(t) /\ Notional(t) \in Nat
    BY FS_Subset, NotionalNat DEF Priced
  <1>5. F = {}
    <2> SUFFICES ASSUME F # {} PROVE FALSE
      OBVIOUS
    <2>1. \A s \in F : IsFiniteSet(s)
      BY <1>3 DEF Priced
    <2> HIDE DEF F
    <2>2. PICK s \in F : \A t \in F : t \subseteq s => t = s
      BY <2>1, SmallestSet
    <2>3. s \in SUBSET S /\ ~(Notional(s) <= Notional(Image(s)))
      BY DEF F
    <2>4. CASE s = {}
      <3>1. Image(s) = {}
        BY <2>4
      <3>2. QED
        BY <2>3, <2>4, <3>1, NotionalOfNone
    <2>5. CASE s # {}
      <3>1. PICK o \in s : TRUE
        BY <2>5
      <3>2. Image(s \ {o}) = Image(s) \ {Match(o)} /\ Match(o) \in Image(s)
        BY <1>2, <2>3, <3>1
      <3>3. s \ {o} \notin F /\ s \ {o} \in SUBSET S
        BY <2>2, <2>3, <3>1
      <3>4. Notional(s \ {o}) <= Notional(Image(s \ {o}))
        BY <3>3 DEF F
      <3> HIDE DEF Image
      <3>5. /\ Notional(s) = Cost(o) + Notional(s \ {o})
            /\ Notional(Image(s)) = Cost(Match(o)) + Notional(Image(s) \ {Match(o)})
        BY <1>3, <1>4, <2>3, <3>1, <3>2, NotionalLess
      <3>6. Cost(o) \in Nat /\ Cost(Match(o)) \in Nat /\ Cost(o) <= Cost(Match(o))
        BY <1>1, <2>3 DEF Priced
      <3>7. Notional(s \ {o}) \in Nat /\ Notional(Image(s) \ {Match(o)}) \in Nat
        BY <1>3, <1>4, <3>2, <3>3, NotionalNat
      <3>8. QED
        BY <2>3, <3>2, <3>4, <3>5, <3>6, <3>7
    <2>6. QED
      BY <2>4, <2>5
  <1>6. Notional(S) <= Notional(Image(S))
    BY <1>5
  <1>7. Image(S) \in SUBSET T
    BY <1>3
  <1> HIDE DEF Image, F
  <1>8. Notional(Image(S)) <= Notional(T)
    <2> DEFINE I == Image(S)
               G == {t \in SUBSET T : I \subseteq t /\ ~(Notional(I) <= Notional(t))}
    <2> SUFFICES ASSUME G # {} PROVE FALSE
      BY <1>7
    <2>1. \A t \in G : IsFiniteSet(t)
      BY <1>4 DEF Priced
    <2> HIDE DEF G
    <2>2. PICK t \in G : \A u \in G : u \subseteq t => u = t
      BY <2>1, SmallestSet
    <2>3. t \in SUBSET T /\ I \subseteq t /\ ~(Notional(I) <= Notional(t))
      BY DEF G
    <2>4. Notional(I) \in Nat /\ Notional(t) \in Nat
      BY <1>4, <1>7, <2>3
    <2>5. PICK x \in t : x \notin I
      BY <2>3, <2>4
    <2>6. t \ {x} \notin G /\ t \ {x} \in SUBSET T /\ I \subseteq t \ {x}
      BY <2>2, <2>3, <2>5
    <2>7. Notional(I) <= Notional(t \ {x})
      BY <2>6 DEF G
    <2>8. Notional(t) = Cost(x) + Notional(t \ {x})
      BY <1>4, <2>3, NotionalLess
    <2>9. Cost(x) \in Nat /\ Notional(t \ {x}) \in Nat
      BY <1>4, <2>3, <2>6 DEF Priced
    <2>10. QED
      BY <2>3, <2>4, <2>7, <2>8, <2>9
  <1>9. Notional(S) \in Nat /\ Notional(Image(S)) \in Nat /\ Notional(T) \in Nat
    BY <1>4, <1>7, NotionalNat
  <1>10. QED
    BY <1>6, <1>8, <1>9

-----------------------------------------------------------------------------
(* The invariant. *)

\* p is the order o as it was when it was read: only contracts went since.
Covers(p, o) ==
    /\ SameKey(o, p)
    /\ p.price = o.price /\ p.side = o.side /\ p.stray = o.stray
    /\ o.quantity <= p.quantity

\* The bot's orders on one side, but for those it takes for failed.
KnownOf(book, side) == {o \in book : o.side = side /\ ~o.stray}
Known(side) == KnownOf(resting, side)

\* No nonce is used twice on a series, no nonce is above the counter, and the
\* newest order of a side on a series is the one the bot knows of, if any.
BookInv ==
    /\ resting \subseteq OrderType /\ IsFiniteSet(resting)
    /\ UniqueKeys(resting)
    /\ nonce \in 0..MaxPosts
    /\ \A o \in resting : o.nonce <= nonce
    /\ \A o, p \in resting :
           ~o.stray /\ p.cell = o.cell /\ p.side = o.side => p.nonce <= o.nonce

\* A list that was read has no key twice.
ListOK(list, side) ==
    /\ list \subseteq OrderType /\ IsFiniteSet(list) /\ UniqueKeys(list)
    /\ \A o \in list : o.side = side

\* What rests on the cells still to come was there when the list was read, and
\* a known order was the newest then.
Listed(book, list, side, cells) ==
    \A o \in book :
        o.side = side /\ o.cell \in cells =>
            /\ \E p \in list : Covers(p, o)
            /\ ~o.stray => \A q \in list : q.cell = o.cell => q.nonce <= o.nonce

ListsInv ==
    /\ ListOK(myOrders, "ask") /\ ListOK(myBids, "bid")
    /\ phase = "asks" => Listed(resting, myOrders, "ask", todo)
    /\ phase = "bids" => Listed(resting, myBids, "bid", todo)

\* A bid hangs on an ask that rests at the price the bot noted, near the price
\* it wants at the model price it noted.
Anchored(book, anchors, c) ==
    anchors[c] # NoAnchor =>
        /\ anchors[c].mark \in Marks
        /\ ~DriftsBeyond(AskPrice(anchors[c].mark), anchors[c].price, DriftLimit)
        /\ \A a \in KnownOf(book, "ask") : a.cell = c => a.price = anchors[c].price

AnchorsInv ==
    /\ \A c \in Cells : Anchored(resting, outcomes, c)
    /\ phase = "asks" => \A c \in todo : outcomes[c] = NoAnchor

\* What the bids cost at most: as they were read, on the cells to come, and as
\* they rest, on the others.
Ledger(book, list, cells) ==
    {p \in list : p.cell \in cells} \cup {b \in KnownOf(book, "bid") : b.cell \notin cells}

MoneyInv ==
    /\ Notional(Known("bid")) <= MaxBidNotional
    /\ exposure \in Nat
    /\ phase = "bids" => Notional(Ledger(resting, myBids, todo)) <= exposure

ControlInv ==
    /\ phase \in {"asleep", "asks", "bids"}
    /\ ladder \subseteq Cells /\ todo \subseteq ladder
    /\ phase = "asleep" => todo = {} /\ outcomes = NoOutcomes
    /\ clean \in BOOLEAN
    /\ outcomes \in [Cells -> AnchorType]
    /\ failCounts \in [Cells -> 0..FailLimit]

BotInv == BookInv /\ ListsInv /\ AnchorsInv /\ MoneyInv /\ ControlInv

\* A bid near its price and an ask near its price do not cross: the spreads are
\* wide enough for a drift of both.
SpreadsCoverDrift ==
    1000 * (1000 - BidSpread) * (1000 + DriftLimit)
        <= (1000 - CrossGuard) * (1000 + AskSpread) * (1000 - DriftLimit)

\* No known bid crosses a known ask, on the cells the bid pass is done with.
CrossInv ==
    clean /\ phase # "asks" =>
        \A a \in Known("ask"), b \in Known("bid") :
            a.cell = b.cell /\ a.cell \notin todo => ~CrossesAsk(b.price, a.price)

LEMMA BotConstants ==
    /\ IsFiniteSet(Cells)
    /\ Marks \subseteq Nat \ {0}
    /\ AskSpread \in Nat /\ AskSpread <= 600
    /\ CrossGuard \in Nat /\ CrossGuard <= 1000
    /\ DriftLimit \in Nat /\ Epsilon \in Nat
    /\ AskQty \in Nat \ {0} /\ BidQty \in Nat \ {0}
    /\ MaxBidNotional \in Nat /\ FailLimit \in Nat \ {0}
    /\ MaxPosts \in Nat /\ MaxStrays \in Nat
  BY BotAssumption

LEMMA SpreadTypes ==
    /\ BidSpread \in Nat /\ BidSpread <= 1000
    /\ \A mark \in Marks : AskPrice(mark) \in Nat /\ BidPrice(mark) \in Nat
  <1>1. BidSpread \in Nat /\ BidSpread <= 1000
    BY BotConstants DEF BidSpread
  <1>2. ASSUME NEW mark \in Marks PROVE AskPrice(mark) \in Nat /\ BidPrice(mark) \in Nat
    <2>1. mark \in Nat /\ 1000 + AskSpread \in Nat /\ 1000 - BidSpread \in Nat
      BY <1>1, BotConstants
    <2> DEFINE a == 1000 + AskSpread
               b == 1000 - BidSpread
    <2> HIDE DEF a, b
    <2>2. mark * a \in Nat /\ mark * b \in Nat
      BY <2>1 DEF a, b
    <2>3. QED
      BY <2>2 DEF AskPrice, BidPrice, a, b
  <1>3. QED
    BY <1>1, <1>2

LEMMA CostNat == ASSUME NEW o \in OrderType PROVE Cost(o) \in Nat
  <1>1. \A m, n \in Nat : m * n \in Nat
    OBVIOUS
  <1>2. QED
    BY <1>1 DEF OrderType, Cost

LEMMA CoverCostsMore ==
    ASSUME NEW o \in OrderType, NEW p \in OrderType, Covers(p, o)
    PROVE  Cost(o) <= Cost(p)
  <1>1. \A m, n, k \in Nat : n <= k => m * n <= m * k
    OBVIOUS
  <1>2. o.price \in Nat /\ o.quantity \in Nat /\ p.quantity \in Nat
    BY DEF OrderType
  <1>3. QED
    BY <1>1, <1>2 DEF Covers, Cost

LEMMA OrdersPriced ==
    ASSUME NEW S, S \subseteq OrderType, IsFiniteSet(S)
    PROVE  Priced(S)
  BY CostNat DEF Priced

\* The orders of one book, each covered by one of another, cost no more.
LEMMA CoveredCostsLess ==
    ASSUME NEW S, NEW T, S \subseteq OrderType, T \subseteq OrderType,
           IsFiniteSet(S), IsFiniteSet(T), UniqueKeys(S), UniqueKeys(T),
           \A o \in S : \E p \in T : Covers(p, o)
    PROVE  Notional(S) <= Notional(T)
  <1>1. \A o \in S : \E p \in T : SameKey(o, p) /\ Cost(o) <= Cost(p)
    BY CoverCostsMore DEF Covers
  <1>2. QED
    BY <1>1, OrdersPriced, NotionalDominated

LEMMA CoversItself == ASSUME NEW o \in OrderType PROVE Covers(o, o)
  BY DEF Covers, SameKey, OrderType

LEMMA CoversTransitive ==
    ASSUME NEW o \in OrderType, NEW p \in OrderType, NEW q \in OrderType,
           Covers(p, o), Covers(q, p)
    PROVE  Covers(q, o)
  BY DEF Covers, SameKey, OrderType

\* Of what was read on a series, the newest is one order, if there was any.
LEMMA ExistingIsOne ==
    ASSUME NEW list, NEW side, ListOK(list, side), NEW c
    PROVE  /\ Existing(c, list) \subseteq list
           /\ \A o, p \in Existing(c, list) : o = p
           /\ \A o \in list : o.cell = c => Existing(c, list) # {}
  <1>1. \A o \in list : o \in OrderType /\ o.nonce \in 0..MaxPosts
    BY DEF ListOK, OrderType
  <1>2. ASSUME NEW o \in Existing(c, list), NEW p \in Existing(c, list) PROVE o = p
    <2>1. o \in list /\ p \in list /\ o.cell = c /\ p.cell = c
          /\ o.nonce <= p.nonce /\ p.nonce <= o.nonce
      BY DEF Existing
    <2>2. o.nonce = p.nonce
      BY <1>1, <2>1
    <2>3. QED
      BY <2>1, <2>2 DEF ListOK, UniqueKeys, SameKey
  <1>3. ASSUME NEW o \in list, o.cell = c PROVE Existing(c, list) # {}
    <2> DEFINE T == {MaxPosts - p.nonce : p \in {q \in list : q.cell = c}}
    <2>1. T \subseteq Nat /\ T # {}
      BY <1>1, <1>3, BotConstants
    <2> HIDE DEF T
    <2>2. PICK n \in T : \A m \in T : n <= m
      BY <2>1, LeastNatural
    <2>3. PICK p \in list : p.cell = c /\ n = MaxPosts - p.nonce
      BY <2>2 DEF T
    <2>4. ASSUME NEW q \in list, q.cell = c PROVE q.nonce <= p.nonce
      <3>1. n <= MaxPosts - q.nonce
        BY <2>2, <2>4 DEF T
      <3>2. QED
        BY <1>1, <2>3, <3>1, BotConstants
    <2>5. p \in Existing(c, list)
      BY <2>3, <2>4 DEF Existing
    <2>6. QED
      BY <2>5
  <1>4. QED
    BY <1>2, <1>3 DEF Existing

\* A known order on a cell to come is the newest of those that were read, and
\* is among those that a cancel of it would take off the book.
LEMMA KnownIsExisting ==
    ASSUME BookInv, NEW list, NEW side, ListOK(list, side), NEW cells, NEW c \in cells,
           Listed(resting, list, side, cells),
           NEW o \in Known(side), o.cell = c
    PROVE  /\ \E p \in Existing(c, list) : Covers(p, o)
           /\ o \in StillLive(Existing(c, list))
  <1>1. /\ o \in resting /\ o.side = side /\ ~o.stray
    BY DEF Known, KnownOf
  <1>2. PICK p \in list : Covers(p, o)
    BY <1>1 DEF Listed
  <1>3. p.cell = c /\ \A q \in list : q.cell = c => q.nonce <= p.nonce
    BY <1>1, <1>2 DEF Listed, Covers, SameKey
  <1>4. p \in Existing(c, list)
    BY <1>3 DEF Existing
  <1>5. QED
    BY <1>1, <1>2, <1>4 DEF StillLive, Covers, SameKey

-----------------------------------------------------------------------------
(* What an action does to the book. *)

\* One book after contracts and orders went from another.
Shrunk(old, new) ==
    /\ new \subseteq OrderType /\ IsFiniteSet(new) /\ UniqueKeys(new)
    /\ \A o \in new : \E p \in old : Covers(p, o)

LEMMA ShrunkKeepsBook ==
    ASSUME BookInv, Shrunk(resting, resting'), UNCHANGED nonce
    PROVE  BookInv'
  <1>1. ASSUME NEW o \in resting' PROVE o.nonce <= nonce'
    <2>1. PICK p \in resting : Covers(p, o)
      BY DEF Shrunk
    <2>2. QED
      BY <2>1 DEF BookInv, Covers, SameKey
  <1>2. ASSUME NEW o \in resting', NEW p \in resting',
               ~o.stray, p.cell = o.cell, p.side = o.side
        PROVE  p.nonce <= o.nonce
    <2>1. PICK a \in resting : Covers(a, o)
      BY DEF Shrunk
    <2>2. PICK b \in resting : Covers(b, p)
      BY DEF Shrunk
    <2>3. a.cell = o.cell /\ a.side = o.side /\ a.stray = o.stray /\ a.nonce = o.nonce
          /\ b.cell = p.cell /\ b.side = p.side /\ b.nonce = p.nonce
      BY <2>1, <2>2 DEF Covers, SameKey
    <2>4. b.nonce <= a.nonce
      BY <1>2, <2>3 DEF BookInv
    <2>5. QED
      BY <2>3, <2>4
  <1>3. QED
    BY <1>1, <1>2 DEF BookInv, Shrunk

LEMMA PartOfBook ==
    ASSUME BookInv, NEW book \in SUBSET resting
    PROVE  Shrunk(resting, book)
  <1>1. IsFiniteSet(book)
    BY FS_Subset DEF BookInv
  <1>2. book \subseteq OrderType /\ UniqueKeys(book)
    BY DEF BookInv, UniqueKeys
  <1>3. \A o \in book : Covers(o, o)
    BY <1>2, CoversItself
  <1>4. QED
    BY <1>1, <1>2, <1>3 DEF Shrunk

\* A cancel leaves a part of the book.
LEMMA PullsShrink ==
    ASSUME BookInv, NEW list, NEW kept, Pulls(list, kept)
    PROVE  Shrunk(resting, resting') /\ resting' \subseteq resting
  <1>1. resting' \subseteq resting
    BY DEF Pulls
  <1>2. QED
    BY <1>1, PartOfBook

\* A fill takes a contract of one order, or the order.
LEMMA TradesShrink == ASSUME BookInv, Trades PROVE Shrunk(resting, resting')
  <1>1. PICK o \in resting :
            resting' = (resting \ {o}) \cup
                {p \in {[o EXCEPT !.quantity = @ - 1]} : p.quantity > 0}
    BY DEF Trades
  <1> DEFINE q == [o EXCEPT !.quantity = @ - 1]
  <1>2. o \in OrderType
    BY DEF BookInv
  <1>3. CASE o.quantity - 1 > 0
    <2>1. q \in OrderType /\ q.quantity = o.quantity - 1 /\ Covers(o, q)
      BY <1>2, <1>3 DEF OrderType, Covers, SameKey
    <2>2. resting' = (resting \ {o}) \cup {q}
      BY <1>1, <1>3, <2>1
    <2>3. IsFiniteSet(resting')
      BY <2>2, FS_RemoveElement, FS_AddElement DEF BookInv
    <2>4. ASSUME NEW a \in resting', NEW b \in resting', SameKey(a, b) PROVE a = b
      <3>1. CASE a = q /\ b = q
        BY <3>1
      <3>2. CASE a = q /\ b # q
        BY <2>1, <2>2, <2>4, <3>2 DEF SameKey, Covers, BookInv, UniqueKeys
      <3>3. CASE a # q /\ b = q
        BY <2>1, <2>2, <2>4, <3>3 DEF SameKey, Covers, BookInv, UniqueKeys
      <3>4. CASE a # q /\ b # q
        BY <2>2, <2>4, <3>4 DEF BookInv, UniqueKeys
      <3>5. QED
        BY <3>1, <3>2, <3>3, <3>4
    <2>5. \A a \in resting' : \E p \in resting : Covers(p, a)
      BY <2>1, <2>2, CoversItself DEF BookInv
    <2>6. resting' \subseteq OrderType
      BY <2>1, <2>2 DEF BookInv
    <2>7. QED
      BY <2>3, <2>4, <2>5, <2>6 DEF Shrunk, UniqueKeys
  <1>4. CASE ~(o.quantity - 1 > 0)
    <2>1. resting' \subseteq resting
      BY <1>1, <1>2, <1>4 DEF OrderType
    <2>2. QED
      BY <2>1, PartOfBook
  <1>5. QED
    BY <1>3, <1>4

\* The order that is seen to land is added, under the newest nonce, and strays
\* under other new ones, all alike.
PostLeaves(book, c, side, price, quantity, ok) ==
    /\ BookInv'
    /\ \A o \in resting' :
          \/ o \in book
          \/ /\ o.cell = c /\ o.side = side /\ o.price = price
             /\ nonce < o.nonce
             /\ ~o.stray => ok /\ o = Order(c, side, price, quantity, nonce', FALSE)

LEMMA PostsAdd ==
    ASSUME BookInv, NEW book \in SUBSET resting, NEW c \in Cells,
           NEW side \in {"ask", "bid"}, NEW price \in Nat,
           NEW quantity \in Nat \ {0}, NEW tries \in Nat, NEW ok \in BOOLEAN,
           Posts(book, c, side, price, quantity, tries, ok),
           \A o \in book : o.cell = c /\ o.side = side => o.stray
    PROVE  PostLeaves(book, c, side, price, quantity, ok)
  <1>1. PICK lost \in 0..tries :
            /\ resting' = book \cup Strays(c, side, price, quantity, nonce + lost)
                  \cup (IF ok THEN {Order(c, side, price, quantity, nonce + lost + 1, FALSE)}
                              ELSE {})
            /\ nonce' = IF ok THEN nonce + lost + 1 ELSE nonce + lost
            /\ nonce' <= MaxPosts
    BY DEF Posts
  <1> DEFINE last == nonce + lost + 1
             strays == Strays(c, side, price, quantity, nonce + lost)
             seen == IF ok THEN {Order(c, side, price, quantity, last, FALSE)} ELSE {}
  <1>2. nonce \in Nat /\ MaxPosts \in Nat /\ last \in Nat /\ nonce < last /\ nonce' \in Nat
        /\ nonce' <= MaxPosts /\ nonce <= nonce' /\ last - 1 <= nonce' /\ last - 1 = nonce + lost
    BY <1>1, BotConstants DEF BookInv
  <1>3. ok => nonce' = last
    BY <1>1
  <1>4. strays = {Order(c, side, price, quantity, n, TRUE) : n \in nonce + 1 .. last - 1}
    BY <1>2 DEF Strays
  <1>5. \A o \in seen : ok /\ o = Order(c, side, price, quantity, last, FALSE)
    OBVIOUS
  <1>6. resting' = book \cup strays \cup seen
    BY <1>1
  <1> HIDE DEF strays, seen, last
  <1>7. ASSUME NEW o \in strays
        PROVE  /\ o \in OrderType /\ o.stray
               /\ o = Order(c, side, price, quantity, o.nonce, TRUE)
               /\ nonce < o.nonce /\ o.nonce <= last - 1
    <2>1. PICK n \in nonce + 1 .. last - 1 : o = Order(c, side, price, quantity, n, TRUE)
      BY <1>4
    <2>2. n \in 0..MaxPosts /\ nonce < n /\ n <= last - 1
      BY <1>2, <2>1
    <2>3. QED
      BY <2>1, <2>2 DEF Order, OrderType
  <1>8. ASSUME NEW o \in seen
        PROVE  /\ o \in OrderType /\ ~o.stray
               /\ o.cell = c /\ o.side = side /\ o.price = price /\ o.quantity = quantity
               /\ o.nonce = last /\ last = nonce'
    <2>1. o = Order(c, side, price, quantity, last, FALSE)
      BY <1>5
    <2>2. last = nonce'
      BY <1>3, <1>5
    <2>3. last \in 0..MaxPosts
      BY <1>2, <2>2
    <2>4. QED
      BY <2>1, <2>2, <2>3 DEF Order, OrderType
  <1>9. ASSUME NEW o \in book PROVE o \in OrderType /\ o.nonce <= nonce /\ o.nonce \in Nat
    BY <1>2 DEF BookInv, OrderType
  <1>10. ASSUME NEW o \in resting', o \notin book
         PROVE  /\ o \in OrderType
                /\ o.cell = c /\ o.side = side /\ o.price = price /\ o.quantity = quantity
                /\ nonce < o.nonce /\ o.nonce <= nonce' /\ o.nonce \in Nat
                /\ ~o.stray => o \in seen
    <2>1. CASE o \in strays
      <3>1. o = Order(c, side, price, quantity, o.nonce, TRUE) /\ o \in OrderType /\ o.stray
            /\ nonce < o.nonce /\ o.nonce <= last - 1
        BY <1>7, <2>1
      <3>2. o.cell = c /\ o.side = side /\ o.price = price /\ o.quantity = quantity
        BY <3>1 DEF Order
      <3>3. o.nonce \in Nat
        BY <1>2, <3>1 DEF OrderType
      <3>4. o.nonce <= nonce'
        BY <1>2, <3>1, <3>3
      <3>5. QED
        BY <3>1, <3>2, <3>3, <3>4
    <2>2. CASE o \in seen
      BY <1>2, <1>8, <2>2
    <2>3. QED
      BY <1>6, <1>10, <2>1, <2>2
  <1>11. IsFiniteSet(resting')
    <2>1. IsFiniteSet(book)
      BY FS_Subset DEF BookInv
    <2>2. IsFiniteSet(strays)
      <3> DEFINE f == [n \in nonce + 1 .. last - 1 |-> Order(c, side, price, quantity, n, TRUE)]
      <3>1. IsFiniteSet(nonce + 1 .. last - 1)
        BY <1>2, FS_Interval
      <3>2. f \in Surjection(nonce + 1 .. last - 1, strays)
        BY <1>4 DEF Surjection
      <3>3. QED
        BY <3>1, <3>2, FS_Surjection
    <2>3. IsFiniteSet(seen)
      <3>1. seen \subseteq {Order(c, side, price, quantity, last, FALSE)}
        BY <1>5
      <3>2. QED
        BY <3>1, FS_Singleton, FS_Subset
    <2>4. QED
      BY <1>6, <2>1, <2>2, <2>3, FS_Union
  <1>12. ASSUME NEW o \in resting', NEW p \in resting', SameKey(o, p) PROVE o = p
    <2>1. o.nonce = p.nonce /\ o.cell = p.cell
      BY <1>12 DEF SameKey
    <2>2. CASE o \in book /\ p \in book
      BY <1>12, <2>2 DEF BookInv, UniqueKeys
    <2>3. CASE o \in book /\ p \notin book
      BY <1>2, <1>9, <1>10, <2>1, <2>3
    <2>4. CASE o \notin book /\ p \in book
      BY <1>2, <1>9, <1>10, <2>1, <2>4
    <2>5. CASE o \notin book /\ p \notin book
      <3>1. CASE o \in strays /\ p \in strays
        BY <1>7, <2>1, <3>1
      <3>2. CASE o \in seen /\ p \in seen
        BY <1>5, <3>2
      <3>3. ASSUME NEW a \in strays, NEW b \in seen PROVE a.nonce # b.nonce
        <4>1. a \in OrderType /\ a.nonce <= last - 1
          BY <1>7
        <4>4. a.nonce \in Nat
          BY <1>2, <4>1 DEF OrderType
        <4>2. b.nonce = last
          BY <1>8
        <4>3. QED
          BY <1>2, <4>1, <4>2, <4>4
      <3>4. ~(o \in strays /\ p \in seen) /\ ~(o \in seen /\ p \in strays)
        BY <2>1, <3>3
      <3>5. QED
        BY <1>6, <2>5, <3>1, <3>2, <3>3, <3>4
    <2>6. QED
      BY <2>2, <2>3, <2>4, <2>5
  <1>13. ASSUME NEW o \in resting' PROVE o \in OrderType /\ o.nonce <= nonce' /\ o.nonce \in Nat
    BY <1>2, <1>9, <1>10
  <1>14. ASSUME NEW o \in resting', NEW p \in resting',
                ~o.stray, p.cell = o.cell, p.side = o.side
         PROVE  p.nonce <= o.nonce
    <2>1. CASE o \in book
      <3>1. ~(o.cell = c /\ o.side = side)
        BY <1>14, <2>1
      <3>2. p \in book
        BY <1>10, <1>14, <3>1
      <3>3. QED
        BY <1>14, <2>1, <3>2 DEF BookInv
    <2>2. CASE o \notin book
      <3>1. o \in seen
        BY <1>10, <1>14, <2>2
      <3>2. o.nonce = nonce'
        BY <1>8, <3>1
      <3>3. QED
        BY <1>13, <3>2
    <2>3. QED
      BY <2>1, <2>2
  <1>15. BookInv'
    BY <1>2, <1>11, <1>12, <1>13, <1>14 DEF BookInv, UniqueKeys
  <1>16. ASSUME NEW o \in resting', o \notin book, ~o.stray
         PROVE  ok /\ o = Order(c, side, price, quantity, nonce', FALSE)
    BY <1>3, <1>5, <1>10, <1>16
  <1>17. QED
    BY <1>10, <1>15, <1>16 DEF PostLeaves

-----------------------------------------------------------------------------
(* What stays true of the lists, the anchors and the sums.                  *)

LEMMA ListedKept ==
    ASSUME NEW old, NEW new, old \subseteq OrderType, new \subseteq OrderType,
           NEW list, NEW list2, list \subseteq OrderType, list2 \subseteq list,
           NEW side, NEW cells, NEW less, less \subseteq cells,
           \A p \in list : p.cell \in less => p \in list2,
           \A o \in new : o.side = side /\ o.cell \in less => \E p \in old : Covers(p, o),
           Listed(old, list, side, cells)
    PROVE  Listed(new, list2, side, less)
  <1> SUFFICES ASSUME NEW o \in new, o.side = side, o.cell \in less
               PROVE  /\ \E p \in list2 : Covers(p, o)
                      /\ ~o.stray => \A q \in list2 : q.cell = o.cell => q.nonce <= o.nonce
    BY DEF Listed
  <1>1. PICK a \in old : Covers(a, o)
    OBVIOUS
  <1>2. a.side = side /\ a.cell = o.cell /\ a.nonce = o.nonce /\ a.stray = o.stray
    BY <1>1 DEF Covers, SameKey
  <1>3. PICK p \in list : Covers(p, a)
    BY <1>2 DEF Listed
  <1>4. Covers(p, o)
    BY <1>1, <1>3, CoversTransitive
  <1>5. p \in list2
    BY <1>4 DEF Covers, SameKey
  <1>6. ~o.stray => \A q \in list : q.cell = o.cell => q.nonce <= o.nonce
    BY <1>2 DEF Listed
  <1>7. QED
    BY <1>4, <1>5, <1>6

LEMMA ListLess ==
    ASSUME NEW list, NEW list2, list2 \subseteq list, NEW side, ListOK(list, side)
    PROVE  ListOK(list2, side)
  BY FS_Subset DEF ListOK, UniqueKeys

\* What is read off the book is a list that the book is listed in.
LEMMA ReadIsListed ==
    ASSUME BookInv, NEW side, NEW cells, NEW book \in SUBSET resting
    PROVE  /\ ListOK({o \in resting : o.side = side}, side)
           /\ Listed(book, {o \in resting : o.side = side}, side, cells)
  <1> DEFINE list == {o \in resting : o.side = side}
  <1>1. list \subseteq resting
    OBVIOUS
  <1>2. IsFiniteSet(list)
    BY <1>1, FS_Subset DEF BookInv
  <1>3. ListOK(list, side)
    BY <1>2 DEF ListOK, BookInv, UniqueKeys
  <1>4. ASSUME NEW o \in book, o.side = side
        PROVE  /\ o \in list /\ Covers(o, o)
               /\ ~o.stray => \A q \in list : q.cell = o.cell => q.nonce <= o.nonce
    BY <1>4, CoversItself DEF BookInv
  <1>5. Listed(book, list, side, cells)
    BY <1>4 DEF Listed
  <1>6. QED
    BY <1>3, <1>5

LEMMA AnchoredKept ==
    ASSUME NEW old, NEW new, NEW anchors, NEW anchors2, NEW c,
           anchors2[c] = anchors[c], Anchored(old, anchors, c),
           \A o \in new : o.side = "ask" /\ o.cell = c => \E p \in old : Covers(p, o)
    PROVE  Anchored(new, anchors2, c)
  <1>1. ASSUME NEW a \in KnownOf(new, "ask"), a.cell = c
        PROVE  \E p \in KnownOf(old, "ask") : p.cell = c /\ p.price = a.price
    BY <1>1 DEF KnownOf, Covers, SameKey
  <1>2. QED
    BY <1>1 DEF Anchored

LEMMA KnownIsBook ==
    ASSUME BookInv, NEW side
    PROVE  /\ Known(side) \subseteq OrderType /\ IsFiniteSet(Known(side))
           /\ UniqueKeys(Known(side))
  <1>1. Known(side) \subseteq resting
    BY DEF Known, KnownOf
  <1>2. IsFiniteSet(Known(side))
    BY <1>1, FS_Subset DEF BookInv
  <1>3. QED
    BY <1>1, <1>2 DEF BookInv, UniqueKeys

\* The known bids cost no more once contracts and orders went, or strays came.
LEMMA KnownCostsLess ==
    ASSUME BookInv, BookInv',
           \A o \in Known("bid")' : \E p \in resting : Covers(p, o)
    PROVE  Notional(Known("bid")') <= Notional(Known("bid"))
  <1>1. ASSUME NEW o \in Known("bid")' PROVE \E p \in Known("bid") : Covers(p, o)
    BY DEF Known, KnownOf, Covers
  <1>2. /\ Known("bid") \subseteq OrderType /\ IsFiniteSet(Known("bid"))
        /\ UniqueKeys(Known("bid"))
    BY KnownIsBook
  <1>3. /\ Known("bid")' \subseteq OrderType /\ IsFiniteSet(Known("bid")')
        /\ UniqueKeys(Known("bid")')
    <2>1. Known("bid")' \subseteq resting'
      BY DEF Known, KnownOf
    <2>2. IsFiniteSet(Known("bid")')
      BY <2>1, FS_Subset DEF BookInv
    <2>3. QED
      BY <2>1, <2>2 DEF BookInv, UniqueKeys
  <1>4. QED
    BY <1>1, <1>2, <1>3, CoveredCostsLess

LEMMA LedgerIsBook ==
    ASSUME NEW book, NEW list, NEW cells, ListOK(list, "bid"),
           book \subseteq OrderType, IsFiniteSet(book), UniqueKeys(book)
    PROVE  /\ Ledger(book, list, cells) \subseteq OrderType
           /\ IsFiniteSet(Ledger(book, list, cells))
           /\ UniqueKeys(Ledger(book, list, cells))
  <1> DEFINE a == {p \in list : p.cell \in cells}
             b == {o \in KnownOf(book, "bid") : o.cell \notin cells}
  <1>1. IsFiniteSet(a) /\ IsFiniteSet(b)
    BY FS_Subset DEF ListOK, KnownOf
  <1>2. Ledger(book, list, cells) = a \cup b
    BY DEF Ledger
  <1>3. IsFiniteSet(Ledger(book, list, cells))
    BY <1>1, <1>2, FS_Union
  <1>4. a \subseteq OrderType /\ b \subseteq OrderType /\ UniqueKeys(a) /\ UniqueKeys(b)
    BY DEF ListOK, KnownOf, UniqueKeys
  <1>5. \A o \in a, p \in b : o.cell # p.cell
    OBVIOUS
  <1>6. UniqueKeys(a \cup b)
    BY <1>4, <1>5 DEF UniqueKeys, SameKey
  <1>7. QED
    BY <1>2, <1>3, <1>4, <1>6

\* The known bids on the cells to come were read, so the ledger covers them all.
LEMMA LedgerCoversKnown ==
    ASSUME NEW book, NEW list, NEW cells, ListOK(list, "bid"),
           book \subseteq OrderType, Listed(book, list, "bid", cells),
           NEW o \in KnownOf(book, "bid")
    PROVE  \E p \in Ledger(book, list, cells) : Covers(p, o)
  <1>1. CASE o.cell \in cells
    BY <1>1 DEF KnownOf, Listed, Ledger, Covers, SameKey
  <1>2. CASE o.cell \notin cells
    BY <1>2, CoversItself DEF KnownOf, Ledger
  <1>3. QED
    BY <1>1, <1>2

-----------------------------------------------------------------------------
(* Prices near a bid's and near an ask's do not cross.                       *)

LEMMA TimesMonotone ==
    ASSUME NEW i \in Int, NEW j \in Int, NEW k \in Nat, i <= j
    PROVE  i * k <= j * k
  OBVIOUS

LEMMA NearPrices ==
    ASSUME NEW m \in Nat, NEW x \in Nat, NEW y \in Nat \ {0}, NEW z \in Nat \ {0},
           NEW g \in Nat, NEW s \in Nat, NEW a \in Nat, NEW b \in Nat,
           (m * s) * 1000 <= y * a,
           z * b <= 1000 * (m * x),
           1000 * x * y <= g * s * z
    PROVE  b * 1000 <= a * g
  <1>1. \A i, j \in Nat : i * j \in Nat
    OBVIOUS
  <1>2. /\ m * x \in Nat /\ m * s \in Nat /\ y * a \in Nat /\ z * b \in Nat
        /\ x * y \in Nat /\ g * s \in Nat /\ a * g \in Nat /\ z * y \in Nat
        /\ g * z \in Nat
    BY <1>1
  <1>3. (z * b) * (1000 * y) <= (1000 * (m * x)) * (1000 * y)
    BY <1>2, TimesMonotone
  <1>4. (1000 * x * y) * (1000 * m) <= (g * s * z) * (1000 * m)
    <2>1. 1000 * x * y \in Int /\ g * s * z \in Int /\ 1000 * m \in Nat
      BY <1>1, <1>2
    <2>2. QED
      BY <2>1, TimesMonotone
  <1>5. ((m * s) * 1000) * (g * z) <= (y * a) * (g * z)
    <2>1. (m * s) * 1000 \in Int
      BY <1>2
    <2>2. QED
      BY <1>2, <2>1, TimesMonotone
  <1>6. (1000 * (m * x)) * (1000 * y) = (1000 * x * y) * (1000 * m)
    OBVIOUS
  <1>7. (g * s * z) * (1000 * m) = ((m * s) * 1000) * (g * z)
    OBVIOUS
  <1>8. (z * b) * (1000 * y) <= (y * a) * (g * z)
    <2> DEFINE p1 == (z * b) * (1000 * y)
               p2 == (1000 * (m * x)) * (1000 * y)
               p3 == (g * s * z) * (1000 * m)
               p4 == (y * a) * (g * z)
    <2>1. p1 \in Int /\ p2 \in Int /\ p3 \in Int /\ p4 \in Int
      OBVIOUS
    <2>2. p1 <= p2 /\ p2 <= p3 /\ p3 <= p4
      BY <1>3, <1>4, <1>5, <1>6, <1>7
    <2> HIDE DEF p1, p2, p3, p4
    <2>3. p1 <= p4
      BY <2>1, <2>2
    <2>4. QED
      BY <2>3 DEF p1, p4
  <1>9. /\ (z * b) * (1000 * y) = (b * 1000) * (z * y)
        /\ (y * a) * (g * z) = (a * g) * (z * y)
    OBVIOUS
  <1>10. z * y > 0
    OBVIOUS
  <1>11. \A i, j \in Int, k \in Nat : i > j /\ k > 0 => i * k > j * k
    OBVIOUS
  <1>12. b * 1000 \in Int
    OBVIOUS
  <1>13. (b * 1000) * (z * y) <= (a * g) * (z * y)
    BY <1>8, <1>9
  <1> DEFINE u == b * 1000
             v == a * g
             w == z * y
  <1>14. u \in Int /\ v \in Int /\ w \in Nat /\ w > 0 /\ u * w <= v * w
    BY <1>2, <1>10, <1>12, <1>13
  <1> HIDE DEF u, v, w
  <1>15. u * w \in Int /\ v * w \in Int
    BY <1>14
  <1>16. u <= v
    BY <1>11, <1>14, <1>15
  <1>17. QED
    BY <1>16 DEF u, v

LEMMA SpreadsBounded == BidSpread <= 900
  BY BotConstants DEF BidSpread

\* A price that did not drift from itself.
LEMMA NoDrift == ASSUME NEW price \in Nat PROVE ~DriftsBeyond(price, price, DriftLimit)
  <1>1. \A m, n \in Nat : m * n \in Nat
    OBVIOUS
  <1>2. DriftLimit * price \in Nat
    BY <1>1, BotConstants
  <1>3. Drift(price, price) * 1000 = 0
    BY DEF Drift
  <1>4. QED
    BY <1>2, <1>3 DEF DriftsBeyond

LEMMA NearBound ==
    ASSUME NEW price \in Nat, NEW old \in Nat, ~DriftsBeyond(price, old, DriftLimit)
    PROVE  /\ price * 1000 <= (1000 + DriftLimit) * old
           /\ (1000 - DriftLimit) * old <= 1000 * price
  <1>1. DriftLimit * old \in Nat
    <2>1. \A m, n \in Nat : m * n \in Nat
      OBVIOUS
    <2>2. QED
      BY <2>1, BotConstants
  <1>2. Drift(price, old) * 1000 <= DriftLimit * old
    BY <1>1 DEF DriftsBeyond, Drift
  <1>3. /\ (1000 + DriftLimit) * old = 1000 * old + DriftLimit * old
        /\ (1000 - DriftLimit) * old = 1000 * old - DriftLimit * old
    BY BotConstants
  <1>4. QED
    BY <1>1, <1>2, <1>3 DEF Drift

LEMMA NearPricesDoNotCross ==
    ASSUME SpreadsCoverDrift, NEW mark \in Marks, NEW ask \in Nat, NEW bid \in Nat,
           ~DriftsBeyond(AskPrice(mark), ask, DriftLimit),
           ~DriftsBeyond(BidPrice(mark), bid, DriftLimit)
    PROVE  ~CrossesAsk(bid, ask)
  <1> DEFINE x == 1000 - BidSpread
             y == 1000 + DriftLimit
             z == 1000 - DriftLimit
             g == 1000 - CrossGuard
             s == 1000 + AskSpread
  <1>1. mark \in Nat /\ AskPrice(mark) \in Nat /\ BidPrice(mark) \in Nat
    BY BotConstants, SpreadTypes
  <1>2. /\ x \in Nat /\ x > 0 /\ y \in Nat /\ y > 0 /\ z \in Int /\ g \in Nat
        /\ s \in Nat /\ s > 0
    BY BotConstants, SpreadTypes, SpreadsBounded
  <1>3. AskPrice(mark) * 1000 <= y * ask /\ z * bid <= 1000 * BidPrice(mark)
    BY <1>1, NearBound
  <1>4. AskPrice(mark) = mark * s /\ BidPrice(mark) = mark * x
    BY DEF AskPrice, BidPrice
  <1>5. 1000 * x * y <= g * s * z
    BY DEF SpreadsCoverDrift
  <1> HIDE DEF x, y, z, s
  <1>6. z \in Nat \ {0}
    <2>1. \A i, j \in Nat : i > 0 /\ j > 0 => i * j > 0
      OBVIOUS
    <2>2. \A i, j \in Nat : i * j \in Nat
      OBVIOUS
    <2>3. 1000 * x \in Nat /\ 1000 * x > 0
      BY <1>2
    <2>4. (1000 * x) * y > 0
      BY <1>2, <2>1, <2>3
    <2>5. g * s \in Nat
      BY <1>2, <2>2
    <2> DEFINE h == g * s
    <2>6. h \in Nat /\ h * z > 0
      <3>1. (1000 * x) * y \in Int /\ h * z \in Int
        BY <1>2, <2>3, <2>5
      <3>2. (1000 * x) * y <= h * z
        BY <1>5
      <3>3. QED
        BY <2>4, <2>5, <3>1, <3>2
    <2> HIDE DEF h
    <2>7. \A i \in Nat, j \in Int : j <= 0 => i * j <= 0
      OBVIOUS
    <2>8. ~(z <= 0)
      BY <1>2, <2>6, <2>7
    <2>9. QED
      BY <1>2, <2>8
  <1>7. bid * 1000 <= ask * g
    BY <1>1, <1>2, <1>3, <1>4, <1>5, <1>6, NearPrices
  <1>8. ask * g \in Int
    BY <1>2
  <1>9. QED
    BY <1>7, <1>8 DEF CrossesAsk, g

-----------------------------------------------------------------------------
(* A step of the ask loop.                                                  *)

\* What a step of the loop on c leaves, whatever it did.
AskLeaves(c) ==
    /\ BookInv'
    /\ \A o \in resting' :
           o.side = "bid" \/ o.cell # c => \E p \in resting : Covers(p, o)
    /\ outcomes' \in [Cells -> AnchorType]
    /\ \A d \in Cells : d # c => outcomes'[d] = outcomes[d]
    /\ Anchored(resting', outcomes', c)
    /\ failCounts' \in [Cells -> 0..FailLimit]

\* The orders that went leave the rest as they were, and anchor nothing.
LEMMA PulledAsks ==
    ASSUME BotInv, phase = "asks", NEW c \in todo,
           Shrunk(resting, resting'), UNCHANGED <<outcomes, nonce>>,
           failCounts' \in [Cells -> 0..FailLimit]
    PROVE  AskLeaves(c)
  <1>1. BookInv'
    BY ShrunkKeepsBook DEF BotInv
  <1>2. outcomes[c] = NoAnchor
    BY DEF BotInv, AnchorsInv
  <1>3. Anchored(resting', outcomes', c)
    BY <1>2 DEF Anchored
  <1>4. QED
    BY <1>1, <1>3 DEF AskLeaves, Shrunk, BotInv, ControlInv

\* The ask that is seen to land anchors the bid; nothing known is beside it.
LEMMA PostedAsk ==
    ASSUME BotInv, phase = "asks", NEW c \in todo, NEW mark \in Marks,
           NEW book \in SUBSET resting, NEW tries \in Nat, NEW ok \in BOOLEAN,
           Posts(book, c, "ask", AskPrice(mark), AskQty, tries, ok),
           \A o \in book : o.cell = c /\ o.side = "ask" => o.stray,
           ok => Anchor(c, AskPrice(mark), mark), ~ok => UNCHANGED outcomes,
           failCounts' \in [Cells -> 0..FailLimit]
    PROVE  AskLeaves(c)
  <1>1. c \in Cells /\ outcomes \in [Cells -> AnchorType] /\ outcomes[c] = NoAnchor
    BY DEF BotInv, ControlInv, AnchorsInv
  <1>2. AskPrice(mark) \in Nat /\ AskQty \in Nat \ {0} /\ mark \in Nat
    BY SpreadTypes, BotConstants
  <1>3. PostLeaves(book, c, "ask", AskPrice(mark), AskQty, ok)
    <2>1. BookInv /\ "ask" \in {"ask", "bid"}
      BY DEF BotInv
    <2>2. QED
      BY <1>1, <1>2, <2>1, PostsAdd
  <1>4. ASSUME NEW o \in resting', o.side = "bid" \/ o.cell # c
        PROVE  \E p \in resting : Covers(p, o)
    <2>1. o \in book
      BY <1>3, <1>4 DEF PostLeaves
    <2>2. o \in resting /\ o \in OrderType
      BY <2>1 DEF BotInv, BookInv
    <2>3. QED
      BY <2>2, CoversItself
  <1>5. ASSUME NEW a \in KnownOf(resting', "ask"), a.cell = c
        PROVE  a.price = AskPrice(mark)
    BY <1>3, <1>5 DEF KnownOf, PostLeaves
  <1>6. CASE ok
    <2>1. outcomes' = [outcomes EXCEPT ![c] = [price |-> AskPrice(mark), mark |-> mark]]
      BY <1>6 DEF Anchor
    <2>2. outcomes'[c] = [price |-> AskPrice(mark), mark |-> mark]
      BY <1>1, <2>1
    <2>3. outcomes' \in [Cells -> AnchorType] /\ \A d \in Cells : d # c => outcomes'[d] = outcomes[d]
      BY <1>1, <1>2, <2>1 DEF AnchorType
    <2>4. ~DriftsBeyond(AskPrice(mark), AskPrice(mark), DriftLimit)
      BY <1>2, NoDrift
    <2>5. Anchored(resting', outcomes', c)
      BY <1>5, <2>2, <2>4 DEF Anchored
    <2>6. QED
      BY <1>3, <1>4, <2>3, <2>5 DEF AskLeaves, PostLeaves
  <1>7. CASE ~ok
    BY <1>1, <1>3, <1>4, <1>7 DEF AskLeaves, PostLeaves, Anchored
  <1>8. QED
    BY <1>6, <1>7

LEMMA QuotedTypes ==
    ASSUME BotInv, NEW c \in Cells, Quoted(c)
    PROVE  failCounts' \in [Cells -> 0..FailLimit]
  BY BotConstants DEF Quoted, BotInv, ControlInv

LEMMA AskStepLeaves ==
    ASSUME BotInv, phase = "asks", NEW c \in todo,
           \/ PullClosed(c)
           \/ QuoteFails(c)
           \/ \E mark \in Marks : RepriceAsk(c, mark) \/ HoldAsk(c, mark) \/ PostAsk(c, mark)
    PROVE  AskLeaves(c)
  <1>1. /\ BookInv /\ c \in Cells /\ ListOK(myOrders, "ask")
        /\ Listed(resting, myOrders, "ask", todo)
        /\ failCounts \in [Cells -> 0..FailLimit]
        /\ outcomes \in [Cells -> AnchorType] /\ outcomes[c] = NoAnchor
    BY DEF BotInv, ListsInv, ControlInv, AnchorsInv
  <1>2. ASSUME NEW o \in Known("ask"), o.cell = c
        PROVE  /\ \E p \in Existing(c, myOrders) : Covers(p, o)
               /\ o \in StillLive(Existing(c, myOrders))
    BY <1>1, <1>2, KnownIsExisting
  <1>3. UNCHANGED resting => Shrunk(resting, resting')
    BY <1>1, PartOfBook
  <1>4. CASE PullClosed(c)
    <2>1. Shrunk(resting, resting')
      BY <1>1, <1>4, PullsShrink DEF PullClosed
    <2>2. QED
      BY <1>1, <1>4, <2>1, PulledAsks DEF PullClosed
  <1>5. CASE QuoteFails(c)
    <2>1. Shrunk(resting, resting')
      BY <1>1, <1>3, <1>5, PullsShrink DEF QuoteFails
    <2>2. failCounts' \in [Cells -> 0..FailLimit]
      <3>1. failCounts[c] + 1 \in Nat
        BY <1>1
      <3> DEFINE fails == failCounts[c] + 1
                 n == IF fails < FailLimit THEN fails ELSE FailLimit
      <3>2. failCounts' = [failCounts EXCEPT ![c] = n]
        BY <1>5 DEF QuoteFails
      <3>3. n \in 0..FailLimit
        BY <3>1, BotConstants
      <3> HIDE DEF n
      <3>4. QED
        BY <1>1, <3>2, <3>3
    <2>3. QED
      BY <1>5, <2>1, <2>2, PulledAsks DEF QuoteFails
  <1>6. ASSUME NEW mark \in Marks, RepriceAsk(c, mark) PROVE AskLeaves(c)
    <2> DEFINE old == StillLive(Existing(c, myOrders))
    <2>1. failCounts' \in [Cells -> 0..FailLimit]
      BY <1>1, <1>6, QuotedTypes DEF RepriceAsk
    <2>2. CASE UNCHANGED <<resting, outcomes, nonce>>
      BY <1>3, <2>1, <2>2, PulledAsks
    <2>3. ASSUME NEW ok \in BOOLEAN,
                 Posts(resting \ old, c, "ask", AskPrice(mark), AskQty, 1, ok),
                 IF ok THEN Anchor(c, AskPrice(mark), mark) ELSE UNCHANGED outcomes
          PROVE  AskLeaves(c)
      <3>1. \A o \in resting \ old : o.cell = c /\ o.side = "ask" => o.stray
        BY <1>2 DEF Known, KnownOf
      <3>2. resting \ old \in SUBSET resting /\ 1 \in Nat
        OBVIOUS
      <3> HIDE DEF old
      <3>3. QED
        BY <2>1, <2>3, <3>1, <3>2, PostedAsk
    <2>4. QED
      BY <1>6, <2>2, <2>3 DEF RepriceAsk
  <1>7. ASSUME NEW mark \in Marks, HoldAsk(c, mark) PROVE AskLeaves(c)
    <2>1. failCounts' \in [Cells -> 0..FailLimit]
      BY <1>1, <1>7, QuotedTypes DEF HoldAsk
    <2>2. PICK o \in Existing(c, myOrders) :
              /\ ~DriftsBeyond(AskPrice(mark), o.price, DriftLimit)
              /\ Anchor(c, o.price, mark)
      BY <1>7 DEF HoldAsk
    <2>3. o \in OrderType /\ o.price \in Nat
      <3>1. o \in myOrders
        BY DEF Existing
      <3>2. QED
        BY <1>1, <3>1 DEF ListOK, OrderType
    <2>4. outcomes' = [outcomes EXCEPT ![c] = [price |-> o.price, mark |-> mark]]
      BY <2>2 DEF Anchor
    <2>5. outcomes'[c] = [price |-> o.price, mark |-> mark]
      BY <1>1, <2>4
    <2>6. outcomes' \in [Cells -> AnchorType] /\ \A d \in Cells : d # c => outcomes'[d] = outcomes[d]
      BY <1>1, <2>3, <2>4, BotConstants DEF AnchorType
    <2>7. UNCHANGED <<resting, nonce>>
      BY <1>7 DEF HoldAsk
    <2>8. ASSUME NEW a \in KnownOf(resting', "ask"), a.cell = c PROVE a.price = o.price
      <3>1. a \in Known("ask")
        BY <2>7, <2>8 DEF Known
      <3>2. PICK p \in Existing(c, myOrders) : Covers(p, a)
        BY <1>2, <2>8, <3>1
      <3>3. p = o
        BY <1>1, <2>2, <3>2, ExistingIsOne
      <3>4. QED
        BY <3>2, <3>3 DEF Covers
    <2>9. Anchored(resting', outcomes', c)
      BY <2>2, <2>5, <2>8 DEF Anchored
    <2>10. BookInv'
      BY <1>1, <1>3, <2>7, ShrunkKeepsBook
    <2>11. \A a \in resting' : \E p \in resting : Covers(p, a)
      BY <1>3, <2>7 DEF Shrunk
    <2>12. QED
      BY <2>1, <2>6, <2>9, <2>10, <2>11 DEF AskLeaves
  <1>8. ASSUME NEW mark \in Marks, PostAsk(c, mark) PROVE AskLeaves(c)
    <2>1. failCounts' \in [Cells -> 0..FailLimit]
      BY <1>1, <1>8, QuotedTypes DEF PostAsk
    <2>2. PICK ok \in BOOLEAN :
              /\ Posts(resting, c, "ask", AskPrice(mark), AskQty, 2, ok)
              /\ IF ok THEN Anchor(c, AskPrice(mark), mark) ELSE UNCHANGED outcomes
      BY <1>8 DEF PostAsk
    <2>3. \A o \in resting : o.cell = c /\ o.side = "ask" => o.stray
      BY <1>2, <1>8 DEF PostAsk, Known, KnownOf
    <2>4. resting \in SUBSET resting /\ 2 \in Nat
      OBVIOUS
    <2>5. QED
      BY <2>1, <2>2, <2>3, <2>4, PostedAsk
  <1>9. QED
    BY <1>4, <1>5, <1>6, <1>7, <1>8

\* The orders read on the other series, and what rests on them, are as before.
LEMMA AskStepKeeps == ASSUME BotInv, AskStep PROVE BotInv' /\ CrossInv'
  <1>1. PICK c \in todo :
            /\ todo' = todo \ {c}
            /\ \/ PullClosed(c)
               \/ QuoteFails(c)
               \/ \E mark \in Marks :
                     RepriceAsk(c, mark) \/ HoldAsk(c, mark) \/ PostAsk(c, mark)
            /\ myOrders' = {o \in myOrders : o.cell # c}
    BY DEF AskStep
  <1>2. phase = "asks" /\ UNCHANGED <<phase, ladder, bidVars>>
    BY DEF AskStep
  <1>3. AskLeaves(c)
    BY <1>1, <1>2, AskStepLeaves
  <1>4. BookInv /\ BookInv'
    BY <1>3 DEF AskLeaves, BotInv
  <1>5. ListsInv'
    <2>1. ListOK(myOrders, "ask") /\ Listed(resting, myOrders, "ask", todo) /\ ListOK(myBids, "bid")
      BY <1>2 DEF BotInv, ListsInv
    <2>2. ListOK(myOrders', "ask")
      BY <1>1, <2>1, ListLess
    <2>3. \A p \in myOrders : p.cell \in todo' => p \in myOrders'
      BY <1>1
    <2>4. \A o \in resting' : o.side = "ask" /\ o.cell \in todo' => \E p \in resting : Covers(p, o)
      BY <1>1, <1>3 DEF AskLeaves
    <2>5. /\ resting \subseteq OrderType /\ resting' \subseteq OrderType
          /\ myOrders \subseteq OrderType /\ myOrders' \subseteq myOrders /\ todo' \subseteq todo
      BY <1>1, <1>4, <2>1 DEF BookInv, ListOK
    <2>6. Listed(resting', myOrders', "ask", todo')
      BY <2>1, <2>3, <2>4, <2>5, ListedKept
    <2>7. QED
      BY <1>2, <2>1, <2>2, <2>6 DEF ListsInv, bidVars
  <1>6. AnchorsInv'
    <2>1. ASSUME NEW d \in Cells PROVE Anchored(resting', outcomes', d)
      <3>1. CASE d = c
        BY <1>3, <3>1 DEF AskLeaves
      <3>2. CASE d # c
        <4>1. /\ outcomes'[d] = outcomes[d] /\ Anchored(resting, outcomes, d)
              /\ \A o \in resting' : o.side = "ask" /\ o.cell = d => \E p \in resting : Covers(p, o)
          BY <1>3, <3>2 DEF AskLeaves, BotInv, AnchorsInv
        <4>2. QED
          BY <4>1, AnchoredKept
      <3>3. QED
        BY <3>1, <3>2
    <2>2. \A d \in todo' : outcomes'[d] = NoAnchor
      BY <1>1, <1>2, <1>3 DEF AskLeaves, BotInv, AnchorsInv, ControlInv
    <2>3. QED
      BY <2>1, <2>2 DEF AnchorsInv
  <1>7. MoneyInv'
    <2>1. \A o \in Known("bid")' : \E p \in resting : Covers(p, o)
      BY <1>3 DEF AskLeaves, Known, KnownOf
    <2>2. Notional(Known("bid")') <= Notional(Known("bid"))
      BY <1>4, <2>1, KnownCostsLess
    <2>3. Notional(Known("bid")) \in Nat /\ Notional(Known("bid")') \in Nat
      <3>1. /\ Known("bid") \subseteq OrderType /\ IsFiniteSet(Known("bid"))
            /\ Known("bid")' \subseteq OrderType /\ IsFiniteSet(Known("bid")')
        <4>1. Known("bid") \subseteq resting /\ Known("bid")' \subseteq resting'
          BY DEF Known, KnownOf
        <4>2. QED
          BY <1>4, <4>1, FS_Subset DEF BookInv
      <3>2. QED
        BY <3>1, OrdersPriced, NotionalNat
    <2>4. Notional(Known("bid")') <= MaxBidNotional
      BY <2>2, <2>3, BotConstants DEF BotInv, MoneyInv
    <2>5. QED
      BY <1>2, <2>4 DEF BotInv, MoneyInv, bidVars
  <1>8. ControlInv'
    BY <1>1, <1>2, <1>3 DEF BotInv, ControlInv, AskLeaves, bidVars
  <1>9. CrossInv'
    BY <1>2 DEF CrossInv
  <1>10. QED
    BY <1>4, <1>5, <1>6, <1>7, <1>8, <1>9 DEF BotInv

-----------------------------------------------------------------------------
(* A step of the bid pass.                                                  *)

\* The ledger costs no more once contracts and orders went.
LEMMA ShrunkLedger ==
    ASSUME BookInv, BookInv', ListOK(myBids, "bid"), Listed(resting, myBids, "bid", todo),
           myBids' \subseteq myBids, todo' \subseteq todo,
           \A o \in Known("bid")' : \E p \in resting : Covers(p, o)
    PROVE  Notional(Ledger(resting', myBids', todo')) <= Notional(Ledger(resting, myBids, todo))
  <1> DEFINE old == Ledger(resting, myBids, todo)
             new == Ledger(resting', myBids', todo')
  <1>1. /\ resting \subseteq OrderType /\ IsFiniteSet(resting) /\ UniqueKeys(resting)
        /\ resting' \subseteq OrderType /\ IsFiniteSet(resting') /\ UniqueKeys(resting')
        /\ ListOK(myBids', "bid")
    BY ListLess DEF BookInv
  <1>2. /\ old \subseteq OrderType /\ IsFiniteSet(old) /\ UniqueKeys(old)
        /\ new \subseteq OrderType /\ IsFiniteSet(new) /\ UniqueKeys(new)
    BY <1>1, LedgerIsBook
  <1>3. ASSUME NEW o \in new PROVE \E p \in old : Covers(p, o)
    <2>1. CASE o \in myBids' /\ o.cell \in todo'
      <3>1. o \in old /\ o \in OrderType
        BY <2>1 DEF Ledger, ListOK
      <3>2. QED
        BY <3>1, CoversItself
    <2>2. CASE o \in Known("bid")'
      <3>1. PICK p \in resting : Covers(p, o)
        BY <2>2
      <3>2. p \in KnownOf(resting, "bid")
        BY <2>2, <3>1 DEF Known, KnownOf, Covers
      <3>3. PICK q \in old : Covers(q, p)
        BY <1>1, <3>2, LedgerCoversKnown
      <3>4. Covers(q, o)
        BY <1>1, <1>2, <2>2, <3>1, <3>3, CoversTransitive DEF Known, KnownOf
      <3>5. QED
        BY <3>4
    <2>3. QED
      BY <2>1, <2>2 DEF Ledger, Known
  <1> HIDE DEF old, new
  <1>4. Notional(new) <= Notional(old)
    BY <1>2, <1>3, CoveredCostsLess
  <1>5. QED
    BY <1>4 DEF old, new

\* The orders on one series that are read are no more than one; they cost what
\* a sum falls by without them.
LEMMA NotionalSplit ==
    ASSUME NEW S, Priced(S), NEW E, E \subseteq S, \A o, p \in E : o = p
    PROVE  /\ Notional(E) \in Nat /\ Notional(S \ E) \in Nat
           /\ Notional(S) = Notional(E) + Notional(S \ E)
  <1>1. CASE E = {}
    <2>1. S \ E = S
      BY <1>1
    <2>2. QED
      BY <1>1, <2>1, NotionalNat, NotionalOfNone
  <1>2. CASE E # {}
    <2>1. PICK e : E = {e}
      BY <1>2
    <2>2. e \in S /\ Cost(e) \in Nat
      BY <2>1 DEF Priced
    <2>3. Priced(S \ {e}) /\ Notional(S) = Cost(e) + Notional(S \ {e})
      BY <2>2, NotionalLess
    <2>4. Priced({})
      BY FS_EmptySet DEF Priced
    <2>5. {} \cup {e} = {e}
      OBVIOUS
    <2>6. Notional({e}) = Notional({}) + Cost(e)
      BY <2>2, <2>4, <2>5, NotionalMore
    <2>7. Notional({e}) = Cost(e)
      BY <2>2, <2>6, NotionalOfNone
    <2>8. Notional(S \ {e}) \in Nat
      BY <2>3, NotionalNat
    <2>9. QED
      BY <2>1, <2>2, <2>3, <2>7, <2>8
  <1>3. QED
    BY <1>1, <1>2

\* What a step of the pass on c leaves, whatever it did.
BidLeaves(c) ==
    /\ BookInv'
    /\ \A o \in resting' :
           o.side = "ask" \/ o.cell # c => \E p \in resting : Covers(p, o)
    /\ clean' \in BOOLEAN /\ (clean' => clean)
    /\ clean' =>
          \A b \in KnownOf(resting', "bid") : b.cell = c =>
              /\ outcomes[c] # NoAnchor
              /\ ~DriftsBeyond(BidPrice(outcomes[c].mark), b.price, DriftLimit)
    /\ exposure' \in Nat
    /\ Notional(Ledger(resting', myBids', todo')) <= exposure'
    /\ Notional(Known("bid")') <= MaxBidNotional

\* The pass is done with c.
DoneWith(c) == todo' = todo \ {c} /\ myBids' = {o \in myBids : o.cell # c}

LEMMA SumsAreNat ==
    ASSUME BotInv
    PROVE  /\ Notional(Known("bid")) \in Nat
           /\ Notional(Ledger(resting, myBids, todo)) \in Nat
  <1>1. BookInv /\ ListOK(myBids, "bid")
    BY DEF BotInv, ListsInv
  <1>2. /\ Known("bid") \subseteq OrderType /\ IsFiniteSet(Known("bid"))
        /\ Ledger(resting, myBids, todo) \subseteq OrderType
        /\ IsFiniteSet(Ledger(resting, myBids, todo))
    BY <1>1, KnownIsBook, LedgerIsBook DEF BookInv
  <1>3. QED
    BY <1>2, OrdersPriced, NotionalNat

\* Orders went, or none did; what is left on c is near enough to its price.
LEMMA PulledBids ==
    ASSUME BotInv, phase = "bids", NEW c \in todo, DoneWith(c),
           Shrunk(resting, resting'), UNCHANGED <<exposure, nonce>>,
           clean' \in BOOLEAN, clean' => clean,
           clean' =>
             \A b \in KnownOf(resting', "bid") : b.cell = c =>
                 /\ outcomes[c] # NoAnchor
                 /\ ~DriftsBeyond(BidPrice(outcomes[c].mark), b.price, DriftLimit)
    PROVE  BidLeaves(c)
  <1>1. BookInv /\ ListOK(myBids, "bid") /\ Listed(resting, myBids, "bid", todo)
    BY DEF BotInv, ListsInv
  <1>2. BookInv'
    BY <1>1, ShrunkKeepsBook
  <1>3. \A o \in Known("bid")' : \E p \in resting : Covers(p, o)
    BY DEF Shrunk, Known, KnownOf
  <1>4. Notional(Ledger(resting', myBids', todo')) <= Notional(Ledger(resting, myBids, todo))
    BY <1>1, <1>2, <1>3, ShrunkLedger DEF DoneWith
  <1>5. Notional(Known("bid")') <= Notional(Known("bid"))
    BY <1>1, <1>2, <1>3, KnownCostsLess
  <1>6. /\ Notional(Known("bid")') \in Nat
        /\ Notional(Ledger(resting', myBids', todo')) \in Nat
    <2>1. Known("bid")' \subseteq OrderType /\ IsFiniteSet(Known("bid")')
      <3>1. Known("bid")' \subseteq resting'
        BY DEF Known, KnownOf
      <3>2. QED
        BY <1>2, <3>1, FS_Subset DEF BookInv
    <2>2. ListOK(myBids', "bid")
      BY <1>1, ListLess DEF DoneWith
    <2>3. /\ Ledger(resting', myBids', todo') \subseteq OrderType
          /\ IsFiniteSet(Ledger(resting', myBids', todo'))
      BY <1>2, <2>2, LedgerIsBook DEF BookInv
    <2>4. QED
      BY <2>1, <2>3, OrdersPriced, NotionalNat
  <1>7. exposure' \in Nat /\ Notional(Ledger(resting', myBids', todo')) <= exposure'
    BY <1>4, <1>6, SumsAreNat DEF BotInv, MoneyInv
  <1>8. Notional(Known("bid")') <= MaxBidNotional
    BY <1>5, <1>6, SumsAreNat, BotConstants DEF BotInv, MoneyInv
  <1>9. QED
    BY <1>2, <1>7, <1>8 DEF BidLeaves, Shrunk

\* A cost that is taken out of a sum, and another that is put in.
LEMMA NotionalSwap ==
    ASSUME NEW S, NEW T, NEW x, S \subseteq OrderType, T \subseteq OrderType,
           x \in OrderType, IsFiniteSet(S), IsFiniteSet(T),
           UniqueKeys(S), UniqueKeys(T), T \subseteq S \cup {x}
    PROVE  Notional(T) <= Notional(S) + Cost(x)
  <1>1. Priced(S) /\ Priced(T) /\ Cost(x) \in Nat
    BY OrdersPriced, CostNat
  <1>2. Priced(T \ {x})
    BY <1>1, FS_Subset DEF Priced
  <1>3. Notional(T \ {x}) <= Notional(S)
    <2>1. T \ {x} \subseteq S /\ T \ {x} \subseteq OrderType
      OBVIOUS
    <2>2. \A o \in T \ {x} : \E p \in S : Covers(p, o)
      BY <2>1, CoversItself
    <2>3. UniqueKeys(T \ {x}) /\ IsFiniteSet(T \ {x})
      BY <1>2 DEF UniqueKeys, Priced
    <2>4. QED
      BY <2>1, <2>2, <2>3, CoveredCostsLess
  <1>4. Notional(S) \in Nat /\ Notional(T \ {x}) \in Nat
    BY <1>1, <1>2, NotionalNat
  <1>5. CASE x \in T
    <2>1. Notional(T) = Cost(x) + Notional(T \ {x})
      BY <1>1, <1>5, NotionalLess
    <2>2. QED
      BY <1>1, <1>3, <1>4, <2>1
  <1>6. CASE x \notin T
    <2>1. T \ {x} = T
      BY <1>6
    <2>2. QED
      BY <1>1, <1>3, <1>4, <2>1
  <1>7. QED
    BY <1>5, <1>6

\* A bid that may be posted has a price, and its increase is no less than what
\* it costs beyond the bid it takes the place of.
LEMMA AllowedBid ==
    ASSUME BotInv, NEW c \in Cells, NEW quantity \in 1..BidQty,
           BidAllowed(c, BidPrice(outcomes[c].mark), quantity)
    PROVE  LET price == BidPrice(outcomes[c].mark)
           IN  /\ price \in Nat /\ price * quantity \in Nat
               /\ Increase(c, price, quantity) \in Nat
               /\ price * quantity
                      <= Increase(c, price, quantity) + Notional(Existing(c, myBids))
               /\ Notional(Existing(c, myBids)) \in Nat
               /\ exposure + Increase(c, price, quantity) <= MaxBidNotional
  <1> DEFINE price == BidPrice(outcomes[c].mark)
  <1>1. outcomes[c] # NoAnchor /\ outcomes[c].mark \in Marks
    BY DEF BidAllowed, BotInv, AnchorsInv, Anchored
  <1>2. price \in Nat
    BY <1>1, SpreadTypes
  <1>3. quantity \in Nat
    BY BotConstants
  <1>4. price * quantity \in Nat
    <2> HIDE DEF price
    <2>1. \A m, n \in Nat : m * n \in Nat
      OBVIOUS
    <2>2. QED
      BY <1>2, <1>3, <2>1
  <1>5. Notional(Existing(c, myBids)) \in Nat
    <2>1. Existing(c, myBids) \subseteq myBids /\ ListOK(myBids, "bid")
      BY DEF Existing, BotInv, ListsInv
    <2>2. Existing(c, myBids) \subseteq OrderType /\ IsFiniteSet(Existing(c, myBids))
      BY <2>1, FS_Subset DEF ListOK
    <2>3. QED
      BY <2>2, OrdersPriced, NotionalNat
  <1> HIDE DEF price
  <1>6. /\ Increase(c, price, quantity) \in Nat
        /\ price * quantity
               <= Increase(c, price, quantity) + Notional(Existing(c, myBids))
    BY <1>4, <1>5 DEF Increase
  <1>7. exposure + Increase(c, price, quantity) <= MaxBidNotional
    BY DEF BidAllowed, price
  <1>8. QED
    BY <1>2, <1>4, <1>5, <1>6, <1>7 DEF price

\* The bid that is seen to land is at its price, and takes its increase of what
\* is left under the cap.
LEMMA PostedBid ==
    ASSUME BotInv, phase = "bids", NEW c \in todo, DoneWith(c),
           NEW quantity \in 1..BidQty,
           BidAllowed(c, BidPrice(outcomes[c].mark), quantity),
           NEW book \in SUBSET resting, NEW tries \in Nat, NEW ok \in BOOLEAN,
           Posts(book, c, "bid", BidPrice(outcomes[c].mark), quantity, tries, ok),
           \A o \in book : o.cell = c /\ o.side = "bid" => o.stray,
           ok => exposure' = exposure + Increase(c, BidPrice(outcomes[c].mark), quantity),
           ~ok => exposure' = exposure,
           UNCHANGED clean
    PROVE  BidLeaves(c)
  <1> DEFINE price == BidPrice(outcomes[c].mark)
             more == Increase(c, price, quantity)
             had == Existing(c, myBids)
             old == Ledger(resting, myBids, todo)
             new == Ledger(resting', myBids', todo')
             bid == Order(c, "bid", price, quantity, nonce', FALSE)
  <1>1. /\ c \in Cells /\ BookInv /\ clean \in BOOLEAN
        /\ ListOK(myBids, "bid") /\ Listed(resting, myBids, "bid", todo)
    BY DEF BotInv, ControlInv, ListsInv
  <1>2. /\ price \in Nat /\ price * quantity \in Nat /\ more \in Nat
        /\ price * quantity <= more + Notional(had) /\ Notional(had) \in Nat
        /\ exposure + more <= MaxBidNotional
    BY <1>1, AllowedBid
  <1>3. quantity \in Nat \ {0} /\ outcomes[c] # NoAnchor
    BY BotConstants DEF BidAllowed
  <1>4. PostLeaves(book, c, "bid", price, quantity, ok)
    <2> HIDE DEF price
    <2>1. "bid" \in {"ask", "bid"}
      OBVIOUS
    <2>2. Posts(book, c, "bid", price, quantity, tries, ok)
      BY DEF price
    <2>3. QED
      BY <1>1, <1>2, <1>3, <2>1, <2>2, PostsAdd
  <1>5. BookInv'
    BY <1>4 DEF PostLeaves
  <1> HIDE DEF price, more, had, bid
  <1>6. ASSUME NEW o \in resting', o.side = "ask" \/ o.cell # c
        PROVE  \E p \in resting : Covers(p, o)
    <2>1. o \in book
      BY <1>4, <1>6 DEF PostLeaves
    <2>2. o \in resting /\ o \in OrderType
      BY <1>1, <2>1 DEF BookInv
    <2>3. QED
      BY <2>2, CoversItself
  <1>7. ASSUME NEW b \in KnownOf(resting', "bid"), b.cell = c PROVE ok /\ b = bid
    BY <1>4, <1>7 DEF PostLeaves, KnownOf, bid
  <1>8. ASSUME NEW b \in KnownOf(resting', "bid"), b.cell = c
        PROVE  ~DriftsBeyond(price, b.price, DriftLimit)
    <2>1. b.price = price
      BY <1>7, <1>8 DEF bid, Order
    <2>2. QED
      BY <1>2, <2>1, NoDrift
  <1>9. exposure \in Nat /\ Notional(old) \in Nat /\ Notional(old) <= exposure
    BY SumsAreNat DEF BotInv, MoneyInv
  <1>10. /\ old \subseteq OrderType /\ IsFiniteSet(old) /\ UniqueKeys(old)
         /\ new \subseteq OrderType /\ IsFiniteSet(new) /\ UniqueKeys(new)
         /\ ListOK(myBids', "bid")
    <2>1. ListOK(myBids', "bid")
      BY <1>1, ListLess DEF DoneWith
    <2>2. QED
      BY <1>1, <1>5, <2>1, LedgerIsBook DEF BookInv
  <1>11. had \subseteq old /\ \A o, p \in had : o = p
    BY <1>1, ExistingIsOne DEF had, Existing, Ledger
  <1>12. ASSUME NEW o \in new PROVE o \in old \ had \/ (ok /\ o = bid)
    <2>1. CASE o \in myBids' /\ o.cell \in todo'
      BY <2>1 DEF DoneWith, Ledger, had, Existing
    <2>2. CASE o \in KnownOf(resting', "bid") /\ o.cell \notin todo'
      <3>1. CASE o.cell = c
        BY <1>7, <2>2, <3>1
      <3>2. CASE o.cell # c
        <4>1. o \in resting /\ o.cell \notin todo
          BY <1>4, <2>2, <3>2 DEF PostLeaves, KnownOf, DoneWith
        <4>2. QED
          BY <2>2, <3>2, <4>1 DEF Ledger, KnownOf, had, Existing
      <3>3. QED
        BY <3>1, <3>2
    <2>3. QED
      BY <2>1, <2>2 DEF Ledger
  <1>13. Notional(new) \in Nat /\ exposure' \in Nat
    <2>1. Notional(new) \in Nat
      BY <1>10, OrdersPriced, NotionalNat
    <2>2. ok => exposure' = exposure + more
      BY DEF more, price
    <2>3. QED
      BY <1>2, <1>9, <2>1, <2>2
  <1>14. Notional(old) = Notional(had) + Notional(old \ had) /\ Notional(old \ had) \in Nat
    BY <1>10, <1>11, OrdersPriced, NotionalSplit
  <1> HIDE DEF old, new
  <1>15. old \ had \subseteq OrderType /\ IsFiniteSet(old \ had) /\ UniqueKeys(old \ had)
    BY <1>10, FS_Subset DEF UniqueKeys
  <1>16. Notional(new) <= exposure'
    <2>1. CASE ok
      <3>1. bid \in OrderType /\ Cost(bid) = price * quantity
        BY <1>1, <1>2, <1>3, <1>5 DEF bid, Order, OrderType, Cost, BookInv
      <3>2. new \subseteq (old \ had) \cup {bid}
        BY <1>12
      <3>3. Notional(new) <= Notional(old \ had) + Cost(bid)
        BY <1>10, <1>15, <3>1, <3>2, NotionalSwap
      <3>4. exposure' = exposure + more
        BY <2>1 DEF more, price
      <3>5. QED
        BY <1>2, <1>9, <1>13, <1>14, <3>1, <3>3, <3>4
    <2>2. CASE ~ok
      <3>1. \A o \in new : \E p \in old : Covers(p, o)
        BY <1>10, <1>12, <2>2, CoversItself
      <3>2. Notional(new) <= Notional(old)
        BY <1>10, <3>1, CoveredCostsLess
      <3>3. QED
        BY <1>9, <1>13, <2>2, <3>2
    <2>3. QED
      BY <2>1, <2>2
  <1>17. Notional(Known("bid")') <= MaxBidNotional
    <2>1. /\ Known("bid")' \subseteq OrderType /\ IsFiniteSet(Known("bid")')
          /\ UniqueKeys(Known("bid")')
      <3>1. Known("bid")' \subseteq resting'
        BY DEF Known, KnownOf
      <3>2. QED
        BY <1>5, <3>1, FS_Subset DEF BookInv, UniqueKeys
    <2>2. Notional(Known("bid")') \in Nat
      BY <2>1, OrdersPriced, NotionalNat
    <2>3. CASE ok
      <3>1. Listed(resting', myBids', "bid", todo')
        <4>1. /\ resting \subseteq OrderType /\ resting' \subseteq OrderType
              /\ myBids \subseteq OrderType /\ myBids' \subseteq myBids
              /\ todo' \subseteq todo /\ \A p \in myBids : p.cell \in todo' => p \in myBids'
          BY <1>1, <1>5 DEF BookInv, ListOK, DoneWith
        <4>2. \A o \in resting' : o.side = "bid" /\ o.cell \in todo'
                 => \E p \in resting : Covers(p, o)
          BY <1>6 DEF DoneWith
        <4>3. QED
          BY <1>1, <4>1, <4>2, ListedKept
      <3>2. \A o \in KnownOf(resting', "bid") : \E p \in new : Covers(p, o)
        BY <1>5, <1>10, <3>1, LedgerCoversKnown DEF new, BookInv
      <3>3. Notional(Known("bid")') <= Notional(new)
        BY <1>10, <2>1, <3>2, CoveredCostsLess DEF Known
      <3>4. exposure' = exposure + more
        BY <2>3 DEF more, price
      <3>5. QED
        BY <1>2, <1>9, <1>13, <1>16, <2>2, <3>3, <3>4, BotConstants
    <2>4. CASE ~ok
      <3>1. \A o \in Known("bid")' : \E p \in resting : Covers(p, o)
        BY <1>6, <1>7, <2>4 DEF Known, KnownOf
      <3>2. Notional(Known("bid")') <= Notional(Known("bid"))
        BY <1>1, <1>5, <3>1, KnownCostsLess
      <3>3. QED
        BY <2>2, <3>2, SumsAreNat, BotConstants DEF BotInv, MoneyInv
    <2>5. QED
      BY <2>3, <2>4
  <1>18. QED
    BY <1>1, <1>3, <1>5, <1>6, <1>8, <1>13, <1>16, <1>17 DEF BidLeaves, new, price

\* A bid was posted, on what is left of the book.
BidPosted(c, book, quantity, tries, ok) ==
    /\ book \in SUBSET resting /\ quantity \in 1..BidQty /\ tries \in Nat /\ ok \in BOOLEAN
    /\ BidAllowed(c, BidPrice(outcomes[c].mark), quantity)
    /\ Posts(book, c, "bid", BidPrice(outcomes[c].mark), quantity, tries, ok)
    /\ \A o \in book : o.cell = c /\ o.side = "bid" => o.stray
    /\ ok => exposure' = exposure + Increase(c, BidPrice(outcomes[c].mark), quantity)
    /\ ~ok => exposure' = exposure
    /\ UNCHANGED clean

LEMMA BidPostedLeaves ==
    ASSUME BotInv, phase = "bids", NEW c \in todo, DoneWith(c),
           NEW book, NEW quantity, NEW tries, NEW ok, BidPosted(c, book, quantity, tries, ok)
    PROVE  BidLeaves(c)
  <1>1. /\ book \in SUBSET resting /\ quantity \in 1..BidQty /\ tries \in Nat /\ ok \in BOOLEAN
        /\ BidAllowed(c, BidPrice(outcomes[c].mark), quantity)
        /\ Posts(book, c, "bid", BidPrice(outcomes[c].mark), quantity, tries, ok)
        /\ \A o \in book : o.cell = c /\ o.side = "bid" => o.stray
        /\ ok => exposure' = exposure + Increase(c, BidPrice(outcomes[c].mark), quantity)
        /\ ~ok => exposure' = exposure
        /\ UNCHANGED clean
    BY Zenon DEF BidPosted
  <1>2. QED
    BY <1>1, PostedBid

LEMMA BidStepLeaves ==
    ASSUME BotInv, phase = "bids", NEW c \in todo, DoneWith(c),
           \/ StopBid(c)
           \/ \E quantity \in 1..BidQty :
                 LET price == BidPrice(outcomes[c].mark)
                 IN  \/ PostBid(c, price, quantity)
                     \/ RepriceBid(c, price, quantity)
                     \/ HoldBid(c, price, quantity)
    PROVE  BidLeaves(c)
  <1> DEFINE price == BidPrice(outcomes[c].mark)
             had == Existing(c, myBids)
  <1>1. /\ c \in Cells /\ BookInv /\ clean \in BOOLEAN /\ exposure \in Nat
        /\ ListOK(myBids, "bid") /\ Listed(resting, myBids, "bid", todo)
    BY DEF BotInv, ControlInv, ListsInv, MoneyInv
  <1>2. ASSUME NEW o \in Known("bid"), o.cell = c
        PROVE  (\E p \in had : Covers(p, o)) /\ o \in StillLive(had)
    BY <1>1, <1>2, KnownIsExisting
  <1>3. UNCHANGED resting => Shrunk(resting, resting')
    BY <1>1, PartOfBook
  <1> HIDE DEF had
  <1>4. CASE StopBid(c)
    <2>1. PICK kept \in SUBSET Bids : Pulls(had, kept) /\ clean' = (clean /\ kept = {})
      BY <1>4 DEF StopBid, had
    <2>2. Shrunk(resting, resting')
      BY <1>1, <2>1, PullsShrink
    <2>3. ASSUME clean', NEW b \in KnownOf(resting', "bid"), b.cell = c PROVE FALSE
      <3>1. kept = {} /\ b \notin StillLive(had) /\ b \in Known("bid")
        BY <2>1, <2>3 DEF Pulls, Known, KnownOf
      <3>2. QED
        BY <1>2, <2>3, <3>1
    <2>4. UNCHANGED <<exposure, nonce>> /\ clean' \in BOOLEAN /\ (clean' => clean)
      BY <1>1, <1>4, <2>1 DEF StopBid
    <2>5. QED
      BY <2>2, <2>3, <2>4, PulledBids
  <1>5. ASSUME NEW quantity \in 1..BidQty, PostBid(c, price, quantity) PROVE BidLeaves(c)
    <2> HIDE DEF price
    <2>1. BidAllowed(c, price, quantity) /\ had = {} /\ UNCHANGED clean
      BY <1>5 DEF PostBid, had
    <2>2. PICK ok \in BOOLEAN :
              /\ Posts(resting, c, "bid", price, quantity, 2, ok)
              /\ exposure' = exposure + IF ok THEN price * quantity ELSE 0
      BY <1>5 DEF PostBid
    <2>3. \A o \in resting : o.cell = c /\ o.side = "bid" => o.stray
      BY <1>2, <2>1 DEF Known, KnownOf
    <2>4. price * quantity \in Nat
      BY <1>1, <2>1, AllowedBid DEF price
    <2>5. Increase(c, price, quantity) = price * quantity
      BY <2>1, <2>4, NotionalOfNone DEF Increase, had
    <2>6. ok => exposure' = exposure + Increase(c, price, quantity)
      BY <2>2, <2>5
    <2>7. ~ok => exposure' = exposure
      BY <1>1, <2>2
    <2>8. resting \in SUBSET resting /\ 2 \in Nat
      OBVIOUS
    <2>9. /\ BidAllowed(c, BidPrice(outcomes[c].mark), quantity)
          /\ Posts(resting, c, "bid", BidPrice(outcomes[c].mark), quantity, 2, ok)
          /\ ok => exposure' = exposure + Increase(c, BidPrice(outcomes[c].mark), quantity)
      BY <2>1, <2>2, <2>6 DEF price
    <2>10. QED
      BY <2>1, <2>3, <2>7, <2>8, <2>9, BidPostedLeaves DEF BidPosted
  <1>6. ASSUME NEW quantity \in 1..BidQty, RepriceBid(c, price, quantity) PROVE BidLeaves(c)
    <2> DEFINE old == StillLive(had)
    <2> HIDE DEF price, old
    <2>1. BidAllowed(c, price, quantity)
      BY <1>6 DEF RepriceBid
    <2>2. CASE clean' = (clean /\ old = {}) /\ UNCHANGED <<resting, exposure, nonce>>
      <3>1. ASSUME clean', NEW b \in KnownOf(resting', "bid"), b.cell = c PROVE FALSE
        BY <1>2, <2>2, <3>1 DEF Known, old
      <3>2. clean' \in BOOLEAN /\ (clean' => clean)
        BY <1>1, <2>2
      <3>3. QED
        BY <1>3, <2>2, <3>1, <3>2, PulledBids
    <2> DEFINE book == resting \ old
    <2>3. book \in SUBSET resting /\ \A o \in book : o.cell = c /\ o.side = "bid" => o.stray
      BY <1>2 DEF Known, KnownOf, old
    <2> HIDE DEF book
    <2>4. ASSUME NEW ok \in BOOLEAN,
                 Posts(book, c, "bid", price, quantity, 2, ok),
                 exposure' = exposure + IF ok THEN Increase(c, price, quantity) ELSE 0,
                 UNCHANGED clean
          PROVE  BidLeaves(c)
      <3>1. ok => exposure' = exposure + Increase(c, price, quantity)
        BY <2>4
      <3>2. ~ok => exposure' = exposure
        BY <1>1, <2>4
      <3>3. Posts(book, c, "bid", price, quantity, 2, ok) /\ UNCHANGED clean /\ 2 \in Nat
        BY <2>4
      <3>4. /\ BidAllowed(c, BidPrice(outcomes[c].mark), quantity)
            /\ Posts(book, c, "bid", BidPrice(outcomes[c].mark), quantity, 2, ok)
            /\ ok => exposure' = exposure + Increase(c, BidPrice(outcomes[c].mark), quantity)
        BY <2>1, <3>1, <3>3 DEF price
      <3>5. QED
        BY <2>3, <3>2, <3>3, <3>4, BidPostedLeaves DEF BidPosted
    <2>5. QED
      BY <1>6, <2>2, <2>4 DEF RepriceBid, old, had, book
  <1>7. ASSUME NEW quantity \in 1..BidQty, HoldBid(c, price, quantity) PROVE BidLeaves(c)
    <2> HIDE DEF price
    <2>1. BidAllowed(c, price, quantity) /\ UNCHANGED <<resting, exposure, clean, nonce>>
      BY <1>7 DEF HoldBid
    <2>2. PICK o \in had : ~DriftsBeyond(price, o.price, DriftLimit)
      BY <1>7 DEF HoldBid, had
    <2>3. outcomes[c] # NoAnchor
      BY <2>1 DEF BidAllowed
    <2>4. ASSUME NEW b \in KnownOf(resting', "bid"), b.cell = c
          PROVE  ~DriftsBeyond(price, b.price, DriftLimit)
      <3>1. b \in Known("bid")
        BY <2>1, <2>4 DEF Known
      <3>2. PICK p \in had : Covers(p, b)
        BY <1>2, <2>4, <3>1
      <3>3. p = o
        BY <1>1, <2>2, <3>2, ExistingIsOne DEF had
      <3>4. QED
        BY <2>2, <3>2, <3>3 DEF Covers
    <2>5. QED
      BY <1>1, <1>3, <2>1, <2>3, <2>4, PulledBids DEF price
  <1>8. QED
    BY <1>4, <1>5, <1>6, <1>7

\* A series that the pass is done with has its bid near its price or none.
LEMMA BidStepKeeps ==
    ASSUME BotInv, BidStep
    PROVE  BotInv' /\ (SpreadsCoverDrift /\ CrossInv => CrossInv')
  <1>1. PICK c \in todo :
            /\ todo' = todo \ {c}
            /\ \/ StopBid(c)
               \/ \E quantity \in 1..BidQty :
                     LET price == BidPrice(outcomes[c].mark)
                     IN  \/ PostBid(c, price, quantity)
                         \/ RepriceBid(c, price, quantity)
                         \/ HoldBid(c, price, quantity)
            /\ myBids' = {o \in myBids : o.cell # c}
            /\ outcomes' = [outcomes EXCEPT ![c] = NoAnchor]
    BY DEF BidStep
  <1>2. phase = "bids" /\ UNCHANGED <<phase, failCounts, tickVars>>
    BY DEF BidStep
  <1>3. BidLeaves(c)
    BY <1>1, <1>2, BidStepLeaves DEF DoneWith
  <1>4. /\ BookInv /\ BookInv' /\ c \in Cells /\ outcomes \in [Cells -> AnchorType]
        /\ ladder \subseteq Cells /\ todo \subseteq ladder
        /\ failCounts \in [Cells -> 0..FailLimit]
    BY <1>3 DEF BidLeaves, BotInv, ControlInv
  <1>5. /\ outcomes' \in [Cells -> AnchorType] /\ outcomes'[c] = NoAnchor
        /\ \A d \in Cells : d # c => outcomes'[d] = outcomes[d]
    BY <1>1, <1>4 DEF AnchorType, NoAnchor
  <1>6. ListsInv'
    <2>1. ListOK(myBids, "bid") /\ Listed(resting, myBids, "bid", todo) /\ ListOK(myOrders, "ask")
      BY <1>2 DEF BotInv, ListsInv
    <2>2. ListOK(myBids', "bid")
      BY <1>1, <2>1, ListLess
    <2>3. \A p \in myBids : p.cell \in todo' => p \in myBids'
      BY <1>1
    <2>4. \A o \in resting' : o.side = "bid" /\ o.cell \in todo' => \E p \in resting : Covers(p, o)
      BY <1>1, <1>3 DEF BidLeaves
    <2>5. /\ resting \subseteq OrderType /\ resting' \subseteq OrderType
          /\ myBids \subseteq OrderType /\ myBids' \subseteq myBids /\ todo' \subseteq todo
      BY <1>1, <1>4, <2>1 DEF BookInv, ListOK
    <2>6. Listed(resting', myBids', "bid", todo')
      BY <2>1, <2>3, <2>4, <2>5, ListedKept
    <2>7. QED
      BY <1>2, <2>1, <2>2, <2>6 DEF ListsInv, tickVars
  <1>7. AnchorsInv'
    <2>1. ASSUME NEW d \in Cells PROVE Anchored(resting', outcomes', d)
      <3>1. CASE d = c
        BY <1>5, <3>1 DEF Anchored
      <3>2. CASE d # c
        <4>1. /\ outcomes'[d] = outcomes[d] /\ Anchored(resting, outcomes, d)
              /\ \A o \in resting' : o.side = "ask" /\ o.cell = d => \E p \in resting : Covers(p, o)
          BY <1>3, <1>5, <3>2 DEF BidLeaves, BotInv, AnchorsInv
        <4>2. QED
          BY <4>1, AnchoredKept
      <3>3. QED
        BY <3>1, <3>2
    <2>2. QED
      BY <1>2, <2>1 DEF AnchorsInv
  <1>8. MoneyInv'
    BY <1>3 DEF BidLeaves, MoneyInv
  <1>9. ControlInv'
    BY <1>1, <1>2, <1>3, <1>4, <1>5 DEF BidLeaves, ControlInv, tickVars
  <1>10. ASSUME SpreadsCoverDrift, CrossInv PROVE CrossInv'
    <2> SUFFICES ASSUME clean', NEW a \in Known("ask")', NEW b \in Known("bid")',
                        a.cell = b.cell, a.cell \notin todo'
                 PROVE  ~CrossesAsk(b.price, a.price)
      BY DEF CrossInv
    <2>1. clean /\ a \in resting' /\ b \in resting' /\ ~a.stray /\ ~b.stray
          /\ a.side = "ask" /\ b.side = "bid"
      BY <1>3 DEF BidLeaves, Known, KnownOf
    <2>2. PICK a2 \in Known("ask") : a2.cell = a.cell /\ a2.price = a.price
      <3>1. PICK p \in resting : Covers(p, a)
        BY <1>3, <2>1 DEF BidLeaves
      <3>2. QED
        BY <2>1, <3>1 DEF Covers, SameKey, Known, KnownOf
    <2>3. CASE a.cell # c
      <3>1. PICK b2 \in Known("bid") : b2.cell = b.cell /\ b2.price = b.price
        <4>1. PICK p \in resting : Covers(p, b)
          BY <1>3, <2>1, <2>3 DEF BidLeaves
        <4>2. QED
          BY <2>1, <4>1 DEF Covers, SameKey, Known, KnownOf
      <3>2. a2.cell \notin todo
        BY <1>1, <2>2, <2>3
      <3>3. QED
        BY <1>2, <1>10, <2>1, <2>2, <3>1, <3>2 DEF CrossInv
    <2>4. CASE a.cell = c
      <3>1. /\ outcomes[c] # NoAnchor
            /\ ~DriftsBeyond(BidPrice(outcomes[c].mark), b.price, DriftLimit)
        BY <1>3, <2>4 DEF BidLeaves, Known
      <3>2. Anchored(resting, outcomes, c)
        BY <1>4 DEF BotInv, AnchorsInv
      <3>3. /\ outcomes[c].mark \in Marks /\ a.price = outcomes[c].price
            /\ ~DriftsBeyond(AskPrice(outcomes[c].mark), a.price, DriftLimit)
        BY <2>2, <2>4, <3>1, <3>2 DEF Anchored, Known
      <3>4. a.price \in Nat /\ b.price \in Nat
        BY <1>4, <2>1 DEF BookInv, OrderType
      <3>5. QED
        BY <1>10, <3>1, <3>3, <3>4, NearPricesDoNotCross
    <2>5. QED
      BY <2>3, <2>4
  <1>11. QED
    BY <1>4, <1>6, <1>7, <1>8, <1>9, <1>10 DEF BotInv

-----------------------------------------------------------------------------
(* The rest of a tick.                                                      *)

LEMMA BotStarts == BotInit => BotInv /\ CrossInv
  <1> SUFFICES ASSUME BotInit PROVE BotInv /\ CrossInv
    OBVIOUS
  <1>1. PICK mark \in Marks : resting = LeftAsks(mark)
    BY DEF BotInit
  <1>2. AskPrice(mark) \in Nat
    BY SpreadTypes
  <1>3. ASSUME NEW o \in resting
        PROVE  /\ o.cell \in Cells /\ o.nonce = 0 /\ o.side = "ask" /\ ~o.stray
               /\ o = Order(o.cell, "ask", AskPrice(mark), AskQty, 0, FALSE)
               /\ o \in OrderType
    <2>1. PICK c \in Cells : o = Order(c, "ask", AskPrice(mark), AskQty, 0, FALSE)
      BY <1>1 DEF LeftAsks
    <2>2. 0 \in 0..MaxPosts
      BY BotConstants
    <2>3. QED
      BY <1>2, <2>1, <2>2, BotConstants DEF Order, OrderType
  <1>4. IsFiniteSet(resting)
    <2> DEFINE f == [c \in Cells |-> Order(c, "ask", AskPrice(mark), AskQty, 0, FALSE)]
    <2>1. f \in Surjection(Cells, resting)
      BY <1>1 DEF LeftAsks, Surjection
    <2>2. QED
      BY <2>1, BotConstants, FS_Surjection
  <1>5. UniqueKeys(resting)
    BY <1>3 DEF UniqueKeys, SameKey
  <1>6. /\ phase = "asleep" /\ ladder = {} /\ todo = {} /\ myOrders = {} /\ myBids = {}
        /\ outcomes = NoOutcomes /\ exposure = 0 /\ failCounts = [c \in Cells |-> 0]
        /\ clean = FALSE /\ nonce = 0
    BY DEF BotInit
  <1>7. BookInv
    <2>1. nonce \in 0..MaxPosts
      BY <1>6, BotConstants
    <2>6. \A o \in resting : o.nonce = 0
      BY <1>3
    <2>7. 0 <= 0
      OBVIOUS
    <2>2. \A o \in resting : o.nonce <= nonce
      BY <1>6, <2>6, <2>7
    <2>3. \A o, p \in resting : p.nonce <= o.nonce
      BY <2>6, <2>7
    <2>4. resting \subseteq OrderType
      BY <1>3
    <2>5. QED
      BY <1>4, <1>5, <2>1, <2>2, <2>3, <2>4 DEF BookInv
  <1>8. ListsInv
    BY <1>6, FS_EmptySet DEF ListsInv, ListOK, UniqueKeys
  <1>9. AnchorsInv
    BY <1>6 DEF AnchorsInv, Anchored, NoOutcomes
  <1>10. MoneyInv
    <2>1. Known("bid") = {}
      BY <1>3 DEF Known, KnownOf
    <2>2. QED
      BY <1>6, <2>1, NotionalOfNone, BotConstants DEF MoneyInv
  <1>11. ControlInv
    <2>1. 0 \in 0..FailLimit
      BY BotConstants
    <2>2. failCounts \in [Cells -> 0..FailLimit]
      BY <1>6, <2>1
    <2>3. outcomes \in [Cells -> AnchorType]
      BY <1>6 DEF NoOutcomes, NoAnchor, AnchorType
    <2>4. QED
      BY <1>6, <2>2, <2>3 DEF ControlInv
  <1>12. QED
    BY <1>6, <1>7, <1>8, <1>9, <1>10, <1>11 DEF BotInv, CrossInv

\* When contracts and orders went and the known bids are all the sum is about.
LEMMA ShrunkMoney ==
    ASSUME BotInv, Shrunk(resting, resting'), UNCHANGED nonce
    PROVE  /\ BookInv' /\ Notional(Known("bid")') <= MaxBidNotional
           /\ \A c \in Cells : outcomes'[c] = outcomes[c] => Anchored(resting', outcomes', c)
  <1>1. BookInv /\ BookInv'
    BY ShrunkKeepsBook DEF BotInv
  <1>2. \A o \in Known("bid")' : \E p \in resting : Covers(p, o)
    BY DEF Shrunk, Known, KnownOf
  <1>3. Notional(Known("bid")') <= Notional(Known("bid"))
    BY <1>1, <1>2, KnownCostsLess
  <1>4. Notional(Known("bid")') \in Nat
    <2>1. Known("bid")' \subseteq OrderType /\ IsFiniteSet(Known("bid")')
      <3>1. Known("bid")' \subseteq resting'
        BY DEF Known, KnownOf
      <3>2. QED
        BY <1>1, <3>1, FS_Subset DEF BookInv
    <2>2. QED
      BY <2>1, OrdersPriced, NotionalNat
  <1>5. Notional(Known("bid")') <= MaxBidNotional
    BY <1>3, <1>4, SumsAreNat, BotConstants DEF BotInv, MoneyInv
  <1>6. ASSUME NEW c \in Cells, outcomes'[c] = outcomes[c]
        PROVE  Anchored(resting', outcomes', c)
    BY <1>6, AnchoredKept DEF Shrunk, BotInv, AnchorsInv
  <1>7. QED
    BY <1>1, <1>5, <1>6

LEMMA ShrunkCrosses ==
    ASSUME CrossInv, Shrunk(resting, resting'), UNCHANGED <<clean, phase, todo>>
    PROVE  CrossInv'
  <1> SUFFICES ASSUME clean', phase' # "asks", NEW a \in Known("ask")', NEW b \in Known("bid")',
                      a.cell = b.cell, a.cell \notin todo'
               PROVE  ~CrossesAsk(b.price, a.price)
    BY DEF CrossInv
  <1>1. PICK a2 \in Known("ask") : a2.cell = a.cell /\ a2.price = a.price
    BY DEF Shrunk, Covers, SameKey, Known, KnownOf
  <1>2. PICK b2 \in Known("bid") : b2.cell = b.cell /\ b2.price = b.price
    BY DEF Shrunk, Covers, SameKey, Known, KnownOf
  <1>3. QED
    BY <1>1, <1>2 DEF CrossInv

LEMMA TradesKeep == ASSUME BotInv, Trades PROVE BotInv' /\ (CrossInv => CrossInv')
  <1>1. UNCHANGED <<phase, todo, outcomes, failCounts, nonce, tickVars, bidVars>>
    BY DEF Trades
  <1>2. UNCHANGED <<phase, ladder, todo, myOrders, myBids, outcomes, exposure, failCounts, clean, nonce>>
    BY <1>1 DEF tickVars, bidVars
  <1>3. Shrunk(resting, resting')
    BY TradesShrink DEF BotInv
  <1>4. /\ BookInv' /\ Notional(Known("bid")') <= MaxBidNotional
        /\ \A c \in Cells : Anchored(resting', outcomes', c)
    BY <1>2, <1>3, ShrunkMoney
  <1>5. AnchorsInv'
    BY <1>2, <1>4 DEF AnchorsInv, BotInv
  <1>6. /\ BookInv /\ ListOK(myOrders, "ask") /\ ListOK(myBids, "bid")
        /\ resting \subseteq OrderType /\ resting' \subseteq OrderType
        /\ myOrders \subseteq OrderType /\ myBids \subseteq OrderType
    BY <1>4 DEF BotInv, ListsInv, ListOK, BookInv
  <1>7. ListsInv'
    <2>1. phase = "asks" => Listed(resting', myOrders, "ask", todo)
      <3>1. CASE phase = "asks"
        <4>1. Listed(resting, myOrders, "ask", todo)
          BY <3>1 DEF BotInv, ListsInv
        <4>2. \A o \in resting' : o.side = "ask" /\ o.cell \in todo => \E p \in resting : Covers(p, o)
          BY <1>3 DEF Shrunk
        <4>3. QED
          BY <1>6, <4>1, <4>2, ListedKept
      <3>2. QED
        BY <3>1
    <2>2. phase = "bids" => Listed(resting', myBids, "bid", todo)
      <3>1. CASE phase = "bids"
        <4>1. Listed(resting, myBids, "bid", todo)
          BY <3>1 DEF BotInv, ListsInv
        <4>2. \A o \in resting' : o.side = "bid" /\ o.cell \in todo => \E p \in resting : Covers(p, o)
          BY <1>3 DEF Shrunk
        <4>3. QED
          BY <1>6, <4>1, <4>2, ListedKept
      <3>2. QED
        BY <3>1
    <2>3. QED
      BY <1>2, <1>6, <2>1, <2>2 DEF ListsInv
  <1>8. MoneyInv'
    <2>1. exposure' \in Nat
      BY <1>2 DEF BotInv, MoneyInv
    <2>2. phase' = "bids" => Notional(Ledger(resting', myBids', todo')) <= exposure'
      <3>1. CASE phase = "bids"
        <4>1. Listed(resting, myBids, "bid", todo) /\ Notional(Ledger(resting, myBids, todo)) <= exposure
          BY <3>1 DEF BotInv, ListsInv, MoneyInv
        <4>2. \A o \in Known("bid")' : \E p \in resting : Covers(p, o)
          BY <1>3 DEF Shrunk, Known, KnownOf
        <4>3. Notional(Ledger(resting', myBids', todo')) <= Notional(Ledger(resting, myBids, todo))
          BY <1>2, <1>4, <1>6, <4>1, <4>2, ShrunkLedger
        <4>4. Notional(Ledger(resting', myBids', todo')) \in Nat
          <5>1. ListOK(myBids', "bid") /\ IsFiniteSet(resting') /\ UniqueKeys(resting')
            BY <1>2, <1>4, <1>6 DEF BookInv
          <5>2. /\ Ledger(resting', myBids', todo') \subseteq OrderType
                /\ IsFiniteSet(Ledger(resting', myBids', todo'))
            BY <1>6, <5>1, LedgerIsBook
          <5>3. QED
            BY <5>2, OrdersPriced, NotionalNat
        <4>5. QED
          BY <1>2, <4>1, <4>3, <4>4, SumsAreNat DEF BotInv, MoneyInv
      <3>2. QED
        BY <1>2, <3>1
    <2>3. QED
      BY <1>4, <2>1, <2>2 DEF MoneyInv
  <1>9. ControlInv'
    BY <1>2 DEF BotInv, ControlInv
  <1>10. CrossInv => CrossInv'
    BY <1>2, <1>3, ShrunkCrosses
  <1>11. QED
    BY <1>4, <1>5, <1>7, <1>8, <1>9, <1>10 DEF BotInv

LEMMA StartTickKeeps == ASSUME BotInv, StartTick PROVE BotInv' /\ CrossInv'
  <1>1. /\ phase = "asleep" /\ phase' = "asks" /\ ladder' \subseteq Cells /\ todo' = ladder'
        /\ myOrders' = {o \in resting : o.side = "ask"} /\ clean' = FALSE
        /\ UNCHANGED <<resting, outcomes, failCounts, nonce, myBids, exposure>>
    BY DEF StartTick, Asks
  <1>2. BookInv /\ outcomes = NoOutcomes
    BY <1>1 DEF BotInv, ControlInv
  <1>3. Shrunk(resting, resting')
    BY <1>1, <1>2, PartOfBook
  <1>4. /\ BookInv' /\ Notional(Known("bid")') <= MaxBidNotional
        /\ \A c \in Cells : Anchored(resting', outcomes', c)
    BY <1>1, <1>3, ShrunkMoney
  <1>5. ListsInv'
    <2>1. ListOK(myOrders', "ask") /\ Listed(resting', myOrders', "ask", todo')
      BY <1>1, <1>2, ReadIsListed
    <2>2. QED
      BY <1>1, <2>1 DEF BotInv, ListsInv
  <1>6. AnchorsInv' /\ MoneyInv' /\ ControlInv'
    <2>1. \A c \in todo' : outcomes'[c] = NoAnchor
      BY <1>1, <1>2 DEF NoOutcomes
    <2>2. QED
      BY <1>1, <1>4, <2>1 DEF BotInv, AnchorsInv, MoneyInv, ControlInv
  <1>7. CrossInv'
    BY <1>1 DEF CrossInv
  <1>8. QED
    BY <1>4, <1>5, <1>6, <1>7 DEF BotInv

LEMMA StartStaleKeeps == ASSUME BotInv, StartStale PROVE BotInv' /\ CrossInv'
  <1>1. /\ phase = "asleep" /\ phase' = "asks"
        /\ \E kept \in SUBSET Asks : Pulls(Asks, kept)
        /\ myOrders' = {o \in resting : o.side = "ask"} /\ clean' = FALSE
        /\ UNCHANGED <<ladder, todo, outcomes, failCounts, nonce, myBids, exposure>>
    BY DEF StartStale, Asks
  <1>2. BookInv /\ todo = {}
    BY <1>1 DEF BotInv, ControlInv
  <1>3. Shrunk(resting, resting')
    BY <1>1, <1>2, PullsShrink
  <1>4. /\ BookInv' /\ Notional(Known("bid")') <= MaxBidNotional
        /\ \A c \in Cells : Anchored(resting', outcomes', c)
    BY <1>1, <1>3, ShrunkMoney
  <1>5. ListsInv'
    <2>1. resting \in SUBSET resting
      OBVIOUS
    <2>2. ListOK(myOrders', "ask")
      BY <1>1, <1>2, <2>1, ReadIsListed
    <2>3. QED
      BY <1>1, <1>2, <2>2 DEF BotInv, ListsInv, Listed
  <1>6. AnchorsInv' /\ MoneyInv' /\ ControlInv'
    BY <1>1, <1>2, <1>4 DEF BotInv, AnchorsInv, MoneyInv, ControlInv
  <1>7. CrossInv'
    BY <1>1 DEF CrossInv
  <1>8. QED
    BY <1>4, <1>5, <1>6, <1>7 DEF BotInv

\* Every bid that rests was read, and is counted; none off the ladder is left
\* by a clean sweep.
LEMMA StartBidsKeeps == ASSUME BotInv, StartBids PROVE BotInv' /\ CrossInv'
  <1> DEFINE lost == {o \in Bids : o.cell \notin ladder}
             orphans == {o \in myOrders : FullBoard /\ o.cell \notin ladder}
  <1>1. PICK kept \in SUBSET (lost \cup StillLive(orphans)) :
            Pulls(lost \cup orphans, kept) /\ clean' = (kept \cap lost = {})
    BY DEF StartBids
  <1>2. /\ phase = "asks" /\ todo = {} /\ phase' = "bids" /\ todo' = ladder
        /\ myBids' = Bids /\ exposure' = Notional(Bids) /\ myOrders' = {}
        /\ UNCHANGED <<outcomes, failCounts, nonce, ladder>>
    BY DEF StartBids, SeedLiveBidExposure
  <1>3. BookInv /\ Bids \subseteq resting /\ Bids = {o \in resting : o.side = "bid"}
    BY DEF BotInv, Bids
  <1>4. Shrunk(resting, resting') /\ resting' \subseteq resting
    BY <1>1, <1>3, PullsShrink
  <1>5. /\ BookInv' /\ Notional(Known("bid")') <= MaxBidNotional
        /\ \A c \in Cells : Anchored(resting', outcomes', c)
    BY <1>2, <1>4, ShrunkMoney
  <1>6. ListsInv'
    <2>1. ListOK(myBids', "bid") /\ Listed(resting', myBids', "bid", todo')
      BY <1>2, <1>3, <1>4, ReadIsListed
    <2>2. ListOK(myOrders', "ask")
      BY <1>2, FS_EmptySet DEF ListOK, UniqueKeys
    <2>3. QED
      BY <1>2, <2>1, <2>2 DEF ListsInv
  <1>7. MoneyInv'
    <2>1. ListOK(Bids, "bid")
      BY <1>3, ReadIsListed
    <2>2. exposure' \in Nat
      BY <1>2, <2>1, OrdersPriced, NotionalNat DEF ListOK
    <2>3. Ledger(resting', Bids, ladder) \subseteq Bids
      BY <1>3, <1>4 DEF Ledger, KnownOf
    <2>4. /\ Bids \subseteq OrderType /\ IsFiniteSet(Bids) /\ UniqueKeys(Bids)
          /\ IsFiniteSet(Ledger(resting', Bids, ladder)) /\ UniqueKeys(Ledger(resting', Bids, ladder))
      BY <2>1, <2>3, FS_Subset DEF ListOK, UniqueKeys
    <2>5. Notional(Ledger(resting', Bids, ladder)) <= Notional(Bids)
      <3>1. \A o \in Ledger(resting', Bids, ladder) : \E p \in Bids : Covers(p, o)
        BY <2>3, <2>4, CoversItself
      <3>2. Ledger(resting', Bids, ladder) \subseteq OrderType
        BY <2>3, <2>4
      <3>3. QED
        BY <2>4, <3>1, <3>2, CoveredCostsLess
    <2>6. QED
      BY <1>2, <1>5, <2>2, <2>5 DEF MoneyInv
  <1>8. AnchorsInv'
    BY <1>2, <1>5 DEF AnchorsInv
  <1>9. ControlInv'
    BY <1>1, <1>2 DEF BotInv, ControlInv
  <1>10. ASSUME clean', NEW b \in Known("bid")', b.cell \notin todo' PROVE FALSE
    <2>1. b \in resting /\ b \in lost
      BY <1>2, <1>4, <1>10 DEF Known, KnownOf, Bids
    <2>2. b \in StillLive(lost \cup orphans) /\ b \in resting'
      BY <1>10, <2>1 DEF StillLive, Known, KnownOf
    <2>3. b \in kept
      BY <1>1, <2>2 DEF Pulls
    <2>4. QED
      BY <1>1, <1>10, <2>1, <2>3
  <1>11. CrossInv'
    BY <1>10 DEF CrossInv
  <1>12. QED
    BY <1>5, <1>6, <1>7, <1>8, <1>9, <1>11 DEF BotInv

\* What a tick forgets is read again by the next.
LEMMA ForgetKeeps ==
    ASSUME BotInv, Forget, clean' \in BOOLEAN, failCounts' \in [Cells -> 0..FailLimit]
    PROVE  BotInv'
  <1>1. /\ phase' = "asleep" /\ ladder' = {} /\ todo' = {} /\ myOrders' = {} /\ myBids' = {}
        /\ outcomes' = NoOutcomes /\ exposure' = 0 /\ UNCHANGED <<resting, nonce>>
    BY DEF Forget
  <1>2. BookInv' /\ Known("bid")' = Known("bid")
    BY <1>1 DEF BotInv, BookInv, Known
  <1>3. ListsInv'
    BY <1>1, FS_EmptySet DEF ListsInv, ListOK, UniqueKeys
  <1>4. AnchorsInv'
    BY <1>1 DEF AnchorsInv, Anchored, NoOutcomes
  <1>5. MoneyInv'
    BY <1>1, <1>2 DEF BotInv, MoneyInv
  <1>6. ControlInv'
    <2>1. outcomes' \in [Cells -> AnchorType]
      BY <1>1 DEF NoOutcomes, NoAnchor, AnchorType
    <2>2. QED
      BY <1>1, <2>1 DEF ControlInv
  <1>7. QED
    BY <1>2, <1>3, <1>4, <1>5, <1>6 DEF BotInv

LEMMA TickEnds ==
    ASSUME BotInv, EndTick \/ TickFails \/ Crash
    PROVE  BotInv' /\ (CrossInv => CrossInv')
  <1>1. Forget
    BY DEF EndTick, TickFails, Crash
  <1>2. /\ failCounts \in [Cells -> 0..FailLimit] /\ clean \in BOOLEAN
        /\ phase = "asleep" => todo = {}
    BY DEF BotInv, ControlInv
  <1>3. failCounts' \in [Cells -> 0..FailLimit]
    <2>1. 0 \in 0..FailLimit
      BY BotConstants
    <2>2. failCounts' = failCounts \/ failCounts' = [c \in Cells |-> 0]
      BY DEF EndTick, TickFails, Crash
    <2>3. QED
      BY <1>2, <2>1, <2>2
  <1>4. clean' \in BOOLEAN /\ (clean' => clean /\ phase # "asks" /\ todo = {})
    <2>1. CASE EndTick
      BY <1>2, <2>1 DEF EndTick
    <2>2. CASE TickFails
      BY <2>2 DEF TickFails
    <2>3. CASE Crash
      <3>1. clean' = (clean /\ phase = "asleep")
        BY <2>3 DEF Crash
      <3>2. QED
        BY <1>2, <3>1
    <2>4. QED
      BY <2>1, <2>2, <2>3
  <1>5. BotInv'
    BY <1>1, <1>3, <1>4, ForgetKeeps
  <1>6. Known("ask")' = Known("ask") /\ Known("bid")' = Known("bid")
    BY <1>1 DEF Forget, Known
  <1>7. CrossInv => CrossInv'
    BY <1>4, <1>6 DEF CrossInv
  <1>8. QED
    BY <1>5, <1>7

LEMMA BotIdles ==
    ASSUME BotInv, UNCHANGED botVars
    PROVE  BotInv' /\ (CrossInv => CrossInv')
  <1>1. UNCHANGED <<resting, phase, ladder, todo, myOrders, myBids, outcomes, exposure,
                    failCounts, clean, nonce>>
    BY DEF botVars, tickVars, bidVars
  <1>2. BookInv' /\ ListsInv'
    BY <1>1 DEF BotInv, BookInv, ListsInv
  <1>3. AnchorsInv' /\ ControlInv'
    BY <1>1 DEF BotInv, AnchorsInv, ControlInv
  <1>4. MoneyInv'
    BY <1>1 DEF BotInv, MoneyInv, Known
  <1>5. CrossInv => CrossInv'
    BY <1>1 DEF CrossInv, Known
  <1>6. QED
    BY <1>2, <1>3, <1>4, <1>5 DEF BotInv

LEMMA BotSteps ==
    BotInv /\ [BotNext]_botVars => BotInv' /\ (SpreadsCoverDrift /\ CrossInv => CrossInv')
  <1> SUFFICES ASSUME BotInv, [BotNext]_botVars
               PROVE  BotInv' /\ (SpreadsCoverDrift /\ CrossInv => CrossInv')
    OBVIOUS
  <1>1. CASE Trades
    BY <1>1, TradesKeep
  <1>2. CASE StartTick
    BY <1>2, StartTickKeeps
  <1>3. CASE StartStale
    BY <1>3, StartStaleKeeps
  <1>4. CASE AskStep
    BY <1>4, AskStepKeeps
  <1>5. CASE StartBids
    BY <1>5, StartBidsKeeps
  <1>6. CASE BidStep
    BY <1>6, BidStepKeeps
  <1>7. CASE EndTick \/ TickFails \/ Crash
    BY <1>7, TickEnds
  <1>8. CASE UNCHANGED botVars
    BY <1>8, BotIdles
  <1>9. QED
    BY <1>1, <1>2, <1>3, <1>4, <1>5, <1>6, <1>7, <1>8 DEF BotNext

-----------------------------------------------------------------------------
(* Theorems. *)

LEMMA BotInvariant == BotSpec => []BotInv
  <1>1. BotInit => BotInv
    BY BotStarts
  <1>2. BotInv /\ [BotNext]_botVars => BotInv'
    BY BotSteps
  <1>3. QED
    BY <1>1, <1>2, PTL DEF BotSpec

LEMMA BotTypes == BotInv => BotTypeOK
  BY DEF BotInv, BookInv, ListsInv, ListOK, MoneyInv, ControlInv, UniqueKeys, SameKey, BotTypeOK

\* What the bot knows, and the orders on the book, have their types, and no
\* nonce is used twice on a series, though a post that was taken for failed may
\* have landed.
THEOREM BotTypesCorrect == BotSpec => []BotTypeOK
  BY BotTypes, BotInvariant, PTL

\* The bids the bot knows of cost no more than its cap, over any number of
\* ticks, failed cancels, restarts and fills (bids.ts, seedLiveBidExposure).
THEOREM ExposureIsCapped == BotSpec => []BidExposureCapped
  <1>1. BotInv => BidExposureCapped
    <2>1. {o \in Bids : ~o.stray} = Known("bid")
      BY DEF Bids, Known, KnownOf
    <2>2. QED
      BY <2>1 DEF BotInv, MoneyInv, BidExposureCapped
  <1>2. QED
    BY <1>1, BotInvariant, PTL

\* When the spreads are wide enough for the drift that bids and asks may both
\* have, a bid pass whose cancels landed leaves no bid within the guard of the
\* ask on its series.
THEOREM BidsNeverMeetAsks ==
    ASSUME SpreadsCoverDrift
    PROVE  BotSpec => []NoCrossAfterCleanTick
  <1>1. BotInit => BotInv /\ CrossInv
    BY BotStarts
  <1>2. BotInv /\ CrossInv /\ [BotNext]_botVars => (BotInv /\ CrossInv)'
    BY BotSteps
  <1>3. BotInv /\ CrossInv => NoCrossAfterCleanTick
    <2> SUFFICES ASSUME BotInv, CrossInv, phase = "asleep", clean,
                        NEW a \in Asks, NEW b \in Bids, a.cell = b.cell, ~a.stray, ~b.stray
                 PROVE  ~CrossesAsk(b.price, a.price)
      BY DEF NoCrossAfterCleanTick
    <2>1. a \in Known("ask") /\ b \in Known("bid") /\ todo = {}
      BY DEF Asks, Bids, Known, KnownOf, BotInv, ControlInv
    <2>2. QED
      BY <2>1 DEF CrossInv
  <1>4. QED
    BY <1>1, <1>2, <1>3, PTL DEF BotSpec

-----------------------------------------------------------------------------
(* The three side by side. *)

LEMMA MarketInitEstablishes == MarketInit => TriggerInv /\ VolInv /\ BotInv
  BY InvInit, VolInitEstablishes, BotStarts DEF MarketInit

LEMMA MarketStepKeeps ==
    ASSUME TriggerInv, VolInv, BotInv, [MarketNext]_marketVars
    PROVE  TriggerInv' /\ VolInv' /\ BotInv'
  <1>1. /\ [TriggerNext]_triggerVars
        /\ [VolNext]_volVars
        /\ [BotNext]_botVars
    BY DEF MarketNext, marketVars
  <1>2. QED
    BY <1>1, InvNext, VolStepKeeps, BotSteps

\* Every variable of the triggers, the oracle and the market maker has its type
\* when they run beside each other.
THEOREM MarketTypesCorrect == MarketSpec => []MarketTypeOK
  <1>1. TriggerInv /\ VolInv /\ BotInv /\ [MarketNext]_marketVars
            => (TriggerInv /\ VolInv /\ BotInv)'
    BY MarketStepKeeps
  <1>2. TriggerInv /\ VolInv /\ BotInv => MarketTypeOK
    BY BotTypes DEF TriggerInv, VolInv, MarketTypeOK
  <1>3. QED
    BY <1>1, <1>2, MarketInitEstablishes, PTL DEF MarketSpec
=============================================================================
