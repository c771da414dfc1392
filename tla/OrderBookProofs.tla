--------------------------- MODULE OrderBookProofs ---------------------------
(***************************************************************************)
(* Theorems about OrderBook, for every set of traders, prices, quantities, *)
(* fees and schedules: its escrows hold what their rests need but for what *)
(* went astray, and it implements Ledger, which counts what does.          *)
(***************************************************************************)
EXTENDS OrderBook, ArithmeticProofs

USE DEF BookAssumption

-----------------------------------------------------------------------------
(* The invariant. *)

\* One order, and one listing, in a state the handlers leave it in.
OrderOK(o) ==
    /\ o.open <=> o.quantity_remaining > 0
    /\ o.escrow = EscrowFor(o.kind, o.price_per_contract, o.quantity_remaining) + o.extra
    /\ o.extra # 0 => o.open
    /\ o.open => o.price_per_contract \in Prices

ListingOK(l) ==
    /\ l.open <=> l.listed_quantity > 0
    /\ l.escrow = l.listed_quantity + l.extra
    /\ l.extra # 0 => l.open
    /\ l.open => l.price_per_contract \in Prices

OrdersInv ==
    /\ order \in [Users -> [Nonces -> OrderRecord]]
    /\ \A u \in Users, n \in Nonces : OrderOK(order[u][n])

ListingsInv ==
    /\ listing \in [Users -> ListingRecord]
    /\ \A u \in Users : ListingOK(listing[u])

TokensInv ==
    /\ tokens \in [Users -> Nat]
    /\ option_account \in [Users -> BOOLEAN]
    /\ \A u \in Users : tokens[u] > 0 => option_account[u]

DollarsInv ==
    /\ usdc \in [Users -> Nat]
    /\ treasury \in Nat

VaultInv ==
    /\ now \in 0..Horizon
    /\ is_settled \in BOOLEAN /\ voided \in BOOLEAN
    /\ payout \in Payouts \cup {0}
    /\ pool \in Nat
    /\ is_settled => now >= Expiry

\* An account whose escrow differs from its rest had something go astray, and
\* tokens are missing after settlement only.
Noted(account, of_tokens) ==
    /\ account.extra # 0 => redirected > 0
    /\ of_tokens /\ account.extra < 0 => is_settled

AstrayInv ==
    /\ redirected \in 0..MaxRedirected
    /\ \A u \in Users, n \in Nonces :
           Noted(order[u][n], order[u][n].kind = "ResaleAsk")
    /\ \A u \in Users : Noted(listing[u], TRUE)

BookInv == OrdersInv /\ ListingsInv /\ TokensInv /\ DollarsInv /\ VaultInv

LEMMA InvariantSuffices == BookInv /\ AstrayInv => BookTypeOK /\ EscrowsBackRests
  <1> SUFFICES ASSUME BookInv, AstrayInv PROVE BookTypeOK /\ EscrowsBackRests
    OBVIOUS
  <1>1. BookTypeOK
    BY DEF BookInv, OrdersInv, ListingsInv, TokensInv, DollarsInv, VaultInv,
           AstrayInv, BookTypeOK
  <1>2. ASSUME NEW u \in Users, NEW n \in Nonces
        PROVE  LET o == order[u][n] IN
               BacksRest(o, o.quantity_remaining,
                         EscrowFor(o.kind, o.price_per_contract, o.quantity_remaining),
                         o.kind = "ResaleAsk")
    <2>1. OrderOK(order[u][n]) /\ Noted(order[u][n], order[u][n].kind = "ResaleAsk")
      BY DEF BookInv, OrdersInv, AstrayInv
    <2>2. QED
      BY <2>1 DEF OrderOK, Noted, BacksRest
  <1>3. ASSUME NEW u \in Users
        PROVE  LET l == listing[u] IN
               BacksRest(l, l.listed_quantity, l.listed_quantity, TRUE)
    <2>1. ListingOK(listing[u]) /\ Noted(listing[u], TRUE)
      BY DEF BookInv, ListingsInv, AstrayInv
    <2>2. QED
      BY <2>1 DEF ListingOK, Noted, BacksRest
  <1>4. QED
    BY <1>1, <1>2, <1>3 DEF EscrowsBackRests

-----------------------------------------------------------------------------
(* Orders and listings. *)

LEMMA PricesNat ==
    ASSUME NEW price \in Prices \cup {0}
    PROVE  price \in Nat
  <1>1. Prices \subseteq Nat
    BY BookAssumption
  <1>2. QED
    BY <1>1

LEMMA NoOrderOK == NoOrder \in OrderRecord /\ OrderOK(NoOrder)
  BY DEF NoOrder, OrderRecord, OrderKinds, OrderOK, EscrowFor

LEMMA NoListingOK == NoListing \in ListingRecord /\ ListingOK(NoListing)
  BY DEF NoListing, ListingRecord, ListingOK

\* What an order must hold is a natural number, and what part of it must hold
\* is the part of that.
LEMMA EscrowForParts ==
    ASSUME NEW kind \in OrderKinds, NEW price \in Nat,
           NEW rest \in Nat, NEW quantity \in Nat, quantity <= rest
    PROVE  /\ EscrowFor(kind, price, quantity) \in Nat
           /\ EscrowFor(kind, price, rest) \in Nat
           /\ EscrowFor(kind, price, quantity) <= EscrowFor(kind, price, rest)
           /\ EscrowFor(kind, price, rest - quantity)
                = EscrowFor(kind, price, rest) - EscrowFor(kind, price, quantity)
  <1>1. Cpc \in Nat
    BY BookAssumption
  <1>2. ASSUME NEW k \in Nat
        PROVE  /\ k * quantity \in Nat /\ k * rest \in Nat
               /\ k * quantity <= k * rest
               /\ k * (rest - quantity) = k * rest - k * quantity
    OBVIOUS
  <1>3. CASE kind = "ResaleAsk"
    BY <1>3 DEF EscrowFor
  <1>4. CASE kind = "Bid"
    BY <1>2, <1>4 DEF EscrowFor
  <1>5. CASE kind = "WriterAsk"
    BY <1>1, <1>2, <1>5 DEF EscrowFor
  <1>6. QED
    BY <1>3, <1>4, <1>5 DEF OrderKinds

\* A new order.
LEMMA PostedOK ==
    ASSUME NEW kind \in OrderKinds, NEW price \in Prices, NEW quantity \in Quantities,
           NEW o,
           o = [open |-> TRUE, kind |-> kind, price_per_contract |-> price,
                quantity_remaining |-> quantity,
                escrow |-> EscrowFor(kind, price, quantity), extra |-> 0]
    PROVE  o \in OrderRecord /\ OrderOK(o)
  <1>1. price \in Nat /\ quantity \in Nat /\ quantity > 0
    BY BookAssumption
  <1>2. EscrowFor(kind, price, quantity) \in Nat
    BY <1>1, EscrowForParts
  <1>3. QED
    BY <1>1, <1>2 DEF OrderRecord, OrderOK

\* An order after a fill at its price.
LEMMA FilledOK ==
    ASSUME NEW o \in OrderRecord, OrderOK(o),
           NEW quantity \in Nat \ {0}, quantity <= o.quantity_remaining,
           NEW out, out = EscrowFor(o.kind, o.price_per_contract, quantity),
           out <= o.escrow
    PROVE  /\ AfterFill(o, quantity, out) \in OrderRecord
           /\ OrderOK(AfterFill(o, quantity, out))
  <1>1. CASE quantity = o.quantity_remaining
    BY <1>1, NoOrderOK DEF AfterFill
  <1>2. CASE quantity # o.quantity_remaining
    <2> DEFINE r == AfterFill(o, quantity, out)
    <2>1. /\ o.kind \in OrderKinds /\ o.open \in BOOLEAN
          /\ o.price_per_contract \in Prices \cup {0}
          /\ o.price_per_contract \in Nat
          /\ o.quantity_remaining \in Nat /\ o.escrow \in Nat /\ o.extra \in Int
      <3>1. o.price_per_contract \in Prices \cup {0}
        BY DEF OrderRecord
      <3>2. o.price_per_contract \in Nat
        BY <3>1, PricesNat, Zenon
      <3>3. QED
        BY <3>1, <3>2 DEF OrderRecord
    <2>2. /\ out \in Nat
          /\ EscrowFor(o.kind, o.price_per_contract, o.quantity_remaining - quantity)
                + o.extra = o.escrow - out
          /\ o.open /\ o.price_per_contract \in Prices
      <3> DEFINE price == o.price_per_contract
                 rest == o.quantity_remaining
      <3>1. /\ EscrowFor(o.kind, price, quantity) \in Nat
            /\ EscrowFor(o.kind, price, rest) \in Nat
            /\ EscrowFor(o.kind, price, rest - quantity)
                 = EscrowFor(o.kind, price, rest) - EscrowFor(o.kind, price, quantity)
        <4>1. /\ quantity \in Nat /\ quantity <= rest /\ rest \in Nat
              /\ price \in Nat /\ o.kind \in OrderKinds
          BY <2>1
        <4> HIDE DEF price, rest
        <4>2. QED
          BY <4>1, EscrowForParts, ZenonT(60)
      <3>2. o.escrow = EscrowFor(o.kind, price, rest) + o.extra
        BY DEF OrderOK
      <3>3. o.open /\ o.price_per_contract \in Prices
        BY <2>1 DEF OrderOK
      <3>4. out = EscrowFor(o.kind, price, quantity)
        OBVIOUS
      <3> HIDE DEF price, rest
      <3>5. EscrowFor(o.kind, price, rest - quantity) + o.extra = o.escrow - out
        BY <2>1, <3>1, <3>2, <3>4
      <3>6. QED
        BY <3>1, <3>3, <3>4, <3>5 DEF price, rest
    <2>3. r = [open |-> o.open, kind |-> o.kind,
               price_per_contract |-> o.price_per_contract,
               quantity_remaining |-> o.quantity_remaining - quantity,
               escrow |-> o.escrow - out, extra |-> o.extra]
      BY <1>2 DEF AfterFill, OrderRecord
    <2>4. /\ o.quantity_remaining - quantity \in Nat
          /\ o.quantity_remaining - quantity > 0
          /\ o.escrow - out \in Nat
      BY <1>2, <2>1, <2>2
    <2> HIDE DEF r
    <2>5. r \in OrderRecord
      BY <2>1, <2>3, <2>4 DEF OrderRecord
    <2>6. OrderOK(r)
      BY <2>1, <2>2, <2>3, <2>4 DEF OrderOK
    <2>7. QED
      BY <2>5, <2>6 DEF r
  <1>3. QED
    BY <1>1, <1>2

LEMMA ListedOK ==
    ASSUME NEW price \in Prices, NEW quantity \in Quantities, NEW l,
           l = [open |-> TRUE, price_per_contract |-> price,
                listed_quantity |-> quantity, escrow |-> quantity, extra |-> 0]
    PROVE  l \in ListingRecord /\ ListingOK(l)
  BY BookAssumption DEF ListingRecord, ListingOK

LEMMA SoldOK ==
    ASSUME NEW l \in ListingRecord, ListingOK(l),
           NEW quantity \in Nat \ {0}, quantity <= l.listed_quantity,
           quantity <= l.escrow
    PROVE  /\ AfterSale(l, quantity) \in ListingRecord
           /\ ListingOK(AfterSale(l, quantity))
  <1>1. CASE quantity = l.listed_quantity
    BY <1>1, NoListingOK DEF AfterSale
  <1>2. CASE quantity # l.listed_quantity
    <2> DEFINE r == AfterSale(l, quantity)
    <2>1. r = [open |-> l.open, price_per_contract |-> l.price_per_contract,
               listed_quantity |-> l.listed_quantity - quantity,
               escrow |-> l.escrow - quantity, extra |-> l.extra]
      BY <1>2 DEF AfterSale, ListingRecord
    <2>2. /\ l.open \in BOOLEAN /\ l.price_per_contract \in Prices \cup {0}
          /\ l.listed_quantity \in Nat /\ l.escrow \in Nat /\ l.extra \in Int
      BY DEF ListingRecord
    <2> HIDE DEF r
    <2>3. r \in ListingRecord
      BY <1>2, <2>1, <2>2 DEF ListingRecord, ListingOK
    <2>4. ListingOK(r)
      BY <1>2, <2>1, <2>2 DEF ListingOK
    <2>5. QED
      BY <2>3, <2>4 DEF r
  <1>3. QED
    BY <1>1, <1>2

\* What goes astray into or out of an escrow is noted in its account.
LEMMA OrderAstrayOK ==
    ASSUME NEW o \in OrderRecord, OrderOK(o), o.open,
           NEW amount \in Int, o.escrow + amount >= 0
    PROVE  /\ Shifted(o, amount) \in OrderRecord
           /\ OrderOK(Shifted(o, amount))
           /\ Shifted(o, amount).kind = o.kind
           /\ Shifted(o, amount).escrow = o.escrow + amount
           /\ Shifted(o, amount).extra = o.extra + amount
  <1> DEFINE r == Shifted(o, amount)
             needed == EscrowFor(o.kind, o.price_per_contract, o.quantity_remaining)
  <1>1. r = [open |-> o.open, kind |-> o.kind,
             price_per_contract |-> o.price_per_contract,
             quantity_remaining |-> o.quantity_remaining,
             escrow |-> o.escrow + amount, extra |-> o.extra + amount]
    <2>1. r = [o EXCEPT !.escrow = @ + amount, !.extra = @ + amount]
      BY DEF Shifted
    <2> HIDE DEF r
    <2>2. QED
      BY <2>1 DEF OrderRecord
  <1>2. o.escrow \in Nat /\ o.extra \in Int
    BY DEF OrderRecord
  <1>3. needed \in Nat
    <2>1. o.price_per_contract \in Prices \cup {0}
      BY DEF OrderRecord
    <2>2. o.price_per_contract \in Nat
      BY <2>1, PricesNat, Zenon
    <2>3. /\ o.kind \in OrderKinds /\ o.quantity_remaining \in Nat
          /\ o.quantity_remaining <= o.quantity_remaining
      BY DEF OrderRecord
    <2>4. QED
      BY <2>2, <2>3, EscrowForParts, Zenon
  <1>4. o.escrow = needed + o.extra
    BY DEF OrderOK
  <1> HIDE DEF needed
  <1>5. o.escrow + amount = needed + (o.extra + amount)
    BY <1>2, <1>3, <1>4
  <1> HIDE DEF r
  <1>6. r \in OrderRecord
    BY <1>1, <1>2 DEF OrderRecord
  <1>7. OrderOK(r)
    BY <1>1, <1>5 DEF OrderOK, needed
  <1>8. QED
    BY <1>1, <1>6, <1>7 DEF r

LEMMA ListingAstrayOK ==
    ASSUME NEW l \in ListingRecord, ListingOK(l), l.open,
           NEW amount \in Int, l.escrow + amount >= 0
    PROVE  /\ Shifted(l, amount) \in ListingRecord
           /\ ListingOK(Shifted(l, amount))
           /\ Shifted(l, amount).escrow = l.escrow + amount
           /\ Shifted(l, amount).extra = l.extra + amount
  <1> DEFINE r == Shifted(l, amount)
  <1>1. r = [open |-> l.open, price_per_contract |-> l.price_per_contract,
             listed_quantity |-> l.listed_quantity,
             escrow |-> l.escrow + amount, extra |-> l.extra + amount]
    <2>1. r = [l EXCEPT !.escrow = @ + amount, !.extra = @ + amount]
      BY DEF Shifted
    <2> HIDE DEF r
    <2>2. QED
      BY <2>1 DEF ListingRecord
  <1>2. l.escrow \in Nat /\ l.extra \in Int /\ l.listed_quantity \in Nat
    BY DEF ListingRecord
  <1> HIDE DEF r
  <1>3. r \in ListingRecord
    BY <1>1, <1>2 DEF ListingRecord
  <1>4. ListingOK(r)
    BY <1>1, <1>2 DEF ListingOK
  <1>5. QED
    BY <1>1, <1>3, <1>4 DEF r

\* Replacing one order by a good one keeps the orders good.
LEMMA OrdersAfter ==
    ASSUME OrdersInv, NEW u \in Users, NEW n \in Nonces,
           NEW r \in OrderRecord, OrderOK(r),
           order' = [order EXCEPT ![u][n] = r]
    PROVE  OrdersInv'
  <1>1. order' \in [Users -> [Nonces -> OrderRecord]]
    BY DEF OrdersInv
  <1>2. ASSUME NEW v \in Users, NEW k \in Nonces
        PROVE  order'[v][k] = r \/ order'[v][k] = order[v][k]
    BY DEF OrdersInv
  <1>3. ASSUME NEW v \in Users, NEW k \in Nonces
        PROVE  OrderOK(order'[v][k])
    BY <1>2 DEF OrdersInv
  <1>4. QED
    BY <1>1, <1>3 DEF OrdersInv, OrderOK

LEMMA ListingsAfter ==
    ASSUME ListingsInv, NEW u \in Users, NEW r \in ListingRecord, ListingOK(r),
           listing' = [listing EXCEPT ![u] = r]
    PROVE  ListingsInv'
  BY DEF ListingsInv, ListingOK

\* A fee is a natural number no larger than what it is taken of.
LEMMA FeeBounds ==
    ASSUME NEW total \in Nat
    PROVE  ProtocolFee(total, FeeBps) \in Nat /\ ProtocolFee(total, FeeBps) <= total
  <1>1. FeeBps \in Nat /\ FeeBps <= 10000 /\ 10000 \in Nat \ {0}
    BY BookAssumption
  <1>2. MulDiv(total, FeeBps, 10000) \in Nat
    BY <1>1, MulDivNat
  <1>3. MulDiv(total, FeeBps, 10000) <= total
    BY <1>1, MulDivAtMost
  <1>4. QED
    BY <1>2, <1>3 DEF ProtocolFee

-----------------------------------------------------------------------------
(* What lies where. *)

\* What one order holds of dollars and of options.
UsdcIn(o) == IF o.kind = "ResaleAsk" THEN 0 ELSE o.escrow

OptionsIn(o) == IF o.kind = "ResaleAsk" THEN o.escrow ELSE 0

LEMMA HeldNat ==
    ASSUME NEW o \in OrderRecord
    PROVE  UsdcIn(o) \in Nat /\ OptionsIn(o) \in Nat
  BY DEF UsdcIn, OptionsIn, OrderRecord

LEMMA EscrowedNat ==
    ASSUME NEW orders \in [Nonces -> OrderRecord]
    PROVE  EscrowedUsdc(orders) \in Nat /\ EscrowedOptions(orders) \in Nat
  <1> DEFINE f == [n \in Nonces |-> UsdcIn(orders[n])]
             g == [n \in Nonces |-> OptionsIn(orders[n])]
  <1>1. f \in [Nonces -> Nat] /\ g \in [Nonces -> Nat]
    BY HeldNat
  <1>2. EscrowedUsdc(orders) = Total(f) /\ EscrowedOptions(orders) = Total(g)
    BY DEF EscrowedUsdc, EscrowedOptions, UsdcIn, OptionsIn
  <1>3. IsFiniteSet(Nonces)
    BY BookAssumption
  <1> HIDE DEF f, g
  <1>4. Total(f) \in Nat /\ Total(g) \in Nat
    BY <1>1, <1>3, UnitsFinite, Zenon
  <1>5. QED
    BY <1>2, <1>4

\* What any one order holds is part of the whole.
LEMMA EscrowedAtLeast ==
    ASSUME NEW orders \in [Nonces -> OrderRecord], NEW n \in Nonces
    PROVE  /\ UsdcIn(orders[n]) <= EscrowedUsdc(orders)
           /\ OptionsIn(orders[n]) <= EscrowedOptions(orders)
  <1> DEFINE f == [k \in Nonces |-> UsdcIn(orders[k])]
             g == [k \in Nonces |-> OptionsIn(orders[k])]
  <1>1. f \in [Nonces -> Nat] /\ g \in [Nonces -> Nat]
    BY HeldNat
  <1>2. /\ EscrowedUsdc(orders) = Total(f) /\ EscrowedOptions(orders) = Total(g)
        /\ f[n] = UsdcIn(orders[n]) /\ g[n] = OptionsIn(orders[n])
    BY DEF EscrowedUsdc, EscrowedOptions, UsdcIn, OptionsIn
  <1>3. IsFiniteSet(Nonces)
    BY BookAssumption
  <1> HIDE DEF f, g
  <1>4. f[n] <= Total(f) /\ g[n] <= Total(g)
    BY <1>1, <1>3, EntryAtMostTotal, Zenon
  <1>5. QED
    BY <1>2, <1>4

\* Replacing one order moves what its escrow held.
LEMMA EscrowedAfter ==
    ASSUME NEW orders \in [Nonces -> OrderRecord], NEW n \in Nonces,
           NEW r \in OrderRecord
    PROVE  LET new == [orders EXCEPT ![n] = r] IN
           /\ new \in [Nonces -> OrderRecord]
           /\ EscrowedUsdc(new) = EscrowedUsdc(orders) - UsdcIn(orders[n]) + UsdcIn(r)
           /\ EscrowedOptions(new)
                = EscrowedOptions(orders) - OptionsIn(orders[n]) + OptionsIn(r)
  <1> DEFINE new == [orders EXCEPT ![n] = r]
             f == [k \in Nonces |-> UsdcIn(orders[k])]
             g == [k \in Nonces |-> OptionsIn(orders[k])]
             f2 == [k \in Nonces |-> UsdcIn(new[k])]
             g2 == [k \in Nonces |-> OptionsIn(new[k])]
  <1>1. /\ new \in [Nonces -> OrderRecord] /\ new[n] = r
        /\ \A k \in Nonces \ {n} : new[k] = orders[k]
    OBVIOUS
  <1> HIDE DEF new
  <1>2. f \in [Nonces -> Nat] /\ g \in [Nonces -> Nat]
    BY HeldNat
  <1>3. f2 \in [Nonces -> Nat] /\ g2 \in [Nonces -> Nat]
    BY <1>1, HeldNat
  <1>4. /\ f[n] = UsdcIn(orders[n]) /\ g[n] = OptionsIn(orders[n])
        /\ f2[n] = UsdcIn(r) /\ g2[n] = OptionsIn(r)
        /\ \A k \in Nonces \ {n} : f2[k] = f[k] /\ g2[k] = g[k]
    BY <1>1
  <1>5. /\ EscrowedUsdc(orders) = Total(f) /\ EscrowedOptions(orders) = Total(g)
        /\ EscrowedUsdc(new) = Total(f2) /\ EscrowedOptions(new) = Total(g2)
    BY DEF EscrowedUsdc, EscrowedOptions, UsdcIn, OptionsIn
  <1>6. IsFiniteSet(Nonces)
    BY BookAssumption
  <1> HIDE DEF f, g, f2, g2
  <1>7. \A k \in Nonces \ {n} : f2[k] = f[k]
    BY <1>4
  <1>8. \A k \in Nonces \ {n} : g2[k] = g[k]
    BY <1>4
  <1>9. Total(f2) = Total(f) - f[n] + f2[n]
    BY <1>2, <1>3, <1>6, <1>7, TotalChange, ZenonT(60)
  <1>10. Total(g2) = Total(g) - g[n] + g2[n]
    BY <1>2, <1>3, <1>6, <1>8, TotalChange, ZenonT(60)
  <1>11. QED
    BY <1>1, <1>4, <1>5, <1>9, <1>10 DEF new

\* Wealth and options are natural numbers.
LEMMA HoldingsNat ==
    ASSUME BookInv, NEW u \in Users
    PROVE  /\ Wealth(u) \in Nat /\ Options(u) \in Nat
           /\ usdc[u] <= Wealth(u) /\ tokens[u] <= Options(u)
  <1>1. /\ order[u] \in [Nonces -> OrderRecord] /\ usdc[u] \in Nat
        /\ tokens[u] \in Nat /\ listing[u] \in ListingRecord
    BY DEF BookInv, OrdersInv, DollarsInv, TokensInv, ListingsInv
  <1>2. listing[u].escrow \in Nat
    BY <1>1 DEF ListingRecord
  <1>3. EscrowedUsdc(order[u]) \in Nat /\ EscrowedOptions(order[u]) \in Nat
    BY <1>1, EscrowedNat
  <1>4. QED
    BY <1>1, <1>2, <1>3 DEF Wealth, Options

-----------------------------------------------------------------------------
(* The invariant is preserved. *)

\* A balance that grows, and one that shrinks by no more than it is.
LEMMA TokensPaid ==
    ASSUME TokensInv, NEW u \in Users, NEW quantity \in Nat, quantity <= tokens[u],
           tokens' = [tokens EXCEPT ![u] = @ - quantity], UNCHANGED option_account
    PROVE  TokensInv'
  BY DEF TokensInv

LEMMA TokensReceived ==
    ASSUME TokensInv, NEW u \in Users, NEW quantity \in Nat, option_account[u],
           tokens' = [tokens EXCEPT ![u] = @ + quantity], UNCHANGED option_account
    PROVE  TokensInv'
  BY DEF TokensInv

LEMMA TokensMoved ==
    ASSUME TokensInv, NEW u \in Users, NEW v \in Users, u # v,
           NEW quantity \in Nat, quantity <= tokens[u], option_account[v],
           tokens' = [tokens EXCEPT ![u] = @ - quantity, ![v] = @ + quantity],
           UNCHANGED option_account
    PROVE  TokensInv'
  BY DEF TokensInv

\* A sale: the buyer pays a total, of which the seller gets all but the fee.
LEMMA DollarsTraded ==
    ASSUME DollarsInv, NEW u \in Users, NEW v \in Users, u # v,
           NEW total \in Nat, total <= usdc[u],
           usdc' = [usdc EXCEPT ![u] = @ - total,
                                ![v] = @ + total - ProtocolFee(total, FeeBps)],
           treasury' = treasury + ProtocolFee(total, FeeBps)
    PROVE  DollarsInv'
  <1> DEFINE fee == ProtocolFee(total, FeeBps)
  <1>1. fee \in Nat /\ fee <= total
    BY FeeBounds
  <1> HIDE DEF fee
  <1>2. /\ usdc' = [usdc EXCEPT ![u] = @ - total, ![v] = @ + total - fee]
        /\ treasury' = treasury + fee
    BY DEF fee
  <1>3. QED
    BY <1>1, <1>2 DEF DollarsInv

LEMMA InitInv == Init => BookInv
  <1> SUFFICES ASSUME Init PROVE BookInv
    OBVIOUS
  <1>1. OrdersInv
    BY NoOrderOK DEF Init, OrdersInv
  <1>2. ListingsInv
    BY NoListingOK DEF Init, ListingsInv
  <1>3. TokensInv
    BY DEF Init, TokensInv
  <1>4. DollarsInv /\ VaultInv
    <2>1. Horizon \in Nat /\ InitialUsdc \in Nat
      BY BookAssumption
    <2>2. DollarsInv
      BY <2>1 DEF Init, DollarsInv
    <2>3. now \in 0..Horizon /\ pool \in Nat /\ payout \in Payouts \cup {0}
      BY <2>1 DEF Init
    <2>4. is_settled = FALSE /\ voided = FALSE
      BY DEF Init
    <2>5. QED
      BY <2>2, <2>3, <2>4 DEF VaultInv
  <1>5. QED
    BY <1>1, <1>2, <1>3, <1>4 DEF BookInv

LEMMA PostOrderInv ==
    ASSUME BookInv, NEW u \in Users, NEW n \in Nonces, NEW kind \in OrderKinds,
           NEW price \in Prices, NEW quantity \in Quantities,
           PostOrder(u, n, kind, price, quantity)
    PROVE  BookInv'
  <1> USE DEF BookInv
  <1> DEFINE amount == EscrowFor(kind, price, quantity)
             r == [open |-> TRUE, kind |-> kind, price_per_contract |-> price,
                   quantity_remaining |-> quantity, escrow |-> amount, extra |-> 0]
  <1>1. r \in OrderRecord /\ OrderOK(r)
    BY PostedOK
  <1>2. amount \in Nat
    BY <1>1 DEF OrderRecord
  <1>3. order' = [order EXCEPT ![u][n] = r]
    BY DEF PostOrder
  <1>4. /\ \/ /\ amount <= tokens[u]
              /\ tokens' = [tokens EXCEPT ![u] = @ - amount]
              /\ UNCHANGED usdc
           \/ /\ amount <= usdc[u]
              /\ usdc' = [usdc EXCEPT ![u] = @ - amount]
              /\ UNCHANGED tokens
        /\ UNCHANGED <<now, listing, option_account, treasury, is_settled, voided,
                       payout, pool>>
    BY DEF PostOrder
  <1> HIDE DEF amount, r
  <1>5. OrdersInv'
    BY <1>1, <1>3, OrdersAfter, Zenon
  <1>6. TokensInv'
    BY <1>2, <1>4 DEF TokensInv
  <1>7. DollarsInv'
    BY <1>2, <1>4 DEF DollarsInv
  <1>8. ListingsInv' /\ VaultInv'
    BY <1>4 DEF ListingsInv, ListingOK, VaultInv
  <1>9. QED
    BY <1>5, <1>6, <1>7, <1>8

\* The part of every fill that concerns the order.
LEMMA FillKeepsOrders ==
    ASSUME OrdersInv, NEW u \in Users, NEW n \in Nonces,
           NEW quantity \in Quantities, quantity <= order[u][n].quantity_remaining,
           NEW out,
           out = EscrowFor(order[u][n].kind, order[u][n].price_per_contract, quantity),
           out <= order[u][n].escrow,
           order' = [order EXCEPT ![u][n] = AfterFill(order[u][n], quantity, out)]
    PROVE  OrdersInv'
  <1> DEFINE o == order[u][n]
             r == AfterFill(o, quantity, out)
  <1>1. o \in OrderRecord /\ OrderOK(o)
    BY DEF OrdersInv
  <1>2. quantity \in Nat \ {0}
    BY BookAssumption
  <1>3. r \in OrderRecord /\ OrderOK(r)
    BY <1>1, <1>2, FilledOK, Zenon
  <1> HIDE DEF r
  <1>4. order' = [order EXCEPT ![u][n] = r]
    BY DEF r
  <1>5. QED
    BY <1>3, <1>4, OrdersAfter, Zenon

\* What a fill is worth.
LEMMA FillTotal ==
    ASSUME OrdersInv, NEW u \in Users, NEW n \in Nonces, NEW quantity \in Quantities
    PROVE  /\ quantity \in Nat \ {0}
           /\ order[u][n].price_per_contract \in Nat
           /\ quantity * order[u][n].price_per_contract \in Nat
           /\ order[u][n].price_per_contract * quantity
                = quantity * order[u][n].price_per_contract
  <1>1. order[u][n] \in OrderRecord
    BY DEF OrdersInv
  <1>2. order[u][n].price_per_contract \in Prices \cup {0}
    BY <1>1 DEF OrderRecord
  <1>3. order[u][n].price_per_contract \in Nat
    BY <1>2, PricesNat, Zenon
  <1>4. quantity \in Nat \ {0}
    BY BookAssumption
  <1>5. QED
    BY <1>3, <1>4

LEMMA FillResaleAskInv ==
    ASSUME BookInv, NEW taker \in Users, NEW u \in Users, NEW n \in Nonces,
           NEW quantity \in Quantities, FillResaleAsk(taker, u, n, quantity)
    PROVE  BookInv'
  <1> USE DEF BookInv
  <1> DEFINE total == quantity * order[u][n].price_per_contract
  <1>1. total \in Nat /\ quantity \in Nat
    BY FillTotal
  <1>2. /\ taker # u /\ total <= usdc[taker]
        /\ quantity <= order[u][n].quantity_remaining
        /\ order[u][n].kind = "ResaleAsk" /\ quantity <= order[u][n].escrow
        /\ option_account[taker]
        /\ usdc' = [usdc EXCEPT ![taker] = @ - total,
                                ![u] = @ + total - ProtocolFee(total, FeeBps)]
        /\ treasury' = treasury + ProtocolFee(total, FeeBps)
        /\ tokens' = [tokens EXCEPT ![taker] = @ + quantity]
        /\ order' = [order EXCEPT ![u][n] = AfterFill(order[u][n], quantity, quantity)]
        /\ UNCHANGED <<now, listing, option_account, is_settled, voided, payout, pool>>
    BY DEF FillResaleAsk, FillAllowed, DeliversTo, EscrowCloses
  <1> HIDE DEF total
  <1>3. quantity = EscrowFor(order[u][n].kind, order[u][n].price_per_contract, quantity)
    BY <1>2 DEF EscrowFor
  <1>4. OrdersInv'
    BY <1>2, <1>3, FillKeepsOrders, Zenon
  <1>5. TokensInv'
    BY <1>1, <1>2, TokensReceived, Zenon
  <1>6. DollarsInv'
    BY <1>1, <1>2, DollarsTraded, Zenon
  <1>7. ListingsInv' /\ VaultInv'
    BY <1>2 DEF ListingsInv, ListingOK, VaultInv
  <1>8. QED
    BY <1>4, <1>5, <1>6, <1>7

LEMMA FillBidInv ==
    ASSUME BookInv, NEW taker \in Users, NEW u \in Users, NEW n \in Nonces,
           NEW quantity \in Quantities, FillBid(taker, u, n, quantity)
    PROVE  BookInv'
  <1> USE DEF BookInv
  <1> DEFINE total == quantity * order[u][n].price_per_contract
             fee == ProtocolFee(total, FeeBps)
  <1>1. total \in Nat /\ quantity \in Nat
    BY FillTotal
  <1>2. total = order[u][n].price_per_contract * quantity
    BY FillTotal
  <1>3. /\ taker # u /\ quantity <= tokens[taker]
        /\ quantity <= order[u][n].quantity_remaining
        /\ order[u][n].kind = "Bid" /\ total <= order[u][n].escrow
        /\ option_account[u]
        /\ usdc' = [usdc EXCEPT ![taker] = @ + total - fee]
        /\ treasury' = treasury + fee
        /\ tokens' = [tokens EXCEPT ![taker] = @ - quantity, ![u] = @ + quantity]
        /\ order' = [order EXCEPT ![u][n] = AfterFill(order[u][n], quantity, total)]
        /\ UNCHANGED <<now, listing, option_account, is_settled, voided, payout, pool>>
    BY DEF FillBid, FillAllowed, DeliversTo, EscrowCloses
  <1>4. fee \in Nat /\ fee <= total
    BY <1>1, FeeBounds
  <1> HIDE DEF total, fee
  <1>5. total = EscrowFor(order[u][n].kind, order[u][n].price_per_contract, quantity)
    BY <1>2, <1>3 DEF EscrowFor
  <1>6. OrdersInv'
    BY <1>3, <1>5, FillKeepsOrders, Zenon
  <1>7. TokensInv'
    BY <1>1, <1>3, TokensMoved, Zenon
  <1>8. DollarsInv'
    BY <1>1, <1>3, <1>4 DEF DollarsInv
  <1>9. ListingsInv' /\ VaultInv'
    BY <1>3 DEF ListingsInv, ListingOK, VaultInv
  <1>10. QED
    BY <1>6, <1>7, <1>8, <1>9

LEMMA ReturnEscrowInv ==
    ASSUME BookInv, NEW u \in Users, NEW n \in Nonces, NEW v \in Users,
           order[u][n].kind = "ResaleAsk" => \/ order[u][n].escrow = 0
                                             \/ option_account[v],
           ReturnEscrow(v, order[u][n]),
           order' = [order EXCEPT ![u][n] = NoOrder],
           UNCHANGED <<now, listing, option_account, treasury, is_settled, voided,
                       payout, pool>>
    PROVE  BookInv'
  <1> USE DEF BookInv
  <1> DEFINE amount == order[u][n].escrow
  <1>1. order[u][n] \in OrderRecord
    BY DEF OrdersInv
  <1>2. amount \in Nat
    BY <1>1 DEF OrderRecord
  <1>3. \/ /\ amount = 0 \/ option_account[v]
           /\ tokens' = [tokens EXCEPT ![v] = @ + amount]
           /\ UNCHANGED usdc
        \/ /\ usdc' = [usdc EXCEPT ![v] = @ + amount]
           /\ UNCHANGED tokens
    BY DEF ReturnEscrow
  <1> HIDE DEF amount
  <1>4. OrdersInv'
    BY NoOrderOK, OrdersAfter, Zenon
  <1>5. TokensInv'
    BY <1>2, <1>3 DEF TokensInv
  <1>6. DollarsInv'
    BY <1>2, <1>3 DEF DollarsInv
  <1>7. ListingsInv' /\ VaultInv'
    BY DEF ListingsInv, ListingOK, VaultInv
  <1>8. QED
    BY <1>4, <1>5, <1>6, <1>7

LEMMA CancelOrderInv ==
    ASSUME BookInv, NEW u \in Users, NEW n \in Nonces, NEW v \in Users,
           CancelOrder(u, n, v)
    PROVE  BookInv'
  <1>1. order[u][n] \in OrderRecord
    BY DEF BookInv, OrdersInv
  <1>2. order[u][n].escrow \in Nat
    BY <1>1 DEF OrderRecord
  <1>3. order[u][n].kind = "ResaleAsk" => \/ order[u][n].escrow = 0
                                          \/ option_account[v]
    BY <1>2 DEF CancelOrder, DeliversTo
  <1>4. /\ ReturnEscrow(v, order[u][n])
        /\ order' = [order EXCEPT ![u][n] = NoOrder]
        /\ UNCHANGED <<now, listing, option_account, treasury, is_settled, voided,
                       payout, pool>>
    BY DEF CancelOrder
  <1>5. QED
    BY <1>3, <1>4, ReturnEscrowInv, Zenon

LEMMA SweepExpiredOrdersInv ==
    ASSUME BookInv, NEW u \in Users, NEW n \in Nonces, SweepExpiredOrders(u, n)
    PROVE  BookInv'
  BY ReturnEscrowInv DEF SweepExpiredOrders, DeliversTo

LEMMA ListV2ForResaleInv ==
    ASSUME BookInv, NEW u \in Users, NEW price \in Prices,
           NEW quantity \in Quantities, ListV2ForResale(u, price, quantity)
    PROVE  BookInv'
  <1> USE DEF BookInv
  <1> DEFINE r == [open |-> TRUE, price_per_contract |-> price,
                   listed_quantity |-> quantity, escrow |-> quantity, extra |-> 0]
  <1>1. r \in ListingRecord /\ ListingOK(r)
    BY ListedOK
  <1>2. quantity \in Nat
    BY BookAssumption
  <1>3. /\ listing' = [listing EXCEPT ![u] = r]
        /\ quantity <= tokens[u]
        /\ tokens' = [tokens EXCEPT ![u] = @ - quantity]
        /\ UNCHANGED <<now, order, usdc, option_account, treasury, is_settled,
                       voided, payout, pool>>
    BY DEF ListV2ForResale
  <1> HIDE DEF r
  <1>4. ListingsInv'
    BY <1>1, <1>3, ListingsAfter, Zenon
  <1>5. TokensInv'
    BY <1>2, <1>3, TokensPaid, Zenon
  <1>6. OrdersInv' /\ DollarsInv' /\ VaultInv'
    BY <1>3 DEF OrdersInv, OrderOK, DollarsInv, VaultInv
  <1>7. QED
    BY <1>4, <1>5, <1>6

\* What a sale from a listing is worth.
LEMMA SaleTotal ==
    ASSUME ListingsInv, NEW u \in Users, NEW quantity \in Quantities
    PROVE  /\ quantity \in Nat \ {0}
           /\ listing[u].price_per_contract \in Nat
           /\ quantity * listing[u].price_per_contract \in Nat
  <1>1. listing[u] \in ListingRecord
    BY DEF ListingsInv
  <1>2. listing[u].price_per_contract \in Prices \cup {0}
    BY <1>1 DEF ListingRecord
  <1>3. listing[u].price_per_contract \in Nat
    BY <1>2, PricesNat, Zenon
  <1>4. quantity \in Nat \ {0}
    BY BookAssumption
  <1>5. QED
    BY <1>3, <1>4

LEMMA BuyV2ResaleInv ==
    ASSUME BookInv, NEW buyer \in Users, NEW u \in Users,
           NEW quantity \in Quantities, NEW cap, BuyV2Resale(buyer, u, quantity, cap)
    PROVE  BookInv'
  <1> USE DEF BookInv
  <1> DEFINE total == quantity * listing[u].price_per_contract
             r == AfterSale(listing[u], quantity)
  <1>1. total \in Nat /\ quantity \in Nat \ {0}
    BY SaleTotal
  <1>2. /\ buyer # u /\ total <= usdc[buyer]
        /\ quantity <= listing[u].listed_quantity /\ quantity <= listing[u].escrow
        /\ option_account[buyer]
        /\ usdc' = [usdc EXCEPT ![buyer] = @ - total,
                                ![u] = @ + total - ProtocolFee(total, FeeBps)]
        /\ treasury' = treasury + ProtocolFee(total, FeeBps)
        /\ tokens' = [tokens EXCEPT ![buyer] = @ + quantity]
        /\ listing' = [listing EXCEPT ![u] = r]
        /\ UNCHANGED <<now, order, option_account, is_settled, voided, payout, pool>>
    BY DEF BuyV2Resale, DeliversTo
  <1>3. listing[u] \in ListingRecord /\ ListingOK(listing[u])
    BY DEF ListingsInv
  <1>4. r \in ListingRecord /\ ListingOK(r)
    BY <1>1, <1>2, <1>3, SoldOK, Zenon
  <1> HIDE DEF total, r
  <1>5. ListingsInv'
    BY <1>2, <1>4, ListingsAfter, Zenon
  <1>6. quantity \in Nat
    BY <1>1
  <1>7. TokensInv'
    BY <1>2, <1>6, TokensReceived, Zenon
  <1>8. DollarsInv'
    BY <1>1, <1>2, DollarsTraded, Zenon
  <1>9. OrdersInv' /\ VaultInv'
    BY <1>2 DEF OrdersInv, OrderOK, VaultInv
  <1>10. QED
    BY <1>5, <1>7, <1>8, <1>9

LEMMA EndListingInv ==
    ASSUME BookInv, NEW u \in Users, NEW v \in Users, EndListing(u, v),
           listing[u].escrow = 0 \/ option_account[v]
    PROVE  BookInv'
  <1> USE DEF BookInv
  <1> DEFINE amount == listing[u].escrow
  <1>1. listing[u] \in ListingRecord
    BY DEF ListingsInv
  <1>2. amount \in Nat
    BY <1>1 DEF ListingRecord
  <1>3. /\ tokens' = [tokens EXCEPT ![v] = @ + amount]
        /\ listing' = [listing EXCEPT ![u] = NoListing]
        /\ UNCHANGED <<now, order, usdc, option_account, treasury, is_settled,
                       voided, payout, pool>>
    BY DEF EndListing
  <1>4. ListingsInv'
    BY <1>3, NoListingOK, ListingsAfter, Zenon
  <1>5. amount = 0 \/ option_account[v]
    OBVIOUS
  <1> HIDE DEF amount
  <1>6. TokensInv'
    BY <1>2, <1>3, <1>5 DEF TokensInv
  <1>7. OrdersInv' /\ DollarsInv' /\ VaultInv'
    BY <1>3 DEF OrdersInv, OrderOK, DollarsInv, VaultInv
  <1>8. QED
    BY <1>4, <1>6, <1>7

LEMMA CancelListingInv ==
    ASSUME BookInv, NEW u \in Users, NEW v \in Users,
           CancelV2Resale(u, v) \/ AutoCancelListings(u, v)
    PROVE  BookInv'
  <1>1. listing[u].escrow \in Nat
    BY DEF BookInv, ListingsInv, ListingRecord
  <1>2. QED
    BY <1>1, EndListingInv DEF CancelV2Resale, AutoCancelListings, DeliversTo

LEMMA TransferOptionInv ==
    ASSUME BookInv, NEW u \in Users, NEW v \in Users, NEW quantity \in Quantities,
           TransferOption(u, v, quantity)
    PROVE  BookInv'
  <1> USE DEF BookInv
  <1>1. quantity \in Nat
    BY BookAssumption
  <1>2. TokensInv'
    BY <1>1, TokensMoved DEF TransferOption, DeliversTo
  <1>3. OrdersInv' /\ ListingsInv' /\ DollarsInv' /\ VaultInv'
    BY DEF TransferOption, OrdersInv, OrderOK, ListingsInv, ListingOK, DollarsInv,
           VaultInv
  <1>4. QED
    BY <1>2, <1>3

LEMMA AccountsInv ==
    ASSUME BookInv, NEW u \in Users, CloseOptionAccount(u) \/ OpenOptionAccount(u)
    PROVE  BookInv'
  <1> USE DEF BookInv
  <1>1. TokensInv'
    <2>1. CASE CloseOptionAccount(u)
      <3>1. /\ tokens \in [Users -> Nat] /\ tokens' = tokens /\ tokens[u] = 0
            /\ option_account' = [option_account EXCEPT ![u] = FALSE]
            /\ option_account \in [Users -> BOOLEAN]
        BY <2>1 DEF CloseOptionAccount, TokensInv
      <3>2. ASSUME NEW v \in Users, tokens[v] > 0 PROVE option_account'[v]
        <4>1. v # u
          BY <3>1, <3>2
        <4>2. option_account[v]
          BY <3>2 DEF TokensInv
        <4>3. QED
          BY <3>1, <4>1, <4>2, Zenon
      <3>3. option_account' \in [Users -> BOOLEAN]
        BY <3>1, Zenon
      <3>4. QED
        BY <3>1, <3>2, <3>3 DEF TokensInv
    <2>2. CASE OpenOptionAccount(u)
      <3>1. /\ tokens \in [Users -> Nat] /\ tokens' = tokens
            /\ option_account' = [option_account EXCEPT ![u] = TRUE]
            /\ option_account \in [Users -> BOOLEAN]
        BY <2>2 DEF OpenOptionAccount, TokensInv
      <3>2. ASSUME NEW v \in Users, tokens[v] > 0 PROVE option_account'[v]
        <4>1. option_account[v]
          BY <3>2 DEF TokensInv
        <4>2. QED
          BY <3>1, <4>1, Zenon
      <3>3. option_account' \in [Users -> BOOLEAN]
        BY <3>1, Zenon
      <3>4. QED
        BY <3>1, <3>2, <3>3 DEF TokensInv
    <2>3. QED
      BY <2>1, <2>2
  <1>2. OrdersInv' /\ ListingsInv' /\ DollarsInv' /\ VaultInv'
    BY DEF CloseOptionAccount, OpenOptionAccount, OrdersInv, OrderOK, ListingsInv,
           ListingOK, DollarsInv, VaultInv
  <1>3. QED
    BY <1>1, <1>2

\* A payment to a holder never exceeds the pool.
LEMMA PaidBounds ==
    ASSUME BookInv, NEW quantity \in Nat
    PROVE  /\ AtMost(quantity * payout, pool) \in Nat
           /\ AtMost(quantity * payout, pool) <= pool
  <1>1. Payouts \subseteq Nat
    BY BookAssumption
  <1>2. payout \in Nat /\ pool \in Nat
    BY <1>1 DEF BookInv, VaultInv
  <1>3. quantity * payout \in Nat
    BY <1>2
  <1>4. QED
    BY <1>2, <1>3, AtMostNat

LEMMA PayHolderInv ==
    ASSUME BookInv, NEW u \in Users, NEW quantity \in Nat, PayHolder(u, quantity)
    PROVE  BookInv'
  <1> USE DEF BookInv
  <1> DEFINE paid == AtMost(quantity * payout, pool)
  <1>1. paid \in Nat /\ paid <= pool
    BY PaidBounds
  <1>2. /\ quantity <= tokens[u]
        /\ tokens' = [tokens EXCEPT ![u] = @ - quantity]
        /\ usdc' = [usdc EXCEPT ![u] = @ + paid]
        /\ pool' = pool - paid
        /\ UNCHANGED <<now, order, listing, option_account, treasury, is_settled,
                       voided, payout>>
    BY DEF PayHolder
  <1> HIDE DEF paid
  <1>3. TokensInv'
    BY <1>2, TokensPaid, Zenon
  <1>4. DollarsInv' /\ VaultInv'
    BY <1>1, <1>2 DEF DollarsInv, VaultInv
  <1>5. OrdersInv' /\ ListingsInv'
    BY <1>2 DEF OrdersInv, OrderOK, ListingsInv, ListingOK
  <1>6. QED
    BY <1>3, <1>4, <1>5

\* Both ways a holder is paid.
LEMMA PaymentOfTokens ==
    ASSUME BookInv, NEW u \in Users,
           \/ \E quantity \in Quantities : ExerciseFromVault(u, quantity)
           \/ AutoFinalizeHolders(u)
    PROVE  \E quantity \in Nat : PayHolder(u, quantity)
  <1>1. Quantities \subseteq Nat /\ tokens[u] \in Nat
    BY BookAssumption DEF BookInv, TokensInv
  <1>2. QED
    BY <1>1 DEF ExerciseFromVault, AutoFinalizeHolders

\* The options of all users together.
LEMMA AllOptionsNat ==
    ASSUME BookInv
    PROVE  Total([u \in Users |-> Options(u)]) \in Nat
  <1> DEFINE f == [u \in Users |-> Options(u)]
  <1>1. f \in [Users -> Nat]
    BY HoldingsNat
  <1>2. IsFiniteSet(Users)
    BY BookAssumption
  <1> HIDE DEF f
  <1>3. Total(f) \in Nat
    BY <1>1, <1>2, UnitsFinite, Zenon
  <1>4. QED
    BY <1>3 DEF f

\* The steps of the vault and of the clock.
LEMMA VaultStepsInv ==
    ASSUME BookInv,
           \/ Tick
           \/ \E worth \in Payouts : SettleVault(worth)
           \/ InitializeVoid
           \/ WithdrawPostSettlement
    PROVE  BookInv'
  <1> USE DEF BookInv
  <1>1. Expiry \in Nat /\ Cpc \in Nat /\ Horizon \in Nat
    BY BookAssumption
  <1>2. UNCHANGED <<order, listing, usdc, tokens, option_account, treasury>>
    BY DEF Tick, SettleVault, InitializeVoid, WithdrawPostSettlement
  <1>3. OrdersInv' /\ ListingsInv' /\ TokensInv' /\ DollarsInv'
    BY <1>2 DEF OrdersInv, OrderOK, ListingsInv, ListingOK, TokensInv, DollarsInv
  <1>4. VaultInv'
    <2>1. CASE Tick
      BY <1>1, <2>1 DEF Tick, VaultInv
    <2>2. CASE \E worth \in Payouts : SettleVault(worth)
      <3>1. PICK worth \in Payouts : SettleVault(worth)
        BY <2>2
      <3>2. Cpc * Total([u \in Users |-> Options(u)]) \in Nat
        BY <1>1, AllOptionsNat
      <3>3. pool' \in Nat
        BY <3>1, <3>2 DEF SettleVault
      <3>4. QED
        BY <3>1, <3>3 DEF SettleVault, VaultInv
    <2>3. CASE InitializeVoid
      BY <2>3 DEF InitializeVoid, VaultInv
    <2>4. CASE WithdrawPostSettlement
      BY <2>4 DEF WithdrawPostSettlement, VaultInv
    <2>5. QED
      BY <2>1, <2>2, <2>3, <2>4
  <1>5. QED
    BY <1>3, <1>4

\* What is sent to an escrow, drawn from it or burned in it.
LEMMA SendToOrderInv ==
    ASSUME BookInv, NEW w \in Users, NEW u \in Users, NEW n \in Nonces,
           NEW amount \in Amounts, SendToOrder(w, u, n, amount)
    PROVE  BookInv'
  <1> USE DEF BookInv
  <1> DEFINE o == order[u][n]
             r == Shifted(o, amount)
  <1>1. amount \in Nat /\ amount \in Int
    BY BookAssumption
  <1>2. o \in OrderRecord /\ OrderOK(o) /\ o.open
    BY DEF OrdersInv, SendToOrder
  <1>3. o.escrow + amount >= 0
    BY <1>1, <1>2 DEF OrderRecord
  <1>4. r \in OrderRecord /\ OrderOK(r)
    BY <1>1, <1>2, <1>3, OrderAstrayOK, Zenon
  <1>5. /\ order' = [order EXCEPT ![u][n] = r]
        /\ \/ /\ amount <= tokens[w]
              /\ tokens' = [tokens EXCEPT ![w] = @ - amount]
              /\ UNCHANGED usdc
           \/ /\ amount <= usdc[w]
              /\ usdc' = [usdc EXCEPT ![w] = @ - amount]
              /\ UNCHANGED tokens
        /\ UNCHANGED <<now, listing, option_account, treasury, is_settled, voided,
                       payout, pool>>
    BY DEF SendToOrder
  <1> HIDE DEF r
  <1>6. OrdersInv'
    BY <1>4, <1>5, OrdersAfter, Zenon
  <1>7. TokensInv'
    BY <1>1, <1>5 DEF TokensInv
  <1>8. DollarsInv'
    BY <1>1, <1>5 DEF DollarsInv
  <1>9. ListingsInv' /\ VaultInv'
    BY <1>5 DEF ListingsInv, ListingOK, VaultInv
  <1>10. QED
    BY <1>6, <1>7, <1>8, <1>9

LEMMA SendToListingInv ==
    ASSUME BookInv, NEW w \in Users, NEW u \in Users, NEW amount \in Amounts,
           SendToListing(w, u, amount)
    PROVE  BookInv'
  <1> USE DEF BookInv
  <1> DEFINE l == listing[u]
             r == Shifted(l, amount)
  <1>1. amount \in Nat /\ amount \in Int
    BY BookAssumption
  <1>2. l \in ListingRecord /\ ListingOK(l) /\ l.open
    BY DEF ListingsInv, SendToListing
  <1>3. l.escrow + amount >= 0
    BY <1>1, <1>2 DEF ListingRecord
  <1>4. r \in ListingRecord /\ ListingOK(r)
    BY <1>1, <1>2, <1>3, ListingAstrayOK, Zenon
  <1>5. /\ listing' = [listing EXCEPT ![u] = r]
        /\ amount <= tokens[w]
        /\ tokens' = [tokens EXCEPT ![w] = @ - amount]
        /\ UNCHANGED <<now, order, usdc, option_account, treasury, is_settled,
                       voided, payout, pool>>
    BY DEF SendToListing
  <1> HIDE DEF r
  <1>6. ListingsInv'
    BY <1>4, <1>5, ListingsAfter, Zenon
  <1>7. TokensInv'
    BY <1>1, <1>5, TokensPaid, Zenon
  <1>8. OrdersInv' /\ DollarsInv' /\ VaultInv'
    BY <1>5 DEF OrdersInv, OrderOK, DollarsInv, VaultInv
  <1>9. QED
    BY <1>6, <1>7, <1>8

\* An order whose escrow holds something is open.
LEMMA HoldingOrderOpen ==
    ASSUME NEW o \in OrderRecord, OrderOK(o), o.escrow > 0
    PROVE  o.open
  <1> SUFFICES ASSUME ~o.open PROVE FALSE
    OBVIOUS
  <1>1. o.quantity_remaining = 0 /\ o.extra = 0
    BY DEF OrderOK, OrderRecord
  <1>2. o.price_per_contract \in Prices \cup {0} /\ o.kind \in OrderKinds
    BY DEF OrderRecord
  <1>3. o.price_per_contract \in Nat /\ Cpc \in Nat
    <2>1. o.price_per_contract \in Nat
      BY <1>2, PricesNat, Zenon
    <2>2. QED
      BY <2>1, BookAssumption
  <1>4. EscrowFor(o.kind, o.price_per_contract, 0) = 0
    BY <1>2, <1>3 DEF EscrowFor, OrderKinds
  <1>5. o.escrow = EscrowFor(o.kind, o.price_per_contract, 0) + 0
    BY <1>1 DEF OrderOK
  <1>6. QED
    BY <1>4, <1>5

LEMMA HoldingListingOpen ==
    ASSUME NEW l \in ListingRecord, ListingOK(l), l.escrow > 0
    PROVE  l.open
  BY DEF ListingOK, ListingRecord

LEMMA OrderPaysElsewhereInv ==
    ASSUME BookInv, NEW u \in Users, NEW n \in Nonces, NEW amount \in Amounts,
           OrderPaysElsewhere(u, n, amount)
    PROVE  BookInv'
  <1> USE DEF BookInv
  <1> DEFINE o == order[u][n]
             r == Shifted(o, -amount)
  <1>1. amount \in Nat \ {0} /\ amount <= o.escrow
    BY BookAssumption DEF OrderPaysElsewhere
  <1>2. o \in OrderRecord /\ OrderOK(o) /\ o.escrow \in Nat
    BY DEF OrdersInv, OrderRecord
  <1>3. -amount \in Int /\ o.escrow + (-amount) >= 0 /\ o.escrow > 0
    BY <1>1, <1>2
  <1>4. o.open
    BY <1>2, <1>3, HoldingOrderOpen, Zenon
  <1>5. r \in OrderRecord /\ OrderOK(r)
    BY <1>2, <1>3, <1>4, OrderAstrayOK, Zenon
  <1>6. /\ order' = [order EXCEPT ![u][n] = r]
        /\ UNCHANGED <<now, listing, usdc, tokens, option_account, treasury,
                       is_settled, voided, payout, pool>>
    BY DEF OrderPaysElsewhere
  <1> HIDE DEF r
  <1>7. OrdersInv'
    BY <1>5, <1>6, OrdersAfter, Zenon
  <1>8. ListingsInv' /\ TokensInv' /\ DollarsInv' /\ VaultInv'
    BY <1>6 DEF ListingsInv, ListingOK, TokensInv, DollarsInv, VaultInv
  <1>9. QED
    BY <1>7, <1>8

LEMMA PayProgramInv ==
    ASSUME BookInv, NEW quantity \in Nat, PayProgram(quantity),
           UNCHANGED <<now, usdc, tokens, option_account, is_settled, voided, payout>>
    PROVE  TokensInv' /\ DollarsInv' /\ VaultInv'
  <1> USE DEF BookInv
  <1> DEFINE paid == AtMost(quantity * payout, pool)
  <1>1. paid \in Nat /\ paid <= pool
    BY PaidBounds
  <1>2. treasury' = treasury + paid /\ pool' = pool - paid
    BY DEF PayProgram
  <1> HIDE DEF paid
  <1>3. QED
    BY <1>1, <1>2 DEF TokensInv, DollarsInv, VaultInv

LEMMA BurnOrderEscrowInv ==
    ASSUME BookInv, NEW u \in Users, NEW n \in Nonces, BurnOrderEscrow(u, n)
    PROVE  BookInv'
  <1> USE DEF BookInv
  <1> DEFINE o == order[u][n]
             r == Shifted(o, -o.escrow)
  <1>1. o \in OrderRecord /\ OrderOK(o) /\ o.escrow \in Nat
    BY DEF OrdersInv, OrderRecord
  <1>2. PayProgram(o.escrow) /\ o.escrow > 0
    BY DEF BurnOrderEscrow, PayProgram
  <1>3. o.open
    BY <1>1, <1>2, HoldingOrderOpen, Zenon
  <1>4. r \in OrderRecord /\ OrderOK(r)
    <2>1. -o.escrow \in Int /\ o.escrow + (-o.escrow) >= 0
      BY <1>1
    <2>2. QED
      BY <1>1, <1>3, <2>1, OrderAstrayOK, Zenon
  <1>5. /\ order' = [order EXCEPT ![u][n] = r]
        /\ UNCHANGED <<now, listing, usdc, tokens, option_account, is_settled,
                       voided, payout>>
    BY DEF BurnOrderEscrow
  <1> HIDE DEF r
  <1>6. OrdersInv'
    BY <1>4, <1>5, OrdersAfter, Zenon
  <1>7. TokensInv' /\ DollarsInv' /\ VaultInv'
    BY <1>1, <1>2, <1>5, PayProgramInv
  <1>8. ListingsInv'
    BY <1>5 DEF ListingsInv, ListingOK
  <1>9. QED
    BY <1>6, <1>7, <1>8

LEMMA BurnListingEscrowInv ==
    ASSUME BookInv, NEW u \in Users, BurnListingEscrow(u)
    PROVE  BookInv'
  <1> USE DEF BookInv
  <1> DEFINE l == listing[u]
             r == Shifted(l, -l.escrow)
  <1>1. l \in ListingRecord /\ ListingOK(l) /\ l.escrow \in Nat
    BY DEF ListingsInv, ListingRecord
  <1>2. PayProgram(l.escrow) /\ l.escrow > 0
    BY DEF BurnListingEscrow, PayProgram
  <1>3. l.open
    BY <1>1, <1>2, HoldingListingOpen, Zenon
  <1>4. r \in ListingRecord /\ ListingOK(r)
    <2>1. -l.escrow \in Int /\ l.escrow + (-l.escrow) >= 0
      BY <1>1
    <2>2. QED
      BY <1>1, <1>3, <2>1, ListingAstrayOK, Zenon
  <1>5. /\ listing' = [listing EXCEPT ![u] = r]
        /\ UNCHANGED <<now, order, usdc, tokens, option_account, is_settled,
                       voided, payout>>
    BY DEF BurnListingEscrow
  <1> HIDE DEF r
  <1>6. ListingsInv'
    BY <1>4, <1>5, ListingsAfter, Zenon
  <1>7. TokensInv' /\ DollarsInv' /\ VaultInv'
    BY <1>1, <1>2, <1>5, PayProgramInv
  <1>8. OrdersInv'
    BY <1>5 DEF OrdersInv, OrderOK
  <1>9. QED
    BY <1>6, <1>7, <1>8

LEMMA NextAstrayInv ==
    ASSUME BookInv, NextAstray
    PROVE  BookInv'
  BY SendToOrderInv, SendToListingInv, OrderPaysElsewhereInv, BurnOrderEscrowInv,
     BurnListingEscrowInv, Zenon DEF NextAstray

LEMMA NextInv ==
    ASSUME BookInv, [Next]_vars
    PROVE  BookInv'
  <1>1. CASE Tick \/ (\E worth \in Payouts : SettleVault(worth))
             \/ InitializeVoid \/ WithdrawPostSettlement
    BY <1>1, VaultStepsInv, Zenon
  <1>2. CASE \E u \in Users : CloseOptionAccount(u) \/ OpenOptionAccount(u)
    BY <1>2, AccountsInv, Zenon
  <1>3. CASE \E u, v \in Users, quantity \in Quantities : TransferOption(u, v, quantity)
    BY <1>3, TransferOptionInv, Zenon
  <1>4. CASE \E u \in Users, n \in Nonces, kind \in OrderKinds, price \in Prices,
                quantity \in Quantities : PostOrder(u, n, kind, price, quantity)
    BY <1>4, PostOrderInv, Zenon
  <1>5. CASE \E u \in Users, n \in Nonces, taker \in Users, quantity \in Quantities :
                FillResaleAsk(taker, u, n, quantity) \/ FillBid(taker, u, n, quantity)
    BY <1>5, FillResaleAskInv, FillBidInv, Zenon
  <1>6. CASE \E u \in Users, n \in Nonces : \/ \E v \in Users : CancelOrder(u, n, v)
                                            \/ SweepExpiredOrders(u, n)
    BY <1>6, CancelOrderInv, SweepExpiredOrdersInv, Zenon
  <1>7. CASE \E u \in Users, price \in Prices, quantity \in Quantities :
                ListV2ForResale(u, price, quantity)
    BY <1>7, ListV2ForResaleInv, Zenon
  <1>8. CASE \E u \in Users, buyer \in Users, quantity \in Quantities, cap \in Caps :
                BuyV2Resale(buyer, u, quantity, cap)
    BY <1>8, BuyV2ResaleInv, Zenon
  <1>9. CASE \E u, v \in Users : CancelV2Resale(u, v) \/ AutoCancelListings(u, v)
    BY <1>9, CancelListingInv, Zenon
  <1>10. CASE \E u \in Users : \/ \E quantity \in Quantities : ExerciseFromVault(u, quantity)
                               \/ AutoFinalizeHolders(u)
    <2>1. \E u \in Users, quantity \in Nat : PayHolder(u, quantity)
      BY <1>10, PaymentOfTokens, Zenon
    <2>2. QED
      BY <2>1, PayHolderInv, Zenon
  <1>11. CASE UNCHANGED vars
    BY <1>11 DEF vars, BookInv, OrdersInv, OrderOK, ListingsInv, ListingOK, TokensInv,
                 DollarsInv, VaultInv
  <1>12. CASE NextAstray
    BY <1>12, NextAstrayInv, Zenon
  <1>13. QED
    BY <1>1, <1>2, <1>3, <1>4, <1>5, <1>6, <1>7, <1>8, <1>9, <1>10, <1>11, <1>12
       DEF Next

-----------------------------------------------------------------------------
(* What goes astray is noted. *)

LEMMA CountBounds ==
    ASSUME AstrayInv, NEW u, NEW v, CountsAstray(u, v)
    PROVE  redirected' \in 0..MaxRedirected /\ redirected' >= redirected
  <1>1. MaxRedirected \in Nat
    BY BookAssumption
  <1>2. QED
    BY <1>1 DEF AstrayInv, CountsAstray

LEMMA AstrayBounds ==
    ASSUME AstrayInv, Astray
    PROVE  /\ redirected' \in 0..MaxRedirected /\ redirected' >= redirected
           /\ redirected' > 0
  <1>1. MaxRedirected \in Nat
    BY BookAssumption
  <1>2. QED
    BY <1>1 DEF AstrayInv, Astray

LEMMA NotedOrder ==
    ASSUME OrdersInv, AstrayInv, NEW u \in Users, NEW n \in Nonces, NEW r,
           order' = [order EXCEPT ![u][n] = r],
           UNCHANGED <<listing, is_settled>>,
           redirected' \in 0..MaxRedirected, redirected' >= redirected,
           r.extra # 0 => redirected' > 0,
           r.kind = "ResaleAsk" /\ r.extra < 0 => is_settled
    PROVE  AstrayInv'
  <1>1. redirected > 0 => redirected' > 0
    BY BookAssumption DEF AstrayInv
  <1>2. ASSUME NEW v \in Users, NEW k \in Nonces
        PROVE  Noted(order[v][k], order[v][k].kind = "ResaleAsk")'
    <2>1. order'[v][k] = r \/ order'[v][k] = order[v][k]
      BY DEF OrdersInv
    <2>2. Noted(order[v][k], order[v][k].kind = "ResaleAsk")
      BY DEF AstrayInv
    <2>3. QED
      BY <1>1, <2>1, <2>2 DEF Noted
  <1>3. ASSUME NEW v \in Users
        PROVE  Noted(listing[v], TRUE)'
    BY <1>1 DEF AstrayInv, Noted
  <1>4. QED
    BY <1>2, <1>3 DEF AstrayInv

LEMMA NotedListing ==
    ASSUME ListingsInv, AstrayInv, NEW u \in Users, NEW r,
           listing' = [listing EXCEPT ![u] = r],
           UNCHANGED <<order, is_settled>>,
           redirected' \in 0..MaxRedirected, redirected' >= redirected,
           r.extra # 0 => redirected' > 0,
           r.extra < 0 => is_settled
    PROVE  AstrayInv'
  <1>1. redirected > 0 => redirected' > 0
    BY BookAssumption DEF AstrayInv
  <1>2. ASSUME NEW v \in Users
        PROVE  Noted(listing[v], TRUE)'
    <2>1. listing'[v] = r \/ listing'[v] = listing[v]
      BY DEF ListingsInv
    <2>2. Noted(listing[v], TRUE)
      BY DEF AstrayInv
    <2>3. QED
      BY <1>1, <2>1, <2>2 DEF Noted
  <1>3. ASSUME NEW v \in Users, NEW k \in Nonces
        PROVE  Noted(order[v][k], order[v][k].kind = "ResaleAsk")'
    BY <1>1 DEF AstrayInv, Noted
  <1>4. QED
    BY <1>2, <1>3 DEF AstrayInv

\* A fill leaves the note as it is or closes the account.
LEMMA FillKeepsNote ==
    ASSUME NEW o \in OrderRecord, NEW quantity, NEW out
    PROVE  LET r == AfterFill(o, quantity, out) IN
           r.extra = 0 \/ (r.extra = o.extra /\ r.kind = o.kind)
  BY DEF AfterFill, NoOrder, OrderRecord

LEMMA SaleKeepsNote ==
    ASSUME NEW l \in ListingRecord, NEW quantity
    PROVE  LET r == AfterSale(l, quantity) IN r.extra = 0 \/ r.extra = l.extra
  BY DEF AfterSale, NoListing, ListingRecord

LEMMA FillNotes ==
    ASSUME BookInv, AstrayInv, NEW taker \in Users, NEW u \in Users,
           NEW n \in Nonces, NEW quantity \in Quantities,
           FillResaleAsk(taker, u, n, quantity) \/ FillBid(taker, u, n, quantity)
    PROVE  AstrayInv'
  <1>1. PICK out : /\ order' = [order EXCEPT ![u][n] = AfterFill(order[u][n], quantity, out)]
                   /\ UNCHANGED <<listing, is_settled, redirected>>
    BY DEF FillResaleAsk, FillBid
  <1> DEFINE o == order[u][n]
             r == AfterFill(o, quantity, out)
  <1>2. o \in OrderRecord /\ Noted(o, o.kind = "ResaleAsk")
    BY DEF BookInv, OrdersInv, AstrayInv
  <1>3. r.extra = 0 \/ (r.extra = o.extra /\ r.kind = o.kind)
    BY <1>2, FillKeepsNote
  <1>4. /\ order' = [order EXCEPT ![u][n] = r]
        /\ redirected' \in 0..MaxRedirected /\ redirected' >= redirected
        /\ OrdersInv
    BY <1>1, BookAssumption DEF BookInv, AstrayInv
  <1> HIDE DEF r
  <1>5. /\ r.extra # 0 => redirected' > 0
        /\ r.kind = "ResaleAsk" /\ r.extra < 0 => is_settled
    BY <1>1, <1>2, <1>3 DEF Noted
  <1>6. QED
    BY <1>1, <1>4, <1>5, NotedOrder, Zenon

LEMMA BuyNotes ==
    ASSUME BookInv, AstrayInv, NEW buyer \in Users, NEW u \in Users,
           NEW quantity \in Quantities, NEW cap, BuyV2Resale(buyer, u, quantity, cap)
    PROVE  AstrayInv'
  <1> DEFINE l == listing[u]
             r == AfterSale(l, quantity)
  <1>1. /\ listing' = [listing EXCEPT ![u] = r]
        /\ UNCHANGED <<order, is_settled, redirected>>
    BY DEF BuyV2Resale
  <1>2. l \in ListingRecord /\ Noted(l, TRUE) /\ ListingsInv
    BY DEF BookInv, ListingsInv, AstrayInv
  <1>3. r.extra = 0 \/ r.extra = l.extra
    BY <1>2, SaleKeepsNote
  <1>4. redirected' \in 0..MaxRedirected /\ redirected' >= redirected
    BY <1>1, BookAssumption DEF AstrayInv
  <1> HIDE DEF r
  <1>5. /\ r.extra # 0 => redirected' > 0
        /\ r.extra < 0 => is_settled
    BY <1>1, <1>2, <1>3 DEF Noted
  <1>6. QED
    BY <1>1, <1>2, <1>4, <1>5, NotedListing, Zenon

\* Accounts that are opened or closed have nothing to note.
LEMMA OrderOpensOrCloses ==
    ASSUME BookInv, AstrayInv, NEW u \in Users, NEW n \in Nonces,
           \/ \E kind \in OrderKinds, price \in Prices, quantity \in Quantities :
                  PostOrder(u, n, kind, price, quantity)
           \/ \E v \in Users : CancelOrder(u, n, v)
           \/ SweepExpiredOrders(u, n)
    PROVE  AstrayInv'
  <1>1. redirected' \in 0..MaxRedirected /\ redirected' >= redirected
    <2>1. CASE redirected' = redirected
      BY <2>1, BookAssumption DEF AstrayInv
    <2>2. CASE \E v \in Users : CancelOrder(u, n, v)
      BY <2>2, CountBounds DEF CancelOrder
    <2>3. QED
      BY <2>1, <2>2 DEF PostOrder, SweepExpiredOrders
  <1>2. ASSUME NEW r, r.extra = 0, order' = [order EXCEPT ![u][n] = r],
               UNCHANGED <<listing, is_settled>>
        PROVE  AstrayInv'
    <2>1. ~(r.extra # 0) /\ ~(r.extra < 0)
      BY <1>2
    <2>2. QED
      BY <1>1, <1>2, <2>1, NotedOrder, Zenon DEF BookInv
  <1>3. CASE \E kind \in OrderKinds, price \in Prices, quantity \in Quantities :
                 PostOrder(u, n, kind, price, quantity)
    <2>1. PICK kind \in OrderKinds, price \in Prices, quantity \in Quantities :
               PostOrder(u, n, kind, price, quantity)
      BY <1>3
    <2> DEFINE r == [open |-> TRUE, kind |-> kind, price_per_contract |-> price,
                     quantity_remaining |-> quantity,
                     escrow |-> EscrowFor(kind, price, quantity), extra |-> 0]
    <2>2. r.extra = 0
      OBVIOUS
    <2>3. order' = [order EXCEPT ![u][n] = r] /\ UNCHANGED <<listing, is_settled>>
      BY <2>1 DEF PostOrder
    <2>4. QED
      BY <1>2, <2>2, <2>3, Zenon
  <1>4. CASE (\E v \in Users : CancelOrder(u, n, v)) \/ SweepExpiredOrders(u, n)
    <2>1. NoOrder.extra = 0
      BY DEF NoOrder
    <2>2. order' = [order EXCEPT ![u][n] = NoOrder] /\ UNCHANGED <<listing, is_settled>>
      BY <1>4 DEF CancelOrder, SweepExpiredOrders
    <2>3. QED
      BY <1>2, <2>1, <2>2, Zenon
  <1>5. QED
    BY <1>3, <1>4

LEMMA ListingOpensOrCloses ==
    ASSUME BookInv, AstrayInv, NEW u \in Users,
           \/ \E price \in Prices, quantity \in Quantities :
                  ListV2ForResale(u, price, quantity)
           \/ \E v \in Users : EndListing(u, v)
    PROVE  AstrayInv'
  <1>1. redirected' \in 0..MaxRedirected /\ redirected' >= redirected
    <2>1. CASE redirected' = redirected
      BY <2>1, BookAssumption DEF AstrayInv
    <2>2. CASE \E v \in Users : EndListing(u, v)
      BY <2>2, CountBounds DEF EndListing
    <2>3. QED
      BY <2>1, <2>2 DEF ListV2ForResale
  <1>2. ASSUME NEW r, r.extra = 0, listing' = [listing EXCEPT ![u] = r],
               UNCHANGED <<order, is_settled>>
        PROVE  AstrayInv'
    <2>1. ~(r.extra # 0) /\ ~(r.extra < 0)
      BY <1>2
    <2>2. QED
      BY <1>1, <1>2, <2>1, NotedListing, Zenon DEF BookInv
  <1>3. CASE \E price \in Prices, quantity \in Quantities :
                 ListV2ForResale(u, price, quantity)
    <2>1. PICK price \in Prices, quantity \in Quantities :
               ListV2ForResale(u, price, quantity)
      BY <1>3
    <2> DEFINE r == [open |-> TRUE, price_per_contract |-> price,
                     listed_quantity |-> quantity, escrow |-> quantity, extra |-> 0]
    <2>2. r.extra = 0
      OBVIOUS
    <2>3. listing' = [listing EXCEPT ![u] = r] /\ UNCHANGED <<order, is_settled>>
      BY <2>1 DEF ListV2ForResale
    <2>4. QED
      BY <1>2, <2>2, <2>3, Zenon
  <1>4. CASE \E v \in Users : EndListing(u, v)
    <2>1. NoListing.extra = 0
      BY DEF NoListing
    <2>2. listing' = [listing EXCEPT ![u] = NoListing] /\ UNCHANGED <<order, is_settled>>
      BY <1>4 DEF EndListing
    <2>3. QED
      BY <1>2, <2>1, <2>2, Zenon
  <1>5. QED
    BY <1>3, <1>4

LEMMA NextAstrayNotes ==
    ASSUME BookInv, AstrayInv, NextAstray
    PROVE  AstrayInv'
  <1>1. Amounts \subseteq Nat \ {0}
    BY BookAssumption
  <1>2. Astray /\ UNCHANGED is_settled
    BY DEF NextAstray, SendToOrder, SendToListing, OrderPaysElsewhere,
           BurnOrderEscrow, BurnListingEscrow
  <1>3. /\ redirected' \in 0..MaxRedirected /\ redirected' >= redirected
        /\ redirected' > 0
    BY <1>2, AstrayBounds
  <1>4. CASE \E u \in Users, n \in Nonces :
                 \/ \E w \in Users, amount \in Amounts : SendToOrder(w, u, n, amount)
                 \/ \E amount \in Amounts : OrderPaysElsewhere(u, n, amount)
                 \/ BurnOrderEscrow(u, n)
    <2>1. PICK u \in Users, n \in Nonces :
                 \/ \E w \in Users, amount \in Amounts : SendToOrder(w, u, n, amount)
                 \/ \E amount \in Amounts : OrderPaysElsewhere(u, n, amount)
                 \/ BurnOrderEscrow(u, n)
      BY <1>4
    <2> DEFINE o == order[u][n]
    <2>2. PICK amount \in Int :
              /\ order' = [order EXCEPT ![u][n] = Shifted(o, amount)]
              /\ o.open /\ o.escrow + amount >= 0
              /\ o.kind = "ResaleAsk" => amount >= 0 \/ is_settled
              /\ UNCHANGED listing
      <3>1. o \in OrderRecord /\ OrderOK(o) /\ o.escrow \in Nat
        BY DEF BookInv, OrdersInv, OrderRecord
      <3>2. CASE \E w \in Users, amount \in Amounts : SendToOrder(w, u, n, amount)
        <4>1. PICK w \in Users, amount \in Amounts : SendToOrder(w, u, n, amount)
          BY <3>2
        <4>2. /\ amount \in Nat \ {0} /\ o.open /\ UNCHANGED listing
              /\ order' = [order EXCEPT ![u][n] = Shifted(o, amount)]
          BY <1>1, <4>1 DEF SendToOrder
        <4>3. amount \in Int /\ o.escrow + amount >= 0 /\ amount >= 0
          BY <3>1, <4>2
        <4>4. QED
          BY <4>2, <4>3
      <3>3. CASE \E amount \in Amounts : OrderPaysElsewhere(u, n, amount)
        <4>1. PICK amount \in Amounts : OrderPaysElsewhere(u, n, amount)
          BY <3>3
        <4>2. /\ amount \in Nat \ {0} /\ amount <= o.escrow /\ o.kind # "ResaleAsk"
              /\ order' = [order EXCEPT ![u][n] = Shifted(o, -amount)]
              /\ UNCHANGED listing
          BY <1>1, <4>1 DEF OrderPaysElsewhere
        <4>3. -amount \in Int /\ o.escrow + (-amount) >= 0 /\ o.escrow > 0
          BY <3>1, <4>2
        <4>4. o.open
          BY <3>1, <4>3, HoldingOrderOpen, Zenon
        <4>5. QED
          BY <4>2, <4>3, <4>4
      <3>4. CASE BurnOrderEscrow(u, n)
        <4>1. /\ o.escrow > 0 /\ is_settled /\ UNCHANGED listing
              /\ order' = [order EXCEPT ![u][n] = Shifted(o, -o.escrow)]
          BY <3>4 DEF BurnOrderEscrow, PayProgram
        <4>2. -o.escrow \in Int /\ o.escrow + (-o.escrow) >= 0
          BY <3>1
        <4>3. o.open
          BY <3>1, <4>1, HoldingOrderOpen, Zenon
        <4>4. QED
          BY <4>1, <4>2, <4>3
      <3>5. QED
        BY <2>1, <3>2, <3>3, <3>4
    <2> DEFINE r == Shifted(o, amount)
    <2>3. /\ o \in OrderRecord /\ OrderOK(o) /\ Noted(o, o.kind = "ResaleAsk")
          /\ OrdersInv /\ o.extra \in Int
      BY DEF BookInv, OrdersInv, AstrayInv, OrderRecord
    <2>4. r.kind = o.kind /\ r.extra = o.extra + amount
      BY <2>2, <2>3, OrderAstrayOK, Zenon
    <2>5. order' = [order EXCEPT ![u][n] = r]
      BY <2>2
    <2> HIDE DEF r
    <2>6. r.kind = "ResaleAsk" /\ r.extra < 0 => is_settled
      BY <2>2, <2>3, <2>4 DEF Noted
    <2>7. UNCHANGED <<listing, is_settled>>
      BY <1>2, <2>2
    <2>8. QED
      BY <1>3, <2>3, <2>5, <2>6, <2>7, NotedOrder, Zenon
  <1>5. CASE \E u \in Users : \/ \E w \in Users, amount \in Amounts :
                                     SendToListing(w, u, amount)
                              \/ BurnListingEscrow(u)
    <2>1. PICK u \in Users : \/ \E w \in Users, amount \in Amounts :
                                   SendToListing(w, u, amount)
                            \/ BurnListingEscrow(u)
      BY <1>5
    <2> DEFINE l == listing[u]
    <2>2. l \in ListingRecord /\ ListingOK(l) /\ l.escrow \in Nat /\ l.extra \in Int
      BY DEF BookInv, ListingsInv, ListingRecord
    <2>3. PICK amount \in Int :
              /\ listing' = [listing EXCEPT ![u] = Shifted(l, amount)]
              /\ l.open /\ l.escrow + amount >= 0
              /\ amount >= 0 \/ is_settled
              /\ UNCHANGED order
      <3>1. CASE \E w \in Users, amount \in Amounts : SendToListing(w, u, amount)
        <4>1. PICK w \in Users, amount \in Amounts : SendToListing(w, u, amount)
          BY <3>1
        <4>2. /\ amount \in Nat \ {0} /\ l.open /\ UNCHANGED order
              /\ listing' = [listing EXCEPT ![u] = Shifted(l, amount)]
          BY <1>1, <4>1 DEF SendToListing
        <4>3. amount \in Int /\ l.escrow + amount >= 0 /\ amount >= 0
          BY <2>2, <4>2
        <4>4. QED
          BY <4>2, <4>3
      <3>2. CASE BurnListingEscrow(u)
        <4>1. /\ l.escrow > 0 /\ is_settled /\ UNCHANGED order
              /\ listing' = [listing EXCEPT ![u] = Shifted(l, -l.escrow)]
          BY <3>2 DEF BurnListingEscrow, PayProgram
        <4>2. -l.escrow \in Int /\ l.escrow + (-l.escrow) >= 0
          BY <2>2
        <4>3. l.open
          BY <2>2, <4>1, HoldingListingOpen, Zenon
        <4>4. QED
          BY <4>1, <4>2, <4>3
      <3>3. QED
        BY <2>1, <3>1, <3>2
    <2> DEFINE r == Shifted(l, amount)
    <2>4. Noted(l, TRUE) /\ ListingsInv
      BY DEF BookInv, AstrayInv
    <2>5. r.extra = l.extra + amount
      BY <2>2, <2>3, ListingAstrayOK, Zenon
    <2>6. listing' = [listing EXCEPT ![u] = r]
      BY <2>3
    <2> HIDE DEF r
    <2>7. r.extra < 0 => is_settled
      BY <2>2, <2>3, <2>4, <2>5 DEF Noted
    <2>8. UNCHANGED <<order, is_settled>>
      BY <1>2, <2>3
    <2>9. QED
      BY <1>3, <2>4, <2>6, <2>7, <2>8, NotedListing, Zenon
  <1>6. QED
    BY <1>4, <1>5, Zenon DEF NextAstray

LEMMA NextNotes ==
    ASSUME BookInv, AstrayInv, [Next]_vars
    PROVE  AstrayInv'
  <1>1. CASE \/ Tick \/ InitializeVoid \/ WithdrawPostSettlement \/ UNCHANGED vars
             \/ \E worth \in Payouts : SettleVault(worth)
             \/ \E u \in Users : CloseOptionAccount(u) \/ OpenOptionAccount(u)
             \/ \E u, v \in Users, quantity \in Quantities : TransferOption(u, v, quantity)
             \/ \E u \in Users : \/ \E quantity \in Quantities : ExerciseFromVault(u, quantity)
                                 \/ AutoFinalizeHolders(u)
    <2>1. UNCHANGED <<order, listing, redirected>>
      BY <1>1 DEF Tick, InitializeVoid, WithdrawPostSettlement, vars, SettleVault,
                  CloseOptionAccount, OpenOptionAccount, TransferOption,
                  ExerciseFromVault, AutoFinalizeHolders, PayHolder
    <2>2. is_settled' = is_settled \/ is_settled' = TRUE
      BY <1>1 DEF Tick, InitializeVoid, WithdrawPostSettlement, vars, SettleVault,
                  CloseOptionAccount, OpenOptionAccount, TransferOption,
                  ExerciseFromVault, AutoFinalizeHolders, PayHolder
    <2>3. QED
      BY <2>1, <2>2 DEF AstrayInv, Noted
  <1>2. CASE \E u \in Users, n \in Nonces :
                 \/ \E kind \in OrderKinds, price \in Prices, quantity \in Quantities :
                        PostOrder(u, n, kind, price, quantity)
                 \/ \E v \in Users : CancelOrder(u, n, v)
                 \/ SweepExpiredOrders(u, n)
    BY <1>2, OrderOpensOrCloses, Zenon
  <1>3. CASE \E u \in Users, n \in Nonces, taker \in Users, quantity \in Quantities :
                FillResaleAsk(taker, u, n, quantity) \/ FillBid(taker, u, n, quantity)
    BY <1>3, FillNotes, Zenon
  <1>4. CASE \E u \in Users :
                 \/ \E price \in Prices, quantity \in Quantities :
                        ListV2ForResale(u, price, quantity)
                 \/ \E v \in Users : EndListing(u, v)
    BY <1>4, ListingOpensOrCloses, Zenon
  <1>5. CASE \E u \in Users, buyer \in Users, quantity \in Quantities, cap \in Caps :
                BuyV2Resale(buyer, u, quantity, cap)
    BY <1>5, BuyNotes, Zenon
  <1>6. CASE NextAstray
    BY <1>6, NextAstrayNotes, Zenon
  <1>7. QED
    <2>1. CASE \E u, v \in Users : CancelV2Resale(u, v) \/ AutoCancelListings(u, v)
      BY <1>4, <2>1 DEF CancelV2Resale, AutoCancelListings
    <2>2. CASE Tick \/ (\E worth \in Payouts : SettleVault(worth))
               \/ InitializeVoid \/ WithdrawPostSettlement \/ UNCHANGED vars
      BY <1>1, <2>2
    <2>3. CASE \E u \in Users : CloseOptionAccount(u) \/ OpenOptionAccount(u)
      BY <1>1, <2>3
    <2>4. CASE \E u, v \in Users, quantity \in Quantities : TransferOption(u, v, quantity)
      BY <1>1, <2>4
    <2>5. CASE \E u \in Users : \/ \E quantity \in Quantities : ExerciseFromVault(u, quantity)
                                \/ AutoFinalizeHolders(u)
      BY <1>1, <2>5
    <2>6. CASE \E u \in Users, n \in Nonces, kind \in OrderKinds, price \in Prices,
                  quantity \in Quantities : PostOrder(u, n, kind, price, quantity)
      BY <1>2, <2>6
    <2>7. CASE \E u \in Users, n \in Nonces : \/ \E v \in Users : CancelOrder(u, n, v)
                                              \/ SweepExpiredOrders(u, n)
      BY <1>2, <2>7
    <2>8. CASE \E u \in Users, price \in Prices, quantity \in Quantities :
                  ListV2ForResale(u, price, quantity)
      BY <1>4, <2>8
    <2>9. QED
      BY <1>3, <1>5, <1>6, <2>1, <2>2, <2>3, <2>4, <2>5, <2>6, <2>7, <2>8 DEF Next

LEMMA AstrayStart == Init => AstrayInv
  BY BookAssumption DEF Init, AstrayInv, Noted, NoOrder, NoListing

\* The balances of the market stay natural numbers, whatever is posted, filled,
\* cancelled or swept, and by whom.
THEOREM BookTypesCorrect == Spec => []BookTypeOK
  <1>1. BookInv /\ AstrayInv /\ [Next]_vars => (BookInv /\ AstrayInv)'
    BY NextInv, NextNotes
  <1>2. QED
    BY <1>1, InitInv, AstrayStart, InvariantSuffices, PTL DEF Spec

\* After any sequence of posts and fills, at any fee, the escrow of an order or
\* a listing holds exactly what its rest needs, plus what was sent to it and less
\* what another series drew or a payment of the holders burned; tokens are short
\* after settlement only, and nothing differs while nothing went astray.
THEOREM EscrowsAreExact == Spec => []EscrowsBackRests
  <1>1. BookInv /\ AstrayInv /\ [Next]_vars => (BookInv /\ AstrayInv)'
    BY NextInv, NextNotes
  <1>2. QED
    BY <1>1, InitInv, AstrayStart, InvariantSuffices, PTL DEF Spec

-----------------------------------------------------------------------------
(* The steps of the ledger, in terms of the book. *)

\* The ledger's arithmetic is the book's.
LEMMA SameArithmetic ==
    ASSUME NEW a, NEW b
    PROVE  /\ TheLedger!ProtocolFee(a, b) = ProtocolFee(a, b)
           /\ TheLedger!AtMost(a, b) = AtMost(a, b)
           /\ TheLedger!Total(a) = Total(a)
  <1>1. TheLedger!ProtocolFee(a, b) = ProtocolFee(a, b)
    BY DEF TheLedger!ProtocolFee, TheLedger!MulDiv, ProtocolFee, MulDiv
  <1>2. TheLedger!AtMost(a, b) = AtMost(a, b)
    BY DEF TheLedger!AtMost, AtMost
  <1>3. TheLedger!Units(a) = Units(a)
    BY Zenon DEF TheLedger!Units, Units
  <1>4. TheLedger!Total(a) = Total(a)
    BY <1>3, Zenon DEF TheLedger!Total, Total, TheLedger!Cardinality, Cardinality
  <1>5. QED
    BY <1>1, <1>2, <1>4

\* Nothing moved that the ledger sees.
LEMMA StutterStep ==
    ASSUME \A v \in Users : Wealth(v)' = Wealth(v) /\ Options(v)' = Options(v),
           UNCHANGED <<treasury, payout, pool, redirected>>,
           is_settled' = is_settled,
           (now' >= Expiry) <=> (now >= Expiry)
    PROVE  UNCHANGED TheLedger!ledger
  <1>1. [v \in Users |-> Wealth(v)]' = [v \in Users |-> Wealth(v)]
    OBVIOUS
  <1>2. [v \in Users |-> Options(v)]' = [v \in Users |-> Options(v)]
    OBVIOUS
  <1>3. QED
    BY <1>1, <1>2 DEF TheLedger!ledger

\* What a trade at a price does, in terms of the book.
TradeFacts(buyer, seller, price, quantity, total, fee) ==
    /\ buyer # seller
    /\ price \in Prices
    /\ quantity \in 1..Options(seller)
    /\ total = quantity * price
    /\ total <= Wealth(buyer)
    /\ fee = ProtocolFee(total, FeeBps)
    /\ Expiry \in Nat /\ now \in Nat /\ now < Expiry
    /\ is_settled = FALSE
    /\ UNCHANGED <<now, is_settled, payout, pool, redirected>>
    /\ treasury' = treasury + fee
    /\ \A v \in Users : Wealth(v)' = IF v = buyer THEN Wealth(v) - total
                                     ELSE IF v = seller THEN Wealth(v) + total - fee
                                     ELSE Wealth(v)
    /\ \A v \in Users : Options(v)' = IF v = buyer THEN Options(v) + quantity
                                      ELSE IF v = seller THEN Options(v) - quantity
                                      ELSE Options(v)

LEMMA TradeStep ==
    ASSUME NEW buyer \in Users, NEW seller \in Users,
           NEW price, NEW quantity, NEW total, NEW fee,
           TradeFacts(buyer, seller, price, quantity, total, fee)
    PROVE  TheLedger!LedgerNext
  <1> USE DEF TradeFacts
  <1> DEFINE w == [v \in Users |-> Wealth(v)]
             o == [v \in Users |-> Options(v)]
  <1>1. w' = [w EXCEPT ![buyer] = @ - total, ![seller] = @ + total - fee]
    OBVIOUS
  <1>2. o' = [o EXCEPT ![buyer] = @ + quantity, ![seller] = @ - quantity]
    OBVIOUS
  <1>3. o[seller] = Options(seller) /\ w[buyer] = Wealth(buyer)
    OBVIOUS
  <1>4. ~(now >= Expiry)
    OBVIOUS
  <1>5. fee = TheLedger!ProtocolFee(total, FeeBps)
    BY SameArithmetic
  <1>6. TheLedger!Trade(buyer, seller, quantity, price)
    BY <1>1, <1>2, <1>3, <1>4, <1>5 DEF TheLedger!Trade
  <1>7. quantity \in 1..o[seller]
    BY <1>3
  <1>8. QED
    BY <1>4, <1>6, <1>7 DEF TheLedger!LedgerNext, TheLedger!Trading

LEMMA GiveStep ==
    ASSUME NEW giver \in Users, NEW receiver \in Users, giver # receiver,
           NEW quantity \in 1..Options(giver),
           now < Expiry, Expiry \in Nat, now \in Nat, is_settled = FALSE,
           UNCHANGED <<now, is_settled, payout, pool, treasury, redirected>>,
           \A v \in Users : Wealth(v)' = Wealth(v),
           \A v \in Users : Options(v)' = IF v = giver THEN Options(v) - quantity
                                         ELSE IF v = receiver THEN Options(v) + quantity
                                         ELSE Options(v)
    PROVE  TheLedger!LedgerNext
  <1> DEFINE w == [v \in Users |-> Wealth(v)]
             o == [v \in Users |-> Options(v)]
  <1>1. w' = w
    OBVIOUS
  <1>2. o' = [o EXCEPT ![giver] = @ - quantity, ![receiver] = @ + quantity]
    OBVIOUS
  <1>3. o[giver] = Options(giver)
    OBVIOUS
  <1>4. ~(now >= Expiry)
    OBVIOUS
  <1>5. TheLedger!Give(giver, receiver, quantity)
    BY <1>1, <1>2, <1>4 DEF TheLedger!Give
  <1>6. quantity \in 1..o[giver]
    BY <1>3
  <1>7. QED
    BY <1>4, <1>5, <1>6 DEF TheLedger!LedgerNext, TheLedger!Trading

LEMMA RedeemStep ==
    ASSUME NEW u \in Users, NEW quantity \in 1..Options(u),
           NEW paid, paid = AtMost(quantity * payout, pool),
           is_settled = TRUE,
           UNCHANGED <<now, is_settled, payout, treasury, redirected>>,
           pool' = pool - paid,
           \A v \in Users : Wealth(v)' = IF v = u THEN Wealth(v) + paid ELSE Wealth(v),
           \A v \in Users : Options(v)' = IF v = u THEN Options(v) - quantity
                                         ELSE Options(v)
    PROVE  TheLedger!LedgerNext
  <1> DEFINE w == [v \in Users |-> Wealth(v)]
             o == [v \in Users |-> Options(v)]
  <1>1. w' = [w EXCEPT ![u] = @ + paid]
    OBVIOUS
  <1>2. o' = [o EXCEPT ![u] = @ - quantity]
    OBVIOUS
  <1>3. o[u] = Options(u)
    OBVIOUS
  <1>4. paid = TheLedger!AtMost(quantity * payout, pool)
    BY SameArithmetic
  <1>5. TheLedger!Redeem(u, quantity)
    BY <1>1, <1>2, <1>4 DEF TheLedger!Redeem
  <1>6. quantity \in 1..o[u]
    BY <1>3
  <1>7. QED
    BY <1>5, <1>6 DEF TheLedger!LedgerNext, TheLedger!Paying

\* What moves from a giver to a receiver changes both and nobody else; the two
\* may be the same.
Moves(giver, receiver, quantity, dollars) ==
    \A v \in Users :
        /\ Wealth(v)' = Wealth(v) - (IF v = giver THEN dollars ELSE 0)
                        + (IF v = receiver THEN dollars ELSE 0)
        /\ Options(v)' = Options(v) - (IF v = giver THEN quantity ELSE 0)
                         + (IF v = receiver THEN quantity ELSE 0)

LEMMA MoveToSelf ==
    ASSUME BookInv, NEW u \in Users, NEW quantity \in Int, NEW dollars \in Int,
           Moves(u, u, quantity, dollars),
           UNCHANGED <<now, treasury, is_settled, payout, pool, redirected>>
    PROVE  UNCHANGED TheLedger!ledger
  <1>1. ASSUME NEW v \in Users
        PROVE  Wealth(v)' = Wealth(v) /\ Options(v)' = Options(v)
    <2>1. Wealth(v) \in Nat /\ Options(v) \in Nat
      BY HoldingsNat
    <2>2. QED
      BY <2>1 DEF Moves
  <1>2. QED
    BY <1>1, StutterStep

LEMMA RedirectStep ==
    ASSUME NEW giver \in Users, NEW receiver \in Users,
           NEW quantity \in 0..Options(giver), NEW dollars \in 0..Wealth(giver),
           Moves(giver, receiver, quantity, dollars),
           redirected' = redirected + 1,
           UNCHANGED <<now, treasury, is_settled, payout, pool>>
    PROVE  TheLedger!LedgerNext
  <1> DEFINE w == [v \in Users |-> Wealth(v)]
             o == [v \in Users |-> Options(v)]
  <1>1. /\ w' = TheLedger!Moved(w, giver, receiver, dollars)
        /\ o' = TheLedger!Moved(o, giver, receiver, quantity)
    BY DEF Moves, TheLedger!Moved
  <1>2. o[giver] = Options(giver) /\ w[giver] = Wealth(giver)
    OBVIOUS
  <1>3. TheLedger!Redirect(giver, receiver, quantity, dollars)
    BY <1>1 DEF TheLedger!Redirect
  <1>4. quantity \in 0..o[giver] /\ dollars \in 0..w[giver]
    BY <1>2
  <1>5. TheLedger!GoesAstray
    BY <1>3, <1>4 DEF TheLedger!GoesAstray
  <1>6. QED
    BY <1>5 DEF TheLedger!LedgerNext

LEMMA ForfeitStep ==
    ASSUME NEW u \in Users, NEW quantity \in 1..Options(u),
           NEW paid, paid = AtMost(quantity * payout, pool),
           is_settled = TRUE,
           UNCHANGED <<now, is_settled, payout>>,
           treasury' = treasury + paid, pool' = pool - paid,
           redirected' = redirected + 1,
           \A v \in Users : Wealth(v)' = Wealth(v),
           \A v \in Users : Options(v)' = IF v = u THEN Options(v) - quantity
                                         ELSE Options(v)
    PROVE  TheLedger!LedgerNext
  <1> DEFINE w == [v \in Users |-> Wealth(v)]
             o == [v \in Users |-> Options(v)]
  <1>1. w' = w
    OBVIOUS
  <1>2. o' = [o EXCEPT ![u] = @ - quantity]
    OBVIOUS
  <1>3. o[u] = Options(u)
    OBVIOUS
  <1>4. paid = TheLedger!AtMost(quantity * payout, pool)
    BY SameArithmetic
  <1>5. TheLedger!Forfeit(u, quantity)
    BY <1>1, <1>2, <1>4 DEF TheLedger!Forfeit
  <1>6. quantity \in 1..o[u]
    BY <1>3
  <1>7. TheLedger!GoesAstray
    BY <1>5, <1>6 DEF TheLedger!GoesAstray
  <1>8. QED
    BY <1>7 DEF TheLedger!LedgerNext

LEMMA DrawStep ==
    ASSUME NEW u \in Users, NEW dollars \in 1..Wealth(u),
           UNCHANGED <<now, treasury, is_settled, payout, pool>>,
           redirected' = redirected + 1,
           \A v \in Users : Wealth(v)' = IF v = u THEN Wealth(v) - dollars ELSE Wealth(v),
           \A v \in Users : Options(v)' = Options(v)
    PROVE  TheLedger!LedgerNext
  <1> DEFINE w == [v \in Users |-> Wealth(v)]
             o == [v \in Users |-> Options(v)]
  <1>1. w' = [w EXCEPT ![u] = @ - dollars]
    OBVIOUS
  <1>2. o' = o
    OBVIOUS
  <1>3. w[u] = Wealth(u)
    OBVIOUS
  <1>4. TheLedger!Draw(u, dollars)
    BY <1>1, <1>2 DEF TheLedger!Draw
  <1>5. dollars \in 1..w[u]
    BY <1>3
  <1>6. TheLedger!GoesAstray
    BY <1>4, <1>5 DEF TheLedger!GoesAstray
  <1>7. QED
    BY <1>6 DEF TheLedger!LedgerNext

-----------------------------------------------------------------------------
(* What each action does to wealth and options. *)

LEMMA EscrowedAfterOrder ==
    ASSUME OrdersInv, NEW u \in Users, NEW n \in Nonces, NEW r \in OrderRecord,
           order' = [order EXCEPT ![u][n] = r], NEW v \in Users
    PROVE  /\ EscrowedUsdc(order'[v])
                = IF v = u THEN EscrowedUsdc(order[v]) - UsdcIn(order[u][n]) + UsdcIn(r)
                  ELSE EscrowedUsdc(order[v])
           /\ EscrowedOptions(order'[v])
                = IF v = u THEN EscrowedOptions(order[v]) - OptionsIn(order[u][n])
                                + OptionsIn(r)
                  ELSE EscrowedOptions(order[v])
  <1>1. order[u] \in [Nonces -> OrderRecord]
    BY DEF OrdersInv
  <1>2. order'[v] = IF v = u THEN [order[u] EXCEPT ![n] = r] ELSE order[v]
    BY DEF OrdersInv
  <1>3. CASE v = u
    BY <1>1, <1>2, <1>3, EscrowedAfter
  <1>4. CASE v # u
    BY <1>2, <1>4
  <1>5. QED
    BY <1>3, <1>4

\* A fill takes out of the escrow what changes hands.
LEMMA FilledHolds ==
    ASSUME NEW o \in OrderRecord, OrderOK(o),
           NEW quantity \in Nat \ {0}, quantity <= o.quantity_remaining,
           NEW out, out = EscrowFor(o.kind, o.price_per_contract, quantity),
           EscrowCloses(o, quantity, out)
    PROVE  /\ out \in Nat
           /\ o.kind = "ResaleAsk" =>
                 /\ UsdcIn(AfterFill(o, quantity, out)) = UsdcIn(o)
                 /\ OptionsIn(AfterFill(o, quantity, out)) = OptionsIn(o) - out
                 /\ out <= OptionsIn(o)
           /\ o.kind # "ResaleAsk" =>
                 /\ UsdcIn(AfterFill(o, quantity, out)) = UsdcIn(o) - out
                 /\ OptionsIn(AfterFill(o, quantity, out)) = OptionsIn(o)
                 /\ out <= UsdcIn(o)
  <1> DEFINE price == o.price_per_contract
             rest == o.quantity_remaining
             r == AfterFill(o, quantity, out)
  <1>1. o.kind \in OrderKinds /\ rest \in Nat /\ quantity \in Nat /\ o.escrow \in Nat
    BY DEF OrderRecord
  <1>2. price \in Prices \cup {0}
    BY DEF OrderRecord
  <1>3. price \in Nat
    BY <1>2, PricesNat, Zenon
  <1>4. quantity <= rest
    OBVIOUS
  <1>5. out = EscrowFor(o.kind, price, quantity)
    OBVIOUS
  <1>6. out <= o.escrow /\ (quantity = rest => out = o.escrow)
    BY DEF EscrowCloses
  <1>7. /\ r.kind = IF quantity = rest THEN "Bid" ELSE o.kind
        /\ r.escrow = IF quantity = rest THEN 0 ELSE o.escrow - out
    BY DEF AfterFill, NoOrder, OrderRecord
  <1> HIDE DEF price, rest, r
  <1>8. out \in Nat
    <2>1. EscrowFor(o.kind, price, quantity) \in Nat
      BY <1>1, <1>3, <1>4, EscrowForParts, Zenon
    <2>2. QED
      BY <1>5, <2>1
  <1>10. /\ UsdcIn(r) = IF o.kind = "ResaleAsk" THEN UsdcIn(o) ELSE UsdcIn(o) - out
         /\ OptionsIn(r) = IF o.kind = "ResaleAsk" THEN OptionsIn(o) - out ELSE OptionsIn(o)
    BY <1>1, <1>6, <1>7, <1>8 DEF UsdcIn, OptionsIn
  <1>11. QED
    BY <1>6, <1>8, <1>10 DEF UsdcIn, OptionsIn, r

\* An open order and what it holds are part of what its owner has.
LEMMA HeldAtMostOwned ==
    ASSUME BookInv, NEW u \in Users, NEW n \in Nonces
    PROVE  /\ UsdcIn(order[u][n]) \in Nat /\ OptionsIn(order[u][n]) \in Nat
           /\ UsdcIn(order[u][n]) <= Wealth(u)
           /\ OptionsIn(order[u][n]) <= Options(u)
  <1>1. /\ order[u] \in [Nonces -> OrderRecord] /\ order[u][n] \in OrderRecord
        /\ usdc[u] \in Nat /\ tokens[u] \in Nat /\ listing[u] \in ListingRecord
    BY DEF BookInv, OrdersInv, DollarsInv, TokensInv, ListingsInv
  <1>2. listing[u].escrow \in Nat
    BY <1>1 DEF ListingRecord
  <1>3. EscrowedUsdc(order[u]) \in Nat /\ EscrowedOptions(order[u]) \in Nat
    BY <1>1, EscrowedNat
  <1>4. /\ UsdcIn(order[u][n]) <= EscrowedUsdc(order[u])
        /\ OptionsIn(order[u][n]) <= EscrowedOptions(order[u])
    BY <1>1, EscrowedAtLeast
  <1>5. UsdcIn(order[u][n]) \in Nat /\ OptionsIn(order[u][n]) \in Nat
    BY <1>1, HeldNat
  <1>6. QED
    BY <1>1, <1>2, <1>3, <1>4, <1>5 DEF Wealth, Options

\* The parts of a user's wealth and options are numbers.
LEMMA PartsNat ==
    ASSUME BookInv, NEW v \in Users
    PROVE  /\ usdc[v] \in Nat /\ tokens[v] \in Nat /\ listing[v].escrow \in Nat
           /\ EscrowedUsdc(order[v]) \in Nat /\ EscrowedOptions(order[v]) \in Nat
  <1>1. /\ order[v] \in [Nonces -> OrderRecord]
        /\ usdc[v] \in Nat /\ tokens[v] \in Nat /\ listing[v] \in ListingRecord
    BY DEF BookInv, OrdersInv, DollarsInv, TokensInv, ListingsInv
  <1>2. listing[v].escrow \in Nat
    BY <1>1 DEF ListingRecord
  <1>3. QED
    BY <1>1, <1>2, EscrowedNat

LEMMA FillResaleAskTrades ==
    ASSUME BookInv, NEW taker \in Users, NEW u \in Users, NEW n \in Nonces,
           NEW quantity \in Quantities, FillResaleAsk(taker, u, n, quantity)
    PROVE  TheLedger!LedgerNext
  <1> DEFINE o == order[u][n]
             price == o.price_per_contract
             total == quantity * price
             fee == ProtocolFee(total, FeeBps)
             r == AfterFill(o, quantity, quantity)
  <1>1. OrdersInv /\ o \in OrderRecord /\ OrderOK(o)
    BY DEF BookInv, OrdersInv
  <1>2. quantity \in Nat \ {0} /\ total \in Nat
    BY <1>1, FillTotal
  <1>3. fee \in Nat /\ fee <= total
    BY <1>2, FeeBounds
  <1>4. /\ o.open /\ o.kind = "ResaleAsk" /\ taker # u /\ now < Expiry
        /\ quantity <= o.quantity_remaining /\ total <= usdc[taker]
        /\ usdc' = [usdc EXCEPT ![taker] = @ - total, ![u] = @ + total - fee]
        /\ treasury' = treasury + fee
        /\ tokens' = [tokens EXCEPT ![taker] = @ + quantity]
        /\ order' = [order EXCEPT ![u][n] = r]
        /\ EscrowCloses(o, quantity, quantity) /\ quantity <= o.escrow
        /\ UNCHANGED <<now, listing, option_account, is_settled, voided, payout, pool,
                       redirected>>
    BY DEF FillResaleAsk, FillAllowed, EscrowCloses
  <1>5. price \in Prices
    BY <1>1, <1>4 DEF OrderOK
  <1>6. quantity = EscrowFor(o.kind, price, quantity)
    BY <1>4 DEF EscrowFor
  <1>7. r \in OrderRecord
    BY <1>1, <1>2, <1>4, <1>6, FilledOK, Zenon
  <1>8. /\ UsdcIn(r) = UsdcIn(o) /\ OptionsIn(r) = OptionsIn(o) - quantity
        /\ quantity <= OptionsIn(o)
    BY <1>1, <1>2, <1>4, <1>6, FilledHolds, ZenonT(60)
  <1>9. /\ UsdcIn(o) \in Nat /\ OptionsIn(o) \in Nat /\ OptionsIn(o) <= Options(u)
    BY HeldAtMostOwned
  <1>10. /\ Options(u) \in Nat /\ Wealth(taker) \in Nat /\ usdc[taker] \in Nat
         /\ usdc[taker] <= Wealth(taker)
    BY HoldingsNat, PartsNat
  <1>11. quantity \in 1..Options(u)
    BY <1>2, <1>8, <1>9, <1>10
  <1>12. total <= Wealth(taker)
    BY <1>2, <1>4, <1>10
  <1>13. total = quantity * price /\ fee = ProtocolFee(total, FeeBps)
    OBVIOUS
  <1> HIDE DEF o, price, total, fee, r
  <1>14. ASSUME NEW v \in Users
         PROVE  /\ Wealth(v)' = IF v = taker THEN Wealth(v) - total
                                ELSE IF v = u THEN Wealth(v) + total - fee
                                ELSE Wealth(v)
                /\ Options(v)' = IF v = taker THEN Options(v) + quantity
                                 ELSE IF v = u THEN Options(v) - quantity
                                 ELSE Options(v)
    <2>1. /\ EscrowedUsdc(order'[v])
                = IF v = u THEN EscrowedUsdc(order[v]) - UsdcIn(o) + UsdcIn(r)
                  ELSE EscrowedUsdc(order[v])
          /\ EscrowedOptions(order'[v])
                = IF v = u THEN EscrowedOptions(order[v]) - OptionsIn(o) + OptionsIn(r)
                  ELSE EscrowedOptions(order[v])
      BY <1>1, <1>4, <1>7, EscrowedAfterOrder, ZenonT(60) DEF o
    <2>2. /\ usdc[v] \in Nat /\ tokens[v] \in Nat /\ listing[v].escrow \in Nat
          /\ EscrowedUsdc(order[v]) \in Nat /\ EscrowedOptions(order[v]) \in Nat
      BY PartsNat
    <2>3. /\ usdc'[v] = IF v = taker THEN usdc[v] - total
                        ELSE IF v = u THEN usdc[v] + total - fee ELSE usdc[v]
          /\ tokens'[v] = IF v = taker THEN tokens[v] + quantity ELSE tokens[v]
          /\ listing'[v] = listing[v]
      BY <1>4 DEF BookInv, DollarsInv, TokensInv
    <2>4. QED
      BY <1>2, <1>3, <1>4, <1>8, <1>9, <2>1, <2>2, <2>3 DEF Wealth, Options
  <1>15. /\ Expiry \in Nat /\ now \in Nat /\ is_settled = FALSE
    BY <1>4, BookAssumption DEF BookInv, VaultInv
  <1>16. /\ UNCHANGED <<now, is_settled, payout, pool, redirected>> /\ treasury' = treasury + fee
         /\ taker # u /\ now < Expiry
    BY <1>4
  <1>17. TradeFacts(taker, u, price, quantity, total, fee)
    BY <1>5, <1>11, <1>12, <1>13, <1>14, <1>15, <1>16, Zenon DEF TradeFacts
  <1>18. QED
    BY <1>17, TradeStep, Zenon

LEMMA FillBidTrades ==
    ASSUME BookInv, NEW taker \in Users, NEW u \in Users, NEW n \in Nonces,
           NEW quantity \in Quantities, FillBid(taker, u, n, quantity)
    PROVE  TheLedger!LedgerNext
  <1> DEFINE o == order[u][n]
             price == o.price_per_contract
             total == quantity * price
             fee == ProtocolFee(total, FeeBps)
             r == AfterFill(o, quantity, total)
  <1>1. OrdersInv /\ o \in OrderRecord /\ OrderOK(o)
    BY DEF BookInv, OrdersInv
  <1>2. quantity \in Nat \ {0} /\ total \in Nat
    BY <1>1, FillTotal
  <1>3. fee \in Nat /\ fee <= total
    BY <1>2, FeeBounds
  <1>4. /\ o.open /\ o.kind = "Bid" /\ taker # u /\ now < Expiry
        /\ quantity <= o.quantity_remaining /\ quantity <= tokens[taker]
        /\ usdc' = [usdc EXCEPT ![taker] = @ + total - fee]
        /\ treasury' = treasury + fee
        /\ tokens' = [tokens EXCEPT ![taker] = @ - quantity, ![u] = @ + quantity]
        /\ order' = [order EXCEPT ![u][n] = r]
        /\ EscrowCloses(o, quantity, total) /\ total <= o.escrow
        /\ UNCHANGED <<now, listing, option_account, is_settled, voided, payout, pool,
                       redirected>>
    BY DEF FillBid, FillAllowed, EscrowCloses
  <1>5. price \in Prices
    BY <1>1, <1>4 DEF OrderOK
  <1>6. total = EscrowFor(o.kind, price, quantity)
    <2>1. EscrowFor(o.kind, price, quantity) = price * quantity
      BY <1>4 DEF EscrowFor
    <2>2. price \in Nat /\ quantity \in Nat
      BY <1>2, <1>5, PricesNat
    <2>3. \A a, b \in Nat : a * b = b * a
      OBVIOUS
    <2>4. QED
      BY <2>1, <2>2, <2>3, Zenon
  <1>7. r \in OrderRecord
    BY <1>1, <1>2, <1>4, <1>6, FilledOK, Zenon
  <1>8. /\ UsdcIn(r) = UsdcIn(o) - total /\ OptionsIn(r) = OptionsIn(o)
        /\ total <= UsdcIn(o)
    <2>1. o.kind # "ResaleAsk"
      BY <1>4
    <2>2. QED
      BY <1>1, <1>2, <1>4, <1>6, <2>1, FilledHolds, ZenonT(60)
  <1>9. /\ UsdcIn(o) \in Nat /\ OptionsIn(o) \in Nat /\ UsdcIn(o) <= Wealth(u)
    BY HeldAtMostOwned
  <1>10. /\ Options(taker) \in Nat /\ Wealth(u) \in Nat /\ tokens[taker] \in Nat
         /\ tokens[taker] <= Options(taker)
    BY HoldingsNat, PartsNat
  <1>11. quantity \in 1..Options(taker)
    BY <1>2, <1>4, <1>10
  <1>12. total <= Wealth(u)
    BY <1>2, <1>8, <1>9, <1>10
  <1>13. total = quantity * price /\ fee = ProtocolFee(total, FeeBps)
    OBVIOUS
  <1> HIDE DEF o, price, total, fee, r
  <1>14. ASSUME NEW v \in Users
         PROVE  /\ Wealth(v)' = IF v = u THEN Wealth(v) - total
                                ELSE IF v = taker THEN Wealth(v) + total - fee
                                ELSE Wealth(v)
                /\ Options(v)' = IF v = u THEN Options(v) + quantity
                                 ELSE IF v = taker THEN Options(v) - quantity
                                 ELSE Options(v)
    <2>1. /\ EscrowedUsdc(order'[v])
                = IF v = u THEN EscrowedUsdc(order[v]) - UsdcIn(o) + UsdcIn(r)
                  ELSE EscrowedUsdc(order[v])
          /\ EscrowedOptions(order'[v])
                = IF v = u THEN EscrowedOptions(order[v]) - OptionsIn(o) + OptionsIn(r)
                  ELSE EscrowedOptions(order[v])
      BY <1>1, <1>4, <1>7, EscrowedAfterOrder, ZenonT(60) DEF o
    <2>2. /\ usdc[v] \in Nat /\ tokens[v] \in Nat /\ listing[v].escrow \in Nat
          /\ EscrowedUsdc(order[v]) \in Nat /\ EscrowedOptions(order[v]) \in Nat
      BY PartsNat
    <2>3. /\ usdc'[v] = IF v = taker THEN usdc[v] + total - fee ELSE usdc[v]
          /\ tokens'[v] = IF v = taker THEN tokens[v] - quantity
                          ELSE IF v = u THEN tokens[v] + quantity ELSE tokens[v]
          /\ listing'[v] = listing[v]
      BY <1>4 DEF BookInv, DollarsInv, TokensInv
    <2>4. QED
      BY <1>2, <1>3, <1>4, <1>8, <1>9, <2>1, <2>2, <2>3 DEF Wealth, Options
  <1>15. /\ Expiry \in Nat /\ now \in Nat /\ is_settled = FALSE
    BY <1>4, BookAssumption DEF BookInv, VaultInv
  <1>16. /\ UNCHANGED <<now, is_settled, payout, pool, redirected>> /\ treasury' = treasury + fee
         /\ u # taker /\ now < Expiry
    BY <1>4
  <1>17. TradeFacts(u, taker, price, quantity, total, fee)
    BY <1>5, <1>11, <1>12, <1>13, <1>14, <1>15, <1>16, Zenon DEF TradeFacts
  <1>18. QED
    BY <1>17, TradeStep, Zenon

LEMMA BuyV2ResaleTrades ==
    ASSUME BookInv, NEW buyer \in Users, NEW u \in Users,
           NEW quantity \in Quantities, NEW cap, BuyV2Resale(buyer, u, quantity, cap)
    PROVE  TheLedger!LedgerNext
  <1> DEFINE l == listing[u]
             price == l.price_per_contract
             total == quantity * price
             fee == ProtocolFee(total, FeeBps)
             r == AfterSale(l, quantity)
  <1>1. l \in ListingRecord /\ ListingOK(l)
    BY DEF BookInv, ListingsInv
  <1>2. quantity \in Nat \ {0} /\ total \in Nat
    BY SaleTotal DEF BookInv
  <1>3. fee \in Nat /\ fee <= total
    BY <1>2, FeeBounds
  <1>4. /\ l.open /\ buyer # u /\ now < Expiry /\ is_settled = FALSE
        /\ quantity <= l.listed_quantity /\ total <= usdc[buyer]
        /\ quantity <= l.escrow /\ (quantity = l.listed_quantity => quantity = l.escrow)
        /\ usdc' = [usdc EXCEPT ![buyer] = @ - total, ![u] = @ + total - fee]
        /\ treasury' = treasury + fee
        /\ tokens' = [tokens EXCEPT ![buyer] = @ + quantity]
        /\ listing' = [listing EXCEPT ![u] = r]
        /\ UNCHANGED <<now, order, option_account, is_settled, voided, payout, pool,
                       redirected>>
    BY DEF BuyV2Resale, BookInv, VaultInv
  <1>5. price \in Prices
    BY <1>1, <1>4 DEF ListingOK
  <1>6. l.escrow \in Nat /\ l.listed_quantity \in Nat
    BY <1>1 DEF ListingRecord
  <1>7. r.escrow = l.escrow - quantity
    BY <1>1, <1>2, <1>4, <1>6 DEF AfterSale, NoListing, ListingRecord
  <1>8. /\ Options(u) \in Nat /\ Wealth(buyer) \in Nat /\ usdc[buyer] \in Nat
        /\ usdc[buyer] <= Wealth(buyer)
    BY HoldingsNat, PartsNat
  <1>9. l.escrow <= Options(u)
    BY PartsNat DEF Options
  <1>10. quantity \in 1..Options(u) /\ total <= Wealth(buyer)
    BY <1>2, <1>4, <1>6, <1>8, <1>9
  <1>11. total = quantity * price /\ fee = ProtocolFee(total, FeeBps)
    OBVIOUS
  <1>12. listing \in [Users -> ListingRecord]
    BY DEF BookInv, ListingsInv
  <1> HIDE DEF price, total, fee, r
  <1>13. ASSUME NEW v \in Users
         PROVE  /\ Wealth(v)' = IF v = buyer THEN Wealth(v) - total
                                ELSE IF v = u THEN Wealth(v) + total - fee
                                ELSE Wealth(v)
                /\ Options(v)' = IF v = buyer THEN Options(v) + quantity
                                 ELSE IF v = u THEN Options(v) - quantity
                                 ELSE Options(v)
    <2>1. /\ usdc[v] \in Nat /\ tokens[v] \in Nat /\ listing[v].escrow \in Nat
          /\ EscrowedUsdc(order[v]) \in Nat /\ EscrowedOptions(order[v]) \in Nat
      BY PartsNat
    <2>2. /\ usdc'[v] = IF v = buyer THEN usdc[v] - total
                        ELSE IF v = u THEN usdc[v] + total - fee ELSE usdc[v]
          /\ tokens'[v] = IF v = buyer THEN tokens[v] + quantity ELSE tokens[v]
          /\ order'[v] = order[v]
      BY <1>4 DEF BookInv, DollarsInv, TokensInv
    <2>3. listing'[v].escrow = IF v = u THEN listing[v].escrow - quantity
                               ELSE listing[v].escrow
      BY <1>4, <1>7, <1>12
    <2>4. QED
      BY <1>2, <1>3, <1>4, <2>1, <2>2, <2>3 DEF Wealth, Options
  <1>14. Expiry \in Nat /\ now \in Nat
    BY BookAssumption DEF BookInv, VaultInv
  <1>15. UNCHANGED <<now, is_settled, payout, pool, redirected>>
    BY <1>4
  <1>16. TradeFacts(buyer, u, price, quantity, total, fee)
    BY <1>4, <1>5, <1>10, <1>11, <1>13, <1>14, <1>15, Zenon DEF TradeFacts
  <1>17. QED
    BY <1>16, TradeStep, Zenon

LEMMA TransferOptionGives ==
    ASSUME BookInv, NEW u \in Users, NEW v \in Users, NEW quantity \in Quantities,
           TransferOption(u, v, quantity)
    PROVE  TheLedger!LedgerNext
  <1>1. /\ now < Expiry /\ u # v /\ quantity <= tokens[u]
        /\ tokens' = [tokens EXCEPT ![u] = @ - quantity, ![v] = @ + quantity]
        /\ UNCHANGED <<now, order, listing, usdc, option_account, treasury,
                       is_settled, voided, payout, pool, redirected>>
    BY DEF TransferOption, HookAllowsUsers
  <1>2. quantity \in Nat \ {0} /\ Expiry \in Nat
    BY BookAssumption
  <1>3. tokens[u] \in Nat /\ tokens[u] <= Options(u) /\ Options(u) \in Nat
    BY PartsNat, HoldingsNat
  <1>4. quantity \in 1..Options(u)
    BY <1>1, <1>2, <1>3
  <1>5. \A x \in Users : Wealth(x)' = Wealth(x)
    BY <1>1 DEF Wealth
  <1>6. ASSUME NEW x \in Users
        PROVE  Options(x)' = IF x = u THEN Options(x) - quantity
                             ELSE IF x = v THEN Options(x) + quantity
                             ELSE Options(x)
    <2>1. /\ tokens[x] \in Nat /\ listing[x].escrow \in Nat
          /\ EscrowedOptions(order[x]) \in Nat
      BY PartsNat
    <2>2. /\ tokens'[x] = IF x = u THEN tokens[x] - quantity
                          ELSE IF x = v THEN tokens[x] + quantity ELSE tokens[x]
          /\ order'[x] = order[x] /\ listing'[x] = listing[x]
      BY <1>1 DEF BookInv, TokensInv
    <2>3. QED
      BY <1>2, <2>1, <2>2 DEF Options
  <1>7. now \in Nat /\ is_settled = FALSE
    BY <1>1, <1>2 DEF BookInv, VaultInv
  <1>8. UNCHANGED <<now, is_settled, payout, pool, treasury, redirected>>
    BY <1>1
  <1>9. QED
    BY <1>1, <1>2, <1>4, <1>5, <1>6, <1>7, <1>8, GiveStep

LEMMA PayHolderRedeems ==
    ASSUME BookInv, NEW u \in Users, NEW quantity \in Nat, PayHolder(u, quantity)
    PROVE  TheLedger!LedgerNext
  <1> DEFINE paid == AtMost(quantity * payout, pool)
  <1>1. /\ is_settled = TRUE /\ quantity > 0 /\ quantity <= tokens[u]
        /\ tokens' = [tokens EXCEPT ![u] = @ - quantity]
        /\ usdc' = [usdc EXCEPT ![u] = @ + paid]
        /\ pool' = pool - paid
        /\ UNCHANGED <<now, order, listing, option_account, treasury, is_settled,
                       voided, payout, redirected>>
    BY DEF PayHolder, BookInv, VaultInv
  <1>2. paid \in Nat /\ paid = AtMost(quantity * payout, pool)
    BY PaidBounds
  <1>3. tokens[u] \in Nat /\ tokens[u] <= Options(u) /\ Options(u) \in Nat
    BY PartsNat, HoldingsNat
  <1>4. quantity \in 1..Options(u)
    BY <1>1, <1>3
  <1> HIDE DEF paid
  <1>5. ASSUME NEW v \in Users
        PROVE  /\ Wealth(v)' = IF v = u THEN Wealth(v) + paid ELSE Wealth(v)
               /\ Options(v)' = IF v = u THEN Options(v) - quantity ELSE Options(v)
    <2>1. /\ usdc[v] \in Nat /\ tokens[v] \in Nat /\ listing[v].escrow \in Nat
          /\ EscrowedUsdc(order[v]) \in Nat /\ EscrowedOptions(order[v]) \in Nat
      BY PartsNat
    <2>2. /\ usdc'[v] = IF v = u THEN usdc[v] + paid ELSE usdc[v]
          /\ tokens'[v] = IF v = u THEN tokens[v] - quantity ELSE tokens[v]
          /\ order'[v] = order[v] /\ listing'[v] = listing[v]
      BY <1>1 DEF BookInv, DollarsInv, TokensInv
    <2>3. QED
      BY <1>2, <2>1, <2>2 DEF Wealth, Options
  <1>6. UNCHANGED <<now, is_settled, payout, treasury, redirected>>
    BY <1>1
  <1>7. QED
    BY <1>1, <1>2, <1>4, <1>5, <1>6, RedeemStep

\* An order that is not open holds nothing.
LEMMA ClosedHoldsNothing ==
    ASSUME NEW o \in OrderRecord, OrderOK(o), ~o.open
    PROVE  UsdcIn(o) = 0 /\ OptionsIn(o) = 0
  <1>1. ~(o.escrow > 0)
    BY HoldingOrderOpen, Zenon
  <1>2. o.escrow = 0
    BY <1>1 DEF OrderRecord
  <1>3. QED
    BY <1>2 DEF UsdcIn, OptionsIn

\* An order changes, and what its escrow loses goes to the accounts of v.
LEMMA OrderMoves ==
    ASSUME BookInv, NEW u \in Users, NEW n \in Nonces, NEW r \in OrderRecord,
           NEW v \in Users, NEW quantity, NEW dollars,
           quantity = OptionsIn(order[u][n]) - OptionsIn(r),
           dollars = UsdcIn(order[u][n]) - UsdcIn(r),
           order' = [order EXCEPT ![u][n] = r],
           usdc' = [usdc EXCEPT ![v] = @ + dollars],
           tokens' = [tokens EXCEPT ![v] = @ + quantity],
           UNCHANGED listing
    PROVE  Moves(u, v, quantity, dollars) /\ quantity \in Int /\ dollars \in Int
  <1> DEFINE o == order[u][n]
  <1>1. OrdersInv /\ o \in OrderRecord
    BY DEF BookInv, OrdersInv
  <1>2. /\ UsdcIn(o) \in Nat /\ OptionsIn(o) \in Nat
        /\ UsdcIn(r) \in Nat /\ OptionsIn(r) \in Nat
    BY <1>1, HeldNat
  <1>3. quantity \in Int /\ dollars \in Int
    BY <1>2
  <1>4. ASSUME NEW x \in Users
        PROVE  /\ Wealth(x)' = Wealth(x) - (IF x = u THEN dollars ELSE 0)
                               + (IF x = v THEN dollars ELSE 0)
               /\ Options(x)' = Options(x) - (IF x = u THEN quantity ELSE 0)
                                + (IF x = v THEN quantity ELSE 0)
    <2>1. /\ EscrowedUsdc(order'[x])
                = IF x = u THEN EscrowedUsdc(order[x]) - UsdcIn(o) + UsdcIn(r)
                  ELSE EscrowedUsdc(order[x])
          /\ EscrowedOptions(order'[x])
                = IF x = u THEN EscrowedOptions(order[x]) - OptionsIn(o) + OptionsIn(r)
                  ELSE EscrowedOptions(order[x])
      BY <1>1, EscrowedAfterOrder, Zenon
    <2>2. /\ usdc[x] \in Nat /\ tokens[x] \in Nat /\ listing[x].escrow \in Nat
          /\ EscrowedUsdc(order[x]) \in Nat /\ EscrowedOptions(order[x]) \in Nat
      BY PartsNat
    <2>3. /\ usdc'[x] = IF x = v THEN usdc[x] + dollars ELSE usdc[x]
          /\ tokens'[x] = IF x = v THEN tokens[x] + quantity ELSE tokens[x]
          /\ listing'[x] = listing[x]
      BY DEF BookInv, DollarsInv, TokensInv
    <2>4. quantity = OptionsIn(o) - OptionsIn(r) /\ dollars = UsdcIn(o) - UsdcIn(r)
      OBVIOUS
    <2> HIDE DEF o
    <2>5. QED
      BY <1>2, <1>3, <2>1, <2>2, <2>3, <2>4 DEF Wealth, Options
  <1>5. QED
    BY <1>3, <1>4 DEF Moves

LEMMA PostOrderStutters ==
    ASSUME BookInv, NEW u \in Users, NEW n \in Nonces, NEW kind \in OrderKinds,
           NEW price \in Prices, NEW quantity \in Quantities,
           PostOrder(u, n, kind, price, quantity)
    PROVE  UNCHANGED TheLedger!ledger
  <1> DEFINE amount == EscrowFor(kind, price, quantity)
             r == [open |-> TRUE, kind |-> kind, price_per_contract |-> price,
                   quantity_remaining |-> quantity, escrow |-> amount, extra |-> 0]
             o == order[u][n]
             moved == OptionsIn(o) - OptionsIn(r)
             dollars == UsdcIn(o) - UsdcIn(r)
  <1>1. r \in OrderRecord
    BY PostedOK
  <1>2. amount \in Nat
    BY <1>1 DEF OrderRecord
  <1>3. /\ ~o.open /\ order' = [order EXCEPT ![u][n] = r]
        /\ IF kind = "ResaleAsk"
           THEN tokens' = [tokens EXCEPT ![u] = @ - amount] /\ UNCHANGED usdc
           ELSE usdc' = [usdc EXCEPT ![u] = @ - amount] /\ UNCHANGED tokens
        /\ UNCHANGED <<now, listing, treasury, is_settled, payout, pool, redirected>>
    BY DEF PostOrder
  <1>4. UsdcIn(o) = 0 /\ OptionsIn(o) = 0
    BY <1>3, ClosedHoldsNothing DEF BookInv, OrdersInv
  <1>5. /\ UsdcIn(r) = IF kind = "ResaleAsk" THEN 0 ELSE amount
        /\ OptionsIn(r) = IF kind = "ResaleAsk" THEN amount ELSE 0
    BY DEF UsdcIn, OptionsIn
  <1>6. /\ usdc \in [Users -> Nat] /\ tokens \in [Users -> Nat]
    BY DEF BookInv, DollarsInv, TokensInv
  <1> HIDE DEF amount, r, o
  <1>7. /\ usdc' = [usdc EXCEPT ![u] = @ + dollars]
        /\ tokens' = [tokens EXCEPT ![u] = @ + moved]
    BY <1>2, <1>3, <1>4, <1>5, <1>6
  <1>8. moved = OptionsIn(o) - OptionsIn(r) /\ dollars = UsdcIn(o) - UsdcIn(r)
    OBVIOUS
  <1> HIDE DEF moved, dollars
  <1>9. Moves(u, u, moved, dollars) /\ moved \in Int /\ dollars \in Int
    BY <1>1, <1>3, <1>7, <1>8, OrderMoves DEF o
  <1>10. QED
    BY <1>3, <1>9, MoveToSelf

\* An order that ends pays its escrow to v: the ledger counts it, or sees nothing
\* when v is the owner.
LEMMA ReturnMoves ==
    ASSUME BookInv, NEW u \in Users, NEW n \in Nonces, NEW v \in Users,
           ReturnEscrow(v, order[u][n]),
           order' = [order EXCEPT ![u][n] = NoOrder],
           IF u = v THEN UNCHANGED redirected ELSE redirected' = redirected + 1,
           UNCHANGED <<now, listing, treasury, is_settled, payout, pool>>
    PROVE  TheLedger!LedgerNext \/ UNCHANGED TheLedger!ledger
  <1> DEFINE o == order[u][n]
             quantity == OptionsIn(o)
             dollars == UsdcIn(o)
  <1>1. o \in OrderRecord /\ o.escrow \in Nat
    BY DEF BookInv, OrdersInv, OrderRecord
  <1>2. NoOrder \in OrderRecord /\ UsdcIn(NoOrder) = 0 /\ OptionsIn(NoOrder) = 0
    BY NoOrderOK DEF NoOrder, UsdcIn, OptionsIn
  <1>3. /\ usdc \in [Users -> Nat] /\ tokens \in [Users -> Nat]
    BY DEF BookInv, DollarsInv, TokensInv
  <1>4. /\ quantity \in Nat /\ dollars \in Nat
        /\ quantity <= Options(u) /\ dollars <= Wealth(u)
    BY HeldAtMostOwned
  <1>5. /\ quantity = OptionsIn(o) - OptionsIn(NoOrder)
        /\ dollars = UsdcIn(o) - UsdcIn(NoOrder)
    BY <1>2, <1>4
  <1>6. /\ usdc' = [usdc EXCEPT ![v] = @ + dollars]
        /\ tokens' = [tokens EXCEPT ![v] = @ + quantity]
    <2>1. IF o.kind = "ResaleAsk"
          THEN tokens' = [tokens EXCEPT ![v] = @ + o.escrow] /\ UNCHANGED usdc
          ELSE usdc' = [usdc EXCEPT ![v] = @ + o.escrow] /\ UNCHANGED tokens
      BY DEF ReturnEscrow
    <2> HIDE DEF o
    <2>2. QED
      BY <1>1, <1>3, <2>1 DEF UsdcIn, OptionsIn
  <1>7. Moves(u, v, quantity, dollars)
    <2> HIDE DEF quantity, dollars
    <2>1. QED
      BY <1>2, <1>5, <1>6, OrderMoves
  <1> HIDE DEF quantity, dollars
  <1>8. CASE u = v
    <2>1. quantity \in Int /\ dollars \in Int /\ UNCHANGED redirected
      BY <1>4, <1>8
    <2>2. QED
      BY <1>7, <1>8, <2>1, MoveToSelf
  <1>9. CASE u # v
    <2>1. /\ quantity \in 0..Options(u) /\ dollars \in 0..Wealth(u)
          /\ redirected' = redirected + 1
      BY <1>4, <1>9, HoldingsNat
    <2>2. QED
      BY <1>7, <2>1, RedirectStep
  <1>10. QED
    BY <1>8, <1>9

\* A listing changes, and what its escrow loses goes to the account of v.
LEMMA ListingMoves ==
    ASSUME BookInv, NEW u \in Users, NEW r \in ListingRecord,
           NEW v \in Users, NEW quantity, quantity = listing[u].escrow - r.escrow,
           listing' = [listing EXCEPT ![u] = r],
           tokens' = [tokens EXCEPT ![v] = @ + quantity],
           UNCHANGED <<order, usdc>>
    PROVE  Moves(u, v, quantity, 0) /\ quantity \in Int
  <1>1. r.escrow \in Nat /\ listing[u].escrow \in Nat
    BY PartsNat DEF ListingRecord
  <1>2. quantity \in Int
    BY <1>1
  <1>3. ASSUME NEW x \in Users
        PROVE  /\ Wealth(x)' = Wealth(x) - (IF x = u THEN 0 ELSE 0)
                               + (IF x = v THEN 0 ELSE 0)
               /\ Options(x)' = Options(x) - (IF x = u THEN quantity ELSE 0)
                                + (IF x = v THEN quantity ELSE 0)
    <2>1. /\ tokens[x] \in Nat /\ listing[x].escrow \in Nat /\ usdc[x] \in Nat
          /\ EscrowedOptions(order[x]) \in Nat /\ EscrowedUsdc(order[x]) \in Nat
      BY PartsNat
    <2>2. /\ tokens'[x] = IF x = v THEN tokens[x] + quantity ELSE tokens[x]
          /\ listing'[x] = IF x = u THEN r ELSE listing[x]
          /\ order'[x] = order[x] /\ usdc'[x] = usdc[x]
      BY DEF BookInv, ListingsInv, TokensInv
    <2>3. QED
      BY <1>1, <1>2, <2>1, <2>2 DEF Wealth, Options
  <1>4. QED
    BY <1>2, <1>3 DEF Moves

LEMMA ListV2ForResaleStutters ==
    ASSUME BookInv, NEW u \in Users, NEW price \in Prices,
           NEW quantity \in Quantities, ListV2ForResale(u, price, quantity)
    PROVE  UNCHANGED TheLedger!ledger
  <1> DEFINE r == [open |-> TRUE, price_per_contract |-> price,
                   listed_quantity |-> quantity, escrow |-> quantity, extra |-> 0]
             moved == listing[u].escrow - r.escrow
  <1>1. r \in ListingRecord /\ r.escrow = quantity
    BY ListedOK
  <1>2. /\ quantity \in Nat /\ tokens \in [Users -> Nat]
        /\ listing[u] \in ListingRecord /\ ListingOK(listing[u])
    BY BookAssumption DEF BookInv, TokensInv, ListingsInv
  <1>3. /\ ~listing[u].open /\ listing' = [listing EXCEPT ![u] = r]
        /\ tokens' = [tokens EXCEPT ![u] = @ - quantity]
        /\ UNCHANGED <<now, order, usdc, treasury, is_settled, payout, pool, redirected>>
    BY DEF ListV2ForResale
  <1> HIDE DEF r
  <1>4. listing[u].escrow = 0
    BY <1>2, <1>3 DEF ListingOK, ListingRecord
  <1>5. tokens' = [tokens EXCEPT ![u] = @ + moved]
    <2>1. tokens[u] + moved = tokens[u] - quantity
      BY <1>1, <1>2, <1>4
    <2>2. QED
      BY <1>3, <2>1, Zenon
  <1>6. moved = listing[u].escrow - r.escrow
    OBVIOUS
  <1> HIDE DEF moved
  <1>7. Moves(u, u, moved, 0) /\ moved \in Int
    BY <1>1, <1>3, <1>5, <1>6, ListingMoves
  <1>8. QED
    BY <1>3, <1>7, MoveToSelf

LEMMA EndListingMoves ==
    ASSUME BookInv, NEW u \in Users, NEW v \in Users, EndListing(u, v)
    PROVE  TheLedger!LedgerNext \/ UNCHANGED TheLedger!ledger
  <1> DEFINE quantity == listing[u].escrow
  <1>1. NoListing \in ListingRecord /\ NoListing.escrow = 0
    BY NoListingOK DEF NoListing
  <1>2. quantity \in Nat /\ quantity <= Options(u)
    BY PartsNat DEF Options
  <1>3. /\ listing' = [listing EXCEPT ![u] = NoListing]
        /\ tokens' = [tokens EXCEPT ![v] = @ + quantity]
        /\ UNCHANGED <<now, order, usdc, treasury, is_settled, payout, pool>>
        /\ IF u = v THEN UNCHANGED redirected ELSE redirected' = redirected + 1
    BY DEF EndListing, CountsAstray
  <1>4. quantity = listing[u].escrow - NoListing.escrow
    BY <1>1, <1>2
  <1> HIDE DEF quantity
  <1>5. Moves(u, v, quantity, 0)
    BY <1>1, <1>3, <1>4, ListingMoves
  <1>6. CASE u = v
    <2>1. UNCHANGED redirected /\ quantity \in Int
      BY <1>2, <1>3, <1>6
    <2>2. QED
      BY <1>3, <1>5, <1>6, <2>1, MoveToSelf
  <1>7. CASE u # v
    <2>1. quantity \in 0..Options(u) /\ 0 \in 0..Wealth(u)
      BY <1>2, HoldingsNat
    <2>2. redirected' = redirected + 1
      BY <1>3, <1>7
    <2>3. QED
      BY <1>3, <1>5, <2>1, <2>2, RedirectStep
  <1>8. QED
    BY <1>6, <1>7

-----------------------------------------------------------------------------
(* What goes astray, in the ledger. *)

LEMMA SendToOrderRedirects ==
    ASSUME BookInv, NEW w \in Users, NEW u \in Users, NEW n \in Nonces,
           NEW amount \in Amounts, SendToOrder(w, u, n, amount)
    PROVE  TheLedger!LedgerNext
  <1> DEFINE o == order[u][n]
             r == Shifted(o, amount)
             quantity == OptionsIn(o) - OptionsIn(r)
             dollars == UsdcIn(o) - UsdcIn(r)
  <1>1. amount \in Nat /\ amount \in Int
    BY BookAssumption
  <1>2. o \in OrderRecord /\ OrderOK(o) /\ o.open /\ o.escrow \in Nat
    BY DEF BookInv, OrdersInv, SendToOrder, OrderRecord
  <1>3. o.escrow + amount >= 0
    BY <1>1, <1>2
  <1>4. r \in OrderRecord /\ r.kind = o.kind /\ r.escrow = o.escrow + amount
    BY <1>1, <1>2, <1>3, OrderAstrayOK, Zenon
  <1>5. /\ order' = [order EXCEPT ![u][n] = r]
        /\ IF o.kind = "ResaleAsk"
           THEN /\ amount <= tokens[w]
                /\ tokens' = [tokens EXCEPT ![w] = @ - amount]
                /\ UNCHANGED usdc
           ELSE /\ amount <= usdc[w]
                /\ usdc' = [usdc EXCEPT ![w] = @ - amount]
                /\ UNCHANGED tokens
        /\ redirected' = redirected + 1
        /\ UNCHANGED <<now, listing, treasury, is_settled, payout, pool>>
    BY DEF SendToOrder, Astray
  <1> HIDE DEF r, o
  <1>6. IF o.kind = "ResaleAsk" THEN quantity = -amount /\ dollars = 0
                                ELSE quantity = 0 /\ dollars = -amount
    BY <1>1, <1>2, <1>4 DEF UsdcIn, OptionsIn
  <1>7. /\ usdc \in [Users -> Nat] /\ tokens \in [Users -> Nat]
    BY DEF BookInv, DollarsInv, TokensInv
  <1>8. /\ quantity = OptionsIn(o) - OptionsIn(r)
        /\ dollars = UsdcIn(o) - UsdcIn(r)
    OBVIOUS
  <1> HIDE DEF quantity, dollars
  <1>9. /\ usdc' = [usdc EXCEPT ![w] = @ + dollars]
        /\ tokens' = [tokens EXCEPT ![w] = @ + quantity]
    BY <1>1, <1>5, <1>6, <1>7
  <1>10. Moves(u, w, quantity, dollars)
    BY <1>4, <1>5, <1>8, <1>9, OrderMoves DEF o
  <1>11. /\ -quantity \in 0..Options(w) /\ -dollars \in 0..Wealth(w)
         /\ quantity \in Int /\ dollars \in Int
    <2>1. /\ Wealth(w) \in Nat /\ Options(w) \in Nat
          /\ usdc[w] <= Wealth(w) /\ tokens[w] <= Options(w)
          /\ usdc[w] \in Nat /\ tokens[w] \in Nat
      BY HoldingsNat, PartsNat
    <2>2. QED
      BY <1>1, <1>5, <1>6, <2>1
  <1>12. Moves(w, u, -quantity, -dollars)
    <2>1. ASSUME NEW x \in Users
          PROVE  /\ Wealth(x)' = Wealth(x) - (IF x = w THEN -dollars ELSE 0)
                                 + (IF x = u THEN -dollars ELSE 0)
                 /\ Options(x)' = Options(x) - (IF x = w THEN -quantity ELSE 0)
                                  + (IF x = u THEN -quantity ELSE 0)
      <3>1. Wealth(x) \in Nat /\ Options(x) \in Nat
        BY HoldingsNat
      <3>2. QED
        BY <1>10, <1>11, <3>1 DEF Moves
    <2>2. QED
      BY <2>1 DEF Moves
  <1>13. QED
    BY <1>5, <1>11, <1>12, RedirectStep

LEMMA SendToListingRedirects ==
    ASSUME BookInv, NEW w \in Users, NEW u \in Users, NEW amount \in Amounts,
           SendToListing(w, u, amount)
    PROVE  TheLedger!LedgerNext
  <1> DEFINE l == listing[u]
             r == Shifted(l, amount)
  <1>1. amount \in Nat /\ amount \in Int
    BY BookAssumption
  <1>2. l \in ListingRecord /\ ListingOK(l) /\ l.open /\ l.escrow \in Nat
    BY DEF BookInv, ListingsInv, SendToListing, ListingRecord
  <1>3. l.escrow + amount >= 0
    BY <1>1, <1>2
  <1>4. r \in ListingRecord /\ r.escrow = l.escrow + amount
    BY <1>1, <1>2, <1>3, ListingAstrayOK, Zenon
  <1>5. /\ listing' = [listing EXCEPT ![u] = r]
        /\ amount <= tokens[w]
        /\ tokens' = [tokens EXCEPT ![w] = @ - amount]
        /\ redirected' = redirected + 1
        /\ UNCHANGED <<now, order, usdc, treasury, is_settled, payout, pool>>
    BY DEF SendToListing, Astray
  <1> HIDE DEF r
  <1>6. -amount = listing[u].escrow - r.escrow
    BY <1>1, <1>2, <1>4
  <1>7. tokens \in [Users -> Nat]
    BY DEF BookInv, TokensInv
  <1>8. tokens' = [tokens EXCEPT ![w] = @ + (-amount)]
    BY <1>1, <1>5, <1>7
  <1>9. Moves(u, w, -amount, 0)
    BY <1>4, <1>5, <1>6, <1>8, ListingMoves
  <1>10. amount \in 0..Options(w) /\ 0 \in 0..Wealth(w)
    <2>1. /\ Wealth(w) \in Nat /\ Options(w) \in Nat
          /\ tokens[w] <= Options(w) /\ tokens[w] \in Nat
      BY HoldingsNat, PartsNat
    <2>2. QED
      BY <1>1, <1>5, <2>1
  <1>11. Moves(w, u, amount, 0)
    <2>1. ASSUME NEW x \in Users
          PROVE  /\ Wealth(x)' = Wealth(x) - (IF x = w THEN 0 ELSE 0)
                                 + (IF x = u THEN 0 ELSE 0)
                 /\ Options(x)' = Options(x) - (IF x = w THEN amount ELSE 0)
                                  + (IF x = u THEN amount ELSE 0)
      <3>1. Wealth(x) \in Nat /\ Options(x) \in Nat
        BY HoldingsNat
      <3>2. QED
        BY <1>1, <1>9, <3>1 DEF Moves
    <2>2. QED
      BY <2>1 DEF Moves
  <1>12. QED
    BY <1>5, <1>10, <1>11, RedirectStep

LEMMA OrderPaysElsewhereDraws ==
    ASSUME BookInv, NEW u \in Users, NEW n \in Nonces, NEW amount \in Amounts,
           OrderPaysElsewhere(u, n, amount)
    PROVE  TheLedger!LedgerNext
  <1> DEFINE o == order[u][n]
             r == Shifted(o, -amount)
  <1>1. amount \in Nat \ {0} /\ amount <= o.escrow /\ o.kind # "ResaleAsk"
    BY BookAssumption DEF OrderPaysElsewhere
  <1>2. o \in OrderRecord /\ OrderOK(o) /\ o.escrow \in Nat /\ OrdersInv
    BY DEF BookInv, OrdersInv, OrderRecord
  <1>3. -amount \in Int /\ o.escrow + (-amount) >= 0 /\ o.escrow > 0
    BY <1>1, <1>2
  <1>4. o.open
    BY <1>2, <1>3, HoldingOrderOpen, Zenon
  <1>5. r \in OrderRecord /\ r.kind = o.kind /\ r.escrow = o.escrow + (-amount)
    BY <1>2, <1>3, <1>4, OrderAstrayOK, Zenon
  <1>6. /\ order' = [order EXCEPT ![u][n] = r]
        /\ redirected' = redirected + 1
        /\ UNCHANGED <<now, listing, usdc, tokens, treasury, is_settled, payout, pool>>
    BY DEF OrderPaysElsewhere, Astray
  <1> HIDE DEF r
  <1>7. /\ UsdcIn(o) = o.escrow /\ UsdcIn(r) = o.escrow - amount
        /\ OptionsIn(o) = 0 /\ OptionsIn(r) = 0
    BY <1>1, <1>2, <1>5 DEF UsdcIn, OptionsIn
  <1>8. UsdcIn(o) <= Wealth(u) /\ Wealth(u) \in Nat
    BY HeldAtMostOwned, HoldingsNat
  <1>9. amount \in 1..Wealth(u)
    BY <1>1, <1>2, <1>7, <1>8
  <1>10. ASSUME NEW x \in Users
         PROVE  /\ Wealth(x)' = IF x = u THEN Wealth(x) - amount ELSE Wealth(x)
                /\ Options(x)' = Options(x)
    <2>1. /\ EscrowedUsdc(order'[x])
                = IF x = u THEN EscrowedUsdc(order[x]) - UsdcIn(o) + UsdcIn(r)
                  ELSE EscrowedUsdc(order[x])
          /\ EscrowedOptions(order'[x])
                = IF x = u THEN EscrowedOptions(order[x]) - OptionsIn(o) + OptionsIn(r)
                  ELSE EscrowedOptions(order[x])
      BY <1>2, <1>5, <1>6, EscrowedAfterOrder, Zenon
    <2>2. /\ usdc[x] \in Nat /\ tokens[x] \in Nat /\ listing[x].escrow \in Nat
          /\ EscrowedUsdc(order[x]) \in Nat /\ EscrowedOptions(order[x]) \in Nat
      BY PartsNat
    <2>3. usdc'[x] = usdc[x] /\ tokens'[x] = tokens[x] /\ listing'[x] = listing[x]
      BY <1>6
    <2> HIDE DEF o
    <2>4. QED
      BY <1>1, <1>2, <1>7, <2>1, <2>2, <2>3 DEF Wealth, Options
  <1>11. QED
    BY <1>6, <1>9, <1>10, DrawStep

\* The burn of an escrow takes options from its owner and pays the protocol.
LEMMA BurnForfeits ==
    ASSUME BookInv, NEW u \in Users, NEW quantity \in 1..Options(u),
           PayProgram(quantity), Astray,
           UNCHANGED <<now, is_settled, payout>>,
           \A x \in Users : Wealth(x)' = Wealth(x),
           \A x \in Users : Options(x)' = IF x = u THEN Options(x) - quantity
                                         ELSE Options(x)
    PROVE  TheLedger!LedgerNext
  <1> DEFINE paid == AtMost(quantity * payout, pool)
  <1>1. /\ is_settled = TRUE /\ treasury' = treasury + paid /\ pool' = pool - paid
        /\ redirected' = redirected + 1
    BY DEF PayProgram, Astray, BookInv, VaultInv
  <1>2. paid = AtMost(quantity * payout, pool)
    OBVIOUS
  <1> HIDE DEF paid
  <1>3. QED
    BY <1>1, <1>2, ForfeitStep

LEMMA BurnOrderEscrowForfeits ==
    ASSUME BookInv, NEW u \in Users, NEW n \in Nonces, BurnOrderEscrow(u, n)
    PROVE  TheLedger!LedgerNext
  <1> DEFINE o == order[u][n]
             r == Shifted(o, -o.escrow)
  <1>1. o \in OrderRecord /\ OrderOK(o) /\ o.escrow \in Nat /\ OrdersInv
    BY DEF BookInv, OrdersInv, OrderRecord
  <1>2. PayProgram(o.escrow) /\ o.escrow > 0 /\ Astray /\ o.kind = "ResaleAsk"
    BY DEF BurnOrderEscrow, PayProgram
  <1>3. o.open
    BY <1>1, <1>2, HoldingOrderOpen, Zenon
  <1>4. -o.escrow \in Int /\ o.escrow + (-o.escrow) >= 0 /\ o.escrow + (-o.escrow) = 0
    BY <1>1
  <1>5. r \in OrderRecord /\ r.kind = o.kind /\ r.escrow = 0
    <2>1. r \in OrderRecord /\ r.kind = o.kind /\ r.escrow = o.escrow + (-o.escrow)
      BY <1>1, <1>3, <1>4, OrderAstrayOK, Zenon
    <2>2. QED
      BY <1>4, <2>1
  <1>6. /\ order' = [order EXCEPT ![u][n] = r]
        /\ UNCHANGED <<now, listing, usdc, tokens, is_settled, payout>>
    BY DEF BurnOrderEscrow
  <1> HIDE DEF r
  <1>7. /\ UsdcIn(o) = 0 /\ UsdcIn(r) = 0
        /\ OptionsIn(o) = o.escrow /\ OptionsIn(r) = 0
    BY <1>2, <1>5 DEF UsdcIn, OptionsIn
  <1>8. OptionsIn(o) <= Options(u) /\ Options(u) \in Nat
    BY HeldAtMostOwned, HoldingsNat
  <1>9. o.escrow \in 1..Options(u)
    BY <1>1, <1>2, <1>7, <1>8
  <1>10. ASSUME NEW x \in Users
         PROVE  /\ Wealth(x)' = Wealth(x)
                /\ Options(x)' = IF x = u THEN Options(x) - o.escrow ELSE Options(x)
    <2>1. /\ EscrowedUsdc(order'[x])
                = IF x = u THEN EscrowedUsdc(order[x]) - UsdcIn(o) + UsdcIn(r)
                  ELSE EscrowedUsdc(order[x])
          /\ EscrowedOptions(order'[x])
                = IF x = u THEN EscrowedOptions(order[x]) - OptionsIn(o) + OptionsIn(r)
                  ELSE EscrowedOptions(order[x])
      BY <1>1, <1>5, <1>6, EscrowedAfterOrder, Zenon
    <2>2. /\ usdc[x] \in Nat /\ tokens[x] \in Nat /\ listing[x].escrow \in Nat
          /\ EscrowedUsdc(order[x]) \in Nat /\ EscrowedOptions(order[x]) \in Nat
      BY PartsNat
    <2>3. usdc'[x] = usdc[x] /\ tokens'[x] = tokens[x] /\ listing'[x] = listing[x]
      BY <1>6
    <2> HIDE DEF o
    <2>4. QED
      BY <1>1, <1>7, <2>1, <2>2, <2>3 DEF Wealth, Options
  <1> HIDE DEF o
  <1>11. QED
    BY <1>2, <1>6, <1>9, <1>10, BurnForfeits

LEMMA BurnListingEscrowForfeits ==
    ASSUME BookInv, NEW u \in Users, BurnListingEscrow(u)
    PROVE  TheLedger!LedgerNext
  <1> DEFINE l == listing[u]
             r == Shifted(l, -l.escrow)
             quantity == l.escrow
  <1>1. l \in ListingRecord /\ ListingOK(l) /\ quantity \in Nat
        /\ listing \in [Users -> ListingRecord]
    BY DEF BookInv, ListingsInv, ListingRecord
  <1>2. PayProgram(quantity) /\ quantity > 0 /\ Astray
    BY DEF BurnListingEscrow, PayProgram
  <1>3. l.open
    BY <1>1, <1>2, HoldingListingOpen, Zenon
  <1>4. r.escrow = 0
    <2>1. -l.escrow \in Int /\ l.escrow + (-l.escrow) >= 0 /\ l.escrow + (-l.escrow) = 0
      BY <1>1
    <2>2. r.escrow = l.escrow + (-l.escrow)
      BY <1>1, <1>3, <2>1, ListingAstrayOK, Zenon
    <2>3. QED
      BY <2>1, <2>2
  <1>5. /\ listing' = [listing EXCEPT ![u] = r]
        /\ UNCHANGED <<now, order, usdc, tokens, is_settled, payout>>
    BY DEF BurnListingEscrow
  <1> HIDE DEF r
  <1>6. quantity <= Options(u) /\ Options(u) \in Nat
    BY PartsNat, HoldingsNat DEF Options
  <1>7. quantity \in 1..Options(u)
    BY <1>1, <1>2, <1>6
  <1>8. ASSUME NEW x \in Users
        PROVE  /\ Wealth(x)' = Wealth(x)
               /\ Options(x)' = IF x = u THEN Options(x) - quantity ELSE Options(x)
    <2>1. /\ tokens[x] \in Nat /\ listing[x].escrow \in Nat
          /\ EscrowedOptions(order[x]) \in Nat
      BY PartsNat
    <2>2. listing'[x].escrow = IF x = u THEN 0 ELSE listing[x].escrow
      BY <1>1, <1>4, <1>5
    <2>3. UNCHANGED <<order, usdc, tokens>>
      BY <1>5
    <2>4. QED
      BY <2>1, <2>2, <2>3 DEF Wealth, Options
  <1> HIDE DEF quantity
  <1>9. QED
    BY <1>2, <1>5, <1>7, <1>8, BurnForfeits

LEMMA NextAstrayCounted ==
    ASSUME BookInv, NextAstray
    PROVE  TheLedger!LedgerNext
  BY SendToOrderRedirects, SendToListingRedirects, OrderPaysElsewhereDraws,
     BurnOrderEscrowForfeits, BurnListingEscrowForfeits, Zenon DEF NextAstray

\* Time and the vault: expiry, settlement and release are the ledger's.
LEMMA VaultStepsKeepLedger ==
    ASSUME BookInv,
           \/ Tick
           \/ \E worth \in Payouts : SettleVault(worth)
           \/ InitializeVoid
           \/ WithdrawPostSettlement
    PROVE  TheLedger!LedgerNext \/ UNCHANGED TheLedger!ledger
  <1> DEFINE w == [v \in Users |-> Wealth(v)]
             o == [v \in Users |-> Options(v)]
  <1>1. Expiry \in Nat /\ now \in Nat /\ pool \in Nat
    BY BookAssumption DEF BookInv, VaultInv
  <1>2. UNCHANGED <<order, listing, usdc, tokens, treasury, redirected>>
    BY DEF Tick, SettleVault, InitializeVoid, WithdrawPostSettlement
  <1>3. \A v \in Users : Wealth(v)' = Wealth(v) /\ Options(v)' = Options(v)
    BY <1>2 DEF Wealth, Options
  <1>4. w' = w /\ o' = o
    BY <1>3
  <1>5. CASE Tick
    <2>1. now' = now + 1 /\ UNCHANGED <<is_settled, payout, pool, treasury>>
      BY <1>5 DEF Tick
    <2>2. is_settled => now >= Expiry
      BY DEF BookInv, VaultInv
    <2>3. CASE ~(now >= Expiry) /\ now' >= Expiry
      <3>1. TheLedger!Expire
        BY <1>2, <1>4, <2>1, <2>2, <2>3 DEF TheLedger!Expire
      <3>2. QED
        BY <2>2, <2>3, <3>1 DEF TheLedger!LedgerNext, TheLedger!Trading
    <2>4. CASE (now' >= Expiry) <=> (now >= Expiry)
      BY <1>2, <1>3, <2>1, <2>4, StutterStep
    <2>5. QED
      BY <1>1, <2>1, <2>3, <2>4
  <1>6. CASE \E worth \in Payouts : SettleVault(worth)
    <2>1. PICK worth \in Payouts : SettleVault(worth)
      BY <1>6
    <2>2. /\ now >= Expiry /\ is_settled = FALSE /\ is_settled' = TRUE
          /\ payout' = worth /\ pool' = Cpc * Total(o)
          /\ UNCHANGED <<now, treasury>>
      BY <2>1 DEF SettleVault, BookInv, VaultInv
    <2>3. pool' = Cpc * TheLedger!Total(o)
      BY <2>2, SameArithmetic, Zenon
    <2>4. TheLedger!Settle(worth)
      BY <1>2, <1>4, <2>2, <2>3 DEF TheLedger!Settle
    <2>5. QED
      BY <2>4 DEF TheLedger!LedgerNext
  <1>7. CASE InitializeVoid
    <2>1. UNCHANGED <<treasury, payout, pool, now, is_settled>>
      BY <1>7 DEF InitializeVoid
    <2>2. QED
      BY <1>2, <1>3, <2>1, StutterStep
  <1>8. CASE WithdrawPostSettlement
    <2>1. /\ is_settled /\ is_settled' = is_settled /\ now' = now
          /\ pool' \in 0..pool /\ UNCHANGED <<treasury, payout>>
      BY <1>1, <1>8 DEF WithdrawPostSettlement
    <2>2. TheLedger!Release
      BY <1>2, <1>4, <2>1 DEF TheLedger!Release
    <2>3. QED
      BY <2>1, <2>2 DEF TheLedger!LedgerNext, TheLedger!Paying
  <1>9. QED
    BY <1>5, <1>6, <1>7, <1>8

-----------------------------------------------------------------------------
(* The book implements the ledger. *)

LEMMA LedgerStep ==
    ASSUME BookInv, [Next]_vars
    PROVE  TheLedger!LedgerNext \/ UNCHANGED TheLedger!ledger
  <1>1. CASE Tick \/ (\E worth \in Payouts : SettleVault(worth))
             \/ InitializeVoid \/ WithdrawPostSettlement
    BY <1>1, VaultStepsKeepLedger, Zenon
  <1>2. CASE \/ \E u \in Users : CloseOptionAccount(u) \/ OpenOptionAccount(u)
             \/ UNCHANGED vars
    <2>1. UNCHANGED <<now, order, listing, usdc, tokens, treasury, is_settled,
                      payout, pool, redirected>>
      BY <1>2 DEF CloseOptionAccount, OpenOptionAccount, vars
    <2>2. \A v \in Users : Wealth(v)' = Wealth(v) /\ Options(v)' = Options(v)
      BY <2>1 DEF Wealth, Options
    <2>3. QED
      BY <2>1, <2>2, StutterStep
  <1>3. CASE \E u, v \in Users, quantity \in Quantities : TransferOption(u, v, quantity)
    BY <1>3, TransferOptionGives, Zenon
  <1>4. CASE \E u \in Users, n \in Nonces, kind \in OrderKinds, price \in Prices,
                quantity \in Quantities : PostOrder(u, n, kind, price, quantity)
    BY <1>4, PostOrderStutters, Zenon
  <1>5. CASE \E u \in Users, n \in Nonces, taker \in Users, quantity \in Quantities :
                FillResaleAsk(taker, u, n, quantity) \/ FillBid(taker, u, n, quantity)
    BY <1>5, FillResaleAskTrades, FillBidTrades, Zenon
  <1>6. CASE \E u \in Users, n \in Nonces : \/ \E v \in Users : CancelOrder(u, n, v)
                                            \/ SweepExpiredOrders(u, n)
    <2>1. PICK u \in Users, n \in Nonces : \/ \E v \in Users : CancelOrder(u, n, v)
                                           \/ SweepExpiredOrders(u, n)
      BY <1>6
    <2>2. PICK v \in Users :
              /\ ReturnEscrow(v, order[u][n])
              /\ order' = [order EXCEPT ![u][n] = NoOrder]
              /\ IF u = v THEN UNCHANGED redirected ELSE redirected' = redirected + 1
              /\ UNCHANGED <<now, listing, treasury, is_settled, payout, pool>>
      BY <2>1 DEF CancelOrder, CountsAstray, SweepExpiredOrders
    <2>3. QED
      BY <2>2, ReturnMoves
  <1>7. CASE \E u \in Users, price \in Prices, quantity \in Quantities :
                ListV2ForResale(u, price, quantity)
    BY <1>7, ListV2ForResaleStutters, Zenon
  <1>8. CASE \E u \in Users, buyer \in Users, quantity \in Quantities, cap \in Caps :
                BuyV2Resale(buyer, u, quantity, cap)
    BY <1>8, BuyV2ResaleTrades, Zenon
  <1>9. CASE \E u, v \in Users : CancelV2Resale(u, v) \/ AutoCancelListings(u, v)
    BY <1>9, EndListingMoves DEF CancelV2Resale, AutoCancelListings
  <1>10. CASE \E u \in Users : \/ \E quantity \in Quantities : ExerciseFromVault(u, quantity)
                               \/ AutoFinalizeHolders(u)
    <2>1. \E u \in Users, quantity \in Nat : PayHolder(u, quantity)
      BY <1>10, PaymentOfTokens, Zenon
    <2>2. QED
      BY <2>1, PayHolderRedeems, Zenon
  <1>11. CASE NextAstray
    BY <1>11, NextAstrayCounted, Zenon
  <1>12. QED
    BY <1>1, <1>2, <1>3, <1>4, <1>5, <1>6, <1>7, <1>8, <1>9, <1>10, <1>11
       DEF Next

LEMMA LedgerStart ==
    ASSUME Init
    PROVE  TheLedger!LedgerInit
  <1> DEFINE w == [v \in Users |-> Wealth(v)]
             o == [v \in Users |-> Options(v)]
  <1>1. Expiry \in Nat \ {0} /\ Supply \in Nat /\ InitialUsdc \in Nat
    BY BookAssumption
  <1>2. /\ tokens \in [Users -> 0..Supply] /\ Total(tokens) = Supply
        /\ now = 0 /\ is_settled = FALSE /\ treasury = 0 /\ payout = 0 /\ pool = 0
        /\ redirected = 0
    BY DEF Init
  <1>3. ASSUME NEW v \in Users
        PROVE  Wealth(v) = InitialUsdc /\ Options(v) = tokens[v]
    <2> DEFINE zeros == [n \in Nonces |-> 0]
    <2>1. zeros \in [Nonces -> {0}]
      OBVIOUS
    <2>2. Total(zeros) = 0
      BY <2>1, TotalOfZeros
    <2>3. order[v] = [n \in Nonces |-> NoOrder]
      BY DEF Init
    <2>4. /\ EscrowedUsdc(order[v]) = Total(zeros)
          /\ EscrowedOptions(order[v]) = Total(zeros)
      BY <2>3 DEF EscrowedUsdc, EscrowedOptions, NoOrder
    <2>5. /\ usdc[v] = InitialUsdc /\ listing[v].escrow = 0 /\ tokens[v] \in Nat
      BY <1>1, <1>2 DEF Init, NoListing
    <2> HIDE DEF zeros
    <2>6. QED
      BY <1>1, <2>2, <2>4, <2>5 DEF Wealth, Options
  <1>4. w = [v \in Users |-> InitialUsdc]
    BY <1>3
  <1>5. o = tokens
    BY <1>2, <1>3
  <1>6. o \in {f \in [Users -> 0..Supply] : TheLedger!Total(f) = Supply}
    BY <1>2, <1>5, SameArithmetic
  <1>7. ~(now >= Expiry)
    BY <1>1, <1>2
  <1>8. QED
    BY <1>2, <1>4, <1>6, <1>7 DEF TheLedger!LedgerInit

\* For every set of traders, prices, fees and schedules the book implements the
\* ledger: only fills and transfers before expiry move wealth or options between
\* users, and after it an option is redeemed by who had it or not at all, but for
\* the steps the ledger counts: a return to somebody else's account, and an escrow
\* that is sent to, drawn or burned past the handlers of its order.
THEOREM BookKeepsTheLedger == Spec => KeepsTheLedger
  <1>1. Init => TheLedger!LedgerInit
    BY LedgerStart
  <1>2. BookInv /\ [Next]_vars => [TheLedger!LedgerNext]_(TheLedger!ledger)
    BY LedgerStep
  <1>3. BookInv /\ [Next]_vars => BookInv'
    BY NextInv
  <1>4. QED
    BY <1>1, <1>2, <1>3, InitInv, PTL DEF Spec, KeepsTheLedger, TheLedger!LedgerSpec
=============================================================================
