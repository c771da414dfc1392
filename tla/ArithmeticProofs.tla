--------------------------- MODULE ArithmeticProofs ---------------------------
(***************************************************************************)
(* What the truncating arithmetic of the handlers returns and bounds, and  *)
(* how a total changes when the function does: the lemmas the proofs about *)
(* the vaults, the book, the triggers and the oracle rest on.              *)
(***************************************************************************)
EXTENDS VaultMath, Totals, FiniteSetTheorems, TLAPS

\* A quotient of naturals lies between its exact bounds.
LEMMA QuotientBounds ==
    ASSUME NEW n \in Nat, NEW c \in Nat \ {0}
    PROVE  /\ n \div c \in Nat
           /\ c * (n \div c) <= n
           /\ n < c * (n \div c) + c
  OBVIOUS

\* A quotient is the only number between those bounds.
LEMMA QuotientUnique ==
    ASSUME NEW n \in Nat, NEW c \in Nat \ {0}, NEW q \in Nat, n = c * q
    PROVE  n \div c = q
  <1> DEFINE d == n \div c
  <1>1. d \in Nat /\ c * d <= n /\ n < c * d + c
    BY QuotientBounds
  <1> HIDE DEF d
  <1>2. ~(d < q)
    <2>1. SUFFICES ASSUME d + 1 <= q PROVE FALSE
      BY <1>1
    <2>2. c * (d + 1) <= c * q
      BY <2>1, <1>1
    <2>3. c * (d + 1) = c * d + c
      BY <1>1
    <2>4. c * d \in Int /\ c * q \in Int /\ c * (d + 1) \in Int
      BY <1>1
    <2>5. QED
      BY <1>1, <2>2, <2>3, <2>4
  <1>3. ~(q < d)
    <2>1. SUFFICES ASSUME q + 1 <= d PROVE FALSE
      BY <1>1
    <2>2. c * (q + 1) <= c * d
      BY <2>1, <1>1
    <2>3. c * (q + 1) = c * q + c
      OBVIOUS
    <2>4. c * d \in Int /\ c * q \in Int /\ c * (q + 1) \in Int
      BY <1>1
    <2>5. QED
      BY <1>1, <2>2, <2>3, <2>4
  <1>4. d = q
    BY <1>1, <1>2, <1>3
  <1>5. QED
    BY <1>4 DEF d

\* A pro-rata amount is a natural number.
LEMMA MulDivNat ==
    ASSUME NEW a \in Nat, NEW b \in Nat, NEW c \in Nat \ {0}
    PROVE  MulDiv(a, b, c) \in Nat
  <1>1. a * b \in Nat
    OBVIOUS
  <1>2. QED
    BY <1>1, QuotientBounds DEF MulDiv

\* Part b out of c of an amount is at most the amount.
LEMMA MulDivAtMost ==
    ASSUME NEW a \in Nat, NEW b \in Nat, NEW c \in Nat \ {0}, b <= c
    PROVE  MulDiv(a, b, c) <= a /\ MulDiv(b, a, c) <= a
  <1> DEFINE n == a * b
             d == n \div c
  <1>1. n \in Nat /\ a * c \in Nat /\ n <= a * c
    OBVIOUS
  <1>2. d \in Nat /\ c * d <= n
    BY <1>1, QuotientBounds
  <1>3. b * a = n
    OBVIOUS
  <1> HIDE DEF n, d
  <1>4. d <= a
    <2>1. SUFFICES ASSUME a + 1 <= d PROVE FALSE
      BY <1>2
    <2>2. c * (a + 1) <= c * d
      BY <2>1, <1>2
    <2>3. c * (a + 1) = a * c + c
      OBVIOUS
    <2>4. c * d \in Int /\ c * (a + 1) \in Int
      BY <1>2
    <2>5. QED
      BY <1>1, <1>2, <2>2, <2>3, <2>4
  <1>5. QED
    BY <1>3, <1>4 DEF MulDiv, n, d

\* Where two quantities are equal, pro rata is the identity.
LEMMA MulDivOneToOne ==
    ASSUME NEW a \in Nat, NEW c \in Nat \ {0}
    PROVE  MulDiv(a, c, c) = a
  <1> DEFINE n == a * c
  <1>1. n \in Nat /\ n = c * a
    OBVIOUS
  <1> HIDE DEF n
  <1>2. n \div c = a
    BY <1>1, QuotientUnique
  <1>3. QED
    BY <1>2 DEF MulDiv, n

\* A capped payout is a natural number no larger than the collateral locked.
LEMMA PayoutAtMostCap ==
    ASSUME NEW optionType, NEW price \in Nat, NEW strike \in Nat, NEW cap \in Nat
    PROVE  /\ ExerciseCappedIntrinsic(optionType, price, strike, cap) \in Nat
           /\ ExerciseCappedIntrinsic(optionType, price, strike, cap) <= cap
  BY DEF ExerciseCappedIntrinsic, AtMost, SatSub

\* The smaller of two amounts, and a difference that stops at zero.
LEMMA AtMostNat ==
    ASSUME NEW a \in Nat, NEW b \in Nat
    PROVE  /\ AtMost(a, b) \in Nat /\ AtMost(a, b) <= a /\ AtMost(a, b) <= b
           /\ a <= b => AtMost(a, b) = a
           /\ SatSub(a, b) \in Nat /\ SatSub(a, b) <= a
           /\ SatSub(a, 0) = a
  BY DEF AtMost, SatSub

\* Products of naturals are monotone.
LEMMA ProductMonotone ==
    ASSUME NEW a \in Nat, NEW b \in Nat, NEW c \in Nat, NEW d \in Nat,
           a <= b, c <= d
    PROVE  a * c <= b * d
  <1>1. a * c <= b * c
    OBVIOUS
  <1>2. b * c <= b * d
    OBVIOUS
  <1>3. a * c \in Nat /\ b * c \in Nat /\ b * d \in Nat
    OBVIOUS
  <1>4. QED
    BY <1>1, <1>2, <1>3

-----------------------------------------------------------------------------
(* Totals. *)

\* The units of one entry: as many as its value.
LEMMA EntryUnits ==
    ASSUME NEW x, NEW n \in Nat
    PROVE  /\ IsFiniteSet({x} \X (1..n))
           /\ Cardinality({x} \X (1..n)) = n
  <1> DEFINE ones == 1..n
             single == {x}
  <1>1. IsFiniteSet(single) /\ Cardinality(single) = 1
    BY FS_Singleton
  <1>2. IsFiniteSet(ones) /\ Cardinality(ones) = n
    BY FS_Interval
  <1> HIDE DEF ones, single
  <1>3. /\ IsFiniteSet(single \X ones)
        /\ Cardinality(single \X ones) = Cardinality(single) * Cardinality(ones)
    BY <1>1, <1>2, FS_Product, Zenon
  <1>4. Cardinality(single) * Cardinality(ones) = n
    BY <1>1, <1>2
  <1>5. QED
    BY <1>3, <1>4 DEF ones, single

\* A function over a finite set has finitely many units.
LEMMA UnitsFinite ==
    ASSUME NEW D, IsFiniteSet(D), NEW f \in [D -> Nat]
    PROVE  IsFiniteSet(Units(f)) /\ Total(f) \in Nat
  <1> DEFINE entries == {{x} \X (1..f[x]) : x \in D}
             entry == [x \in D |-> {x} \X (1..f[x])]
  <1>1. entry \in Surjection(D, entries)
    BY DEF Surjection
  <1>2. IsFiniteSet(entries)
    BY <1>1, FS_Surjection
  <1>3. ASSUME NEW x \in D
        PROVE  IsFiniteSet({x} \X (1..f[x]))
    <2>1. f[x] \in Nat
      OBVIOUS
    <2>2. QED
      BY <2>1, EntryUnits, Zenon
  <1>4. \A T \in entries : IsFiniteSet(T)
    BY <1>3
  <1>5. IsFiniteSet(UNION entries)
    BY <1>2, <1>4, FS_UNION
  <1>6. Units(f) = UNION entries
    BY DEF Units
  <1>7. QED
    BY <1>5, <1>6, FS_CardinalityType DEF Total

\* An entry is never more than the total.
LEMMA EntryAtMostTotal ==
    ASSUME NEW D, IsFiniteSet(D), NEW f \in [D -> Nat], NEW x \in D
    PROVE  f[x] <= Total(f)
  <1> DEFINE own == {x} \X (1..f[x])
  <1>1. own \in SUBSET Units(f)
    BY DEF Units
  <1>2. f[x] \in Nat
    OBVIOUS
  <1>3. Cardinality(own) = f[x]
    BY <1>2, EntryUnits, Zenon
  <1>4. IsFiniteSet(Units(f))
    BY UnitsFinite, Zenon
  <1> HIDE DEF own
  <1>5. Cardinality(own) <= Cardinality(Units(f))
    BY <1>1, <1>4, FS_Subset, Zenon
  <1>6. QED
    BY <1>3, <1>5 DEF Total

\* Two finite sets without a common element.
LEMMA DisjointUnion ==
    ASSUME NEW S, NEW T, IsFiniteSet(S), IsFiniteSet(T), S \cap T = {}
    PROVE  Cardinality(S \cup T) = Cardinality(S) + Cardinality(T)
  <1>1. Cardinality(S \cup T)
            = Cardinality(S) + Cardinality(T) - Cardinality(S \cap T)
    BY FS_Union, Zenon
  <1>2. Cardinality(S) \in Nat /\ Cardinality(T) \in Nat
    BY FS_CardinalityType
  <1>3. Cardinality(S \cap T) = 0
    BY FS_EmptySet
  <1>4. QED
    BY <1>1, <1>2, <1>3

\* Changing one entry changes the total by as much.
LEMMA TotalChange ==
    ASSUME NEW D, IsFiniteSet(D), NEW f \in [D -> Nat], NEW g \in [D -> Nat],
           NEW x \in D, \A y \in D \ {x} : g[y] = f[y]
    PROVE  Total(g) = Total(f) - f[x] + g[x]
  <1> DEFINE rest == UNION {{y} \X (1..f[y]) : y \in D \ {x}}
             before == {x} \X (1..f[x])
             after == {x} \X (1..g[x])
  <1>1. f[x] \in Nat /\ g[x] \in Nat
    OBVIOUS
  <1>2. Units(f) = rest \cup before /\ Units(g) = rest \cup after
    BY DEF Units
  <1>3. rest \cap before = {} /\ rest \cap after = {}
    OBVIOUS
  <1>4. /\ IsFiniteSet(before) /\ Cardinality(before) = f[x]
        /\ IsFiniteSet(after) /\ Cardinality(after) = g[x]
    BY <1>1, EntryUnits, Zenon
  <1> HIDE DEF rest, before, after
  <1>5. IsFiniteSet(rest)
    <2>1. IsFiniteSet(Units(f))
      BY UnitsFinite, Zenon
    <2>2. rest \in SUBSET Units(f)
      BY <1>2
    <2>3. QED
      BY <2>1, <2>2, FS_Subset, Zenon
  <1>6. Cardinality(rest) \in Nat
    BY <1>5, FS_CardinalityType, Zenon
  <1>7. Total(f) = Cardinality(rest) + f[x]
    BY <1>2, <1>3, <1>4, <1>5, DisjointUnion, Zenon DEF Total
  <1>8. Total(g) = Cardinality(rest) + g[x]
    BY <1>2, <1>3, <1>4, <1>5, DisjointUnion, Zenon DEF Total
  <1>9. QED
    BY <1>1, <1>6, <1>7, <1>8

\* The total of a function that is zero everywhere.
LEMMA TotalOfZeros ==
    ASSUME NEW D, NEW f \in [D -> {0}]
    PROVE  Total(f) = 0
  <1>1. Units(f) = {}
    BY DEF Units
  <1>2. QED
    BY <1>1, FS_EmptySet DEF Total

-----------------------------------------------------------------------------
(* Totals of functions that are related everywhere. *)

\* A function that is nowhere larger has no larger total.
LEMMA TotalMonotone ==
    ASSUME NEW D, IsFiniteSet(D), NEW f \in [D -> Nat], NEW g \in [D -> Nat],
           \A x \in D : f[x] <= g[x]
    PROVE  Total(f) <= Total(g)
  <1>1. Units(f) \in SUBSET Units(g)
    <2>1. ASSUME NEW x \in D
          PROVE  {x} \X (1..f[x]) \in SUBSET ({x} \X (1..g[x]))
      <3>1. f[x] \in Nat /\ g[x] \in Nat /\ f[x] <= g[x]
        OBVIOUS
      <3>2. 1..f[x] \subseteq 1..g[x]
        BY <3>1
      <3>3. QED
        BY <3>2
    <2>2. QED
      BY <2>1 DEF Units
  <1>2. IsFiniteSet(Units(g))
    BY UnitsFinite, Zenon
  <1>3. QED
    BY <1>1, <1>2, FS_Subset, Zenon DEF Total

\* The total of a sum: the units of the second function are counted on after
\* those of the first.
LEMMA TotalPlus ==
    ASSUME NEW D, IsFiniteSet(D), NEW f \in [D -> Nat], NEW g \in [D -> Nat],
           NEW h \in [D -> Nat], \A x \in D : h[x] = f[x] + g[x]
    PROVE  Total(h) = Total(f) + Total(g)
  <1> DEFINE later == UNION {{x} \X ((f[x] + 1)..(f[x] + g[x])) : x \in D}
             shift == [u \in Units(g) |-> <<u[1], f[u[1]] + u[2]>>]
  <1>1. /\ IsFiniteSet(Units(f)) /\ Total(f) \in Nat
        /\ IsFiniteSet(Units(g)) /\ Total(g) \in Nat
    BY UnitsFinite, Zenon
  <1>2. \A x \in D : f[x] \in Nat /\ g[x] \in Nat
    OBVIOUS
  <1>3. Units(h) = Units(f) \cup later
    <2>1. ASSUME NEW x \in D
          PROVE  1..h[x] = (1..f[x]) \cup ((f[x] + 1)..(f[x] + g[x]))
      BY <1>2
    <2>2. QED
      BY <2>1 DEF Units
  <1>4. Units(f) \cap later = {}
    BY <1>2 DEF Units
  <1>5. shift \in Bijection(Units(g), later)
    <2>1. \A u \in Units(g) : /\ u = <<u[1], u[2]>> /\ u[1] \in D
                              /\ u[2] \in 1..g[u[1]]
      BY DEF Units
    <2>2. \A u \in Units(g) : shift[u] \in later
      <3>1. SUFFICES ASSUME NEW u \in Units(g)
                     PROVE  f[u[1]] + u[2] \in (f[u[1]] + 1)..(f[u[1]] + g[u[1]])
        BY <2>1
      <3>2. QED
        BY <1>2, <2>1
    <2>3. shift \in [Units(g) -> later]
      BY <2>2
    <2>4. ASSUME NEW u \in Units(g), NEW v \in Units(g), shift[u] = shift[v]
          PROVE  u = v
      <3>1. u[1] = v[1] /\ f[u[1]] + u[2] = f[v[1]] + v[2]
        BY <2>4
      <3>2. u[2] = v[2]
        BY <1>2, <2>1, <3>1
      <3>3. QED
        BY <2>1, <3>1, <3>2
    <2>5. ASSUME NEW p \in later
          PROVE  \E u \in Units(g) : shift[u] = p
      <3>1. PICK x \in D : p \in {x} \X ((f[x] + 1)..(f[x] + g[x]))
        OBVIOUS
      <3>2. p = <<x, p[2]>> /\ p[2] \in (f[x] + 1)..(f[x] + g[x])
        BY <3>1
      <3>3. /\ p[2] - f[x] \in 1..g[x]
            /\ f[x] + (p[2] - f[x]) = p[2]
        BY <1>2, <3>2
      <3>4. <<x, p[2] - f[x]>> \in Units(g)
        BY <3>3 DEF Units
      <3>5. shift[<<x, p[2] - f[x]>>] = p
        BY <3>2, <3>3, <3>4
      <3>6. QED
        BY <3>4, <3>5
    <2> HIDE DEF shift, later
    <2>6. QED
      BY <2>3, <2>4, <2>5 DEF Bijection, Injection, Surjection, IsInjective
  <1> HIDE DEF later, shift
  <1>6. IsFiniteSet(later) /\ Cardinality(later) = Total(g)
    BY <1>1, <1>5, FS_Bijection, Zenon DEF Total, ExistsBijection
  <1>7. Total(h) = Total(f) + Cardinality(later)
    BY <1>1, <1>3, <1>4, <1>6, DisjointUnion, Zenon DEF Total
  <1>8. QED
    BY <1>6, <1>7

\* The total of a multiple: unit i becomes the c units (i - 1) * c + 1 .. i * c.
LEMMA TotalTimes ==
    ASSUME NEW D, IsFiniteSet(D), NEW f \in [D -> Nat], NEW h \in [D -> Nat],
           NEW c \in Nat \ {0}, \A x \in D : h[x] = c * f[x]
    PROVE  Total(h) = c * Total(f)
  <1> DEFINE S == Units(f) \X (1..c)
             spread == [p \in S |-> <<p[1][1], (p[1][2] - 1) * c + p[2]>>]
  <1>1. IsFiniteSet(Units(f)) /\ Total(f) \in Nat
    BY UnitsFinite, Zenon
  <1>2. \A x \in D : f[x] \in Nat
    OBVIOUS
  <1>3. IsFiniteSet(1..c) /\ Cardinality(1..c) = c
    BY FS_Interval
  <1>4. IsFiniteSet(S) /\ Cardinality(S) = Total(f) * c
    BY <1>1, <1>3, FS_Product, Zenon DEF Total
  <1>5. spread \in Bijection(S, Units(h))
    <2>1. \A p \in S : /\ p = <<p[1], p[2]>> /\ p[1] = <<p[1][1], p[1][2]>>
                       /\ p[1][1] \in D
                       /\ p[1][2] \in 1..f[p[1][1]] /\ p[2] \in 1..c
      BY DEF Units
    <2>2. ASSUME NEW p \in S
          PROVE  spread[p] \in Units(h)
      <3> DEFINE x == p[1][1]
                 i == p[1][2]
                 j == p[2]
      <3>1. x \in D /\ f[x] \in Nat /\ i \in 1..f[x] /\ j \in 1..c
        BY <1>2, <2>1
      <3>2. spread[p] = <<x, (i - 1) * c + j>> /\ h[x] = c * f[x]
        BY <3>1
      <3> HIDE DEF x, i, j
      <3>3. (i - 1) * c + j \in 1..(c * f[x])
        <4>1. /\ (i - 1) * c \in Nat /\ i * c \in Nat /\ c * f[x] \in Nat
              /\ (i - 1) * c + c = i * c
          BY <3>1
        <4>2. i * c <= c * f[x]
          BY <3>1
        <4>3. QED
          BY <3>1, <4>1, <4>2
      <3>4. QED
        BY <3>1, <3>2, <3>3 DEF Units
    <2>3. spread \in [S -> Units(h)]
      BY <2>2
    <2>4. ASSUME NEW p \in S, NEW q \in S, spread[p] = spread[q]
          PROVE  p = q
      <3> DEFINE i == p[1][2]
                 k == q[1][2]
      <3>1. /\ p[1][1] = q[1][1]
            /\ (i - 1) * c + p[2] = (k - 1) * c + q[2]
        BY <2>4
      <3>2. i \in Nat /\ k \in Nat /\ p[2] \in 1..c /\ q[2] \in 1..c
        BY <1>2, <2>1
      <3> HIDE DEF i, k
      <3>3. ~(i < k)
        <4>1. SUFFICES ASSUME i + 1 <= k PROVE FALSE
          BY <3>2
        <4>2. /\ (i - 1) * c \in Int /\ (k - 1) * c \in Int
              /\ (i - 1) * c + c <= (k - 1) * c
          <5>1. k - 1 >= i
            BY <3>2, <4>1
          <5>2. (i - 1) * c + c = i * c /\ (k - 1) * c >= i * c
            BY <3>2, <5>1
          <5>3. QED
            BY <3>2, <5>2
        <4>3. QED
          BY <3>1, <3>2, <4>2
      <3>4. ~(k < i)
        <4>1. SUFFICES ASSUME k + 1 <= i PROVE FALSE
          BY <3>2
        <4>2. /\ (i - 1) * c \in Int /\ (k - 1) * c \in Int
              /\ (k - 1) * c + c <= (i - 1) * c
          <5>1. i - 1 >= k
            BY <3>2, <4>1
          <5>2. (k - 1) * c + c = k * c /\ (i - 1) * c >= k * c
            BY <3>2, <5>1
          <5>3. QED
            BY <3>2, <5>2
        <4>3. QED
          BY <3>1, <3>2, <4>2
      <3>5. i = k
        BY <3>2, <3>3, <3>4
      <3>6. p[2] = q[2]
        BY <3>1, <3>2, <3>5
      <3>7. QED
        BY <2>1, <3>1, <3>5, <3>6 DEF i, k
    <2>5. ASSUME NEW u \in Units(h)
          PROVE  \E p \in S : spread[p] = u
      <3>1. PICK x \in D : u \in {x} \X (1..h[x])
        BY DEF Units
      <3>2. u = <<x, u[2]>> /\ u[2] \in 1..(c * f[x]) /\ f[x] \in Nat
        BY <1>2, <3>1
      <3> DEFINE n == u[2] - 1
                 d == n \div c
      <3>3. n \in Nat /\ n + 1 <= c * f[x] /\ u[2] = n + 1
        BY <3>2
      <3>4. d \in Nat /\ c * d <= n /\ n < c * d + c
        BY <3>3, QuotientBounds
      <3> HIDE DEF n, d
      <3>5. d < f[x]
        <4>1. SUFFICES ASSUME f[x] <= d PROVE FALSE
          BY <3>2, <3>4
        <4>2. c * f[x] <= c * d
          BY <3>2, <3>4, <4>1
        <4>3. c * f[x] \in Nat /\ c * d \in Nat
          BY <3>2, <3>4
        <4>4. QED
          BY <3>3, <3>4, <4>2, <4>3
      <3> DEFINE j == n - c * d + 1
                 p == <<<<x, d + 1>>, j>>
      <3>6. j \in 1..c
        <4>1. c * d \in Nat
          BY <3>4
        <4>2. QED
          BY <3>3, <3>4, <4>1
      <3>7. <<x, d + 1>> \in Units(f)
        <4>1. d + 1 \in 1..f[x]
          BY <3>2, <3>4, <3>5
        <4>2. QED
          BY <4>1 DEF Units
      <3>8. p \in S
        BY <3>6, <3>7
      <3>9. spread[p] = <<x, ((d + 1) - 1) * c + j>>
        BY <3>8
      <3>10. ((d + 1) - 1) * c + j = u[2]
        <4>1. ((d + 1) - 1) * c = c * d /\ c * d \in Nat
          BY <3>4
        <4>2. QED
          BY <3>3, <4>1
      <3>11. QED
        BY <3>2, <3>8, <3>9, <3>10
    <2> HIDE DEF spread, S
    <2>6. QED
      BY <2>3, <2>4, <2>5 DEF Bijection, Injection, Surjection, IsInjective
  <1> HIDE DEF S, spread
  <1>6. Cardinality(Units(h)) = Cardinality(S)
    BY <1>4, <1>5, FS_Bijection, Zenon DEF ExistsBijection
  <1>7. Total(f) * c = c * Total(f)
    BY <1>1
  <1>8. QED
    BY <1>4, <1>6, <1>7 DEF Total
=============================================================================
