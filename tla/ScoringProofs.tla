--------------------------- MODULE ScoringProofs ---------------------------
(***************************************************************************)
(* Proofs about the scorer and the price history, for any prices, claims,  *)
(* ratings and window.                                                     *)
(***************************************************************************)
EXTENDS Scoring, TLAPS, WellFoundedInduction, FiniteSetTheorems

(***************************************************************************)
(* Integer division, and the rounding built on it.                         *)
(***************************************************************************)
LEMMA Division ==
  ASSUME NEW n \in Int, NEW d \in Nat \ {0}
  PROVE  /\ n \div d \in Int
         /\ d * (n \div d) <= n
         /\ n < d * (n \div d) + d
  BY SMT

LEMMA DivisionMonotone ==
  ASSUME NEW m \in Int, NEW n \in Int, NEW d \in Nat \ {0}, m <= n
  PROVE  m \div d <= n \div d
<1> DEFINE a == m \div d
           b == n \div d
<1>1. /\ a \in Int /\ b \in Int
      /\ d * a <= m
      /\ n < d * b + d
  BY Division
<1> HIDE DEF a, b
<1>2. d * a < d * (b + 1)
  BY <1>1
<1>3. a < b + 1
  BY <1>1, <1>2
<1>4. a <= b
  BY <1>1, <1>3
<1> QED BY <1>4 DEF a, b

\* A quotient between 0 and k is rounded to a number between 0 and k.
LEMMA RoundedRange ==
  ASSUME NEW n \in Nat, NEW d \in Nat \ {0}, NEW k \in Nat, NEW up \in {0, 1},
         n <= k * d
  PROVE  Rounded(n, d, up) \in Nat /\ Rounded(n, d, up) <= k
<1> DEFINE m == 2 * n + d - 1 + up
           q == m \div (2 * d)
<1>2. m \in Nat /\ m <= 2 * (k * d) + d
  OBVIOUS
<1>3. /\ q \in Int
      /\ 2 * d * q <= m
      /\ m < 2 * d * q + 2 * d
  <2> HIDE DEF m
  <2>1. m \in Int /\ 2 * d \in Nat \ {0}
    BY <1>2
  <2> QED BY <2>1, Division
<1> HIDE DEF m, q
<1>4. 0 < 2 * d * (q + 1)
  BY <1>2, <1>3
<1>5. 0 <= q
  BY <1>3, <1>4
<1>6. 2 * d * q < 2 * d * (k + 1)
  BY <1>2, <1>3
<1>7. q <= k
  BY <1>3, <1>6
<1> QED BY <1>3, <1>5, <1>7 DEF Rounded, q, m

LEMMA RoundedMonotone ==
  ASSUME NEW m \in Int, NEW n \in Int, NEW d \in Nat \ {0}, NEW up \in {0, 1},
         m <= n
  PROVE  Rounded(m, d, up) <= Rounded(n, d, up)
<1>1. /\ 2 * m + d - 1 + up \in Int
      /\ 2 * n + d - 1 + up \in Int
      /\ 2 * m + d - 1 + up <= 2 * n + d - 1 + up
      /\ 2 * d \in Nat \ {0}
  OBVIOUS
<1>2. (2 * m + d - 1 + up) \div (2 * d) <= (2 * n + d - 1 + up) \div (2 * d)
  BY <1>1, DivisionMonotone
<1> QED BY <1>2 DEF Rounded

-----------------------------------------------------------------------------
(***************************************************************************)
(* Least and greatest elements.                                            *)
(***************************************************************************)
LEMMA LeastExists ==
  ASSUME NEW S, S \subseteq Nat, S # {}
  PROVE  \E m \in S : \A n \in S : m <= n
<1> DEFINE Under(x) == {n \in S : n < x}
           T == {Under(x) : x \in S}
           R == StrictSubsetOrdering(Nat)
<1> HIDE DEF T, R
<1>1. ASSUME NEW x \in S
      PROVE  Under(x) \in FiniteSubsetsOf(Nat)
  <2>1. x \in Nat
    OBVIOUS
  <2>2. \A n \in Under(x) : n \in 0 .. x
    <3>1. SUFFICES ASSUME NEW n \in Nat, n < x PROVE n \in 0 .. x
      OBVIOUS
    <3> QED BY <2>1, <3>1
  <2>3. IsFiniteSet(0 .. x)
    BY <2>1, FS_Interval
  <2>4. IsFiniteSet(Under(x))
    BY <2>2, <2>3, FS_Subset
  <2> QED BY <2>4 DEF FiniteSubsetsOf
<1>2. \E t \in T : \A u \in T : ~ (<<u, t>> \in R)
  <2>1. T \subseteq FiniteSubsetsOf(Nat)
    BY <1>1 DEF T
  <2>2. T # {}
    BY DEF T
  <2>3. IsWellFoundedOn(R, FiniteSubsetsOf(Nat))
    BY FS_StrictSubsetOrderingWellFounded DEF R
  <2> QED BY <2>1, <2>2, <2>3, WFMin
<1>3. PICK m \in S : \A u \in T : ~ (<<u, Under(m)>> \in R)
  BY <1>2 DEF T
<1>4. ASSUME NEW n \in S, n < m
      PROVE  FALSE
  <2>1. m \in Nat /\ n \in Nat
    OBVIOUS
  <2>2. \A k \in Nat : k < n => k < m
    BY <1>4, <2>1
  <2>3. ~ (n < n)
    BY <2>1
  <2>4. Under(n) \subseteq Under(m) /\ Under(n) # Under(m)
    BY <1>4, <2>2, <2>3
  <2>5. <<Under(n), Under(m)>> \in R
    BY <2>4 DEF StrictSubsetOrdering, R
  <2> QED BY <1>3, <2>5 DEF T
<1>5. \A n \in S : ~ (n < m)
  BY <1>4
<1>6. \A n \in S : m <= n
  <2>1. \A n \in Nat : ~ (n < m) => m <= n
    <3>1. m \in Nat
      OBVIOUS
    <3> QED BY <3>1
  <2> QED BY <1>5, <2>1
<1> QED BY <1>6

LEMMA GreatestExists ==
  ASSUME NEW S, NEW B \in Nat, S \subseteq 0 .. B, S # {}
  PROVE  \E m \in S : \A n \in S : n <= m
<1> DEFINE T == {n \in 0 .. B : B - n \in S}
<1>1. \A n \in S : n \in 0 .. B /\ B - n \in 0 .. B /\ B - (B - n) = n
  OBVIOUS
<1>2. \A n \in S : B - n \in T
  BY <1>1
<1>3. \E t \in T : \A u \in T : t <= u
  <2>1. T \subseteq Nat
    OBVIOUS
  <2>2. T # {}
    BY <1>2
  <2> HIDE DEF T
  <2> QED BY <2>1, <2>2, LeastExists
<1>4. PICK t \in T : \A u \in T : t <= u
  BY <1>3
<1>5. t \in 0 .. B /\ B - t \in S
  OBVIOUS
<1>6. ASSUME NEW n \in S
      PROVE  n <= B - t
  <2>1. t <= B - n
    BY <1>2, <1>4
  <2>2. n \in Nat /\ t \in Nat
    BY <1>1, <1>5
  <2> HIDE DEF T
  <2> QED BY <2>1, <2>2
<1> QED BY <1>5, <1>6

LEMMA Prices == \A p \in Price : p \in Nat \ {0} /\ p <= MaxPrice /\ MaxPrice \in Nat
<1>1. \A p \in 1 .. MaxPrice : MaxPrice \in Nat => p \in Nat \ {0} /\ p <= MaxPrice
  OBVIOUS
<1> QED BY <1>1, PriceAssumption

LEMMA Claims == \A m \in Mrp : m \in Nat
<1>1. \A m \in 0 .. MaxPrice : m \in Nat
  OBVIOUS
<1> QED BY <1>1, PriceAssumption

\* What stats() returns are prices of the window, and its extremes.
LEMMA Extremes ==
  ASSUME NEW rows, rows \subseteq Row, rows # {}
  PROVE  /\ \E h \in rows : h.price = Lowest(rows)
         /\ \E h \in rows : h.price = Highest(rows)
         /\ \A h \in rows : Lowest(rows) <= h.price /\ h.price <= Highest(rows)
<1> DEFINE S == {h.price : h \in rows}
<1>0. \A h \in rows : h.price \in Price
  BY DEF Row
<1>1. S # {} /\ S \subseteq Price
  BY <1>0
<1>2. S \subseteq Nat /\ S \subseteq 0 .. MaxPrice /\ MaxPrice \in Nat
  <2> HIDE DEF S
  <2>1. \A p \in S : p \in Nat /\ p <= MaxPrice
    BY <1>1, Prices
  <2> QED BY <2>1, PriceAssumption
<1> HIDE DEF S
<1>3. /\ \E m \in S : \A n \in S : m <= n
      /\ \E m \in S : \A n \in S : n <= m
  BY <1>1, <1>2, LeastExists, GreatestExists
<1>4. /\ \E p \in {h.price : h \in rows} : \A h \in rows : p <= h.price
      /\ \E p \in {h.price : h \in rows} : \A h \in rows : p >= h.price
  <2>1. PICK m \in S : \A n \in S : m <= n
    BY <1>3
  <2>2. PICK g \in S : \A n \in S : n <= g
    BY <1>3
  <2>3. \A h \in rows : h.price \in S /\ h.price \in Int
    BY <1>0, Prices DEF S
  <2>4. m \in {h.price : h \in rows} /\ \A h \in rows : m <= h.price
    BY <2>1, <2>3 DEF S
  <2>5. g \in Int
    BY <1>2
  <2>6. g \in {h.price : h \in rows} /\ \A h \in rows : g >= h.price
    BY <2>2, <2>3, <2>5 DEF S
  <2> QED BY <2>4, <2>6
<1>5. /\ Lowest(rows) \in {h.price : h \in rows}
      /\ \A h \in rows : Lowest(rows) <= h.price
  BY <1>4 DEF Lowest
<1>6. /\ Highest(rows) \in {h.price : h \in rows}
      /\ \A h \in rows : Highest(rows) >= h.price
  BY <1>4 DEF Highest
<1>7. Highest(rows) \in Int /\ \A h \in rows : h.price \in Int
  BY <1>0, <1>6, Prices
<1> QED BY <1>5, <1>6, <1>7

\* The window a scan is scored against holds the scan's own price and rows of
\* the history that are not too old.
LEMMA WindowOf ==
  ASSUME TypeOK, NEW o \in Product
  PROVE  /\ Observed(o) \subseteq Row
         /\ [price |-> o.price, day |-> day] \in Observed(o)
         /\ \A h \in Observed(o) :
              /\ h \in history \cup {[price |-> o.price, day |-> day]}
              /\ day - Window <= h.day /\ h.day <= day
         /\ \A h \in history : h.day >= day - Window => h \in Observed(o)
<1>1. o.price \in Price /\ day \in 0 .. MaxDay /\ Window \in Nat /\ MaxDay \in Nat
  BY BoundAssumption DEF TypeOK, Product
<1>2. [price |-> o.price, day |-> day] \in Row
  BY <1>1 DEF Row
<1>3. history \subseteq Row /\ \A h \in history : h.day <= day
  BY DEF TypeOK
<1>4. \A h \in Row : h.day \in Int
  BY <1>1 DEF Row
<1> DEFINE new == [price |-> o.price, day |-> day]
<1>5. Observed(o) = {h \in history \cup {new} : h.day >= day - Window}
  BY DEF Observed, InWindow
<1>6. new.day = day /\ day \in Int /\ day >= day - Window
  BY <1>1
<1>7. new \in Observed(o)
  BY <1>5, <1>6
<1>8. \A h \in Observed(o) :
        h \in Row /\ h \in history \cup {new} /\ h.day >= day - Window
  BY <1>2, <1>3, <1>5
<1>9. \A h \in Observed(o) : day - Window <= h.day /\ h.day <= day
  BY <1>1, <1>3, <1>4, <1>6, <1>8
<1> QED BY <1>5, <1>7, <1>8, <1>9

-----------------------------------------------------------------------------
(***************************************************************************)
(* Each component stays in its weighted range.                             *)
(***************************************************************************)
LEMMA DiscountRange ==
  ASSUME NEW p \in Nat, NEW r \in Nat, p < r, NEW up \in {0, 1}
  PROVE  DiscountScore(p, r, up) \in Nat /\ DiscountScore(p, r, up) <= 3750
<1>1. CASE 5 * p <= 2 * r
  BY <1>1 DEF DiscountScore
<1>2. CASE ~ (5 * p <= 2 * r)
  <2>1. 6250 * (r - p) \in Nat /\ 6250 * (r - p) <= 3750 * r
    <3>1. 3 * r >= 5 * (r - p)
      BY <1>2
    <3> QED BY <3>1
  <2>2. Rounded(6250 * (r - p), r, up) \in Nat /\ Rounded(6250 * (r - p), r, up) <= 3750
    <3> DEFINE n == 6250 * (r - p)
               k == 3750
    <3>1. n \in Nat /\ k \in Nat /\ n <= k * r /\ r \in Nat \ {0}
      BY <2>1
    <3> HIDE DEF n, k
    <3>2. Rounded(n, r, up) \in Nat /\ Rounded(n, r, up) <= k
      BY <3>1, RoundedRange
    <3> QED BY <3>2 DEF n, k
  <2> QED BY <1>2, <2>2 DEF DiscountScore
<1> QED BY <1>1, <1>2

LEMMA VelocityRange ==
  ASSUME NEW p \in Nat, NEW l \in Nat \ {0}, NEW up \in {0, 1}
  PROVE  VelocityScore(p, l, up) \in Nat /\ VelocityScore(p, l, up) <= 2500
<1>1. CASE p <= l \/ 6 * l <= 5 * p
  BY <1>1 DEF VelocityScore
<1>2. CASE ~ (p <= l) /\ ~ (6 * l <= 5 * p)
  <2>1. 2500 * (6 * l - 5 * p) \in Nat /\ 2500 * (6 * l - 5 * p) <= 2500 * l
    BY <1>2
  <2>2. /\ Rounded(2500 * (6 * l - 5 * p), l, up) \in Nat
        /\ Rounded(2500 * (6 * l - 5 * p), l, up) <= 2500
    <3> DEFINE n == 2500 * (6 * l - 5 * p)
               k == 2500
    <3>1. n \in Nat /\ k \in Nat /\ n <= k * l
      BY <2>1
    <3> HIDE DEF n, k
    <3>2. Rounded(n, l, up) \in Nat /\ Rounded(n, l, up) <= k
      BY <3>1, RoundedRange
    <3> QED BY <3>2 DEF n, k
  <2> QED BY <1>2, <2>2 DEF VelocityScore
<1> QED BY <1>1, <1>2

LEMMA RatingRange ==
  ASSUME NEW a \in Appeal, NEW up \in {0, 1}
  PROVE  RatingScore(a, up) \in Nat /\ RatingScore(a, up) <= 1875
<1> DEFINE reviews == IF a.reviews < 500 THEN a.reviews ELSE 500
<1>1. a.rating \in 0 .. 50 /\ a.reviews \in Nat
  BY AppealAssumption
<1>2. reviews \in 0 .. 500
  BY <1>1
<1> HIDE DEF reviews
<1>3. CASE a.rating <= 30
  BY <1>3 DEF RatingScore
<1>4. CASE ~ (a.rating <= 30)
  <2>1. a.rating - 30 \in 0 .. 20
    BY <1>1, <1>4
  <2>2. PICK x \in 0 .. 20 : x = a.rating - 30
    BY <2>1
  <2>3. x * reviews \in Nat /\ x * reviews <= 20 * 500
    <3>1. x * reviews \in Nat /\ x * reviews <= 20 * reviews
      BY <1>2
    <3> QED BY <1>2, <3>1
  <2>4. 1875 * x * reviews = 1875 * (x * reviews)
    BY <1>2
  <2>5. /\ Rounded(1875 * x * reviews, 20 * 500, up) \in Nat
        /\ Rounded(1875 * x * reviews, 20 * 500, up) <= 1875
    <3> DEFINE n == 1875 * x * reviews
               d == 20 * 500
               k == 1875
    <3>1. n \in Nat /\ d \in Nat \ {0} /\ k \in Nat /\ n <= k * d
      <4> DEFINE y == x * reviews
      <4>1. n = 1875 * y
        BY <2>4
      <4>2. y \in Nat /\ y <= 10000
        BY <2>3
      <4> HIDE DEF y, n
      <4> QED BY <4>1, <4>2
    <3> HIDE DEF n, d, k
    <3>2. Rounded(n, d, up) \in Nat /\ Rounded(n, d, up) <= k
      BY <3>1, RoundedRange
    <3> QED BY <3>2 DEF n, d, k
  <2> QED BY <1>4, <2>2, <2>5 DEF RatingScore, reviews
<1> QED BY <1>3, <1>4

LEMMA BrandRange ==
  ASSUME NEW t \in Tier
  PROVE  BrandScore(t) \in Nat /\ BrandScore(t) <= 1875
BY DEF Tier, BrandScore

-----------------------------------------------------------------------------
(***************************************************************************)
(* What one scan computes.                                                 *)
(***************************************************************************)
LEMMA Parts ==
  ASSUME NEW o \in Product
  PROVE  /\ o.price \in Price /\ o.price \in Nat \ {0}
         /\ o.mrp \in Nat
         /\ o.appeal \in Appeal /\ o.appeal.tier \in Tier
<1>1. o.price \in Price /\ o.mrp \in Mrp /\ o.appeal \in Appeal
  BY DEF Product
<1>2. o.appeal.tier \in Tier
  BY <1>1, AppealAssumption
<1> QED BY <1>1, <1>2, Prices, Claims

\* The extremes of the window of one scan.
LEMMA WindowExtremes ==
  ASSUME TypeOK, NEW o \in Product
  PROVE  /\ Lowest(Observed(o)) \in Nat \ {0}
         /\ Highest(Observed(o)) \in Nat
         /\ \E h \in Observed(o) : h.price = Lowest(Observed(o))
         /\ \E h \in Observed(o) : h.price = Highest(Observed(o))
         /\ \A h \in Observed(o) :
              /\ h.price \in Nat
              /\ Lowest(Observed(o)) <= h.price
              /\ h.price <= Highest(Observed(o))
<1>1. Observed(o) \subseteq Row /\ Observed(o) # {}
  BY WindowOf
<1>2. \A h \in Row : h.price \in Price
  BY DEF Row
<1>3. \A h \in Observed(o) : h.price \in Nat \ {0}
  BY <1>1, <1>2, Prices
<1> QED BY <1>1, <1>3, Extremes

LEMMA Measured ==
  ASSUME TypeOK, NEW o \in Product
  PROVE  /\ Reference(o, Observed(o)) \in Nat
         /\ Reference(o, Observed(o)) > o.price =>
              \/ Reference(o, Observed(o)) = o.mrp
              \/ \E h \in Observed(o) : h.price = Reference(o, Observed(o))
BY Parts, WindowExtremes DEF Reference, NoPrice

LEMMA Scored ==
  ASSUME TypeOK, NEW o \in Product, NEW fl \in Floats,
         Reference(o, Observed(o)) > o.price
  PROVE  LET b == Breakdown(o, Observed(o), fl)
         IN  /\ b \in [discount : Nat, velocity : Nat, brand : Nat, rating : Nat]
             /\ b.discount <= 3750
             /\ b.velocity <= 2500
             /\ b.brand <= 1875
             /\ b.rating <= 1875
<1>1. fl.up \in {0, 1}
  BY DEF Floats
<1>2. /\ DiscountScore(o.price, Reference(o, Observed(o)), fl.up) \in Nat
      /\ DiscountScore(o.price, Reference(o, Observed(o)), fl.up) <= 3750
  <2> DEFINE r == Reference(o, Observed(o))
             p == o.price
             u == fl.up
  <2>1. p \in Nat /\ r \in Nat /\ p < r /\ u \in {0, 1}
    BY <1>1, Parts, Measured
  <2> HIDE DEF r, p, u
  <2>2. DiscountScore(p, r, u) \in Nat /\ DiscountScore(p, r, u) <= 3750
    BY <2>1, DiscountRange
  <2> QED BY <2>2 DEF r, p, u
<1>3. /\ VelocityScore(o.price, Lowest(Observed(o)), fl.up) \in Nat
      /\ VelocityScore(o.price, Lowest(Observed(o)), fl.up) <= 2500
  <2> DEFINE l == Lowest(Observed(o))
             p == o.price
             u == fl.up
  <2>1. p \in Nat /\ l \in Nat \ {0} /\ u \in {0, 1}
    BY <1>1, Parts, WindowExtremes
  <2> HIDE DEF l, p, u
  <2>2. VelocityScore(p, l, u) \in Nat /\ VelocityScore(p, l, u) <= 2500
    BY <2>1, VelocityRange
  <2> QED BY <2>2 DEF l, p, u
<1>4. BrandScore(o.appeal.tier) \in Nat /\ BrandScore(o.appeal.tier) <= 1875
  BY Parts, BrandRange
<1>5. RatingScore(o.appeal, fl.up) \in Nat /\ RatingScore(o.appeal, fl.up) <= 1875
  BY <1>1, Parts, RatingRange
<1> DEFINE b == Breakdown(o, Observed(o), fl)
<1>6. /\ b \in [discount : Nat, velocity : Nat, brand : Nat, rating : Nat]
      /\ b.discount <= 3750
      /\ b.velocity <= 2500
      /\ b.brand <= 1875
      /\ b.rating <= 1875
  BY <1>2, <1>3, <1>4, <1>5 DEF Breakdown
<1> QED BY <1>6

-----------------------------------------------------------------------------
(***************************************************************************)
(* The invariant, and the invariants that follow from it.                  *)
(***************************************************************************)
Inv == TypeOK /\ ReferenceIsReal /\ BreakdownInRange

LEMMA Initially == Init => Inv
<1> SUFFICES ASSUME Init PROVE Inv
  OBVIOUS
<1>1. TypeOK
  BY BoundAssumption DEF Init, TypeOK
<1> QED BY <1>1 DEF Init, Inv, ReferenceIsReal, BreakdownInRange

\* The deal a scan publishes.
LEMMA NewDeal ==
  ASSUME TypeOK, NEW o \in Product, NEW fl \in Floats,
         IsDeal(o, Observed(o), fl), NEW d,
         d = [product |-> o, day |-> day,
              reference |-> Reference(o, Observed(o)),
              breakdown |-> Breakdown(o, Observed(o), fl),
              firstSeen |-> history = {}]
  PROVE  /\ d \in Deal
         /\ d.reference > d.product.price
         /\ \/ d.reference = d.product.mrp
            \/ \E h \in history \cup {[price |-> o.price, day |-> day]} :
                 h.price = d.reference /\ d.day - Window <= h.day /\ h.day <= d.day
         /\ d.breakdown.discount <= 3750
         /\ d.breakdown.velocity <= 2500
         /\ d.breakdown.brand <= 1875
         /\ d.breakdown.rating <= 1875
         /\ Total(d.breakdown) >= 4000
<1> DEFINE r == Reference(o, Observed(o))
           b == Breakdown(o, Observed(o), fl)
<1>1. /\ r > o.price
      /\ Total(b) > 4000 \/ Total(b) = 4000
  BY DEF IsDeal
<1>2. /\ b \in [discount : Nat, velocity : Nat, brand : Nat, rating : Nat]
      /\ b.discount <= 3750
      /\ b.velocity <= 2500
      /\ b.brand <= 1875
      /\ b.rating <= 1875
  <2>1. Reference(o, Observed(o)) > o.price
    BY <1>1
  <2> QED BY <2>1, Scored
<1>3. r \in Nat /\ (r = o.mrp \/ \E h \in Observed(o) : h.price = r)
  BY <1>1, Measured
<1>4. \A h \in Observed(o) :
        /\ h \in history \cup {[price |-> o.price, day |-> day]}
        /\ day - Window <= h.day /\ h.day <= day
  BY WindowOf
<1>5. day \in 0 .. MaxDay
  BY DEF TypeOK
<1> HIDE DEF r, b
<1>6. d = [product |-> o, day |-> day, reference |-> r, breakdown |-> b,
           firstSeen |-> history = {}]
  BY DEF r, b
<1>7. d \in Deal
  BY <1>2, <1>3, <1>5, <1>6 DEF Deal
<1>8. Total(b) >= 4000
  BY <1>1, <1>2 DEF Total
<1> QED BY <1>1, <1>2, <1>3, <1>4, <1>6, <1>7, <1>8

LEMMA ScanPreserves ==
  ASSUME Inv, NEW o \in Product, NEW fl \in Floats, Scan(o, fl)
  PROVE  Inv'
<1> DEFINE new == [price |-> o.price, day |-> day]
<1>1. /\ day \in 0 .. MaxDay /\ scans \in 0 .. MaxScans /\ MaxScans \in Nat
      /\ MaxDay \in Nat
      /\ history \subseteq Row /\ \A h \in history : h.day <= day
      /\ deals \subseteq Deal /\ open \in deals \cup {NoDeal}
  BY BoundAssumption DEF Inv, TypeOK
<1>2. /\ scans' = scans + 1 /\ scans < MaxScans /\ day' = day
      /\ history' = history \cup {new}
  BY DEF Scan
<1>3. /\ scans' \in 0 .. MaxScans
      /\ history' \subseteq Row
      /\ \A h \in history' : h.day <= day'
  <2>1. new \in Row /\ new.day <= day
    BY <1>1, Parts DEF Row
  <2> HIDE DEF new
  <2> QED BY <1>1, <1>2, <2>1
<1>4. CASE UNCHANGED <<deals, open>>
  <2>1. TypeOK'
    BY <1>1, <1>2, <1>3, <1>4 DEF TypeOK
  <2>2. ReferenceIsReal'
    BY <1>2, <1>4 DEF Inv, ReferenceIsReal
  <2>3. BreakdownInRange'
    BY <1>4 DEF Inv, BreakdownInRange, Total
  <2> QED BY <2>1, <2>2, <2>3 DEF Inv
<1>5. CASE IsDeal(o, Observed(o), fl) /\ ~ UNCHANGED <<deals, open>>
  <2> DEFINE d == [product |-> o, day |-> day,
                   reference |-> Reference(o, Observed(o)),
                   breakdown |-> Breakdown(o, Observed(o), fl),
                   firstSeen |-> history = {}]
  <2>1. deals' = deals \cup {d} /\ open' = d
    BY <1>5 DEF Scan
  <2>2. TypeOK
    BY DEF Inv
  <2>3. /\ d \in Deal
        /\ d.reference > d.product.price
        /\ \/ d.reference = d.product.mrp
           \/ \E h \in history \cup {new} :
                h.price = d.reference /\ d.day - Window <= h.day /\ h.day <= d.day
        /\ d.breakdown.discount <= 3750
        /\ d.breakdown.velocity <= 2500
        /\ d.breakdown.brand <= 1875
        /\ d.breakdown.rating <= 1875
        /\ Total(d.breakdown) >= 4000
    BY <1>5, <2>2, NewDeal
  <2> HIDE DEF d, new
  <2>4. TypeOK'
    BY <1>1, <1>2, <1>3, <2>1, <2>3 DEF TypeOK
  <2>5. ReferenceIsReal'
    BY <1>2, <2>1, <2>3 DEF Inv, ReferenceIsReal
  <2>6. BreakdownInRange'
    BY <2>1, <2>3 DEF Inv, BreakdownInRange, Total
  <2> QED BY <2>4, <2>5, <2>6 DEF Inv
<1>6. UNCHANGED <<deals, open>> \/ IsDeal(o, Observed(o), fl)
  BY DEF Scan
<1> QED BY <1>4, <1>5, <1>6

LEMMA Preserved == Inv /\ [Next]_vars => Inv'
<1> SUFFICES ASSUME Inv, [Next]_vars PROVE Inv'
  OBVIOUS
<1>1. ASSUME NEW o \in Product, NEW fl \in Floats, Scan(o, fl)
      PROVE  Inv'
  BY <1>1, ScanPreserves
<1>2. CASE Close
  <2>1. TypeOK'
    BY <1>2 DEF Close, Inv, TypeOK
  <2> QED BY <1>2, <2>1 DEF Close, Inv, ReferenceIsReal, BreakdownInRange, Total
<1>3. CASE NextDay
  <2>1. /\ day \in 0 .. MaxDay /\ MaxDay \in Nat /\ history \subseteq Row
        /\ \A h \in history : h.day <= day
    BY BoundAssumption DEF Inv, TypeOK
  <2>2. day' \in 0 .. MaxDay /\ \A h \in history : h.day <= day'
    <3>1. \A h \in history : h.day \in Int
      BY <2>1 DEF Row
    <3> QED BY <1>3, <2>1, <3>1 DEF NextDay
  <2>3. TypeOK'
    BY <1>3, <2>2 DEF NextDay, Inv, TypeOK
  <2> QED BY <1>3, <2>3 DEF NextDay, Inv, ReferenceIsReal, BreakdownInRange, Total
<1>4. CASE UNCHANGED vars
  BY <1>4 DEF vars, Inv, TypeOK, ReferenceIsReal, BreakdownInRange
<1> QED BY <1>1, <1>2, <1>3, <1>4 DEF Next

LEMMA Invariant == Spec => []Inv
BY Initially, Preserved, PTL DEF Spec

\* The price history and the deals keep their types, whatever is scanned.
THEOREM Typed == Spec => []TypeOK
<1>1. Inv => TypeOK
  BY DEF Inv
<1> QED BY <1>1, Invariant, PTL

\* No deal of _reference_price is measured against an invented price.
THEOREM ReferencesAreReal == Spec => []ReferenceIsReal
<1>1. Inv => ReferenceIsReal
  BY DEF Inv
<1> QED BY <1>1, Invariant, PTL

\* Every component of _breakdown stays in its range after rounding.
THEOREM BreakdownsAreInRange == Spec => []BreakdownInRange
<1>1. Inv => BreakdownInRange
  BY DEF Inv
<1> QED BY <1>1, Invariant, PTL

-----------------------------------------------------------------------------
(***************************************************************************)
(* A lower price never scores lower.                                       *)
(***************************************************************************)
LEMMA DiscountMonotone ==
  ASSUME NEW p \in Nat, NEW q \in Nat, NEW r \in Nat, p < q, q < r,
         NEW up \in {0, 1}
  PROVE  DiscountScore(q, r, up) <= DiscountScore(p, r, up)
<1>1. CASE 5 * p <= 2 * r
  <2>1. DiscountScore(p, r, up) = 3750
    BY <1>1 DEF DiscountScore
  <2>2. DiscountScore(q, r, up) \in Nat /\ DiscountScore(q, r, up) <= 3750
    BY DiscountRange
  <2> QED BY <2>1, <2>2
<1>2. CASE ~ (5 * p <= 2 * r)
  <2>1. ~ (5 * q <= 2 * r)
    BY <1>2
  <2>2. Rounded(6250 * (r - q), r, up) <= Rounded(6250 * (r - p), r, up)
    <3> DEFINE m == 6250 * (r - q)
               n == 6250 * (r - p)
    <3>1. m \in Int /\ n \in Int /\ m <= n /\ r \in Nat \ {0}
      OBVIOUS
    <3> HIDE DEF m, n
    <3>2. Rounded(m, r, up) <= Rounded(n, r, up)
      BY <3>1, RoundedMonotone
    <3> QED BY <3>2 DEF m, n
  <2> QED BY <1>2, <2>1, <2>2 DEF DiscountScore
<1> QED BY <1>1, <1>2

\* The price is compared with the lowest of a window it is itself part of.
LEMMA VelocityMonotone ==
  ASSUME NEW p \in Nat, NEW q \in Nat, p < q, NEW up \in {0, 1},
         NEW k \in Nat \ {0}, NEW l \in Nat \ {0}, k < p => l = k
  PROVE  VelocityScore(q, l, up) <= VelocityScore(p, k, up)
<1>1. CASE p <= k
  <2>1. VelocityScore(p, k, up) = 2500
    BY <1>1 DEF VelocityScore
  <2>2. VelocityScore(q, l, up) \in Nat /\ VelocityScore(q, l, up) <= 2500
    BY VelocityRange
  <2> QED BY <2>1, <2>2
<1>2. CASE ~ (p <= k) /\ 6 * l <= 5 * q
  <2>1. l = k /\ ~ (q <= l)
    BY <1>2
  <2>2. VelocityScore(q, l, up) = 0
    BY <1>2, <2>1 DEF VelocityScore
  <2>3. VelocityScore(p, k, up) \in Nat
    BY VelocityRange
  <2> QED BY <2>2, <2>3
<1>3. CASE ~ (p <= k) /\ ~ (6 * l <= 5 * q)
  <2>1. l = k /\ ~ (q <= k) /\ ~ (6 * k <= 5 * p)
    BY <1>3
  <2>2. Rounded(2500 * (6 * k - 5 * q), k, up) <= Rounded(2500 * (6 * k - 5 * p), k, up)
    <3> DEFINE m == 2500 * (6 * k - 5 * q)
               n == 2500 * (6 * k - 5 * p)
    <3>1. m \in Int /\ n \in Int /\ m <= n
      OBVIOUS
    <3> HIDE DEF m, n
    <3>2. Rounded(m, k, up) <= Rounded(n, k, up)
      BY <3>1, RoundedMonotone
    <3> QED BY <3>2 DEF m, n
  <2> QED BY <1>3, <2>1, <2>2 DEF VelocityScore
<1> QED BY <1>1, <1>2, <1>3

\* What two observations of one listing see of the history.
LEMMA WindowsAgree ==
  ASSUME TypeOK, NEW o \in Product, NEW c \in Product, o.price < c.price
  PROVE  /\ Highest(Observed(c)) > c.price =>
              Highest(Observed(o)) = Highest(Observed(c))
         /\ Lowest(Observed(o)) < o.price =>
              Lowest(Observed(c)) = Lowest(Observed(o))
<1> DEFINE W == InWindow(history)
           new(x) == [price |-> x.price, day |-> day]
<1>1. /\ Observed(o) = W \cup {new(o)}
      /\ Observed(c) = W \cup {new(c)}
  <2>1. /\ new(o).day = day /\ new(c).day = day
        /\ day >= day - Window
    BY BoundAssumption DEF TypeOK
  <2> QED BY <2>1 DEF Observed, InWindow
<1>2. o.price \in Nat /\ c.price \in Nat
  BY Parts
<1> DEFINE ho == Highest(Observed(o))
           hc == Highest(Observed(c))
           lo == Lowest(Observed(o))
           lc == Lowest(Observed(c))
<1>3. /\ ho \in Nat /\ lo \in Nat
      /\ \E h \in Observed(o) : h.price = lo
      /\ \E h \in Observed(o) : h.price = ho
      /\ \A h \in Observed(o) : h.price \in Nat /\ lo <= h.price /\ h.price <= ho
  BY WindowExtremes
<1>4. /\ hc \in Nat /\ lc \in Nat
      /\ \E h \in Observed(c) : h.price = lc
      /\ \E h \in Observed(c) : h.price = hc
      /\ \A h \in Observed(c) : h.price \in Nat /\ lc <= h.price /\ h.price <= hc
  BY WindowExtremes
<1>5. new(o).price = o.price /\ new(c).price = c.price
  OBVIOUS
<1> HIDE DEF W, new, ho, hc, lo, lc
<1>6. ASSUME hc > c.price
      PROVE  ho = hc
  <2>1. PICK h \in W : h.price = hc
    BY <1>1, <1>2, <1>4, <1>5, <1>6
  <2>2. hc <= ho
    BY <1>1, <1>3, <2>1
  <2>3. PICK g \in Observed(o) : g.price = ho
    BY <1>3
  <2>4. CASE g = new(o)
    BY <1>2, <1>3, <1>4, <1>5, <1>6, <2>2, <2>3, <2>4
  <2>5. CASE g \in W
    BY <1>1, <1>3, <1>4, <2>2, <2>3, <2>5
  <2> QED BY <1>1, <2>3, <2>4, <2>5
<1>7. ASSUME lo < o.price
      PROVE  lc = lo
  <2>1. PICK h \in W : h.price = lo
    BY <1>1, <1>2, <1>3, <1>5, <1>7
  <2>2. lc <= lo
    BY <1>1, <1>4, <2>1
  <2>3. PICK g \in Observed(c) : g.price = lc
    BY <1>4
  <2>4. CASE g = new(c)
    BY <1>2, <1>3, <1>4, <1>5, <1>7, <2>2, <2>3, <2>4
  <2>5. CASE g \in W
    BY <1>1, <1>3, <1>4, <2>2, <2>3, <2>5
  <2> QED BY <1>1, <2>3, <2>4, <2>5
<1> QED BY <1>6, <1>7 DEF ho, hc, lo, lc

LEMMA SameReference ==
  ASSUME TypeOK, NEW o \in Product, NEW c \in Product, o.price < c.price,
         SameClaim(o, c), Reference(c, Observed(c)) > c.price
  PROVE  Reference(o, Observed(o)) = Reference(c, Observed(c))
<1>1. o.price \in Nat /\ c.price \in Nat /\ o.mrp = c.mrp /\ o.mrp \in Nat
  BY Parts DEF SameClaim
<1>2. CASE o.mrp > c.price
  BY <1>1, <1>2 DEF Reference
<1>3. CASE ~ (o.mrp > c.price)
  <2>1. o.mrp = 0
    BY <1>3 DEF SameClaim, NoPrice
  <2>2. Highest(Observed(c)) > c.price
    BY <1>1, <2>1 DEF Reference, NoPrice
  <2>3. Highest(Observed(o)) = Highest(Observed(c))
    BY <2>2, WindowsAgree
  <2>4. Highest(Observed(o)) \in Nat
    BY WindowExtremes
  <2> QED BY <1>1, <2>1, <2>2, <2>3, <2>4 DEF Reference, NoPrice
<1> QED BY <1>2, <1>3

\* scorer_test.py's monotonicity, whatever the history: in no reachable state
\* does the higher of two prices score better.
THEOREM CheaperNeverScoresLower == Spec => []CheaperIsNeverWorse
<1>1. TypeOK => CheaperIsNeverWorse
  <2> SUFFICES ASSUME TypeOK, NEW o \in Product, NEW c \in Product,
                      NEW fl \in Floats, o.price < c.price, SameClaim(o, c),
                      IsDeal(c, Observed(c), fl)
               PROVE  /\ IsDeal(o, Observed(o), fl)
                      /\ Total(Breakdown(o, Observed(o), fl)) >=
                           Total(Breakdown(c, Observed(c), fl))
    BY DEF CheaperIsNeverWorse
  <2> DEFINE r == Reference(c, Observed(c))
             p == o.price
             q == c.price
             k == Lowest(Observed(o))
             l == Lowest(Observed(c))
             u == fl.up
             bo == Breakdown(o, Observed(o), fl)
             bc == Breakdown(c, Observed(c), fl)
  <2>1. /\ p \in Nat /\ q \in Nat /\ p < q /\ r \in Nat /\ u \in {0, 1}
        /\ q < r
        /\ 100 * (r - q) >= 15 * r
        /\ Total(bc) > 4000 \/ (Total(bc) = 4000 /\ fl.reaches)
    BY Parts, Measured DEF Floats, IsDeal
  <2>2. Reference(o, Observed(o)) = r
    <3>1. r > q
      BY <2>1
    <3> QED BY <3>1, SameReference
  <2>3. k \in Nat \ {0} /\ l \in Nat \ {0} /\ (k < p => l = k)
    BY WindowExtremes, WindowsAgree
  <2>4. o.appeal = c.appeal
    BY DEF SameClaim
  <2>5. /\ bo \in [discount : Nat, velocity : Nat, brand : Nat, rating : Nat]
        /\ bc \in [discount : Nat, velocity : Nat, brand : Nat, rating : Nat]
    <3>1. Reference(o, Observed(o)) > o.price /\ Reference(c, Observed(c)) > c.price
      BY <2>1, <2>2
    <3> QED BY <3>1, Scored
  <2>6. /\ bo.discount = DiscountScore(p, r, u)
        /\ bc.discount = DiscountScore(q, r, u)
        /\ bo.velocity = VelocityScore(p, k, u)
        /\ bc.velocity = VelocityScore(q, l, u)
        /\ bo.brand = bc.brand
        /\ bo.rating = bc.rating
    BY <2>2, <2>4 DEF Breakdown
  <2> HIDE DEF r, p, q, k, l, u, bo, bc
  <2>7. DiscountScore(q, r, u) <= DiscountScore(p, r, u)
    BY <2>1, DiscountMonotone
  <2>8. VelocityScore(q, l, u) <= VelocityScore(p, k, u)
    BY <2>1, <2>3, VelocityMonotone
  <2>9. Total(bo) \in Nat /\ Total(bc) \in Nat /\ Total(bo) >= Total(bc)
    BY <2>5, <2>6, <2>7, <2>8 DEF Total
  <2>10. /\ r > p /\ 100 * (r - p) >= 15 * r
         /\ Total(bo) > 4000 \/ (Total(bo) = 4000 /\ fl.reaches)
    BY <2>1, <2>9
  <2>11. IsDeal(o, Observed(o), fl)
    BY <2>2, <2>10 DEF IsDeal, p, bo
  <2> QED BY <2>9, <2>11 DEF bo, bc
<1> QED BY <1>1, Typed, PTL

-----------------------------------------------------------------------------
(***************************************************************************)
(* A listing that was never seen before.  Its own observation is all the   *)
(* window holds, so that it is its own lowest price: it earns the whole    *)
(* velocity credit on nothing, and has only its own claim to be measured   *)
(* against.                                                                *)
(***************************************************************************)
FirstSeenDealIsUnproven ==
  \A d \in deals : d.firstSeen =>
    d.breakdown.velocity = 2500 /\ d.reference = d.product.mrp

LEMMA FirstWindow ==
  ASSUME TypeOK, NEW o \in Product, history = {}
  PROVE  /\ Lowest(Observed(o)) = o.price
         /\ Highest(Observed(o)) = o.price
<1>1. \A h \in Observed(o) : h = [price |-> o.price, day |-> day]
  BY WindowOf
<1>2. \A h \in Observed(o) : h.price = o.price
  BY <1>1
<1> QED BY <1>2, WindowExtremes

LEMMA FirstScore ==
  ASSUME TypeOK, NEW o \in Product, NEW fl \in Floats, history = {},
         IsDeal(o, Observed(o), fl)
  PROVE  /\ Breakdown(o, Observed(o), fl).velocity = 2500
         /\ Reference(o, Observed(o)) = o.mrp
<1>1. o.price \in Nat /\ o.mrp \in Nat
  BY Parts
<1>2. Lowest(Observed(o)) = o.price /\ Highest(Observed(o)) = o.price
  BY FirstWindow
<1>3. Breakdown(o, Observed(o), fl).velocity = 2500
  BY <1>1, <1>2 DEF Breakdown, VelocityScore
<1>4. Reference(o, Observed(o)) > o.price
  BY DEF IsDeal
<1>5. Reference(o, Observed(o)) = o.mrp
  BY <1>1, <1>2, <1>4 DEF Reference, NoPrice
<1> QED BY <1>3, <1>5

LEMMA FirstScan ==
  ASSUME TypeOK, FirstSeenDealIsUnproven, NEW o \in Product, NEW fl \in Floats, Scan(o, fl)
  PROVE  FirstSeenDealIsUnproven'
<1> DEFINE b == Breakdown(o, Observed(o), fl)
           r == Reference(o, Observed(o))
           seen == history = {}
<1>1. CASE UNCHANGED deals
  BY <1>1 DEF FirstSeenDealIsUnproven
<1>2. CASE /\ IsDeal(o, Observed(o), fl)
           /\ deals' = deals \cup {[product |-> o, day |-> day, reference |-> r,
                                    breakdown |-> b, firstSeen |-> seen]}
  <2>1. seen => b.velocity = 2500 /\ r = o.mrp
    BY <1>2, FirstScore
  <2> HIDE DEF b, r, seen
  <2>2. PICK d : /\ d = [product |-> o, day |-> day, reference |-> r, breakdown |-> b,
                         firstSeen |-> seen]
                 /\ deals' = deals \cup {d}
    BY <1>2
  <2>3. d.product = o /\ d.reference = r /\ d.breakdown = b /\ (d.firstSeen => seen)
    BY <2>2
  <2> QED BY <2>1, <2>2, <2>3 DEF FirstSeenDealIsUnproven
<1> QED BY <1>1, <1>2 DEF Scan

\* scorer.py says that a listing seen for the first time has not been proven
\* cheap; every deal on such a listing is credited as if it had been, for any
\* prices, claims and window (_velocity_factor, stats).
THEOREM FirstSeenIsCreditedInFull == Spec => []FirstSeenDealIsUnproven
<1>1. Init => FirstSeenDealIsUnproven
  BY DEF Init, FirstSeenDealIsUnproven
<1>2. Inv /\ FirstSeenDealIsUnproven /\ [Next]_vars => FirstSeenDealIsUnproven'
  <2> SUFFICES ASSUME Inv, FirstSeenDealIsUnproven, [Next]_vars
               PROVE  FirstSeenDealIsUnproven'
    OBVIOUS
  <2>1. CASE UNCHANGED deals
    BY <2>1 DEF FirstSeenDealIsUnproven
  <2>2. ASSUME NEW o \in Product, NEW fl \in Floats, Scan(o, fl)
        PROVE  FirstSeenDealIsUnproven'
    BY <2>2, FirstScan DEF Inv
  <2> QED BY <2>1, <2>2 DEF Next, Close, NextDay, vars
<1> QED BY <1>1, <1>2, Invariant, PTL DEF Spec

============================================================================
