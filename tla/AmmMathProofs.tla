--------------------------- MODULE AmmMathProofs ---------------------------
(***************************************************************************)
(* What the pool arithmetic of AmmMath guarantees a taker, for every       *)
(* width, every pool and every price, and what a fee is: the facts the     *)
(* proofs about QuoteSell and QuoteBuy rest on.                            *)
(***************************************************************************)
EXTENDS Quote, WellFoundedInduction, TLAPS

\* Truncating division loses less than one divisor.
LEMMA DivBound ==
  ASSUME NEW n \in Nat, NEW d \in Nat \ {0}
  PROVE  /\ n \div d \in Nat
         /\ (n \div d) * d <= n
         /\ n < (n \div d) * d + d
OBVIOUS

\* A product with a larger factor is larger.
LEMMA ProductLe ==
  ASSUME NEW x \in Nat, NEW y \in Nat, NEW z \in Nat, x <= y
  PROVE  x * z <= y * z
OBVIOUS

LEMMA SquareLess ==
  ASSUME NEW x \in Nat, NEW y \in Nat, x * x < y * y
  PROVE  x < y
OBVIOUS

\* Every non-empty set of naturals has a least element.
LEMMA NatLeast ==
  ASSUME NEW T, T \subseteq Nat, T # {}
  PROVE  \E m \in T : \A j \in T : m <= j
<1>1. PICK m \in T : \A y \in T : ~(<<y, m>> \in OpToRel(<, Nat))
  BY WFMin, NatLessThanWellFounded
<1>2. \A y \in T : ~(y < m)
  BY <1>1 DEF OpToRel
<1> QED
  BY <1>2

\* Isqrt is the integer square root, although it is defined by CHOOSE.
LEMMA IsqrtRoot ==
  ASSUME NEW n \in Nat
  PROVE  /\ Isqrt[n] \in Nat
         /\ Isqrt[n] * Isqrt[n] <= n
         /\ n < (Isqrt[n] + 1) * (Isqrt[n] + 1)
<1> DEFINE T == {s \in Nat : n < (s + 1) * (s + 1)}
<1>1. n \in T
  OBVIOUS
<1>2. PICK m \in T : \A j \in T : m <= j
  BY NatLeast, <1>1, T \subseteq Nat
<1>3. m * m <= n
  <2>1. CASE m = 0
    BY <2>1
  <2>2. CASE m # 0
    <3>1. m - 1 \in Nat /\ m - 1 \notin T
      BY <2>2, <1>2
    <3>2. ~(n < ((m - 1) + 1) * ((m - 1) + 1))
      BY <3>1
    <3> QED
      BY <3>2
  <2> QED
    BY <2>1, <2>2
<1>4. m \in 0 .. n
  BY <1>3
<1>5. \E r \in 0 .. n : r * r <= n /\ n < (r + 1) * (r + 1)
  BY <1>3, <1>4
<1> DEFINE root == CHOOSE r \in 0 .. n : r * r <= n /\ n < (r + 1) * (r + 1)
<1>6. root \in 0 .. n /\ root * root <= n /\ n < (root + 1) * (root + 1)
  BY <1>5, Zenon
<1>7. Isqrt[n] = root
  BY Zenon DEF Isqrt
<1> HIDE DEF root
<1> QED
  BY <1>6, <1>7

\* A value of the type survives the conversion to it.
LEMMA WrapInside ==
  ASSUME NEW x \in 0 .. I64Max
  PROVE  WrapI64(x) = x
BY WidthAssumption DEF WrapI64

-----------------------------------------------------------------------------
\* f64 may be off at n by no more than one part in Precision of n.
LEMMA GrainBound ==
  ASSUME NEW n \in Nat
  PROVE  /\ Grain(n) \in Nat
         /\ Grain(n) * Precision <= n
         /\ n < (Grain(n) + 1) * Precision
         /\ Grain(n) <= n
BY PrecisionAssumption DEF Grain

\* Two quantities together are allowed at least what each is.
LEMMA GrainSum ==
  ASSUME NEW m \in Nat, NEW n \in Nat
  PROVE  Grain(m) + Grain(n) <= Grain(m + n)
<1> DEFINE x == Grain(m)
           y == Grain(n)
           z == Grain(m + n)
<1>1. x \in Nat /\ y \in Nat /\ z \in Nat
  BY GrainBound
<1>2. x * Precision <= m /\ y * Precision <= n /\ m + n < (z + 1) * Precision
  BY GrainBound
<1> HIDE DEF x, y, z
<1>3. (x + y) * Precision < (z + 1) * Precision
  BY <1>1, <1>2, PrecisionAssumption
<1>4. SUFFICES ASSUME z + 1 <= x + y PROVE FALSE
  BY <1>1 DEF x, y, z
<1>5. (z + 1) * Precision <= (x + y) * Precision
  BY <1>1, <1>4, ProductLe, PrecisionAssumption
<1> QED
  BY <1>1, <1>3, <1>5, PrecisionAssumption

\* Legs that are each within what f64 may be off at their worth are so together.
LEMMA GrainAdd ==
  ASSUME NEW lim \in Nat, NEW x \in Nat, NEW y \in Nat, NEW z \in Nat
  PROVE  LET g == Grain((x + y + z) * lim)
         IN  /\ g \in Nat
             /\ Grain(x * lim) \in Nat /\ Grain(y * lim) \in Nat /\ Grain(z * lim) \in Nat
             /\ Grain(x * lim) + Grain(y * lim) + Grain(z * lim) <= g
<1>1. x * lim \in Nat /\ y * lim \in Nat /\ z * lim \in Nat
  OBVIOUS
<1>2. (x + y + z) * lim = (x * lim + y * lim) + z * lim
  OBVIOUS
<1>3. x * lim + y * lim \in Nat /\ (x * lim + y * lim) + z * lim \in Nat
  BY <1>1
<1>4. /\ Grain(x * lim) + Grain(y * lim) <= Grain(x * lim + y * lim)
      /\ Grain(x * lim + y * lim) + Grain(z * lim) <= Grain((x * lim + y * lim) + z * lim)
  BY <1>1, <1>3, GrainSum
<1>5. /\ Grain(x * lim) \in Nat /\ Grain(y * lim) \in Nat /\ Grain(z * lim) \in Nat
      /\ Grain(x * lim + y * lim) \in Nat /\ Grain((x * lim + y * lim) + z * lim) \in Nat
  BY <1>1, <1>3, GrainBound
<1>6. Grain((x + y + z) * lim) = Grain((x * lim + y * lim) + z * lim)
  BY <1>2
<1> QED
  BY <1>4, <1>5, <1>6

\* A larger quantity is allowed at least what a smaller one is, and what it is
\* allowed more is no more than the difference.
LEMMA GrainMonotone ==
  ASSUME NEW m \in Nat, NEW n \in Nat, m <= n
  PROVE  Grain(m) <= Grain(n) /\ m - Grain(m) <= n - Grain(n)
<1> DEFINE x == Grain(m)
           y == Grain(n)
<1>1. x \in Nat /\ y \in Nat
  BY GrainBound
<1>2. Grain(n - m) \in Nat /\ m + (n - m) = n
  BY GrainBound
<1>3. x <= y
  BY <1>1, <1>2, GrainSum
<1>4. x * Precision <= m /\ m < (x + 1) * Precision /\ y * Precision <= n
  BY GrainBound
<1> HIDE DEF x, y
<1>5. (y - x - 1) * Precision < n - m
  BY <1>1, <1>4, PrecisionAssumption
<1>6. y - x <= n - m
  <2>1. CASE y = x
    BY <2>1, <1>1
  <2>2. CASE y # x
    <3>1. y - x - 1 \in Nat /\ y - x - 1 <= (y - x - 1) * Precision
      BY <2>2, <1>1, <1>3, PrecisionAssumption
    <3>2. (y - x - 1) * Precision \in Nat
      BY <3>1, PrecisionAssumption
    <3> QED
      BY <3>1, <3>2, <1>5, <1>1
  <2> QED
    BY <2>1, <2>2
<1> QED
  BY <1>1, <1>3, <1>6 DEF x, y

LEMMA NearbyBounds ==
  ASSUME NEW n \in Nat, NEW chain, NEW slip \in Nat
  PROVE  /\ Nearby(n, chain, slip) \in Nat
         /\ n - Grain(n) - slip <= Nearby(n, chain, slip)
         /\ Nearby(n, chain, slip) <= n + Grain(n)
BY GrainBound DEF Nearby, Greatest

LEMMA BlurredBounds ==
  ASSUME NEW n \in Nat, NEW chain
  PROVE  /\ Blurred(n, chain) \in Nat
         /\ n - Grain(n) <= Blurred(n, chain)
         /\ Blurred(n, chain) <= n + Grain(n)
<1>1. n - Grain(n) - 0 = n - Grain(n)
  BY GrainBound
<1> QED
  BY <1>1, NearbyBounds DEF Blurred

\* Squares of what f64 resolves: f64 does not see a difference at x * x that
\* would move the root by more than one.
LEMMA GrainOfSquare ==
  ASSUME NEW n \in Nat, NEW px \in Nat, NEW x \in Nat, x < Precision,
         n - Grain(n) < px * (x * x)
  PROVE  n + Grain(n) < px * ((x + 1) * (x + 1))
<1> DEFINE g == Grain(n)
<1>1. g \in Nat /\ g * Precision <= n /\ g <= n
  BY GrainBound
<1> HIDE DEF g
<1>2. n - g < px * (x * x)
  BY DEF g
<1>3. x # 0
  BY <1>1, <1>2
<1>4. g * (Precision - 1) <= n - g
  BY <1>1, PrecisionAssumption
<1>5. g * x <= g * (Precision - 1)
  BY <1>1, <1>3, PrecisionAssumption, ProductLe
<1>6. g * x < (px * x) * x
  BY <1>1, <1>2, <1>4, <1>5, PrecisionAssumption
<1>7. g < px * x
  <2>1. SUFFICES ASSUME px * x <= g PROVE FALSE
    BY <1>1
  <2>2. (px * x) * x <= g * x
    BY <2>1, <1>1, ProductLe
  <2> QED
    BY <2>2, <1>6, <1>1
<1>8. px * ((x + 1) * (x + 1)) = px * (x * x) + 2 * (px * x) + px
  OBVIOUS
<1> QED
  BY <1>1, <1>2, <1>7, <1>8 DEF g

\* Prices that f64 resolves: what it may be off at a quotient below px is less
\* than one part in c of a tick of the price.
LEMMA GrainOfPrice ==
  ASSUME NEW n \in Nat, NEW px \in Nat, NEW w \in Nat, NEW c \in Nat,
         c * px < Precision, n - Grain(n) < px * w
  PROVE  c * n < (c * px + 1) * w
<1> DEFINE g == Grain(n)
           d == c * px
<1>1. g \in Nat /\ g * Precision <= n /\ g <= n /\ d \in Nat
  BY GrainBound
<1>2. n - g < px * w /\ d + 1 <= Precision
  BY <1>1, PrecisionAssumption
<1>3. g * d = (c * g) * px /\ (c * px + 1) * w = c * (px * w) + w /\ c * g \in Nat
  BY <1>1
<1> HIDE DEF g, d
<1>4. px # 0 /\ w # 0
  BY <1>1, <1>2
<1>5. g * (d + 1) <= g * Precision
  BY <1>1, <1>2, PrecisionAssumption, ProductLe
<1>6. (c * g) * px < w * px
  BY <1>1, <1>2, <1>3, <1>5, PrecisionAssumption
<1>7. c * g < w
  <2>1. SUFFICES ASSUME w <= c * g PROVE FALSE
    BY <1>3
  <2>2. w * px <= (c * g) * px
    BY <2>1, <1>3, ProductLe
  <2> QED
    BY <2>2, <1>6, <1>3
<1>8. c * n <= c * (px * w) + c * g
  <2>1. n <= px * w + g /\ px * w + g \in Nat
    BY <1>1, <1>2
  <2>2. n * c <= (px * w + g) * c
    BY <2>1, ProductLe
  <2>3. (px * w + g) * c = c * (px * w) + c * g
    BY <1>1
  <2> QED
    BY <2>2, <2>3
<1> QED
  BY <1>1, <1>3, <1>7, <1>8

-----------------------------------------------------------------------------
\* A quotient, and a root, is a value of the type.
LEMMA RootType ==
  ASSUME NEW n \in Nat, NEW d \in Nat
  PROVE  RootAsI64(n, d) \in 0 .. I64Max
<1>1. CASE d = 0
  BY <1>1, WidthAssumption DEF RootAsI64
<1>2. CASE d # 0
  <2> DEFINE m == Blurred(n, <<"root", d>>)
             q == m \div d
  <2>1. m \in Nat
    BY BlurredBounds
  <2>2. RootAsI64(n, d) = F64AsI64(Isqrt[q])
    BY <1>2 DEF RootAsI64
  <2> HIDE DEF m
  <2>3. q \in Nat
    BY <1>2, <2>1, DivBound
  <2> HIDE DEF q
  <2>4. Isqrt[q] \in Nat
    BY <2>3, IsqrtRoot
  <2> QED
    BY <2>2, <2>4, WidthAssumption DEF F64AsI64, Least
<1> QED
  BY <1>1, <1>2

LEMMA QuotType ==
  ASSUME NEW n \in Nat, NEW d \in Nat
  PROVE  QuotAsI64(n, d) \in 0 .. I64Max
<1>1. CASE d = 0
  BY <1>1, WidthAssumption DEF QuotAsI64
<1>2. CASE d # 0
  <2> DEFINE m == Blurred(n, <<"quotient", d>>)
  <2>1. m \in Nat
    BY BlurredBounds
  <2>2. QuotAsI64(n, d) = F64AsI64(m \div d)
    BY <1>2 DEF QuotAsI64
  <2> HIDE DEF m
  <2>3. m \div d \in Nat
    BY <1>2, <2>1, DivBound
  <2> QED
    BY <2>2, <2>3, WidthAssumption DEF F64AsI64, Least
<1> QED
  BY <1>1, <1>2

\* A saturated quotient below px comes from a quotient below px.
LEMMA QuotBelow ==
  ASSUME NEW n \in Nat, NEW d \in Nat, NEW px \in 0 .. I64Max,
         QuotAsI64(n, d) < px
  PROVE  n - Grain(n) < px * d \/ (n = 0 /\ d = 0)
<1>1. CASE d = 0
  BY <1>1, WidthAssumption DEF QuotAsI64
<1>2. CASE d # 0
  <2> DEFINE m == Blurred(n, <<"quotient", d>>)
  <2>1. m \in Nat /\ n - Grain(n) <= m
    BY BlurredBounds
  <2>2. QuotAsI64(n, d) = F64AsI64(m \div d)
    BY <1>2 DEF QuotAsI64
  <2> HIDE DEF m
  <2>3. m \div d \in Nat /\ m < (m \div d) * d + d
    BY <1>2, <2>1, DivBound
  <2>4. m \div d < px
    BY <2>2, <2>3, WidthAssumption DEF F64AsI64, Least
  <2>5. (m \div d + 1) * d <= px * d
    BY <2>3, <2>4, <1>2, ProductLe
  <2> QED
    BY <2>1, <2>3, <2>5, GrainBound
<1> QED
  BY <1>1, <1>2

\* A saturated quotient of at least px comes from a quotient of at least px.
LEMMA QuotAbove ==
  ASSUME NEW n \in Nat, NEW d \in Nat \ {0}, NEW px \in 0 .. I64Max,
         px <= QuotAsI64(n, d)
  PROVE  px * d <= n + Grain(n)
<1> DEFINE m == Blurred(n, <<"quotient", d>>)
<1>1. m \in Nat /\ m <= n + Grain(n)
  BY BlurredBounds
<1>2. QuotAsI64(n, d) = F64AsI64(m \div d)
  BY DEF QuotAsI64
<1> HIDE DEF m
<1>3. m \div d \in Nat /\ (m \div d) * d <= m
  BY <1>1, DivBound
<1>4. px <= m \div d
  BY <1>2, <1>3, WidthAssumption DEF F64AsI64, Least
<1>5. px * d <= (m \div d) * d
  BY <1>3, <1>4, ProductLe
<1> QED
  BY <1>1, <1>3, <1>5, GrainBound

\* The truncated root of a truncated quotient errs towards zero, up to what f64
\* may be off.
LEMMA RootBound ==
  ASSUME NEW n \in Nat, NEW px \in 0 .. I64Max
  PROVE  /\ RootAsI64(n, px) \in 0 .. I64Max
         /\ px * (RootAsI64(n, px) * RootAsI64(n, px)) <= n + Grain(n)
<1>1. CASE px = 0
  BY <1>1, WidthAssumption, GrainBound DEF RootAsI64
<1>2. CASE px # 0
  <2> DEFINE m == Blurred(n, <<"root", px>>)
             q == m \div px
             r == RootAsI64(n, px)
  <2>1. m \in Nat /\ m <= n + Grain(n)
    BY BlurredBounds
  <2>2. r = Least(Isqrt[q], I64Max)
    BY <1>2 DEF RootAsI64, F64AsI64
  <2> HIDE DEF m, r
  <2>3. q \in Nat /\ q * px <= m
    BY <1>2, <2>1, DivBound
  <2> HIDE DEF q
  <2>4. Isqrt[q] \in Nat /\ Isqrt[q] * Isqrt[q] <= q
    BY <2>3, IsqrtRoot
  <2>5. r \in 0 .. I64Max /\ r <= Isqrt[q]
    BY <2>2, <2>4, WidthAssumption DEF Least
  <2>6. r * r <= Isqrt[q] * Isqrt[q]
    BY <2>4, <2>5
  <2>7. r * r \in Nat /\ r * r <= q
    BY <2>3, <2>4, <2>5, <2>6
  <2>8. (r * r) * px <= q * px
    BY <2>3, <2>7, <1>2, ProductLe
  <2>9. px * (r * r) <= n + Grain(n)
    BY <2>1, <2>3, <2>7, <2>8, GrainBound
  <2> QED
    BY <2>5, <2>9 DEF r
<1> QED
  BY <1>1, <1>2

LEMMA RootLess ==
  ASSUME NEW n \in Nat, NEW px \in 0 .. I64Max, NEW x \in Nat,
         n + Grain(n) < px * (x * x)
  PROVE  RootAsI64(n, px) < x
<1> DEFINE r == RootAsI64(n, px)
<1>1. r \in Nat /\ px * (r * r) <= n + Grain(n)
  BY RootBound, WidthAssumption
<1> HIDE DEF r
<1>2. px * (r * r) < px * (x * x)
  BY <1>1, GrainBound
<1>3. SUFFICES ASSUME x <= r PROVE FALSE
  BY <1>1 DEF r
<1>4. x * x <= r * r
  BY <1>1, <1>3
<1>5. (x * x) * px <= (r * r) * px
  BY <1>1, <1>4, ProductLe
<1> QED
  BY <1>1, <1>2, <1>5

-----------------------------------------------------------------------------
\* A taker who sells.  A pool record with non-negative reserves.
Reserves(p) == /\ p.k \in Nat /\ p.df \in Nat \ {0}
               /\ p.a_tokens \in Nat /\ p.b_tokens \in Nat

LEMMA SellTypes ==
  ASSUME NEW p, Reserves(p), NEW px \in 0 .. I64Max, NEW q \in Nat
  PROVE  get_amm_px(p, q, "Bid") \in Nat /\ get_amm_qty(p, px, "Bid") \in Nat
<1> DEFINE n == p.k * p.df
           x == p.a_tokens + q
           r == RootAsI64(n, px)
<1>1. n \in Nat /\ x * x \in Nat
  BY DEF Reserves
<1>2. QuotAsI64(n, x * x) \in Nat
  <2> HIDE DEF n, x
  <2>1. QuotAsI64(n, x * x) \in 0 .. I64Max
    BY <1>1, QuotType
  <2> QED
    BY <2>1, WidthAssumption
<1> HIDE DEF n
<1>3. r \in 0 .. I64Max
  BY <1>1, RootBound
<1> HIDE DEF r
<1>4. Greatest(0, r - p.a_tokens) \in Nat
  BY <1>3, WidthAssumption DEF Greatest, Reserves
<1> QED
  BY <1>2, <1>4 DEF get_amm_px, get_amm_qty, r, n

\* If selling q would push the pool below px then selling down to px takes no
\* more than q: the f64 root and the f64 quotient agree on that as long as f64
\* resolves the reserve.
LEMMA SellStopsShort ==
  ASSUME NEW p, Reserves(p), NEW px \in 0 .. I64Max, NEW q \in Nat,
         p.a_tokens + q < Precision,
         get_amm_px(p, q, "Bid") < px
  PROVE  get_amm_qty(p, px, "Bid") \in 0 .. q
<1> DEFINE n == p.k * p.df
           x == p.a_tokens + q
           r == RootAsI64(n, px)
<1>1. n \in Nat /\ x \in Nat /\ x * x \in Nat
  BY DEF Reserves
<1>2. QuotAsI64(n, x * x) < px
  BY DEF get_amm_px
<1>3. r \in Nat
  BY <1>1, RootBound, WidthAssumption
<1>4. get_amm_qty(p, px, "Bid") = Greatest(0, r - p.a_tokens)
  BY DEF get_amm_qty
<1>5. n - Grain(n) < px * (x * x) \/ (n = 0 /\ x * x = 0)
  BY <1>1, <1>2, QuotBelow
<1> HIDE DEF n, r
<1>6. CASE n - Grain(n) < px * (x * x)
  <2>1. px \in Nat /\ x < Precision
    BY WidthAssumption
  <2> HIDE DEF x
  <2>2. n + Grain(n) < px * ((x + 1) * (x + 1))
    BY <1>1, <1>6, <2>1, GrainOfSquare
  <2>3. r < x + 1
    BY <1>1, <2>2, RootLess DEF r
  <2>4. r <= x
    BY <1>1, <1>3, <2>3
  <2> QED
    BY <2>4, <1>3, <1>4 DEF Greatest, Reserves, x
<1>7. CASE n = 0 /\ x * x = 0
  <2>1. px * (r * r) <= n + Grain(n)
    BY <1>1, RootBound DEF r
  <2>2. px # 0
    BY <1>2, <1>7, WidthAssumption DEF QuotAsI64
  <2>3. r = 0
    BY <2>1, <2>2, <1>3, <1>7, GrainBound
  <2> QED
    BY <2>3, <1>4 DEF Greatest, Reserves
<1> QED
  BY <1>5, <1>6, <1>7

\* Selling no more than get_amm_qty leaves the pool at or above px.
LEMMA SellKeepsPrice ==
  ASSUME NEW p, Reserves(p), NEW px \in 0 .. I64Max, NEW q \in Nat \ {0},
         q <= get_amm_qty(p, px, "Bid")
  PROVE  px * ((p.a_tokens + q) * (p.a_tokens + q)) <= p.k * p.df + Grain(p.k * p.df)
<1> DEFINE n == p.k * p.df
           x == p.a_tokens + q
           r == RootAsI64(n, px)
<1>1. n \in Nat /\ x \in Nat
  BY DEF Reserves
<1>2. r \in Nat /\ px * (r * r) <= n + Grain(n)
  BY <1>1, RootBound, WidthAssumption
<1>3. q <= Greatest(0, r - p.a_tokens)
  BY DEF get_amm_qty
<1> HIDE DEF n, r
<1>4. x <= r
  BY <1>2, <1>3 DEF Greatest, Reserves
<1> HIDE DEF x
<1>5. x * x <= r * r
  BY <1>1, <1>2, <1>4
<1>6. (x * x) * px <= (r * r) * px
  BY <1>1, <1>2, <1>5, ProductLe
<1>7. px * (x * x) <= n + Grain(n)
  BY <1>1, <1>2, <1>6, GrainBound
<1> QED
  BY <1>7 DEF x, n

\* Selling q when the pool still has px afterwards leaves it at or above px.
LEMMA SellAllKeepsPrice ==
  ASSUME NEW p, Reserves(p), NEW px \in 0 .. I64Max, NEW q \in Nat \ {0},
         px <= get_amm_px(p, q, "Bid")
  PROVE  px * ((p.a_tokens + q) * (p.a_tokens + q)) <= p.k * p.df + Grain(p.k * p.df)
<1> DEFINE n == p.k * p.df
           x == p.a_tokens + q
<1>1. n \in Nat /\ x \in Nat \ {0} /\ x * x \in Nat \ {0}
  BY DEF Reserves
<1>2. px <= QuotAsI64(n, x * x)
  BY DEF get_amm_px
<1> HIDE DEF n, x
<1>3. px * (x * x) <= n + Grain(n)
  BY <1>1, <1>2, QuotAbove
<1> QED
  BY <1>3 DEF n, x

\* What the pool pays for q comes from its reserve and keeps it on its curve.
LEMMA SellSum ==
  ASSUME NEW p, Reserves(p), p.b_tokens <= I64Max, NEW q \in Nat
  PROVE  LET m == get_amm_sum(p, q, "Bid")
         IN  /\ m \in 0 .. p.b_tokens
             /\ m # 0 => /\ p.a_tokens # 0
                         /\ p.b_tokens - m = p.k \div (p.a_tokens + q)
<1> DEFINE d == p.a_tokens + q
           v == p.k \div d
           g == Greatest(0, p.b_tokens - v)
<1>1. CASE p.a_tokens = 0
  BY <1>1 DEF get_amm_sum, Reserves
<1>2. CASE p.a_tokens # 0
  <2>1. v \in Nat
    <3>1. d \in Nat \ {0}
      BY <1>2 DEF Reserves
    <3> QED
      BY <3>1, DivBound DEF Reserves
  <2>2. get_amm_sum(p, q, "Bid") = WrapI64(g)
    BY <1>2 DEF get_amm_sum
  <2> HIDE DEF v
  <2>3. g \in 0 .. p.b_tokens /\ g \in 0 .. I64Max /\ (g # 0 => p.b_tokens - g = v)
    BY <2>1, WidthAssumption DEF Greatest, Reserves
  <2> HIDE DEF g
  <2>4. get_amm_sum(p, q, "Bid") = g
    BY <2>2, <2>3, WrapInside
  <2> QED
    BY <1>2, <2>3, <2>4 DEF v
<1> QED
  BY <1>1, <1>2

\* A pool that ends at or above px has paid at least px for every unit, also
\* when f64 cannot tell that it ended above.
LEMMA SellPaysPrice ==
  ASSUME NEW p, Reserves(p), p.b_tokens <= I64Max, p.k = p.a_tokens * p.b_tokens,
         p.a_tokens < Precision,
         NEW px \in 0 .. I64Max, NEW q \in Nat \ {0},
         px * ((p.a_tokens + q) * (p.a_tokens + q)) <= p.k * p.df + Grain(p.k * p.df),
         get_amm_sum(p, q, "Bid") # 0
  PROVE  q * px <= get_amm_sum(p, q, "Bid") * p.df
<1> DEFINE m == get_amm_sum(p, q, "Bid")
           a == p.a_tokens
           b == p.b_tokens
           d == a + q
<1>1. m \in 0 .. b /\ a # 0 /\ b - m = p.k \div d
  BY SellSum
<1>2. /\ a \in Nat \ {0} /\ b \in Nat /\ d \in Nat \ {0} /\ p.df \in Nat \ {0}
      /\ a + 1 <= d
  BY <1>1 DEF Reserves
<1>3. /\ p.k = a * b /\ a < Precision
      /\ px * (d * d) <= (a * b) * p.df + Grain((a * b) * p.df)
  OBVIOUS
<1> HIDE DEF m, a, b, d
<1>4. (b - m) * d <= a * b
  <2>1. a * b \in Nat
    BY <1>2
  <2> QED
    BY <2>1, <1>1, <1>2, <1>3, DivBound
<1>5. b * q <= m * d
  BY <1>1, <1>2, <1>4 DEF d
<1>6. px * d <= b * p.df
  <2> DEFINE c == b * p.df
             g == Grain(a * c)
             y == px * d
  <2>1. c \in Nat /\ y \in Nat /\ a * c \in Nat /\ (a * b) * p.df = a * c
    BY <1>2
  <2>2. g \in Nat /\ g * Precision <= a * c
    BY <2>1, GrainBound
  <2>3. y * d <= a * c + g
    BY <1>2, <1>3, <2>1
  <2> HIDE DEF c, g, y
  <2>4. g <= c
    <3>1. a * c <= Precision * c
      BY <1>2, <1>3, <2>1, PrecisionAssumption, ProductLe
    <3>2. g * Precision <= c * Precision
      BY <3>1, <1>2, <2>1, <2>2, PrecisionAssumption
    <3> QED
      BY <3>2, <2>1, <2>2, PrecisionAssumption
  <2>5. ASSUME c + 1 <= y PROVE FALSE
    <3>1. (c + 1) * d <= y * d
      BY <2>5, <2>1, <1>2, ProductLe
    <3>2. (a + 1) * (c + 1) <= d * (c + 1)
      BY <1>2, <2>1, ProductLe
    <3>3. (a + 1) * (c + 1) <= a * c + g
      BY <3>1, <3>2, <2>1, <2>2, <2>3, <1>2
    <3>4. a * c + c + a + 1 <= a * c + g
      BY <3>3, <1>2, <2>1
    <3> QED
      BY <3>4, <2>1, <2>2, <2>4, <1>2
  <2> QED
    BY <2>5, <2>1 DEF c, y
<1>7. (px * d) * q <= (b * p.df) * q
  BY <1>2, <1>6, ProductLe
<1>8. (b * q) * p.df <= (m * d) * p.df
  BY <1>1, <1>2, <1>5, ProductLe
<1>9. (q * px) * d <= (m * p.df) * d
  BY <1>1, <1>2, <1>7, <1>8
<1>10. q * px <= m * p.df
  BY <1>1, <1>2, <1>9
<1> QED
  BY <1>10 DEF m

-----------------------------------------------------------------------------
\* A taker who buys.  A saturated quotient above px comes from a quotient of
\* at least px + 1, and one of at most px from a quotient below px + 1.
LEMMA QuotOver ==
  ASSUME NEW n \in Nat, NEW d \in Nat \ {0}, NEW px \in Nat,
         px < QuotAsI64(n, d)
  PROVE  (px + 1) * d <= n + Grain(n)
<1>1. QuotAsI64(n, d) \in 0 .. I64Max
  BY QuotType
<1>2. px + 1 \in 0 .. I64Max /\ px + 1 <= QuotAsI64(n, d)
  BY <1>1, WidthAssumption
<1> QED
  BY <1>2, QuotAbove

LEMMA QuotUnder ==
  ASSUME NEW n \in Nat, NEW d \in Nat, NEW px \in Nat, px < I64Max,
         QuotAsI64(n, d) <= px
  PROVE  n - Grain(n) < (px + 1) * d \/ (n = 0 /\ d = 0)
<1>1. px + 1 \in 0 .. I64Max
  BY WidthAssumption
<1>2. QuotAsI64(n, d) \in Nat
  BY QuotType, WidthAssumption
<1> QED
  BY <1>1, <1>2, QuotBelow

\* A root that is not saturated errs by less than one.
LEMMA RootAbove ==
  ASSUME NEW n \in Nat, NEW px \in Nat \ {0}, RootAsI64(n, px) < I64Max
  PROVE  /\ RootAsI64(n, px) \in Nat
         /\ px * (RootAsI64(n, px) * RootAsI64(n, px)) <= n + Grain(n)
         /\ n - Grain(n) < px * ((RootAsI64(n, px) + 1) * (RootAsI64(n, px) + 1))
<1> DEFINE m == Blurred(n, <<"root", px>>)
           q == m \div px
           r == RootAsI64(n, px)
<1>1. m \in Nat /\ n - Grain(n) <= m /\ m <= n + Grain(n)
  BY BlurredBounds
<1>2. r = Least(Isqrt[q], I64Max)
  BY DEF RootAsI64, F64AsI64
<1> HIDE DEF m
<1>3. q \in Nat /\ q * px <= m /\ m < q * px + px
  BY <1>1, DivBound
<1> HIDE DEF q
<1>4. /\ Isqrt[q] \in Nat /\ Isqrt[q] * Isqrt[q] <= q
      /\ q < (Isqrt[q] + 1) * (Isqrt[q] + 1)
  BY <1>3, IsqrtRoot
<1>5. r = Isqrt[q]
  BY <1>2, <1>4, WidthAssumption DEF Least
<1> HIDE DEF r
<1> DEFINE z == r * r
           w == (r + 1) * (r + 1)
<1>6. r \in Nat /\ z \in Nat /\ z <= q /\ w \in Nat /\ q + 1 <= w
  BY <1>3, <1>4, <1>5
<1> HIDE DEF z, w
<1>7. z * px <= q * px /\ (q + 1) * px <= w * px
  BY <1>3, <1>6, ProductLe
<1>8. px * z <= n + Grain(n) /\ n - Grain(n) < px * w
  BY <1>1, <1>3, <1>6, <1>7, GrainBound
<1> QED
  BY <1>6, <1>8 DEF r, z, w

\* If selling q leaves the pool above px then selling down to px takes q at least,
\* as long as f64 tells px from the next price.
LEMMA SellReaches ==
  ASSUME NEW p, Reserves(p), p.k = p.a_tokens * p.b_tokens,
         NEW px \in 0 .. I64Max, 2 * px < Precision,
         NEW q \in Nat, p.a_tokens + q <= I64Max,
         px < get_amm_px(p, q, "Bid")
  PROVE  /\ p.a_tokens # 0 /\ p.b_tokens # 0
         /\ q <= get_amm_qty(p, px, "Bid")
<1> DEFINE n == p.k * p.df
           x == p.a_tokens + q
           w == x * x
           r == RootAsI64(n, px)
<1>1. n \in Nat /\ x \in Nat /\ w \in Nat /\ px \in Nat
  BY DEF Reserves
<1>2. px < QuotAsI64(n, w)
  BY DEF get_amm_px
<1>3. n # 0
  <2>1. SUFFICES ASSUME n = 0 PROVE FALSE
    OBVIOUS
  <2>2. CASE w = 0
    BY <2>1, <2>2, <1>2 DEF QuotAsI64
  <2>3. CASE w # 0
    <3>1. (px + 1) * w <= n + Grain(n)
      BY ONLY <2>3, <1>1, <1>2, QuotOver
    <3>2. n + Grain(n) = 0
      BY ONLY <2>1, <1>1, GrainBound
    <3> HIDE DEF w, n
    <3>3. (px + 1) * w = px * w + w /\ px * w \in Nat
      BY <1>1
    <3> QED
      BY <3>1, <3>2, <3>3, <2>3, <1>1
  <2> QED
    BY <2>2, <2>3
<1>4. p.a_tokens # 0 /\ p.b_tokens # 0
  BY <1>3 DEF Reserves
<1>5. get_amm_qty(p, px, "Bid") = Greatest(0, r - p.a_tokens)
  BY DEF get_amm_qty
<1>6. w # 0
  BY <1>4 DEF Reserves
<1>7. (px + 1) * w <= n + Grain(n)
  BY ONLY <1>6, <1>1, <1>2, QuotOver
<1>8. r \in 0 .. I64Max
  BY ONLY <1>1, RootType
<1>9. x <= r
  <2>1. CASE px = 0
    BY <2>1, <1>3 DEF RootAsI64
  <2>2. CASE r = I64Max
    BY <2>2
  <2>3. CASE px # 0 /\ r # I64Max
    <3>1. r \in Nat /\ r < I64Max
      BY <2>3, <1>8, WidthAssumption
    <3>2. n - Grain(n) < px * ((r + 1) * (r + 1))
      BY ONLY <2>3, <3>1, <1>1, RootAbove
    <3>3. SUFFICES ASSUME r < x PROVE FALSE
      BY <3>1, <1>1
    <3> HIDE DEF n, r, x
    <3>4. px * ((r + 1) * (r + 1)) <= px * w
      <4>1. r + 1 \in Nat /\ r + 1 <= x
        BY <3>1, <3>3, <1>1
      <4>2. (r + 1) * (r + 1) <= x * (r + 1) /\ (r + 1) * x <= x * x
        BY <4>1, <1>1, ProductLe
      <4> DEFINE s == (r + 1) * (r + 1)
      <4>3. s \in Nat /\ s <= w
        BY <4>1, <4>2, <1>1
      <4> HIDE DEF s, w
      <4>4. s * px <= w * px
        BY <4>3, <1>1, ProductLe
      <4> QED
        BY <4>3, <4>4, <1>1 DEF s
    <3> HIDE DEF w
    <3> DEFINE g == Grain(n)
    <3>5. g \in Nat /\ g * Precision <= n /\ g <= n
      BY <1>1, GrainBound
    <3>6. n - g < px * w
      <4>1. n - g \in Int /\ px * ((r + 1) * (r + 1)) \in Int /\ px * w \in Int
        BY <3>1, <3>5, <1>1
      <4> QED
        BY <4>1, <3>2, <3>4
    <3>7. 2 * n < (2 * px + 1) * w
      BY ONLY <3>6, <1>1, GrainOfPrice, 2 * px < Precision
    <3>8. (px + 1) * w <= n + g
      BY <1>7
    <3> HIDE DEF g
    <3>9. (px + 1) * w = px * w + w /\ (2 * px + 1) * w = 2 * (px * w) + w /\ px * w \in Nat
      BY <1>1
    <3>10. w < 2 * g
      BY <3>5, <3>7, <3>8, <3>9, <1>1
    <3>11. g * (2 * px + 1) <= n
      <4>1. (2 * px + 1) * g <= Precision * g
        BY <3>5, <1>1, PrecisionAssumption, ProductLe
      <4>2. (2 * px + 1) * g = g * (2 * px + 1) /\ Precision * g = g * Precision
        BY <3>5, <1>1, PrecisionAssumption
      <4>3. g * (2 * px + 1) \in Nat /\ g * Precision \in Nat
        BY <3>5, <1>1, PrecisionAssumption
      <4> QED
        BY <4>1, <4>2, <4>3, <3>5, <1>1
    <3>12. w * (2 * px + 1) <= (2 * g) * (2 * px + 1)
      BY <3>10, <3>5, <1>1, ProductLe
    <3>13. (2 * g) * (2 * px + 1) = 2 * (g * (2 * px + 1)) /\ w * (2 * px + 1) = (2 * px + 1) * w
      BY <3>5, <1>1
    <3> QED
      BY <3>7, <3>11, <3>12, <3>13, <3>5, <1>1
  <2> QED
    BY <2>1, <2>2, <2>3
<1> HIDE DEF r
<1>10. q <= Greatest(0, r - p.a_tokens)
  BY <1>8, <1>9 DEF Greatest, Reserves
<1> QED
  BY <1>4, <1>5, <1>10

\* A higher price has a smaller root, as long as f64 tells the prices apart.
LEMMA RootAntitone ==
  ASSUME NEW n \in Nat, NEW px \in 0 .. I64Max, NEW fl \in 0 .. I64Max,
         px = fl \/ (px < fl /\ 2 * px < Precision)
  PROVE  RootAsI64(n, fl) <= RootAsI64(n, px)
<1> DEFINE r == RootAsI64(n, fl)
           s == RootAsI64(n, px)
           g == Grain(n)
<1>1. r \in 0 .. I64Max /\ fl * (r * r) <= n + g /\ s \in 0 .. I64Max
  BY RootBound
<1>a. g \in Nat /\ g * Precision <= n /\ g <= n
  BY GrainBound
<1> HIDE DEF g
<1>b. CASE px = fl
  BY <1>1, <1>b, WidthAssumption
<1>2. CASE px = 0 /\ fl # 0
  <2>1. CASE n = 0
    <3> HIDE DEF r, s
    <3>1. r = 0
      BY <1>1, <1>a, <1>2, <2>1, WidthAssumption
    <3> QED
      BY <1>1, <3>1 DEF r, s
  <2>2. CASE n # 0
    <3>1. s = I64Max
      BY <1>2, <2>2 DEF RootAsI64
    <3> QED
      BY <1>1, <3>1, WidthAssumption
  <2> QED
    BY <2>1, <2>2
<1>3. CASE px # 0 /\ px < fl /\ 2 * px < Precision /\ s < I64Max
  <2>1. px \in Nat \ {0} /\ fl \in Nat /\ px + 1 <= fl
    BY <1>3, WidthAssumption
  <2>2. n - g < px * ((s + 1) * (s + 1))
    BY <2>1, <1>3, RootAbove DEF g
  <2> HIDE DEF r, s
  <2>3. ASSUME s < r PROVE FALSE
    <3> DEFINE w == (s + 1) * (s + 1)
    <3>1. r \in Nat /\ s \in Nat /\ s + 1 <= r
      BY <1>1, <2>3, WidthAssumption
    <3>2. w \in Nat /\ r * r \in Nat /\ w <= r * r
      BY <3>1
    <3>3. n - g < px * w
      BY <2>2
    <3> HIDE DEF w
    <3>4. (px + 1) * w <= fl * w /\ fl * w <= fl * (r * r)
      BY <3>2, <2>1, ProductLe
    <3>5. px * w + w <= n + g
      BY <3>2, <3>4, <2>1, <1>1, <1>a
    <3>6. w < 2 * g
      BY <3>2, <3>3, <3>5, <2>1, <1>a
    <3>7. g * (Precision - 1) < px * w
      BY <3>2, <3>3, <2>1, <1>a, PrecisionAssumption
    <3>8. (2 * px) * w <= (Precision - 1) * w
      BY <3>2, <2>1, <1>3, PrecisionAssumption, ProductLe
    <3>9. (Precision - 1) * w <= (Precision - 1) * (2 * g)
      BY <3>2, <3>6, <1>a, PrecisionAssumption
    <3>10. 2 * (px * w) <= 2 * (g * (Precision - 1))
      BY <3>2, <3>8, <3>9, <2>1, <1>a, PrecisionAssumption
    <3> QED
      BY <3>2, <3>7, <3>10, <2>1, <1>a, PrecisionAssumption
  <2> QED
    BY <2>3, <1>1, WidthAssumption DEF r, s
<1>4. CASE s = I64Max
  BY <1>1, <1>4, WidthAssumption
<1> QED
  BY <1>1, <1>b, <1>2, <1>3, <1>4, WidthAssumption

\* It takes less to sell a pool down to a higher price.
LEMMA SellQtyAntitone ==
  ASSUME NEW p, Reserves(p), NEW px \in 0 .. I64Max, NEW fl \in 0 .. I64Max,
         px = fl \/ (px < fl /\ 2 * px < Precision)
  PROVE  get_amm_qty(p, fl, "Bid") <= get_amm_qty(p, px, "Bid")
<1> DEFINE r == RootAsI64(p.k * p.df, fl)
           s == RootAsI64(p.k * p.df, px)
<1>1. p.k * p.df \in Nat /\ p.a_tokens \in Nat
  BY DEF Reserves
<1>2. r \in Nat /\ s \in Nat /\ r <= s
  <2> DEFINE n == p.k * p.df
  <2>1. n \in Nat
    BY <1>1
  <2> HIDE DEF n
  <2>2. RootAsI64(n, fl) \in 0 .. I64Max /\ RootAsI64(n, px) \in 0 .. I64Max
    BY <2>1, RootBound
  <2>3. RootAsI64(n, fl) <= RootAsI64(n, px)
    BY <2>1, RootAntitone
  <2> QED
    BY <2>2, <2>3, WidthAssumption DEF n
<1>3. /\ get_amm_qty(p, fl, "Bid") = Greatest(0, r - p.a_tokens)
      /\ get_amm_qty(p, px, "Bid") = Greatest(0, s - p.a_tokens)
  BY DEF get_amm_qty
<1> HIDE DEF r, s
<1> QED
  BY <1>1, <1>2, <1>3 DEF Greatest

\* A pool that pays nothing for a quantity pays nothing for less.
LEMMA SellNothingForLess ==
  ASSUME NEW p, Reserves(p), p.b_tokens <= I64Max, NEW q \in Nat, NEW less \in Nat,
         less <= q, get_amm_sum(p, q, "Bid") = 0
  PROVE  get_amm_sum(p, less, "Bid") = 0
<1> DEFINE a == p.a_tokens
           b == p.b_tokens
           v == p.k \div (a + q)
           u == p.k \div (a + less)
<1>1. CASE a = 0
  BY <1>1 DEF get_amm_sum
<1>2. CASE a # 0
  <2>1. /\ a + q \in Nat \ {0} /\ a + less \in Nat \ {0} /\ a + less <= a + q
        /\ p.k \in Nat /\ b \in Nat
    BY <1>2 DEF Reserves
  <2>2. /\ v \in Nat /\ v * (a + q) <= p.k
        /\ u \in Nat /\ p.k < u * (a + less) + (a + less)
    BY <2>1, DivBound
  <2>3. v <= u
    <3> DEFINE x == a + q
               y == a + less
    <3> HIDE DEF u, v, x, y
    <3>1. x \in Nat \ {0} /\ y \in Nat \ {0} /\ y <= x /\ v * x <= p.k
          /\ p.k < u * y + y /\ p.k \in Nat /\ u \in Nat /\ v \in Nat
      BY <2>1, <2>2 DEF x, y
    <3>2. v * y <= v * x
      BY <3>1
    <3>3. v * y < (u + 1) * y
      BY <3>1, <3>2
    <3> QED
      BY <3>1, <3>3
  <2>4. /\ get_amm_sum(p, q, "Bid") = WrapI64(Greatest(0, b - v))
        /\ get_amm_sum(p, less, "Bid") = WrapI64(Greatest(0, b - u))
    BY <1>2 DEF get_amm_sum
  <2> HIDE DEF u, v
  <2>5. /\ Greatest(0, b - v) \in 0 .. I64Max /\ Greatest(0, b - u) \in 0 .. I64Max
        /\ Greatest(0, b - u) <= Greatest(0, b - v)
    BY <2>1, <2>2, <2>3, WidthAssumption DEF Greatest
  <2>6. /\ get_amm_sum(p, q, "Bid") = Greatest(0, b - v)
        /\ get_amm_sum(p, less, "Bid") = Greatest(0, b - u)
    BY <2>4, <2>5, WrapInside
  <2> QED
    BY <2>5, <2>6
<1> QED
  BY <1>1, <1>2

\* The inequality behind both directions of the curve: n units taken from a
\* reserve that keeps c, with one unit of truncation at each end.
LEMMA CurveSlack ==
  ASSUME NEW n \in Nat \ {0}, NEW c \in Nat \ {0}
  PROVE  n * ((c + 1) * (c + 1)) <= ((n + 1) * c) * (n + c)
<1>1. n * ((c + 1) * (c + 1)) = n * (c * c) + 2 * (n * c) + n
  OBVIOUS
<1>2. ((n + 1) * c) * (n + c) = n * (n * c) + n * (c * c) + n * c + c * c
  OBVIOUS
<1>3. n * c + n <= n * (n * c) + c * c
  <2>1. CASE n = 1
    <3>1. c <= c * c
      OBVIOUS
    <3>2. 1 <= c * c
      BY <3>1
    <3>3. n * c = c /\ n * (n * c) = c
      BY <2>1
    <3> QED
      BY <2>1, <3>2, <3>3
  <2>2. CASE n >= 2
    <3>1. n * c \in Nat /\ n <= n * c
      OBVIOUS
    <3>2. 2 * (n * c) <= n * (n * c)
      BY <2>2, <3>1
    <3>3. c * c \in Nat
      OBVIOUS
    <3> QED
      BY <3>1, <3>2, <3>3
  <2> QED
    BY <2>1, <2>2
<1> QED
  BY <1>1, <1>2, <1>3

\* A reserve brought from q + t down to t takes the other from b to k / t: the
\* q units cost no more than px each, give or take one.
LEMMA BuyPaysPrice ==
  ASSUME NEW q \in Nat \ {0}, NEW t \in Nat \ {0}, NEW b \in Nat, NEW df \in Nat,
         NEW px \in Nat, NEW v \in Nat, b <= v, v * t <= (q + t) * b,
         ((q + t) * b) * df < px * ((t + 1) * (t + 1))
  PROVE  (v - b) * df <= (q + 1) * px
<1> DEFINE m == v - b
           a == q + t
           w == (t + 1) * (t + 1)
<1>1. m \in Nat /\ a \in Nat \ {0} /\ w \in Nat
  OBVIOUS
<1>2. m * t <= q * b
  OBVIOUS
<1>3. q * w <= ((q + 1) * t) * a
  BY CurveSlack
<1>4. (a * b) * df <= px * w
  <2>1. (a * b) * df \in Nat /\ px * w \in Nat
    BY <1>1
  <2> QED
    BY <2>1
<1> HIDE DEF m, a, w
<1>5. ((m * df) * t) * a <= ((q * b) * df) * a
  <2>1. (m * t) * (df * a) <= (q * b) * (df * a)
    BY <1>1, <1>2, ProductLe
  <2> QED
    BY <2>1, <1>1
<1>6. ((q * b) * df) * a <= q * (px * w)
  <2>1. ((a * b) * df) * q <= (px * w) * q
    BY <1>1, <1>4, ProductLe
  <2> QED
    BY <2>1, <1>1
<1>7. q * (px * w) <= ((((q + 1) * px)) * t) * a
  <2>1. (q * w) * px <= (((q + 1) * t) * a) * px
    BY <1>1, <1>3, ProductLe
  <2> QED
    BY <2>1, <1>1
<1>8. ((m * df) * t) * a <= (((q + 1) * px) * t) * a
  <2>1. ((m * df) * t) * a \in Nat /\ ((q * b) * df) * a \in Nat
        /\ q * (px * w) \in Nat /\ (((q + 1) * px) * t) * a \in Nat
    BY <1>1
  <2> QED
    BY <2>1, <1>5, <1>6, <1>7
<1>9. m * df <= (q + 1) * px
  <2> DEFINE x == m * df
             y == (q + 1) * px
             d == t * a
  <2>1. x \in Nat /\ y \in Nat /\ d \in Nat \ {0}
    BY <1>1
  <2>2. x * d <= y * d
    BY <1>8, <1>1
  <2> HIDE DEF x, y, d
  <2>3. x <= y
    BY <2>1, <2>2
  <2> QED
    BY <2>3 DEF x, y
<1> QED
  BY <1>9 DEF m

\* If paying all, up to y, would leave the pool above px, then buying until it
\* has px costs at most the price of one more unit beyond y.
LEMMA BuyStopsNear ==
  ASSUME NEW k \in Nat \ {0}, NEW t \in Nat \ {0}, NEW df \in Nat, NEW px \in Nat,
         NEW y \in Nat, NEW v \in Nat, v * t <= k,
         k * df < px * ((t + 1) * (t + 1)),
         (px + 1) * k <= (y * y) * df
  PROVE  /\ (v - y) * t <= v
         /\ v < 2 * y
<1> DEFINE w == (t + 1) * (t + 1)
           c == y * (t + 1)
<1>1. w \in Nat \ {0} /\ c \in Nat
  OBVIOUS
<1>2. k < c
  <2>1. SUFFICES ASSUME c <= k PROVE FALSE
    BY <1>1
  <2>2. c * c <= k * k
    BY <2>1, <1>1
  <2>3. (c * c) * df <= (k * k) * df
    <3>1. c * c \in Nat /\ k * k \in Nat
      BY <1>1
    <3> QED
      BY <3>1, <2>2, ProductLe
  <2>4. (c * c) * df = ((y * y) * df) * w
    OBVIOUS
  <2> HIDE DEF w, c
  <2>5. ((px + 1) * k) * w <= ((y * y) * df) * w
    <3>1. (px + 1) * k \in Nat /\ (y * y) * df \in Nat
      OBVIOUS
    <3> QED
      BY <3>1, <1>1, ProductLe
  <2>6. (k * df) * k < (px * w) * k
    <3>1. k * df \in Nat /\ px * w \in Nat /\ k * df < px * w
      BY <1>1 DEF w
    <3> QED
      BY <3>1
  <2>7. ((px + 1) * k) * w = (px * w) * k + k * w /\ (k * df) * k = (k * k) * df
    BY <1>1
  <2>8. k * w \in Nat /\ (px * w) * k \in Nat /\ (k * k) * df \in Nat
        /\ ((y * y) * df) * w \in Nat
    BY <1>1
  <2> QED
    BY <2>3, <2>4, <2>5, <2>6, <2>7, <2>8
<1>3. v * t < y * t + y
  <2>1. c = y * t + y /\ v * t \in Nat
    OBVIOUS
  <2> QED
    BY <2>1, <1>2
<1>4. (v - y) * t < y
  BY <1>3
<1>5. v < 2 * y
  <2>1. y # 0
    BY <1>3
  <2>2. y <= y * t
    OBVIOUS
  <2>3. y * t + y <= (2 * y) * t
    BY <2>2
  <2>4. v * t < (2 * y) * t
    BY <1>3, <2>3
  <2> QED
    BY <2>4
<1>6. (v - y) * t <= v
  <2>1. CASE v <= y
    <3>1. (v - y) * t <= 0
      BY <2>1
    <3> QED
      BY <3>1
  <2>2. CASE y < v
    BY <2>2, <1>4
  <2> QED
    BY <2>1, <2>2
<1> QED
  BY <1>5, <1>6

\* Paying r into a pool that stays below px + 1 buys at that price or better,
\* also when f64 cannot tell that it stays below.
LEMMA BuyAllPaysPrice ==
  ASSUME NEW a \in Nat \ {0}, NEW b \in Nat \ {0}, NEW r \in Nat, NEW df \in Nat,
         NEW px \in Nat, NEW u \in Nat, u * (b + r) <= a * b,
         b + r <= Precision,
         ((b + r) * (b + r)) * df - Grain(((b + r) * (b + r)) * df)
           <= (px + 1) * (a * b)
  PROVE  u <= a /\ r * df <= (a - u) * (px + 1)
<1> DEFINE y == b + r
           q == a - u
           n == (y * y) * df
           g == Grain(n)
<1>1. y \in Nat \ {0} /\ b <= y /\ (b + 1 <= y \/ r = 0) /\ y <= Precision
  OBVIOUS
<1>2. u <= a
  <2>1. a * b <= a * y
    OBVIOUS
  <2>2. u * y <= a * y
    BY <2>1
  <2> HIDE DEF y
  <2> QED
    BY <2>2, <1>1
<1>3. q \in Nat /\ a * r <= q * y
  BY <1>2
<1>4. CASE r = 0
  <2>1. r * df = 0 /\ (a - u) * (px + 1) \in Nat
    BY <1>3, <1>4
  <2> QED
    BY <2>1, <1>2
<1>5. CASE r # 0
  <2>1. n \in Nat
    BY <1>1
  <2>2. g \in Nat /\ g * Precision <= n /\ n - g <= (px + 1) * (a * b)
    BY <2>1, GrainBound
  <2>3. n = (y * df) * y
    OBVIOUS
  <2>4. b + 1 <= y
    BY <1>5
  <2> HIDE DEF g, n, y, q
  <2>5. g <= y * df
    <3>1. g * Precision <= (y * df) * Precision
      <4>1. y * (y * df) <= Precision * (y * df)
        BY <1>1, PrecisionAssumption, ProductLe
      <4> QED
        BY <4>1, <2>1, <2>2, <2>3, <1>1, PrecisionAssumption
    <3> QED
      BY <3>1, <2>2, <1>1, PrecisionAssumption
  <2> DEFINE c == (px + 1) * a
             z == y * df
  <2>6. c \in Nat \ {0} /\ z \in Nat /\ z * y - g <= c * b /\ g <= z
    BY <2>1, <2>2, <2>3, <2>5, <1>1
  <2> HIDE DEF c, z
  <2>7. z <= c
    <3>1. SUFFICES ASSUME c + 1 <= z PROVE FALSE
      BY <2>6
    <3>2. z * (y - 1) <= c * b
      BY <2>6, <2>2, <1>1
    <3>3. z * b <= z * (y - 1)
      BY <2>4, <2>6, <1>1, ProductLe
    <3>4. (c + 1) * b <= z * b
      BY <3>1, <2>6, ProductLe
    <3>5. (c + 1) * b = c * b + b
      BY <2>6
    <3> QED
      BY <3>2, <3>3, <3>4, <3>5, <2>6, <1>1
  <2>8. (r * df) * a <= (q * (px + 1)) * a
    <3>1. (a * r) * df <= (q * y) * df
      BY <1>1, <1>3, ProductLe
    <3>2. z * q <= c * q
      BY <2>6, <2>7, <1>3, ProductLe
    <3>3. (a * r) * df = (r * df) * a /\ (q * y) * df = z * q
          /\ c * q = (q * (px + 1)) * a
      BY <1>1, <1>3 DEF z, c
    <3>4. (r * df) * a \in Nat /\ z * q \in Nat /\ (q * (px + 1)) * a \in Nat
      BY <1>3, <2>6
    <3> QED
      BY <3>1, <3>2, <3>3, <3>4
  <2> DEFINE x == r * df
             w == q * (px + 1)
  <2>9. x \in Nat /\ w \in Nat /\ x * a <= w * a
    BY <2>8, <1>3
  <2> HIDE DEF x, w
  <2>10. x <= w
    BY <2>9
  <2> QED
    BY <2>10, <1>2 DEF x, w, q
<1> QED
  BY <1>4, <1>5

\* The inequality once more, with what f64 may be off: it is absorbed unless a
\* single unit is taken from a reserve of two.
LEMMA CurveGrain ==
  ASSUME NEW n \in Nat \ {0}, NEW c \in Nat \ {0}, n # 1 \/ c # 1,
         4 * n < Precision, 4 <= Precision
  PROVE  (n * ((c + 1) * (c + 1))) * Precision
           <= (((n + 1) * c) * (n + c)) * (Precision - 1)
<1> DEFINE w == n * ((c + 1) * (c + 1))
           z == ((n + 1) * c) * (n + c)
           e == n * (n * c) + c * c - n * c - n
           m == Precision - 1
<1>1. w \in Nat /\ z = w + e /\ m \in Nat /\ 4 * n <= m /\ 3 <= m /\ Precision = m + 1
  <2>1. z = n * (n * c) + n * (c * c) + n * c + c * c
    OBVIOUS
  <2>2. w = n * (c * c) + 2 * (n * c) + n
    OBVIOUS
  <2> QED
    BY <2>1, <2>2, PrecisionAssumption
<1>2. e \in Int /\ w <= e * m
  <2>1. CASE n = 1
    <3>1. w = (c + 1) * (c + 1) /\ e = c * c - 1 /\ 2 <= c
      BY <2>1
    <3>2. e = (c + 1) * (c - 1) /\ c - 1 \in Nat /\ c + 1 <= 3 * (c - 1)
      BY <3>1
    <3>3. (c + 1) * (c + 1) <= (c + 1) * (3 * (c - 1))
      BY <3>2, ProductLe
    <3>4. e \in Nat /\ w <= e * 3
      BY <3>1, <3>2, <3>3
    <3>5. e * 3 <= e * m
      BY <3>4, <1>1, ProductLe
    <3> HIDE DEF e, w, m
    <3> QED
      BY <3>4, <3>5, <1>1
  <2>2. CASE n >= 2
    <3>1. 2 * (n * c) <= n * (n * c) /\ n <= n * c
      <4>1. n * c \in Nat /\ n <= n * c
        OBVIOUS
      <4> QED
        BY <4>1, <2>2
    <3>2. c * c <= e /\ c * c \in Nat
      BY <3>1
    <3>3. (c * c) * (4 * n) <= e * m
      <4>1. (c * c) * (4 * n) <= (c * c) * m
        BY <3>2, <1>1, ProductLe
      <4>2. e \in Nat
        BY <3>2
      <4>3. (c * c) * m <= e * m
        <5> HIDE DEF e, m
        <5> QED
          BY <3>2, <4>2, <1>1, ProductLe
      <4>4. (c * c) * (4 * n) \in Nat /\ (c * c) * m \in Nat /\ e * m \in Nat
        <5> HIDE DEF e, m
        <5> QED
          BY <3>2, <4>2, <1>1
      <4> QED
        BY <4>1, <4>3, <4>4
    <3>4. w <= (c * c) * (4 * n)
      <4>1. (c + 1) * (c + 1) <= 4 * (c * c)
        OBVIOUS
      <4>2. (c + 1) * (c + 1) \in Nat /\ 4 * (c * c) \in Nat
        OBVIOUS
      <4>3. ((c + 1) * (c + 1)) * n <= (4 * (c * c)) * n
        BY <4>1, <4>2, ProductLe
      <4> QED
        BY <4>3
    <3>5. e \in Nat
      BY <3>2
    <3>6. e * m \in Nat
      <4> HIDE DEF e, m
      <4> QED
        BY <3>5, <1>1
    <3>7. (c * c) * (4 * n) \in Nat
      OBVIOUS
    <3> HIDE DEF e, m, w
    <3> QED
      BY <3>3, <3>4, <3>5, <3>6, <3>7, <1>1
  <2> QED
    BY <2>1, <2>2
<1> HIDE DEF w, z, e, m
<1>3. w * (m + 1) <= z * m
  <2>1. z * m = w * m + e * m /\ w * (m + 1) = w * m + w
    BY <1>1, <1>2
  <2>2. w * m \in Int /\ e * m \in Int
    BY <1>1, <1>2
  <2> QED
    BY <2>1, <2>2, <1>1, <1>2
<1> QED
  BY <1>1, <1>3 DEF w, z, m

\* A reserve brought from s + n down to s brings the other from a to k / s: no
\* more is given back, at px, than the n units and one.
LEMMA GivesBackAtPrice ==
  ASSUME NEW a \in Nat \ {0}, NEW s \in Nat \ {0}, NEW n \in Nat \ {0},
         NEW df \in Nat \ {0}, NEW px \in Nat, NEW v \in Nat,
         a <= v, v * s <= a * (s + n),
         4 * n < Precision, 4 * df < Precision,
         (a * (s + n)) * px - Grain((a * (s + n)) * px) < df * ((s + 1) * (s + 1))
  PROVE  (v - a) * px <= (n + 1) * df
<1> DEFINE u == v - a
           b == s + n
           w == (s + 1) * (s + 1)
           h == (a * b) * px
           g == Grain(h)
<1>1. u \in Nat /\ b \in Nat \ {0} /\ w \in Nat /\ h \in Nat
  OBVIOUS
<1>2. u * s <= a * n
  OBVIOUS
<1>3. g \in Nat /\ g * Precision <= h /\ g <= h /\ h - g < df * w
  BY <1>1, GrainBound
<1>4. CASE n = 1 /\ s = 1
  <2>1. u <= a /\ h = 2 * (a * px)
    BY <1>2, <1>4
  <2>2. 2 * h < (2 * df + 1) * 4
    <3>1. w = 4
      BY <1>4
    <3>2. h - Grain(h) < df * 4
      BY <1>3, <3>1
    <3>3. 2 * df < Precision /\ df \in Nat /\ 4 \in Nat
      BY PrecisionAssumption
    <3> HIDE DEF h
    <3> QED
      BY <3>2, <3>3, <1>1, GrainOfPrice
  <2> HIDE DEF u, h
  <2>3. a * px <= 2 * df
    BY <2>1, <2>2, <1>1
  <2>4. u * px <= a * px
    BY <2>1, <1>1, ProductLe
  <2>5. u * px \in Nat /\ a * px \in Nat
    BY <1>1
  <2> QED
    BY <2>3, <2>4, <2>5, <1>4 DEF u
<1>5. CASE n # 1 \/ s # 1
  <2> DEFINE m == Precision - 1
             z == ((n + 1) * s) * b
             d == s * b
  <2>1. m \in Nat \ {0} /\ Precision = m + 1 /\ 4 <= Precision
    BY PrecisionAssumption
  <2>2. (n * w) * (m + 1) <= z * m /\ z \in Nat /\ n * w \in Nat
    <3>1. (n * w) * Precision <= (((n + 1) * s) * (n + s)) * (Precision - 1)
      BY <1>5, <2>1, CurveGrain
    <3>2. n + s = b
      OBVIOUS
    <3> QED
      BY <3>1, <3>2, <2>1, <1>1
  <2>3. z = (n + 1) * d /\ d \in Nat \ {0}
    BY <1>1
  <2>4. (u * px) * d <= n * h
    <3>1. (u * s) * (px * b) <= (a * n) * (px * b)
      BY <1>1, <1>2, ProductLe
    <3> QED
      BY <3>1, <1>1
  <2> HIDE DEF u, b, w, h, g, m, z, d
  <2>5. h * m <= (df * w) * (m + 1)
    <3>1. (h - g) * (m + 1) <= (df * w) * (m + 1)
      BY <1>1, <1>3, <2>1, ProductLe
    <3>2. (h - g) * (m + 1) = h * m + h - g * (m + 1)
      BY <1>1, <1>3, <2>1
    <3>3. h * m \in Nat /\ g * (m + 1) <= h
      BY <1>1, <1>3, <2>1
    <3> QED
      BY <3>1, <3>2, <3>3, <1>1, <1>3, <2>1
  <2>6. (n * h) * m <= (((n + 1) * df) * d) * m
    <3>1. (h * m) * n <= ((df * w) * (m + 1)) * n
      BY <2>1, <2>5, <1>1, ProductLe
    <3>2. ((n * w) * (m + 1)) * df <= (z * m) * df
      BY <2>1, <2>2, ProductLe
    <3>3. ((df * w) * (m + 1)) * n = ((n * w) * (m + 1)) * df
          /\ (z * m) * df = (((n + 1) * df) * d) * m
          /\ (h * m) * n = (n * h) * m
      BY <1>1, <2>1, <2>3
    <3>4. (h * m) * n \in Nat /\ ((n * w) * (m + 1)) * df \in Nat /\ (z * m) * df \in Nat
      BY <1>1, <2>1, <2>2
    <3> QED
      BY <3>1, <3>2, <3>3, <3>4
  <2> DEFINE x == u * px
             y == (n + 1) * df
             c == n * h
  <2>7. x \in Nat /\ y \in Nat /\ c \in Nat /\ x * d <= c /\ c * m <= (y * d) * m
    BY <1>1, <2>4, <2>6
  <2> HIDE DEF x, y, c
  <2>8. c <= y * d
    BY <2>1, <2>3, <2>7
  <2>9. x * d <= y * d
    BY <2>3, <2>7, <2>8
  <2>10. x <= y
    BY <2>3, <2>7, <2>9
  <2> QED
    BY <2>10 DEF x, y, u
<1> QED
  BY <1>4, <1>5

\* A pool as DeriverseAmm::new builds it.
OnCurve(p) == /\ Reserves(p)
              /\ p.a_tokens <= I64Max /\ p.b_tokens <= I64Max
              /\ p.k = p.a_tokens * p.b_tokens

\* The code that sizes a purchase towards px by a root and pays for it by a
\* quotient: where both are not zero, the root is what is left of the assets.
LEMMA BuyToPrice ==
  ASSUME NEW p, OnCurve(p), NEW px \in 0 .. I64Max,
         get_amm_qty(p, px, "Ask") # 0,
         get_amm_sum(p, get_amm_qty(p, px, "Ask"), "Ask") # 0
  PROVE  LET q == get_amm_qty(p, px, "Ask")
             t == p.a_tokens - q
             v == p.k \div t
         IN  /\ q \in Nat \ {0} /\ t \in Nat \ {0} /\ v \in Nat
             /\ p.b_tokens <= v /\ v * t <= p.k /\ p.k # 0
             /\ p.k * p.df - Grain(p.k * p.df) < px * ((t + 1) * (t + 1))
             /\ get_amm_sum(p, q, "Ask") = WrapI64(v - p.b_tokens)
<1> DEFINE n == p.k * p.df
           q == get_amm_qty(p, px, "Ask")
           r == RootAsI64(n, px)
           a == p.a_tokens
           b == p.b_tokens
<1>1. /\ a \in 0 .. I64Max /\ b \in 0 .. I64Max /\ p.k = a * b /\ p.k \in Nat
      /\ n \in Nat /\ p.df \in Nat \ {0}
  BY WidthAssumption DEF OnCurve, Reserves
<1>2. r \in 0 .. I64Max
  <2> HIDE DEF n
  <2> QED
    BY <1>1, RootBound
<1>3. q = Greatest(0, a - r)
  BY DEF get_amm_qty
<1>4. q = a - r /\ r < a /\ q \in Nat \ {0}
  <2> HIDE DEF r
  <2> QED
    BY <1>1, <1>2, <1>3, WidthAssumption DEF Greatest
<1>5. ~(a - q <= 0)
  BY DEF get_amm_sum
<1>6. r \in Nat \ {0} /\ a - q = r
  <2> HIDE DEF r, q
  <2> QED
    BY <1>1, <1>2, <1>4, <1>5, WidthAssumption
<1>7. px # 0
  <2>1. SUFFICES ASSUME px = 0 PROVE FALSE
    OBVIOUS
  <2>2. r = 0 \/ r = I64Max
    BY <2>1 DEF RootAsI64
  <2> HIDE DEF r
  <2> QED
    BY <2>2, <1>1, <1>4, <1>6, WidthAssumption
<1>8. n - Grain(n) < px * ((r + 1) * (r + 1))
  <2>1. r < I64Max
    <3> HIDE DEF r
    <3> QED
      BY <1>1, <1>2, <1>4, WidthAssumption
  <2> HIDE DEF n
  <2> QED
    BY <2>1, <1>1, <1>7, RootAbove, WidthAssumption
<1> HIDE DEF r, n
<1> DEFINE v == p.k \div r
           g == Greatest(0, v - b)
<1>9. v \in Nat /\ v * r <= p.k /\ p.k < v * r + r
  BY <1>1, <1>6, DivBound
<1>10. get_amm_sum(p, q, "Ask") = WrapI64(g)
  BY <1>5, <1>6 DEF get_amm_sum
<1> HIDE DEF v, q
<1>11. b <= v
  <2>1. r * b <= a * b
    BY <1>1, <1>2, <1>4, WidthAssumption
  <2>2. SUFFICES ASSUME v + 1 <= b PROVE FALSE
    BY <1>1, <1>9
  <2>3. (v + 1) * r <= b * r
    BY <2>2, <1>1, <1>6, <1>9, ProductLe
  <2> QED
    BY <2>1, <2>3, <1>1, <1>6, <1>9
<1>12. g = v - b
  BY <1>1, <1>9, <1>11 DEF Greatest
<1>13. p.k # 0
  <2>1. SUFFICES ASSUME p.k = 0 PROVE FALSE
    OBVIOUS
  <2>2. v = 0
    BY <2>1, <1>6, <1>9
  <2>3. g = 0
    BY <2>2, <1>1, <1>11, <1>12
  <2>4. WrapI64(g) = 0
    BY <2>3, WrapInside, WidthAssumption
  <2> QED
    BY <2>4, <1>10 DEF q
<1>14. get_amm_sum(p, q, "Ask") = WrapI64(v - b)
  BY <1>10, <1>12
<1> QED
  BY <1>4, <1>6, <1>8, <1>9, <1>11, <1>13, <1>14 DEF q, v, n

\* Paying all of r when that leaves the pool at px or below.
LEMMA BuyForAll ==
  ASSUME NEW p, OnCurve(p), NEW px \in Nat, px < I64Max, NEW r \in Nat,
         p.b_tokens # 0, p.b_tokens + r <= Precision,
         get_reversed_amm_px(p, r) <= px
  PROVE  LET q == get_reversed_amm_qty(p, r)
             y == p.b_tokens + r
         IN  /\ q \in Nat /\ p.k # 0
             /\ p.a_tokens - q = p.k \div y
             /\ WrapI64(p.k \div y) = p.k \div y
             /\ r * p.df <= q * (px + 1)
             /\ (y * y) * p.df - Grain((y * y) * p.df) < (px + 1) * p.k
<1> DEFINE a == p.a_tokens
           b == p.b_tokens
           y == b + r
           n == (y * y) * p.df
           u == p.k \div y
<1>1. /\ a \in 0 .. I64Max /\ b \in 0 .. I64Max /\ b # 0 /\ p.k = a * b /\ p.k \in Nat
      /\ p.df \in Nat \ {0}
  BY WidthAssumption DEF OnCurve, Reserves
<1>2. y \in Nat \ {0} /\ y * y \in Nat \ {0} /\ n \in Nat \ {0}
  BY <1>1, WidthAssumption
<1>3. n - Grain(n) < (px + 1) * p.k
  <2>1. QuotAsI64(n, p.k) <= px
    BY <1>1 DEF get_reversed_amm_px
  <2> HIDE DEF n
  <2> QED
    BY <2>1, <1>1, <1>2, QuotUnder
<1>4. p.k # 0 /\ a # 0
  <2>1. p.k # 0
    <3> HIDE DEF n
    <3> QED
      BY <1>2, <1>3, GrainBound
  <2> QED
    BY <2>1, <1>1, WidthAssumption
<1>5. u \in Nat /\ u * y <= p.k
  <2> HIDE DEF y
  <2> QED
    BY <1>1, <1>2, DivBound
<1> HIDE DEF u
<1>6. u <= a /\ r * p.df <= (a - u) * (px + 1)
  <2>1. /\ a \in Nat \ {0} /\ b \in Nat \ {0} /\ p.df \in Nat
        /\ u * (b + r) <= a * b
        /\ b + r <= Precision
        /\ ((b + r) * (b + r)) * p.df - Grain(((b + r) * (b + r)) * p.df)
             <= (px + 1) * (a * b)
    <3>1. n - Grain(n) <= (px + 1) * p.k
      <4> HIDE DEF n
      <4> QED
        BY <1>1, <1>2, <1>3, GrainBound
    <3> QED
      BY <3>1, <1>1, <1>2, <1>4, <1>5, WidthAssumption
  <2> HIDE DEF a, b, y, n
  <2> QED
    BY <2>1, <1>5, BuyAllPaysPrice
<1>7. WrapI64(u) = u
  <2> HIDE DEF a, b, y, n
  <2> QED
    BY <1>1, <1>5, <1>6, WrapInside, WidthAssumption
<1>8. get_reversed_amm_qty(p, r) = a - u
  BY <1>1, <1>7 DEF get_reversed_amm_qty, u
<1>9. a - u \in Nat /\ a - (a - u) = u
  <2> HIDE DEF a, b, y, n
  <2> QED
    BY <1>1, <1>5, <1>6, WidthAssumption
<1> QED
  BY <1>3, <1>4, <1>6, <1>7, <1>8, <1>9 DEF u

\* get_reversed_amm_sum never pays anything in: it takes out of a pool above
\* px, down to px, and what it buys then is negative, at px or better.
LEMMA BuyBack ==
  ASSUME NEW p, OnCurve(p), NEW px \in 0 .. I64Max,
         px < Precision, 4 * p.b_tokens < Precision, 4 * p.df < Precision
  PROVE  LET m == get_reversed_amm_sum(p, px)
             s == p.b_tokens + m
         IN  /\ m \in Int /\ m <= 0 /\ s \in Nat
             /\ m # 0 /\ s # 0 =>
                  /\ get_reversed_amm_qty(p, m) \in Int
                  /\ p.a_tokens - get_reversed_amm_qty(p, m) = WrapI64(p.k \div s)
                  /\ (m - 1) * p.df <= get_reversed_amm_qty(p, m) * px
                  /\ (s * s) * p.df < (px + 1) * p.k /\ p.k # 0
<1> DEFINE a == p.a_tokens
           b == p.b_tokens
           n == p.k * px
           r == RootAsI64(n, p.df)
           m == get_reversed_amm_sum(p, px)
           s == b + m
<1>1. /\ a \in 0 .. I64Max /\ b \in 0 .. I64Max /\ p.k = a * b /\ p.k \in Nat
      /\ p.df \in Nat \ {0} /\ px \in Nat /\ n \in Nat
  BY WidthAssumption DEF OnCurve, Reserves
<1>2. r \in Nat
  <2> HIDE DEF n
  <2>1. RootAsI64(n, p.df) \in 0 .. I64Max
    BY <1>1, RootType
  <2> QED
    BY <2>1, WidthAssumption
<1>3. /\ b = 0 => m = 0
      /\ b # 0 => m = -Greatest(0, b - r)
  BY DEF get_reversed_amm_sum
<1> HIDE DEF r, m
<1>4. m \in Int /\ m <= 0 /\ s \in Nat /\ (m # 0 => b # 0 /\ s = r /\ r < b /\ m = r - b)
  BY <1>1, <1>2, <1>3, WidthAssumption DEF Greatest
<1>5. ASSUME m # 0, s # 0
      PROVE  /\ get_reversed_amm_qty(p, m) \in Int
             /\ a - get_reversed_amm_qty(p, m) = WrapI64(p.k \div s)
             /\ (m - 1) * p.df <= get_reversed_amm_qty(p, m) * px
             /\ (s * s) * p.df < (px + 1) * p.k /\ p.k # 0
  <2> DEFINE v == p.k \div s
             z == WrapI64(v)
             q == get_reversed_amm_qty(p, m)
  <2>1. r \in Nat \ {0} /\ s = r /\ r < b /\ b # 0 /\ r < I64Max /\ b \in Nat /\ a \in Nat
    BY <1>1, <1>2, <1>4, <1>5, WidthAssumption
  <2>2. /\ p.df * (r * r) <= n + Grain(n)
        /\ n - Grain(n) < p.df * ((r + 1) * (r + 1))
    <3> HIDE DEF n
    <3> QED
      BY <1>1, <2>1, RootAbove DEF r
  <2>3. v \in Nat /\ v * s <= p.k /\ p.k < v * s + s
    <3> HIDE DEF s
    <3> QED
      BY <1>1, <2>1, DivBound
  <2>4. q = a - z
    BY <2>1 DEF get_reversed_amm_qty
  <2> HIDE DEF v, q
  <2>5. z \in Int /\ z <= v
    BY <2>3, WidthAssumption DEF WrapI64
  <2> HIDE DEF z
  <2>6. (s * s) * p.df < (px + 1) * p.k /\ p.k # 0
    <3> DEFINE sq == r * r
               g == Grain(n)
    <3>1. sq \in Nat \ {0}
      BY <2>1
    <3>2. g \in Nat /\ g * Precision <= n /\ p.df * sq <= n + g /\ n = px * p.k
      BY <1>1, <2>2, GrainBound
    <3> HIDE DEF g, sq, n
    <3>3. p.df * sq \in Nat \ {0} /\ p.df * sq = sq * p.df
      BY <3>1, <1>1
    <3>4. n # 0
      <4> DEFINE e == p.df * sq
      <4>1. e \in Nat \ {0} /\ e <= n + g
        BY <3>2, <3>3
      <4> HIDE DEF e
      <4>2. n = 0 => g = 0
        BY <3>2, PrecisionAssumption
      <4> QED
        BY <4>1, <4>2, <3>2
    <3>5. p.k # 0
      BY <3>2, <3>4, <1>1
    <3>6. g < p.k
      <4>1. px * p.k <= (Precision - 1) * p.k
        BY <1>1, PrecisionAssumption, ProductLe
      <4>2. SUFFICES ASSUME p.k <= g PROVE FALSE
        BY <1>1, <3>2
      <4>3. p.k * Precision <= g * Precision
        BY <4>2, <1>1, <3>2, PrecisionAssumption, ProductLe
      <4>4. p.k * Precision <= (Precision - 1) * p.k
        BY <4>1, <4>3, <3>2, <1>1, PrecisionAssumption
      <4> QED
        BY <4>4, <3>5, <1>1, PrecisionAssumption
    <3>7. sq * p.df < (px + 1) * p.k
      BY <3>2, <3>3, <3>6, <1>1
    <3> QED
      BY <2>1, <3>5, <3>7 DEF sq
  <2>7. a # 0 /\ a <= v
    <3>1. a # 0
      BY <1>1, <2>1, <2>6
    <3>2. a * r <= a * b
      BY <2>1
    <3>3. SUFFICES ASSUME v + 1 <= a PROVE FALSE
      BY <3>1, <2>1, <2>3
    <3>4. (v + 1) * r <= a * r
      BY <3>3, <2>1, <2>3, ProductLe
    <3> QED
      BY <3>2, <3>4, <1>1, <2>1, <2>3
  <2>8. (v - a) * px <= ((b - r) + 1) * p.df
    <3> DEFINE c == b - r
    <3>1. /\ a \in Nat \ {0} /\ r \in Nat \ {0} /\ c \in Nat \ {0}
          /\ p.df \in Nat \ {0} /\ px \in Nat /\ v \in Nat /\ r + c = b
          /\ 4 * c < Precision /\ 4 * p.df < Precision
      BY <1>1, <2>1, <2>3, <2>7, PrecisionAssumption
    <3>2. /\ v * r <= a * (r + c)
          /\ (a * (r + c)) * px - Grain((a * (r + c)) * px)
               < p.df * ((r + 1) * (r + 1))
      <4>1. r + c = b /\ n = (a * b) * px
        BY <3>1, <1>1
      <4> HIDE DEF n, c
      <4> QED
        BY <4>1, <1>1, <2>1, <2>2, <2>3
    <3> HIDE DEF c
    <3>3. (v - a) * px <= (c + 1) * p.df
      BY <3>1, <3>2, <2>7, GivesBackAtPrice
    <3> QED
      BY <3>3 DEF c
  <2>9. (m - 1) * p.df <= q * px
    <3>1. z * px <= v * px
      BY <1>1, <2>3, <2>5
    <3>2. q * px = a * px - z * px /\ (v - a) * px = v * px - a * px
      BY <1>1, <2>1, <2>3, <2>4, <2>5
    <3>3. (m - 1) * p.df = -(((b - r) + 1) * p.df)
      <4> DEFINE c == (b - r) + 1
      <4>1. c \in Nat /\ m - 1 = -c
        BY <1>4, <1>5, <2>1
      <4> HIDE DEF c
      <4>2. (-c) * p.df = -(c * p.df)
        BY <4>1, <1>1
      <4> QED
        BY <4>1, <4>2 DEF c
    <3>4. q * px \in Int /\ z * px \in Int /\ v * px \in Int /\ a * px \in Int
          /\ ((b - r) + 1) * p.df \in Int
      BY <1>1, <2>1, <2>3, <2>4, <2>5
    <3> QED
      BY <3>1, <3>2, <3>3, <3>4, <2>8
  <2> QED
    BY <1>1, <2>1, <2>4, <2>5, <2>6, <2>9 DEF v, q, z
<1> QED
  BY <1>4, <1>5 DEF m

\* It takes out nothing while paying some r into the pool would leave it
\* below px.
LEMMA NoBuyBack ==
  ASSUME NEW p, OnCurve(p), NEW px \in 0 .. I64Max, NEW r \in Nat \ {0},
         2 * (p.b_tokens + r) < Precision,
         get_reversed_amm_px(p, r) < px
  PROVE  get_reversed_amm_sum(p, px) = 0
<1> DEFINE b == p.b_tokens
           y == b + r
           n == (y * y) * p.df
           k == p.k * px
           i == RootAsI64(k, p.df)
<1>1. /\ b \in 0 .. I64Max /\ p.k \in Nat /\ p.df \in Nat \ {0} /\ px \in Nat
      /\ y \in Nat \ {0} /\ b + 1 <= y /\ 2 * y < Precision
      /\ k \in Nat /\ n \in Nat \ {0}
  <2>1. /\ b \in 0 .. I64Max /\ p.k \in Nat /\ p.df \in Nat \ {0} /\ px \in Nat
        /\ y \in Nat \ {0} /\ b + 1 <= y /\ 2 * y < Precision
    BY WidthAssumption DEF OnCurve, Reserves
  <2> HIDE DEF y
  <2>2. k \in Nat
    BY <2>1
  <2>3. y * y \in Nat \ {0}
    BY <2>1
  <2> DEFINE z == y * y
  <2>4. z \in Nat \ {0}
    BY <2>3
  <2> HIDE DEF z
  <2>5. z * p.df \in Nat \ {0}
    BY <2>1, <2>4
  <2> QED
    BY <2>1, <2>2, <2>5 DEF z
<1>2. CASE b = 0
  BY <1>2 DEF get_reversed_amm_sum
<1>3. CASE b # 0
  <2> DEFINE g == Grain(n)
             h == Grain(k)
  <2>1. g \in Nat /\ g * Precision <= n /\ g <= n
    <3> HIDE DEF n
    <3> QED
      BY <1>1, GrainBound
  <2>2. n - g < k
    <3>1. QuotAsI64(n, p.k) < px
      BY <1>3 DEF get_reversed_amm_px
    <3>2. px * p.k = k
      BY <1>1
    <3> HIDE DEF n, k
    <3> QED
      BY <3>1, <3>2, <1>1, QuotBelow
  <2>3. (n - g) - g <= k - h
    <3> HIDE DEF n, k
    <3>1. n - g \in Nat /\ n - g <= k /\ n - g <= n
      BY <1>1, <2>1, <2>2
    <3>2. (n - g) - Grain(n - g) <= k - h
      BY <3>1, <1>1, GrainMonotone
    <3>3. Grain(n - g) <= g
      BY <3>1, <1>1, GrainMonotone
    <3>4. Grain(n - g) \in Nat /\ h \in Nat
      BY <3>1, <1>1, GrainBound
    <3> QED
      BY <3>2, <3>3, <3>4, <1>1, <2>1
  <2>4. 2 * g <= y * p.df
    <3> DEFINE z == y * p.df
    <3>1. z \in Nat /\ n = y * z
      <4> HIDE DEF y
      <4> QED
        BY <1>1
    <3> HIDE DEF n, g, y, z
    <3>2. (2 * y) * g <= Precision * g
      BY <1>1, <2>1, PrecisionAssumption, ProductLe
    <3>3. y * (2 * g) <= y * z
      BY <3>1, <3>2, <1>1, <2>1, PrecisionAssumption
    <3> QED
      BY <3>1, <3>3, <1>1, <2>1 DEF z
  <2>5. (b * b) * p.df <= n - 2 * g
    <3> HIDE DEF n, g, y
    <3>1. b * b + y <= y * y
      <4>1. b * b <= (y - 1) * (y - 1) /\ (y - 1) * (y - 1) + (2 * y - 1) = y * y
        BY <1>1, WidthAssumption
      <4>2. y <= 2 * y - 1
        BY <1>1
      <4> QED
        BY <4>1, <4>2, <1>1, WidthAssumption
    <3>2. b * b + y \in Nat /\ y * y \in Nat /\ b * b \in Nat
      BY <1>1, WidthAssumption
    <3>3. (b * b + y) * p.df <= (y * y) * p.df
      BY <3>1, <3>2, <1>1, ProductLe
    <3>4. (b * b) * p.df + y * p.df <= n
      BY <3>2, <3>3, <1>1 DEF n
    <3>5. (b * b) * p.df \in Nat /\ y * p.df \in Nat
      BY <3>2, <1>1
    <3> QED
      BY <3>4, <3>5, <2>1, <2>4, <1>1
  <2>6. b <= i
    <3>1. i \in 0 .. I64Max
      <4> HIDE DEF k
      <4> QED
        BY <1>1, RootType
    <3>2. SUFFICES ASSUME i < b PROVE FALSE
      <4> HIDE DEF i
      <4> QED
        BY <3>1, <1>1, WidthAssumption
    <3>3. i < I64Max
      <4> HIDE DEF i
      <4> QED
        BY <3>1, <3>2, <1>1, WidthAssumption
    <3>4. k - h < p.df * ((i + 1) * (i + 1))
      <4> HIDE DEF k
      <4> QED
        BY <1>1, <3>3, RootAbove
    <3>5. (i + 1) * (i + 1) <= b * b /\ (i + 1) * (i + 1) \in Nat /\ b * b \in Nat
      <4> HIDE DEF i
      <4>1. i + 1 \in Nat /\ b \in Nat /\ i + 1 <= b
        BY <3>1, <3>2, <1>1, WidthAssumption
      <4> QED
        BY <4>1
    <3> HIDE DEF i
    <3>6. ((i + 1) * (i + 1)) * p.df <= (b * b) * p.df
      BY <3>5, <1>1, ProductLe
    <3>7. h \in Nat
      <4> HIDE DEF k
      <4> QED
        BY <1>1, GrainBound
    <3> HIDE DEF n, k, g, h
    <3> QED
      BY <3>4, <3>5, <3>6, <3>7, <2>1, <2>3, <2>5, <1>1
  <2>7. i \in Nat
    <3> HIDE DEF k
    <3>1. RootAsI64(k, p.df) \in 0 .. I64Max
      BY <1>1, RootType
    <3> QED
      BY <3>1, WidthAssumption
  <2>8. get_reversed_amm_sum(p, px) = -Greatest(0, b - i)
    BY <1>3 DEF get_reversed_amm_sum
  <2> HIDE DEF i
  <2>9. Greatest(0, b - i) = 0
    BY <2>6, <2>7, <1>1, WidthAssumption DEF Greatest
  <2> QED
    BY <2>8, <2>9
<1> QED
  BY <1>2, <1>3

\* A purchase towards px, where paying r would leave the pool above px: it
\* fits the type, and costs at most one more unit of the asset beyond r.
LEMMA BuyNear ==
  ASSUME NEW p, OnCurve(p), NEW px \in 0 .. I64Max, 4 * px < Precision,
         get_amm_qty(p, px, "Ask") # 0,
         get_amm_sum(p, get_amm_qty(p, px, "Ask"), "Ask") # 0,
         NEW r \in Nat, 2 * (p.b_tokens + r) <= I64Max,
         px < get_reversed_amm_px(p, r)
  PROVE  LET q == get_amm_qty(p, px, "Ask")
             m == get_amm_sum(p, q, "Ask")
             t == p.a_tokens - q
         IN  /\ q \in Nat \ {0} /\ t \in Nat \ {0} /\ m \in 0 .. I64Max
             /\ p.b_tokens + m = p.k \div t
             /\ (m - r) * t <= p.b_tokens + m
             /\ m * p.df <= (q + 1) * px + q
             /\ p.k * p.df - Grain(p.k * p.df) < px * ((t + 1) * (t + 1))
<1> DEFINE q == get_amm_qty(p, px, "Ask")
           m == get_amm_sum(p, q, "Ask")
           t == p.a_tokens - q
           v == p.k \div t
           b == p.b_tokens
           y == b + r
           w == (t + 1) * (t + 1)
<1>1. /\ q \in Nat \ {0} /\ t \in Nat \ {0} /\ v \in Nat
      /\ b <= v /\ v * t <= p.k /\ p.k # 0
      /\ p.k * p.df - Grain(p.k * p.df) < px * w
      /\ m = WrapI64(v - b)
  BY BuyToPrice
<1>2. /\ b \in 0 .. I64Max /\ p.k \in Nat \ {0} /\ p.df \in Nat \ {0} /\ px \in Nat
      /\ y \in Nat /\ p.k = p.a_tokens * b /\ p.a_tokens = q + t
  BY <1>1, WidthAssumption DEF OnCurve, Reserves
<1>3. b # 0
  <2> HIDE DEF q, m, t, v
  <2> QED
    BY <1>1, <1>2
<1>4. /\ 4 * (p.k * p.df) < (4 * px + 1) * w
      /\ 2 * (p.k * p.df) < (2 * px + 1) * w /\ w \in Nat
  <2> DEFINE n == p.k * p.df
  <2>1. n \in Nat
    BY <1>2
  <2>2. n - Grain(n) < px * w
    BY <1>1
  <2>3. w \in Nat
    <3> HIDE DEF t
    <3> QED
      BY <1>1
  <2> HIDE DEF n, w
  <2>4. 4 * n < (4 * px + 1) * w
    BY <2>1, <2>2, <2>3, <1>2, GrainOfPrice
  <2>5. 2 * n < (2 * px + 1) * w
    <3>1. 2 * px < Precision
      BY <1>2, PrecisionAssumption
    <3> QED
      BY <2>1, <2>2, <2>3, <3>1, <1>2, GrainOfPrice
  <2> QED
    BY <2>3, <2>4, <2>5 DEF n
<1>5. (4 * px + 2) * p.k <= (y * y) * (4 * p.df)
  <2> DEFINE n == (y * y) * p.df
             g == Grain(n)
  <2>1. px < QuotAsI64(n, p.k)
    BY <1>3 DEF get_reversed_amm_px
  <2>2. n \in Nat
    <3> HIDE DEF y
    <3> QED
      BY <1>2
  <2>3. (y * y) * (4 * p.df) = 4 * n
    <3> HIDE DEF y
    <3> QED
      BY <1>2
  <2> HIDE DEF n
  <2>4. (px + 1) * p.k <= n + g
    BY <2>1, <2>2, <1>2, QuotOver
  <2>5. g \in Nat /\ g * Precision <= n
    BY <2>2, GrainBound
  <2> HIDE DEF g
  <2>6. CASE 2 * g <= p.k
    <3>1. 4 * (px * p.k) + 4 * p.k <= 4 * n + 4 * g
      BY <2>4, <2>2, <2>5, <1>2
    <3>2. (4 * px + 2) * p.k = 4 * (px * p.k) + 2 * p.k
      BY <1>2
    <3> QED
      BY <2>3, <2>6, <3>1, <3>2, <2>2, <2>5, <1>2
  <2>7. CASE p.k < 2 * g
    <3>1. p.k * Precision <= (2 * g) * Precision
      BY <2>7, <2>5, <1>2, PrecisionAssumption, ProductLe
    <3>2. p.k * (4 * px + 1) <= p.k * Precision
      BY <1>2, PrecisionAssumption, ProductLe
    <3>3. p.k * (4 * px + 1) <= 2 * n
      BY <3>1, <3>2, <2>2, <2>5, <1>2, PrecisionAssumption
    <3>4. (4 * px + 2) * p.k = p.k * (4 * px + 1) + p.k
          /\ p.k * (4 * px + 1) = 4 * (px * p.k) + p.k
          /\ px * p.k \in Nat
      BY <1>2
    <3> QED
      BY <2>3, <3>3, <3>4, <2>2, <1>2
  <2> QED
    BY <2>5, <2>6, <2>7, <1>2
<1> HIDE DEF q, m, t, v, y
<1>6. (v - y) * t <= v /\ v < 2 * y
  <2>1. p.k * (4 * p.df) < (4 * px + 1) * w
    <3>1. p.k * (4 * p.df) = 4 * (p.k * p.df)
      BY <1>2
    <3> QED
      BY <3>1, <1>4
  <2>2. ((4 * px + 1) + 1) * p.k <= (y * y) * (4 * p.df)
    <3>1. (4 * px + 1) + 1 = 4 * px + 2
      BY <1>2
    <3> QED
      BY <3>1, <1>5
  <2>3. 4 * p.df \in Nat /\ 4 * px + 1 \in Nat
    BY <1>2
  <2> QED
    BY <1>1, <1>2, <2>1, <2>2, <2>3, BuyStopsNear
<1>7. m = v - b /\ m \in 0 .. I64Max
  <2>1. v - b \in 0 .. I64Max
    BY <1>1, <1>2, <1>6, WidthAssumption DEF y
  <2> QED
    BY <2>1, <1>1, WrapInside
<1>8. m * p.df <= (q + 1) * px + q
  <2>1. v * t <= (q + t) * b /\ ((q + t) * b) * (2 * p.df) < (2 * px + 1) * w
    <3>1. ((q + t) * b) * (2 * p.df) = 2 * (p.k * p.df)
      BY <1>2
    <3> QED
      BY <3>1, <1>1, <1>2, <1>4
  <2>2. 2 * p.df \in Nat /\ 2 * px + 1 \in Nat /\ b \in Nat
    BY <1>2, WidthAssumption
  <2>3. (v - b) * (2 * p.df) <= (q + 1) * (2 * px + 1)
    BY <1>1, <2>1, <2>2, BuyPaysPrice
  <2>4. m * (2 * p.df) = 2 * (m * p.df) /\ m * p.df \in Nat /\ q * px \in Nat
        /\ (q + 1) * (2 * px + 1) = 2 * (q * px) + 2 * px + q + 1
        /\ (q + 1) * px = q * px + px
    BY <1>1, <1>2, <1>7, WidthAssumption
  <2> QED
    BY <2>3, <2>4, <1>1, <1>2, <1>7
<1>9. b + m = v /\ m - r = v - y
  BY <1>1, <1>2, <1>7 DEF y
<1> QED
  BY <1>1, <1>6, <1>7, <1>8, <1>9 DEF q, m, t, v

-----------------------------------------------------------------------------
\* A fee is the rate on what was traded, truncated.
LEMMA FeeOnBounds ==
  ASSUME market.fee \in Nat, NEW m \in Nat
  PROVE  /\ FeeOn(m) \in Nat
         /\ FeeOn(m) * FeeDen <= m * market.fee + Grain(m * market.fee)
         /\ market.fee <= FeeDen /\ m <= I64Max =>
              m * market.fee <= (FeeOn(m) + 1) * FeeDen + Grain(m * market.fee)
         /\ m = 0 => FeeOn(m) = 0
<1> DEFINE n == m * market.fee
           g == Grain(n)
           u == Blurred(n, <<"fee">>)
           v == u \div FeeDen
<1>1. n \in Nat /\ FeeDen \in Nat \ {0} /\ I64Max \in Nat
  BY MarketsAssumption, WidthAssumption
<1>2. FeeOn(m) = Least(v, I64Max)
  BY DEF FeeOn, F64AsI64
<1>3. (m = 0 => n = 0) /\ n = market.fee * m
  BY <1>1
<1> HIDE DEF n
<1>4. u \in Nat /\ n - g <= u /\ u <= n + g /\ g \in Nat /\ (n = 0 => g = 0)
  BY <1>1, BlurredBounds, GrainBound
<1> HIDE DEF u, g
<1>5. v \in Nat /\ v * FeeDen <= u /\ u < v * FeeDen + FeeDen
  BY <1>1, <1>4, DivBound
<1> HIDE DEF v
<1>6. FeeOn(m) \in Nat /\ FeeOn(m) <= v /\ (FeeOn(m) = v \/ FeeOn(m) = I64Max)
  BY <1>1, <1>2, <1>5 DEF Least
<1>7. FeeOn(m) * FeeDen <= n + g
  <2>1. FeeOn(m) * FeeDen <= v * FeeDen
    BY <1>1, <1>5, <1>6, ProductLe
  <2> QED
    BY <2>1, <1>1, <1>4, <1>5, <1>6
<1>8. ASSUME market.fee <= FeeDen, m <= I64Max PROVE n <= (FeeOn(m) + 1) * FeeDen + g
  <2>1. CASE FeeOn(m) = v
    BY <2>1, <1>1, <1>4, <1>5
  <2>2. CASE FeeOn(m) = I64Max
    <3>1. market.fee * m <= FeeDen * m
      BY <1>1, <1>8, ProductLe
    <3>2. m * FeeDen <= I64Max * FeeDen
      BY <1>1, <1>8, ProductLe
    <3>3. (I64Max + 1) * FeeDen = I64Max * FeeDen + FeeDen /\ I64Max * FeeDen \in Nat
      BY <1>1
    <3>4. n <= FeeDen * m /\ FeeDen * m = m * FeeDen /\ FeeDen * m \in Nat
      BY <3>1, <1>1, <1>3
    <3>5. n <= (I64Max + 1) * FeeDen
      BY <3>2, <3>3, <3>4, <1>1
    <3>6. n <= (FeeOn(m) + 1) * FeeDen
      BY <2>2, <3>5
    <3>7. (FeeOn(m) + 1) * FeeDen \in Int
      BY <1>1, <1>6
    <3> QED
      BY <3>6, <3>7, <1>1, <1>4
  <2> QED
    BY <2>1, <2>2, <1>6
<1>9. m = 0 => FeeOn(m) = 0
  <2>1. m = 0 => u = 0
    BY <1>1, <1>3, <1>4
  <2>2. m = 0 => v = 0
    BY <2>1, <1>1, <1>5
  <2> QED
    BY <2>2, <1>6
<1> QED
  BY <1>6, <1>7, <1>8, <1>9 DEF n, g

\* A leg that gives back refunds a fee, truncated the other way.
LEMMA FeeOnRefund ==
  ASSUME market.fee \in Nat, NEW m \in Int, m < 0
  PROVE  /\ FeeOn(m) \in Int
         /\ FeeOn(m) * FeeDen <= m * market.fee + FeeDen + Grain((-m) * market.fee)
         /\ m * market.fee <= FeeOn(m) * FeeDen + Grain((-m) * market.fee)
<1> DEFINE n == (-m) * market.fee
           g == Grain(n)
           u == Blurred(n, <<"fee">>)
           v == u \div FeeDen
<1>1. n \in Nat /\ FeeDen \in Nat \ {0}
  BY MarketsAssumption
<1>2. FeeOn(m) = -v
  BY DEF FeeOn
<1>3. m * market.fee = -n
  OBVIOUS
<1> HIDE DEF n
<1>4. u \in Nat /\ n - g <= u /\ u <= n + g /\ g \in Nat
  BY <1>1, BlurredBounds, GrainBound
<1> HIDE DEF u, g
<1>5. v \in Nat /\ v * FeeDen <= u /\ u < v * FeeDen + FeeDen
  BY <1>1, <1>4, DivBound
<1> HIDE DEF v
<1>6. FeeOn(m) * FeeDen = -(v * FeeDen)
  BY <1>1, <1>2, <1>5
<1> QED
  BY <1>1, <1>2, <1>3, <1>4, <1>5, <1>6 DEF g, n

-----------------------------------------------------------------------------
\* The pool's currency after x units are sold to it is k \div (a + x).  One unit
\* more never takes more from the pool than the first unit would.
LEMMA UnitConcave ==
  ASSUME NEW a \in Nat \ {0}, NEW b \in Nat, NEW x \in Nat
  PROVE  ((a * b) \div (a + x)) - ((a * b) \div (a + x + 1))
           <= b - ((a * b) \div (a + 1))
<1> DEFINE k == a * b
           v == k \div (a + x)
           w == k \div (a + x + 1)
           u == k \div (a + 1)
           c == b - u
           d == a + x + 1
<1>1. k \in Nat /\ a + x \in Nat \ {0} /\ d \in Nat \ {0} /\ a + 1 \in Nat \ {0}
  OBVIOUS
<1>2. v \in Nat /\ v * (a + x) <= k /\ w \in Nat /\ k < w * d + d
      /\ u \in Nat /\ u * (a + 1) <= k
  BY <1>1, DivBound
<1> HIDE DEF v, w, u
<1>3. c * (a + 1) >= b
  <2>1. c * (a + 1) = a * b + b - u * (a + 1)
    BY <1>2
  <2> QED
    BY <2>1, <1>2
<1>4. v <= b
  <2>1. SUFFICES ASSUME b < v PROVE FALSE
    BY <1>2
  <2>2. (b + 1) * (a + x) <= v * (a + x)
    BY <2>1, <1>1, <1>2, ProductLe
  <2>3. (b + 1) * (a + x) = a * b + b * x + a + x
    OBVIOUS
  <2>4. b * x \in Nat
    OBVIOUS
  <2> QED
    BY <1>2, <2>2, <2>3, <2>4
<1>5. c \in Nat
  <2>1. SUFFICES ASSUME c < 0 PROVE FALSE
    BY <1>2
  <2>2. c * (a + 1) < 0
    BY <2>1, <1>2
  <2> QED
    BY <2>2, <1>2, <1>3
<1>6. v <= c * d
  <2>1. c * d = c * (a + 1) + c * x
    BY <1>5
  <2>2. c * x \in Nat
    BY <1>5
  <2> QED
    BY <2>1, <2>2, <1>2, <1>3, <1>4, <1>5
<1>7. (v - c) * d <= k
  <2>1. (v - c) * d = v * (a + x) + v - c * d
    BY <1>2, <1>5
  <2> QED
    BY <2>1, <1>2, <1>5, <1>6
<1>8. v - c <= w
  <2> HIDE DEF c, k
  <2>1. SUFFICES ASSUME w + 1 <= v - c PROVE FALSE
    BY <1>2, <1>5
  <2>2. (w + 1) * d <= (v - c) * d
    BY <2>1, <1>1, <1>2, <1>5, ProductLe
  <2>3. (w + 1) * d = w * d + d
    BY <1>1, <1>2
  <2> HIDE DEF d
  <2> QED
    BY <2>2, <2>3, <1>1, <1>2, <1>5, <1>7
<1> QED
  BY <1>2, <1>5, <1>8 DEF v, w, u

\* What is exact to within Grain is exact to within one part in Precision.
LEMMA GrainShare ==
  ASSUME NEW n \in Nat, NEW u \in Nat
  PROVE  /\ n - Grain(n) <= u => n * (Precision - 1) <= u * Precision
         /\ n - Grain(n) < u => n * (Precision - 1) < u * Precision
<1> DEFINE g == Grain(n)
           m == n - g
<1>1. g \in Nat /\ Precision \in Nat \ {0} /\ g * Precision <= n
  BY PrecisionAssumption, DivBound DEF Grain
<1>2. m * Precision = n * Precision - g * Precision /\ n * (Precision - 1) = n * Precision - n
  BY <1>1
<1> HIDE DEF g
<1>3. n * (Precision - 1) <= m * Precision
  BY <1>1, <1>2
<1>4. m \in Int /\ m * Precision \in Int /\ u * Precision \in Int /\ n * (Precision - 1) \in Int
  BY <1>1
<1>5. ASSUME m <= u PROVE m * Precision <= u * Precision
  BY <1>1, <1>4, <1>5, ProductLe
<1>6. ASSUME m < u PROVE m * Precision < u * Precision
  <2>1. (m + 1) * Precision <= u * Precision
    BY <1>1, <1>4, <1>6, ProductLe
  <2>2. (m + 1) * Precision = m * Precision + Precision
    BY <1>1, <1>4
  <2> HIDE DEF m
  <2> QED
    BY <2>1, <2>2, <1>1, <1>4
<1> HIDE DEF m
<1>7. /\ m <= u => n * (Precision - 1) <= u * Precision
      /\ m < u => n * (Precision - 1) < u * Precision
  BY <1>3, <1>4, <1>5, <1>6
<1> QED
  BY <1>7 DEF m, g

\* Two such errors weigh less than one unit on top of x, as long as x is within
\* half of the precision.
LEMMA Absorbed ==
  ASSUME NEW x \in Nat \ {0}, NEW l \in Nat \ {0}, 2 * x + 2 <= Precision,
         NEW s \in Nat, NEW t \in Nat,
         s * ((x + l) * ((Precision - 1) * (Precision - 1)))
           <= t * (x * (Precision * Precision))
  PROVE  s <= t
<1> DEFINE m == Precision - 2
           A == (x + l) * ((Precision - 1) * (Precision - 1))
           B == x * (Precision * Precision)
           C == (Precision - 1) * (Precision - 1)
<1>1. Precision \in Nat /\ m \in Nat /\ 2 * x <= m
  BY PrecisionAssumption
<1>2. Precision * Precision = m * m + 4 * m + 4 /\ C = m * m + 2 * m + 1
  BY <1>1
<1>3. B <= A
  <2>1. (2 * x) * (2 * m + 3) <= m * (2 * m + 3)
    BY <1>1, ProductLe
  <2>2. (2 * x) * (2 * m + 3) = 2 * (x * (2 * m + 3)) /\ m * (2 * m + 3) = 2 * (m * m) + 3 * m
    BY <1>1
  <2>3. x * (2 * m + 3) <= m * m + 2 * m + 1
    BY <2>1, <2>2, <1>1
  <2>4. B = x * C + x * (2 * m + 3)
    <3>1. Precision * Precision = C + (2 * m + 3)
      BY <1>1, <1>2
    <3>2. C \in Nat /\ 2 * m + 3 \in Nat
      BY <1>1
    <3> HIDE DEF C, m
    <3> QED
      BY <3>1, <3>2
  <2>5. A = x * C + l * C
    BY <1>1
  <2>6. 1 * C <= l * C
    BY <1>1, ProductLe
  <2>7. A \in Nat /\ B \in Nat /\ x * C \in Nat /\ l * C \in Nat /\ C \in Nat
    BY <1>1
  <2>8. x * (2 * m + 3) <= C
    BY <2>3, <1>2
  <2>9. l * C >= C
    BY <2>6, <2>7
  <2>10. x * (2 * m + 3) \in Nat
    BY <1>1
  <2> HIDE DEF A, B, C, m
  <2> QED
    BY <2>4, <2>5, <2>7, <2>8, <2>9, <2>10
<1>4. A \in Nat \ {0} /\ B \in Nat
  BY <1>1
<1>5. s * A <= t * B
  OBVIOUS
<1> HIDE DEF A, B
<1>6. t * B <= t * A
  BY <1>3, <1>4, ProductLe
<1>7. SUFFICES ASSUME t + 1 <= s PROVE FALSE
  OBVIOUS
<1>8. (t + 1) * A <= s * A
  BY <1>4, <1>7, ProductLe
<1>9. (t + 1) * A = t * A + A /\ t * A \in Nat /\ s * A \in Nat /\ t * B \in Nat
  BY <1>4
<1> QED
  BY <1>4, <1>5, <1>6, <1>8, <1>9

\* The product v * l, of which v * x is at most k, when k is bounded by a rate of
\* m per unit at x, and t covers the rate for l units.
LEMMA RateShare ==
  ASSUME NEW k \in Nat, NEW x \in Nat \ {0}, NEW l \in Nat, NEW df \in Nat \ {0},
         NEW m \in Nat, NEW v \in Nat, v * x <= k,
         k * df - Grain(k * df) < m * (x * x),
         NEW t \in Nat, (l * m) * (Precision - 1) <= t * Precision
  PROVE  ((v * l) * df) * ((Precision - 1) * (Precision - 1))
           <= t * (x * (Precision * Precision))
<1> DEFINE E == Precision - 1
           P == Precision
           y == ((v * l) * df) * (E * E)
           z == t * (x * (P * P))
<1>1. E \in Nat /\ P \in Nat
  BY PrecisionAssumption
<1>2. (k * df) * E <= (m * (x * x)) * P
  <2>1. k * df \in Nat /\ m * (x * x) \in Nat
    OBVIOUS
  <2>2. (k * df) * E < (m * (x * x)) * P
    BY <2>1, GrainShare
  <2> QED
    BY <2>1, <2>2, <1>1
<1>3. ((v * x) * (l * df)) * (E * E) <= (k * (l * df)) * (E * E)
  <2>1. (v * x) * (l * df) <= k * (l * df)
    BY ProductLe
  <2> QED
    BY <2>1, <1>1, ProductLe
<1>4. ((k * df) * E) * (l * E) <= ((m * (x * x)) * P) * (l * E)
  BY <1>1, <1>2, ProductLe
<1>5. ((l * m) * E) * ((x * x) * P) <= (t * P) * ((x * x) * P)
  BY <1>1, ProductLe
<1>6. /\ ((v * x) * (l * df)) * (E * E) = y * x
      /\ (k * (l * df)) * (E * E) = ((k * df) * E) * (l * E)
      /\ ((m * (x * x)) * P) * (l * E) = ((l * m) * E) * ((x * x) * P)
      /\ (t * P) * ((x * x) * P) = z * x
  BY <1>1
<1>7. y * x <= z * x /\ y \in Nat /\ z \in Nat
  BY <1>1, <1>3, <1>4, <1>5, <1>6
<1> HIDE DEF y, z
<1>8. SUFFICES ASSUME z + 1 <= y PROVE FALSE
  BY <1>7 DEF y, z
<1>9. (z + 1) * x <= y * x
  BY <1>7, <1>8, ProductLe
<1> QED
  BY <1>7, <1>9

\* Past a point where a unit fetches less than px, the pool pays no more for j
\* units than a g that covers px for each of them.
LEMMA SlopeBelow ==
  ASSUME NEW k \in Nat, NEW x \in Nat \ {0}, NEW j \in Nat, NEW df \in Nat \ {0},
         NEW px \in Nat, NEW g \in Nat, 2 * x + 2 <= Precision,
         k * df - Grain(k * df) < px * (x * x), j * px - Grain(j * px) <= g * df
  PROVE  (k \div x) - (k \div (x + j)) <= g
<1> DEFINE v == k \div x
           w == k \div (x + j)
           d == x + j
           F == (Precision - 1) * (Precision - 1)
           B == x * (Precision * Precision)
<1>1. d \in Nat \ {0} /\ F \in Nat /\ B \in Nat
  BY PrecisionAssumption
<1>2. v \in Nat /\ v * x <= k /\ w \in Nat /\ k < w * d + d
  BY <1>1, DivBound
<1>3. CASE j = 0
  BY <1>2, <1>3
<1>4. CASE j # 0
  <2> HIDE DEF v, w
  <2>1. v * j <= g * d
    <3>1. (j * px) * (Precision - 1) <= (g * df) * Precision
      BY GrainShare
    <3>2. ((v * j) * df) * F <= (g * df) * B
      BY <3>1, <1>2, RateShare
    <3>3. (((v * j) * df) * F) * d <= ((g * df) * B) * d
      <4>1. ((v * j) * df) * F \in Nat /\ (g * df) * B \in Nat
        BY <1>1, <1>2
      <4> QED
        BY <3>2, <4>1, <1>1, ProductLe
    <3>4. /\ (((v * j) * df) * F) * d = ((v * j) * df) * (d * F)
          /\ ((g * df) * B) * d = ((g * d) * df) * B
      BY <1>1, <1>2
    <3>5. (v * j) * df <= (g * d) * df
      <4>1. (v * j) * df \in Nat /\ (g * d) * df \in Nat /\ j \in Nat \ {0}
        BY <1>1, <1>2, <1>4
      <4>2. ((v * j) * df) * (d * F) <= ((g * d) * df) * B
        BY <3>3, <3>4
      <4> QED
        BY <4>1, <4>2, Absorbed
    <3>6. v * j \in Nat /\ g * d \in Nat
      BY <1>1, <1>2
    <3>7. SUFFICES ASSUME g * d + 1 <= v * j PROVE FALSE
      BY <3>6
    <3>8. (g * d + 1) * df <= (v * j) * df
      BY <3>6, <3>7, ProductLe
    <3>9. (g * d + 1) * df = (g * d) * df + df
      BY <3>6
    <3> QED
      BY <3>5, <3>6, <3>8, <3>9
  <2>2. (v - g) * d <= k
    <3>1. (v - g) * d = v * x + v * j - g * d
      BY <1>2
    <3> QED
      BY <3>1, <2>1, <1>1, <1>2
  <2>3. v - g <= w
    <3>1. SUFFICES ASSUME w + 1 <= v - g PROVE FALSE
      BY <1>2
    <3>2. (w + 1) * d <= (v - g) * d
      BY <3>1, <1>1, <1>2, ProductLe
    <3>3. (w + 1) * d = w * d + d
      BY <1>1, <1>2
    <3> HIDE DEF d
    <3> QED
      BY <3>2, <3>3, <1>1, <1>2, <2>2
  <2> QED
    BY <2>3, <1>2 DEF v, w
<1> QED
  BY <1>3, <1>4

\* Past a point where a unit fetches at most px and something, the pool pays for
\* l units less than one unit of currency more than px + 1 for each.
LEMMA SlopeAt ==
  ASSUME NEW k \in Nat, NEW x \in Nat \ {0}, NEW l \in Nat \ {0}, NEW df \in Nat \ {0},
         NEW px \in Nat, NEW g \in Nat, 2 * x + 2 <= Precision,
         k * df - Grain(k * df) < (px + 1) * (x * x), l * px - Grain(l * px) <= g * df
  PROVE  ((k \div x) - (k \div (x + l))) * df <= g * df + l + df
<1> DEFINE v == k \div x
           w == k \div (x + l)
           d == x + l
           e == v - w - 1
           F == (Precision - 1) * (Precision - 1)
           B == x * (Precision * Precision)
<1>1. d \in Nat \ {0} /\ F \in Nat /\ B \in Nat
  BY PrecisionAssumption
<1>2. v \in Nat /\ v * x <= k /\ w \in Nat /\ k < w * d + d
  BY <1>1, DivBound
<1> HIDE DEF v, w
<1>3. e * d <= v * l
  <2>1. e * d = v * x + v * l - (w * d + d)
    BY <1>2
  <2> QED
    BY <2>1, <1>2
<1>4. CASE e < 0
  <2>1. v - w <= 0
    BY <1>2, <1>4
  <2>2. (v - w) * df <= 0
    BY <2>1, <1>2
  <2> QED
    BY <2>2, <1>2 DEF v, w
<1>5. CASE e >= 0
  <2>1. e \in Nat
    BY <1>2, <1>5
  <2> HIDE DEF e, d
  <2>2. ((v * l) * df) * F <= (g * df + l) * B
    <3>1. (l * px) * (Precision - 1) <= (g * df) * Precision
      BY GrainShare
    <3>2. (l * (px + 1)) * (Precision - 1) <= (g * df + l) * Precision
      <4>1. (l * (px + 1)) * (Precision - 1) = (l * px) * (Precision - 1) + l * Precision - l
        BY PrecisionAssumption
      <4>2. (g * df + l) * Precision = (g * df) * Precision + l * Precision
        BY PrecisionAssumption
      <4>3. /\ (l * px) * (Precision - 1) \in Int /\ l * Precision \in Int
            /\ (g * df) * Precision \in Int
        BY PrecisionAssumption
      <4> QED
        BY <3>1, <4>1, <4>2, <4>3
    <3>3. px + 1 \in Nat /\ g * df + l \in Nat
      OBVIOUS
    <3> QED
      BY <3>2, <3>3, <1>2, RateShare
  <2>3. (e * df) * (d * F) <= ((v * l) * df) * F
    <3>1. (e * d) * (df * F) <= (v * l) * (df * F)
      BY <1>1, <1>2, <1>3, <2>1, ProductLe
    <3> QED
      BY <3>1, <1>1, <1>2, <2>1
  <2>4. e * df <= g * df + l
    <3>1. (e * df) * (d * F) <= (g * df + l) * B
      <4>1. (e * df) * (d * F) \in Nat /\ ((v * l) * df) * F \in Nat /\ (g * df + l) * B \in Nat
        BY <1>1, <1>2, <2>1
      <4> QED
        BY <4>1, <2>2, <2>3
    <3>2. e * df \in Nat /\ g * df + l \in Nat
      BY <2>1
    <3> QED
      BY <3>1, <3>2, Absorbed DEF d
  <2>5. (v - w) * df = e * df + df
    BY <1>2 DEF e
  <2> QED
    BY <2>4, <2>5, <2>1 DEF v, w
<1> QED
  BY <1>2, <1>4, <1>5

\* The sum of a line: qty * price, truncated, within one unit and what f64 may
\* be off at that product.
LEMMA TradeSum ==
  ASSUME NEW p, p.df \in Nat \ {0}, NEW q \in Nat, NEW px \in Nat
  PROVE  LET n == q * px
             m == trade_sum(p, q, px)
         IN  /\ m \in Nat
             /\ m * p.df <= n + Grain(n)
             /\ q = 0 => m = 0
             /\ ~TradeSumFails(p, q, px) => n - Grain(n) <= (m + 1) * p.df
<1> DEFINE n == q * px
           g == Grain(n)
           u == SumNumerator(q, px)
           v == u \div p.df
           m == trade_sum(p, q, px)
           df == p.df
<1>1. n \in Nat /\ (q = 0 => n = 0) /\ df \in Nat \ {0} /\ I64Max \in Nat /\ MaxSum \in 0 .. I64Max
  BY WidthAssumption
<1>2. u = Nearby(n, <<"sum", q, px>>, 1)
  BY DEF SumNumerator
<1>3. m = Least(v, I64Max)
  BY DEF trade_sum, F64AsI64
<1>4. TradeSumFails(p, q, px) <=> u > MaxSum * df
  BY DEF TradeSumFails
<1> HIDE DEF n, u, df, m
<1>5. u \in Nat /\ n - g - 1 <= u /\ u <= n + g /\ g \in Nat /\ (n = 0 => g = 0)
  BY <1>1, <1>2, NearbyBounds, GrainBound
<1> HIDE DEF g
<1>6. v \in Nat /\ v * df <= u /\ u < v * df + df
  BY <1>1, <1>5, DivBound DEF df
<1> HIDE DEF v
<1>7. m \in Nat /\ m <= v /\ (v <= I64Max => m = v)
  BY <1>1, <1>3, <1>6 DEF Least
<1>8. m * df <= n + g
  <2>1. m * df <= v * df
    BY <1>1, <1>6, <1>7, ProductLe
  <2>2. m * df \in Nat /\ v * df \in Nat
    BY <1>1, <1>6, <1>7
  <2> QED
    BY <2>1, <2>2, <1>1, <1>5, <1>6
<1>9. ASSUME q = 0 PROVE m = 0
  <2>1. u = 0
    BY <1>1, <1>5, <1>9
  <2>2. v = 0
    BY <2>1, <1>1, <1>6
  <2> QED
    BY <2>2, <1>7
<1>10. ASSUME u <= MaxSum * df PROVE n - g <= (m + 1) * df
  <2>1. v <= MaxSum
    <3>1. SUFFICES ASSUME MaxSum + 1 <= v PROVE FALSE
      BY <1>1, <1>6
    <3>2. (MaxSum + 1) * df <= v * df
      BY <3>1, <1>1, <1>6, ProductLe
    <3>3. (MaxSum + 1) * df = MaxSum * df + df /\ MaxSum * df \in Nat /\ v * df \in Nat
      BY <1>1, <1>6
    <3> QED
      BY <3>2, <3>3, <1>1, <1>5, <1>6, <1>10
  <2>2. m = v
    BY <2>1, <1>1, <1>6, <1>7
  <2>3. (v + 1) * df = v * df + df /\ v * df \in Nat
    BY <1>1, <1>6
  <2> QED
    BY <2>2, <2>3, <1>1, <1>5, <1>6
<1>11. MaxSum * df \in Nat
  BY <1>1
<1> QED
  BY <1>4, <1>5, <1>7, <1>8, <1>9, <1>10, <1>11 DEF n, g, m, df

\* The sum a fresh pool pays.
LEMMA FreshSum ==
  ASSUME NEW p, Reserves(p), p.b_tokens <= I64Max, p.k = p.a_tokens * p.b_tokens,
         p.a_tokens # 0, NEW q \in Nat
  PROVE  /\ get_amm_sum(p, q, "Bid") = p.b_tokens - p.k \div (p.a_tokens + q)
         /\ p.k \div (p.a_tokens + q) \in 0 .. p.b_tokens
<1> DEFINE a == p.a_tokens
           b == p.b_tokens
           v == p.k \div (a + q)
<1>1. a \in Nat \ {0} /\ b \in 0 .. I64Max /\ a + q \in Nat \ {0} /\ p.k \in Nat /\ p.k = a * b
  BY WidthAssumption DEF Reserves
<1>2. v \in Nat /\ v * (a + q) <= p.k
  BY <1>1, DivBound
<1>3. get_amm_sum(p, q, "Bid") = WrapI64(Greatest(0, b - v))
  BY DEF get_amm_sum
<1> HIDE DEF a, b, v
<1>4. v <= b
  <2>1. SUFFICES ASSUME b + 1 <= v PROVE FALSE
    BY <1>1, <1>2
  <2>2. (b + 1) * (a + q) <= v * (a + q)
    BY <2>1, <1>1, <1>2, ProductLe
  <2>3. (b + 1) * (a + q) = a * b + b * q + a + q /\ b * q \in Nat
    BY <1>1
  <2> QED
    BY <2>2, <2>3, <1>1, <1>2
<1>5. Greatest(0, b - v) = b - v /\ b - v \in 0 .. I64Max
  BY <1>1, <1>2, <1>4, WidthAssumption DEF Greatest
<1>6. get_amm_sum(p, q, "Bid") = b - v
  BY <1>3, <1>5, WrapInside
<1> QED
  BY <1>1, <1>2, <1>4, <1>6 DEF a, b, v

\* A pool with an empty side pays nothing, and only such a pool refuses a
\* quantity.
LEMMA EmptyPays ==
  ASSUME NEW p, Reserves(p), p.b_tokens <= I64Max, p.k = p.a_tokens * p.b_tokens, NEW q \in Nat
  PROVE  /\ p.a_tokens = 0 \/ p.b_tokens = 0 => get_amm_sum(p, q, "Bid") = 0
         /\ q = 0 => get_amm_sum(p, q, "Bid") = 0
         /\ q # 0 /\ get_amm_sum(p, q, "Bid") = 0 => p.a_tokens = 0 \/ p.b_tokens = 0
<1>1. CASE p.a_tokens = 0
  BY <1>1, WidthAssumption DEF get_amm_sum, Reserves
<1>2. CASE p.a_tokens # 0
  <2> DEFINE a == p.a_tokens
             b == p.b_tokens
             v == p.k \div (a + q)
  <2>1. get_amm_sum(p, q, "Bid") = b - v /\ v \in 0 .. b
    BY <1>2, FreshSum
  <2>2. a \in Nat \ {0} /\ b \in Nat /\ a + q \in Nat \ {0} /\ p.k \in Nat /\ p.k = a * b
    BY <1>2 DEF Reserves
  <2>3. v \in Nat /\ v * (a + q) <= p.k /\ p.k < v * (a + q) + (a + q)
    BY <2>2, DivBound
  <2>4. ASSUME q = 0 PROVE v = b
    <3>1. v = (a * b) \div a
      BY <2>2, <2>4
    <3> HIDE DEF v, a, b
    <3>2. a * b < v * a + a
      BY <2>2, <2>3, <2>4
    <3>3. SUFFICES ASSUME v + 1 <= b PROVE FALSE
      BY <2>1, <2>2, <2>3
    <3>4. (v + 1) * a <= b * a
      <4>1. v + 1 \in Nat /\ a \in Nat /\ b \in Nat
        BY <2>2, <2>3
      <4> QED
        BY <4>1, <3>3, ProductLe
    <3> QED
      BY <3>2, <3>4, <2>2, <2>3
  <2>5. ASSUME q # 0, v = b PROVE b = 0
    <3>1. b * (a + q) <= a * b
      BY <2>2, <2>3, <2>5
    <3>2. b * (a + q) = a * b + b * q
      BY <2>2
    <3> HIDE DEF a, b
    <3>3. b * q <= 0
      BY <3>1, <3>2, <2>2
    <3>4. SUFFICES ASSUME b >= 1 PROVE FALSE
      BY <2>2
    <3>5. 1 * q <= b * q
      BY <3>4, <2>2, ProductLe
    <3> QED
      BY <3>3, <3>5, <2>2, <2>5
  <2>6. ASSUME b = 0 PROVE v = b
    BY <2>1, <2>6
  <2> HIDE DEF v
  <2> QED
    BY <2>1, <2>2, <2>4, <2>5, <2>6
<1> QED
  BY <1>1, <1>2

\* The rate at which the pool is left after q units were sold to it: below px
\* after one unit more, or at most px as it is.
PoolLeftAt(p, q, px) ==
  LET kdf == p.k * p.df
  IN  \/ kdf - Grain(kdf) < px * ((p.a_tokens + q + 1) * (p.a_tokens + q + 1))
      \/ kdf - Grain(kdf) < (px + 1) * ((p.a_tokens + q) * (p.a_tokens + q))

\* A pool leg of q units and l units sold to lines that fetch g, which is px for
\* each, against all of it sold to the pool.
LEMMA RouteWorth ==
  ASSUME NEW p, Reserves(p), p.b_tokens <= I64Max, p.k = p.a_tokens * p.b_tokens,
         NEW q \in Nat, NEW l \in Nat, NEW g \in Nat,
         2 * (p.a_tokens + q + l) + 2 <= Precision,
         \/ p.a_tokens = 0 \/ p.b_tokens = 0
         \/ l = 0
         \/ \E px \in Nat : l * px - Grain(l * px) <= g * p.df /\ PoolLeftAt(p, q, px)
  PROVE  (get_amm_sum(p, q, "Bid") + g + get_amm_sum(p, 1, "Bid")) * p.df + (q + l)
            >= get_amm_sum(p, q + l, "Bid") * p.df
<1> DEFINE a   == p.a_tokens
           b   == p.b_tokens
           df  == p.df
           s   == get_amm_sum(p, q, "Bid")
           one == get_amm_sum(p, 1, "Bid")
           all == get_amm_sum(p, q + l, "Bid")
<1> SUFFICES (s + g + one) * df + (q + l) >= all * df
  OBVIOUS
<1>1. a \in Nat /\ b \in Nat /\ df \in Nat \ {0} /\ p.k \in Nat /\ p.k = a * b
  BY DEF Reserves
<1>2. s \in Nat /\ one \in Nat /\ all \in Nat
  BY SellSum, <1>1
<1>3. (s + g + one) * df \in Nat /\ (s + g + one) * df = s * df + g * df + one * df
  BY <1>1, <1>2
<1>4. CASE a = 0 \/ b = 0
  <2>1. all = 0
    BY <1>4, EmptyPays
  <2> HIDE DEF s, one, all, df
  <2> QED
    BY <2>1, <1>1, <1>2, <1>3
<1>5. CASE l = 0
  <2>1. all = s
    BY <1>5
  <2>2. s * df \in Nat /\ g * df \in Nat /\ one * df \in Nat
    BY <1>1, <1>2
  <2> HIDE DEF s, one, all, df
  <2> QED
    BY <2>1, <2>2, <1>1, <1>2, <1>3
<1>6. CASE ~(a = 0 \/ b = 0) /\ l # 0
  <2>0. a \in Nat \ {0} /\ b \in Nat \ {0} /\ l \in Nat \ {0}
    BY <1>1, <1>6
  <2>1. PICK px \in Nat : l * px - Grain(l * px) <= g * df /\ PoolLeftAt(p, q, px)
    BY <1>6
  <2> DEFINE k  == a * b
             vq == k \div (a + q)
             vy == k \div (a + q + 1)
             vn == k \div (a + (q + l))
             v1 == k \div (a + 1)
  <2>2. /\ s = b - vq /\ all = b - vn /\ one = b - v1
        /\ vq \in 0 .. b /\ vn \in 0 .. b /\ v1 \in 0 .. b
    <3>1. k = p.k
      BY <1>1
    <3>2. q \in Nat /\ q + l \in Nat /\ 1 \in Nat
      OBVIOUS
    <3> HIDE DEF k
    <3> QED
      BY <3>1, <3>2, <2>0, FreshSum
  <2>3. vy \in Nat
    BY <2>0, DivBound
  <2>4. CASE k * df - Grain(k * df) < px * ((a + q + 1) * (a + q + 1))
    <3>1. vq - vy <= one
      BY <2>0, <2>2, UnitConcave
    <3>2. vy - vn <= g
      <4> DEFINE j == l - 1
                 x == a + q + 1
      <4>1. j \in Nat /\ x \in Nat \ {0} /\ j <= l /\ x + j = a + (q + l)
        BY <2>0
      <4>2. j * px - Grain(j * px) <= g * df
        <5>1. j * px <= l * px /\ j * px \in Nat /\ l * px \in Nat
          BY <4>1, ProductLe
        <5>2. j * px - Grain(j * px) <= l * px - Grain(l * px)
          BY <5>1, GrainMonotone
        <5>3. Grain(j * px) \in Nat /\ Grain(l * px) \in Nat /\ g * df \in Nat
          BY <5>1, <1>1, GrainBound
        <5> QED
          BY <5>1, <5>2, <5>3, <2>1
      <4>3. k * df - Grain(k * df) < px * (x * x) /\ 2 * x + 2 <= Precision
        BY <2>0, <2>4, PrecisionAssumption
      <4>4. k \in Nat
        BY <1>1
      <4> HIDE DEF j, x, k
      <4>5. (k \div x) - (k \div (x + j)) <= g
        BY <4>1, <4>2, <4>3, <4>4, <1>1, SlopeBelow
      <4> QED
        BY <4>1, <4>5 DEF x
    <3> HIDE DEF vq, vy, vn, v1, s, one, all
    <3>3. all <= s + one + g
      BY <3>1, <3>2, <2>2, <2>3, <1>1, <1>2
    <3>4. all * df <= (s + one + g) * df
      BY <3>3, <1>1, <1>2, ProductLe
    <3> QED
      BY <3>4, <1>1, <1>2, <1>3
  <2>5. CASE k * df - Grain(k * df) < (px + 1) * ((a + q) * (a + q))
    <3>1. (vq - vn) * df <= g * df + l + df
      <4> DEFINE x == a + q
      <4>1. x \in Nat \ {0} /\ x + l = a + (q + l) /\ k \in Nat
        BY <2>0
      <4>2. k * df - Grain(k * df) < (px + 1) * (x * x) /\ 2 * x + 2 <= Precision
        BY <2>0, <2>5, PrecisionAssumption
      <4> HIDE DEF x, k
      <4>3. ((k \div x) - (k \div (x + l))) * df <= g * df + l + df
        BY <4>1, <4>2, <2>0, <2>1, <1>1, SlopeAt
      <4> QED
        BY <4>1, <4>3 DEF x
    <3>2. one >= 1
      <4>1. one # 0
        BY <2>0, EmptyPays
      <4> QED
        BY <4>1, <1>2
    <3>3. df <= one * df
      <4>1. 1 * df <= one * df
        BY <3>2, <1>1, <1>2, ProductLe
      <4> QED
        BY <4>1, <1>1
    <3> HIDE DEF vq, vy, vn, v1, s, one, all
    <3>4. (vq - vn) * df = all * df - s * df
      BY <2>2, <1>1, <1>2
    <3>5. s * df \in Nat /\ g * df \in Nat /\ one * df \in Nat /\ all * df \in Nat
      BY <1>1, <1>2
    <3> QED
      BY <3>1, <3>3, <3>4, <3>5, <1>1, <1>2, <1>3
  <2>6. p.k = k
    OBVIOUS
  <2> QED
    BY <2>1, <2>4, <2>5, <2>6 DEF PoolLeftAt
<1> QED
  BY <1>4, <1>5, <1>6
=============================================================================
