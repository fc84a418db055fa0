--------------------------- MODULE QuoteBuyProofs ---------------------------
(***************************************************************************)
(* The guarantees of a buy quote, for every market, width and fee that     *)
(* leave room for the arithmetic: the budget, the price paid, the fees and *)
(* the pool left behind.                                                   *)
(***************************************************************************)
EXTENDS QuoteBuy, AmmMathProofs

\* No cast of the call can wrap: twice the reserve and the amount fit i64, and
\* so does the limit price.  And f64 resolves the currency, the limit price and
\* the decimal factor: four times each is below its precision.
Room ==
  /\ 2 * (market.amm.b_tokens + market.amount) <= I64Max
  /\ market_px(market) + market_px(market) \div 8 < I64Max
  /\ 4 * (market.amm.b_tokens + market.amount) < Precision
  /\ 4 * price < Precision
  /\ 4 * market.amm.df < Precision

\* Trading moves the reserves only.
CurveKept == amm.k = market.amm.k /\ amm.df = market.amm.df

\* While the walk goes on only whole lines have been bought: at the limit or
\* better, within the budget, each with its fee, up to what f64 may be off.
Walking ==
  pc \in {"enter", "loop"} =>
    /\ amm = market.amm
    /\ remaining \in 0 .. input_sum
    /\ filled \in Nat
    /\ Spent * amm.df <= filled * price + Grain(filled * price)
    /\ total_fees \in Nat
    /\ total_fees * FeeDen <= Spent * market.fee + Grain(Spent * market.fee)
    /\ market.fee <= FeeDen =>
         Spent * market.fee <= (total_fees + taken) * FeeDen + Grain(Spent * market.fee)

\* A line of tiny price is asked for a quantity beyond i64, which saturates.
BoughtUnlessSaturated == filled < I64Max => BoughtAtLimitOrBetter

\* The inductive invariant: the promises of the last iteration follow from
\* what holds while the walk goes on.
BuyInv ==
  /\ market \in Markets /\ Room
  /\ TypeOK
  /\ CurveKept
  /\ Walking
  /\ OverspendsByLessThanOneUnit
  /\ BoughtUnlessSaturated
  /\ EveryLegPaysItsFee
  /\ PoolStaysBelowLimit
  /\ PoolOnCurve

-----------------------------------------------------------------------------
\* What the legs of a last iteration give, b and a being the reserves they leave.
SoundPool(pool) ==
  LET a == amm.a_tokens - pool.qty
      b == amm.b_tokens + pool.mints
  IN  /\ pool.qty \in Int /\ pool.mints \in Int /\ pool.mints <= I64Max
      /\ (pool.mints - 1) * amm.df <= (pool.qty + 1) * price + Greatest(pool.qty, 0)
      /\ \/ pool = NoLeg
         \/ a # 0 /\ b = amm.k \div a
         \/ b # 0 /\ a = WrapI64(amm.k \div b)
      /\ \/ pool = NoLeg
         \/ amm.k * amm.df - Grain(amm.k * amm.df) < price * ((a + 1) * (a + 1))
         \/ b * b * amm.df - Grain(b * b * amm.df) < (price + 1) * amm.k

\* A leg against a line costs no more than the limit, but for one unit and what
\* f64 may be off at its worth, or a tick per unit, unless its quantity is
\* saturated.
Paid(line) ==
  line.mints * amm.df <= (line.qty + 1) * price + Grain(line.qty * price)
PaidToTheTick(line) == line.mints * amm.df <= (line.qty + 1) * price + line.qty

SoundLine(line) ==
  /\ line.qty \in Nat /\ line.mints \in 0 .. I64Max
  /\ Paid(line) \/ PaidToTheTick(line) \/ line.qty >= I64Max

\* The legs of an iteration: they overdraw the budget by less than one unit,
\* and an iteration that goes on takes one line that is paid for.
SoundLegs(pool, line, next) ==
  /\ SoundPool(pool) /\ SoundLine(line)
  /\ line = NoLeg \/ taken' = taken + 1
  /\ Paid(line) \/ pool.qty >= 0
  /\ LET left == remaining - (pool.mints + line.mints)
     IN  left < 0 => -left * (amm.a_tokens - pool.qty) <= amm.b_tokens + pool.mints
  /\ next \in {"loop", "stopped"}
  /\ next = "loop" => /\ pool = NoLeg /\ line.mints <= remaining
                      /\ line.mints * amm.df <= line.qty * price + Grain(line.qty * price)

SoundStep(pool, line, fails, next) ==
  /\ pc = "loop"
  /\ taken' \in {taken, taken + 1} /\ taken' <= Len(market.lines)
  /\ fails \/ SoundLegs(pool, line, next)
  /\ Trade(pool, line, fails, next)

SoundTrade == \E pool, line, fails, next : SoundStep(pool, line, fails, next)

-----------------------------------------------------------------------------
\* A market as MarketsAssumption gives it, with room.
LEMMA MarketFacts ==
  ASSUME market \in Markets, Room
  PROVE  /\ market \in Market /\ market.lines \in Seq(Line) /\ Len(market.lines) \in Nat
         /\ OnCurve(market.amm) /\ market.amm \in Pool
         /\ market.fee \in Nat /\ FeeDen \in Nat \ {0}
         /\ market.amount \in I64
         /\ input_sum \in 0 .. market.amount
         /\ price \in Nat /\ price < I64Max
         /\ market.amount < Precision
<1>1. market \in Market /\ market.amm.a_tokens \in I64 /\ market.amm.b_tokens \in I64
      /\ market.amm = NewPool(market.amm.a_tokens, market.amm.b_tokens, market.amm.df)
      /\ FeeDen \in Nat \ {0}
  BY MarketsAssumption
<1>2. market.amm \in Pool /\ market.amount \in I64 /\ market.fee \in Nat
      /\ market.lines \in Seq(Line)
      /\ market.last_px \in I64 /\ market.best_bid \in I64 /\ market.best_ask \in I64
  BY <1>1 DEF Market
<1>3. market.amm.k = market.amm.a_tokens * market.amm.b_tokens
  BY <1>1 DEF NewPool
<1>4. OnCurve(market.amm)
  BY <1>1, <1>2, <1>3, WidthAssumption DEF Pool, Reserves, OnCurve, I64
<1>r. market.amount < Precision
  <2>1. market.amount \in Nat /\ market.amm.b_tokens \in Nat
    BY <1>1, <1>2, WidthAssumption DEF I64
  <2>2. 4 * (market.amm.b_tokens + market.amount) < Precision
    BY DEF Room
  <2> QED
    BY <2>1, <2>2, PrecisionAssumption
<1>5. input_sum \in 0 .. market.amount
  <2> DEFINE x == market.amount
             d == FeeDen + market.fee
             n == x * FeeDen
             near == Blurred(n, <<"input_sum">>)
  <2>1. x \in Nat /\ d \in Nat \ {0} /\ n \in Nat /\ FeeDen <= d /\ FeeDen \in Nat
    <3>1. x \in Nat
      BY <1>2, WidthAssumption DEF I64
    <3>2. FeeDen \in Nat \ {0} /\ market.fee \in Nat
      BY <1>1, <1>2
    <3>3. d \in Nat \ {0} /\ FeeDen <= d
      BY <3>2
    <3> HIDE DEF x, d
    <3> QED
      BY <3>1, <3>2, <3>3
  <2>2. n <= x * d
    <3>1. FeeDen * x <= d * x
      BY <2>1, ProductLe
    <3> HIDE DEF d, x
    <3> QED
      BY <3>1, <2>1
  <2> DEFINE v == near \div d
  <2>n. n = x * FeeDen /\ x < Precision
    BY <1>r
  <2> HIDE DEF n, d, x
  <2>b. near \in Nat /\ near <= n + Grain(n)
    BY <2>1, BlurredBounds
  <2> HIDE DEF near
  <2>3. v \in Nat /\ v * d <= near
    BY <2>1, <2>b, DivBound
  <2> HIDE DEF v
  <2>4. v <= x
    <3> SUFFICES ASSUME x + 1 <= v PROVE FALSE
      BY <2>1, <2>3
    <3> DEFINE g == Grain(n)
    <3>1. g \in Nat /\ g * Precision <= n
      BY <2>1, GrainBound
    <3>2. near <= n + g
      BY <2>b
    <3> HIDE DEF g
    <3>3. (x + 1) * FeeDen <= (x + 1) * d /\ (x + 1) * d <= v * d
      BY <2>1, <2>3, ProductLe
    <3>4. (x + 1) * FeeDen = n + FeeDen
      BY <2>1, <2>n
    <3>5. (x + 1) * FeeDen \in Nat /\ (x + 1) * d \in Nat /\ v * d \in Nat
      BY <2>1, <2>3
    <3>6. FeeDen <= g
      BY <3>1, <3>2, <3>3, <3>4, <3>5, <2>1, <2>3, <2>b
    <3>7. FeeDen * Precision <= g * Precision
      BY <3>1, <3>6, <2>1, PrecisionAssumption, ProductLe
    <3>8. x * FeeDen < Precision * FeeDen
      <4>1. FeeDen \in Nat \ {0}
        BY <1>1
      <4>2. Precision * FeeDen = x * FeeDen + (Precision - x) * FeeDen
        BY <2>1, PrecisionAssumption
      <4>3. Precision - x \in Nat \ {0}
        BY <2>1, <2>n, PrecisionAssumption
      <4>4. (Precision - x) * FeeDen \in Nat \ {0}
        BY <4>1, <4>3
      <4> QED
        BY <4>2, <4>4, <2>1
    <3> QED
      BY <3>1, <3>7, <3>8, <2>1, <2>n, PrecisionAssumption
  <2> QED
    BY <2>1, <2>3, <2>4 DEF input_sum, v, near, n, d, x
<1>6. price \in Nat /\ price < I64Max
  <2> DEFINE px == market_px(market)
             up == px \div 8
  <2>1. px \in Nat
    BY <1>2, WidthAssumption DEF market_px, I64
  <2> HIDE DEF px
  <2>2. up \in Nat
    BY <2>1
  <2>3. px + up < I64Max
    BY DEF Room, px
  <2>4. price = WrapI64(px + up)
    BY DEF price, limit_price, px
  <2> HIDE DEF up
  <2>5. px + up \in 0 .. I64Max
    BY <2>1, <2>2, <2>3, WidthAssumption
  <2>6. price = px + up
    BY <2>4, <2>5, WrapInside
  <2> QED
    BY <2>1, <2>2, <2>3, <2>6
<1> QED
  BY <1>1, <1>2, <1>4, <1>5, <1>6, <1>r

\* What a branch of the loop starts from.
LEMMA LoopFacts ==
  ASSUME BuyInv, pc = "loop"
  PROVE  /\ OnCurve(amm) /\ Reserves(amm) /\ amm = market.amm
         /\ price \in Nat /\ price < I64Max
         /\ remaining \in Nat /\ remaining <= input_sum /\ input_sum \in Nat
         /\ 2 * (amm.b_tokens + remaining) <= I64Max
         /\ taken \in 0 .. Len(market.lines) /\ Len(market.lines) \in Nat
         /\ 4 * (amm.b_tokens + remaining) < Precision
         /\ 4 * price < Precision /\ 4 * amm.df < Precision
<1>1. market \in Markets /\ Room /\ amm = market.amm /\ remaining \in 0 .. input_sum
      /\ taken \in 0 .. Len(market.lines)
  BY DEF BuyInv, Walking, TypeOK
<1>2. OnCurve(amm) /\ market.amount \in Nat /\ input_sum \in 0 .. market.amount
      /\ price \in Nat /\ price < I64Max /\ Len(market.lines) \in Nat
  BY <1>1, MarketFacts, WidthAssumption DEF I64
<1>3. 2 * (amm.b_tokens + remaining) <= I64Max /\ 4 * (amm.b_tokens + remaining) < Precision
  <2>1. PICK b \in Nat : b = amm.b_tokens
    BY <1>2 DEF OnCurve, Reserves
  <2>2. PICK x \in Nat : x = market.amount
    BY <1>2
  <2>3. PICK r \in Nat : r = remaining /\ r <= x
    BY <1>1, <1>2, <2>2
  <2>4. 2 * (b + x) <= I64Max /\ 4 * (b + x) < Precision
    BY <1>1, <2>1, <2>2 DEF Room
  <2>5. 2 * (b + r) <= I64Max /\ 4 * (b + r) < Precision
    BY <2>3, <2>4, WidthAssumption, PrecisionAssumption
  <2> QED
    BY <2>1, <2>3, <2>5
<1>4. 4 * price < Precision /\ 4 * amm.df < Precision
  BY <1>1 DEF Room
<1> QED
  BY <1>1, <1>2, <1>3, <1>4 DEF OnCurve

LEMMA LineFacts ==
  ASSUME BuyInv, pc = "loop", MoreLines
  PROVE  CurrentLine.price \in I64 /\ CurrentLine.qty \in I64 /\ taken + 1 <= Len(market.lines)
<1>1. market.lines \in Seq(Line) /\ taken + 1 \in 1 .. Len(market.lines)
  BY MarketFacts, LoopFacts DEF BuyInv, MoreLines
<1>2. market.lines[taken + 1] \in Line
  BY <1>1
<1> QED
  BY <1>1, <1>2 DEF CurrentLine, Line

LEMMA LineTypes ==
  ASSUME BuyInv, pc = "loop", MoreLines
  PROVE  /\ CurrentLine.price \in Nat /\ CurrentLine.qty \in Nat
         /\ amm.df \in Nat \ {0} /\ price \in Nat
         /\ remaining \in Nat /\ remaining <= I64Max
<1>1. /\ Reserves(amm) /\ price \in Nat /\ remaining \in Nat
      /\ 2 * (amm.b_tokens + remaining) <= I64Max
  BY LoopFacts
<1>2. CurrentLine.price \in Nat /\ CurrentLine.qty \in Nat
  BY LineFacts, WidthAssumption DEF I64
<1>3. amm.df \in Nat \ {0} /\ amm.b_tokens \in Nat
  BY <1>1 DEF Reserves
<1>4. remaining <= I64Max
  BY <1>1, <1>3, WidthAssumption
<1> QED
  BY <1>1, <1>2, <1>3, <1>4

-----------------------------------------------------------------------------
LEMMA LessOneProduct ==
  ASSUME NEW x \in Int, NEW d \in Int
  PROVE  (x - 1) * d = x * d - d
OBVIOUS

LEMMA NegatedProduct ==
  ASSUME NEW x \in Int, NEW y \in Int, NEW d \in Int
  PROVE  -((x - y) * d) = (y - x) * d
OBVIOUS

\* The price of a pool that is paid r.
LEMMA PaidPxType ==
  ASSUME NEW p, OnCurve(p), NEW r \in Nat
  PROVE  get_reversed_amm_px(p, r) \in Nat
<1> DEFINE y == p.b_tokens + r
           n == y * y * p.df
<1>1. p.k \in Nat /\ p.df \in Nat /\ y \in Nat
  BY DEF OnCurve, Reserves
<1> HIDE DEF y
<1>2. n \in Nat
  BY <1>1
<1> HIDE DEF n
<1>3. QuotAsI64(n, p.k) \in Nat
  <2>1. QuotAsI64(n, p.k) \in 0 .. I64Max
    BY <1>1, <1>2, QuotType
  <2> QED
    BY <2>1, WidthAssumption
<1>4. I64Max \div 2 \in Nat
  BY WidthAssumption
<1> QED
  BY <1>3, <1>4 DEF get_reversed_amm_px, n, y

LEMMA AmmPxType ==
  ASSUME BuyInv, pc = "loop"
  PROVE  amm_px \in Nat
BY LoopFacts, PaidPxType DEF amm_px

LEMMA LeastBelow ==
  ASSUME NEW x \in Nat, NEW y \in Nat, NEW z \in Nat, Least(x, y) >= z
  PROVE  z <= y
BY DEF Least

\* What the line the walk stands at is worth, and the price it leaves.
LEMMA LineValueTypes ==
  ASSUME BuyInv, pc = "loop", MoreLines
  PROVE  line_sum \in Nat /\ (remaining > line_sum => next_amm_px \in Nat)
<1>1. amm.df \in Nat \ {0} /\ CurrentLine.qty \in Nat /\ CurrentLine.price \in Nat
      /\ remaining \in Nat /\ OnCurve(amm)
  BY LoopFacts, LineTypes
<1>2. CurrentLine.qty * CurrentLine.price \in Nat
  BY <1>1
<1>3. line_sum \in Nat
  BY <1>1, TradeSum DEF line_sum
<1>4. remaining > line_sum => remaining - line_sum \in Nat
  BY <1>1, <1>3
<1> QED
  BY <1>1, <1>3, <1>4, PaidPxType DEF next_amm_px

\* A pool that is left alone costs nothing and stays within every budget.
LEMMA NoLegSound ==
  ASSUME BuyInv, pc = "loop"
  PROVE  SoundPool(NoLeg)
<1>1. price \in Nat /\ amm.df \in Nat \ {0}
  BY LoopFacts DEF Reserves
<1>2. (0 - 1) * amm.df <= (0 + 1) * price + 0
  BY <1>1
<1> QED
  BY <1>2, WidthAssumption DEF SoundPool, NoLeg, Greatest

\* The part of the pool's leg that counts against what remains.
Overdraws(pool) ==
  LET left == remaining - pool.mints
  IN  left < 0 => -left * (amm.a_tokens - pool.qty) <= amm.b_tokens + pool.mints

\* Buying towards a price the pool would pass if it were paid all that remains.
LEMMA LegToPriceSound ==
  ASSUME BuyInv, pc = "loop", NEW p \in Nat, p <= price, amm_px > p
  PROVE  /\ SoundPool(LegToPrice(p)) /\ Overdraws(LegToPrice(p))
         /\ LegToPrice(p).qty \in Nat /\ LegToPrice(p).mints \in Nat
<1>1. /\ OnCurve(amm) /\ Reserves(amm) /\ price \in Nat /\ price < I64Max /\ remaining \in Nat
      /\ 2 * (amm.b_tokens + remaining) <= I64Max /\ p \in 0 .. I64Max
      /\ 4 * p < Precision
  BY LoopFacts, WidthAssumption, PrecisionAssumption
<1> DEFINE q == get_amm_qty(amm, p, "Ask")
           m == get_amm_sum(amm, q, "Ask")
           t == amm.a_tokens - q
<1>2. CASE q = 0 \/ m = 0
  <2>1. LegToPrice(p) = NoLeg
    BY <1>2 DEF LegToPrice, Leg
  <2>2. ~(remaining - 0 < 0)
    BY <1>1
  <2> QED
    BY <2>1, <2>2, NoLegSound DEF NoLeg, Overdraws
<1>3. CASE q # 0 /\ m # 0
  <2>1. LegToPrice(p) = [qty |-> q, mints |-> m]
    BY <1>3 DEF LegToPrice, Leg
  <2>2. /\ q \in Nat \ {0} /\ t \in Nat \ {0} /\ m \in 0 .. I64Max
        /\ amm.b_tokens + m = amm.k \div t
        /\ (m - remaining) * t <= amm.b_tokens + m
        /\ m * amm.df <= (q + 1) * p + q
        /\ amm.k * amm.df - Grain(amm.k * amm.df) < p * ((t + 1) * (t + 1))
    BY <1>1, <1>3, BuyNear DEF amm_px
  <2> HIDE DEF q, m
  <2>3. (m - 1) * amm.df <= (q + 1) * price + Greatest(q, 0)
    <3>1. p * (q + 1) <= price * (q + 1)
      BY <1>1, <2>2, ProductLe
    <3>2. (m - 1) * amm.df <= m * amm.df
      BY <1>1, <2>2, WidthAssumption DEF Reserves
    <3>3. m * amm.df \in Int /\ (m - 1) * amm.df \in Int
      BY <1>1, <2>2, WidthAssumption DEF Reserves
    <3>4. Greatest(q, 0) = q
      BY <2>2 DEF Greatest
    <3> QED
      BY <3>1, <3>2, <3>3, <3>4, <1>1, <2>2
  <2>4. amm.k * amm.df - Grain(amm.k * amm.df) < price * ((t + 1) * (t + 1))
    <3> DEFINE w == (t + 1) * (t + 1)
    <3>1. w \in Nat
      BY <2>2
    <3> HIDE DEF w
    <3>2. p * w <= price * w
      BY <3>1, <1>1, ProductLe
    <3> DEFINE n == amm.k * amm.df
               g == Grain(n)
    <3>3. n \in Nat
      BY <1>1 DEF Reserves
    <3>4. n - g < p * w
      BY <2>2 DEF w
    <3> HIDE DEF n
    <3>5. g \in Nat
      BY <3>3, GrainBound
    <3> HIDE DEF g
    <3>6. n - g < price * w
      BY <3>1, <3>2, <3>3, <3>4, <3>5, <1>1
    <3> QED
      BY <3>6 DEF w, n, g
  <2>5. Overdraws(LegToPrice(p))
    <3>1. -((remaining - m) * t) = (m - remaining) * t
      BY <1>1, <2>2, NegatedProduct, WidthAssumption
    <3> QED
      BY <3>1, <2>1, <2>2 DEF Overdraws
  <2> QED
    BY <2>1, <2>2, <2>3, <2>4, <2>5, WidthAssumption DEF SoundPool
<1> QED
  BY <1>2, <1>3

\* The last leg, up to the limit or for all that remains.
LEMMA TailLegSound ==
  ASSUME BuyInv, pc = "loop"
  PROVE  SoundPool(TailLeg) /\ Overdraws(TailLeg)
<1>1. /\ OnCurve(amm) /\ Reserves(amm) /\ price \in Nat /\ price < I64Max /\ remaining \in Nat
      /\ 2 * (amm.b_tokens + remaining) <= I64Max
      /\ 4 * (amm.b_tokens + remaining) < Precision
  BY LoopFacts
<1>r. amm.b_tokens + remaining <= Precision
  BY <1>1, PrecisionAssumption DEF Reserves
<1>2. CASE amm_px > price
  BY <1>1, <1>2, LegToPriceSound DEF TailLeg, partial_fill
<1>3. CASE ~(amm_px > price)
  <2> DEFINE q == get_reversed_amm_qty(amm, remaining)
             y == amm.b_tokens + remaining
  <2>1. TailLeg = IF q = 0 THEN NoLeg ELSE [qty |-> q, mints |-> remaining]
    BY <1>3 DEF TailLeg, partial_fill
  <2>2. CASE q = 0
    <3>1. ~(remaining - 0 < 0)
      BY <1>1
    <3> QED
      BY <2>1, <2>2, <3>1, NoLegSound DEF NoLeg, Overdraws
  <2>3. CASE q # 0
    <3>1. amm.b_tokens # 0
      BY <2>3 DEF get_reversed_amm_qty
    <3>2. get_reversed_amm_px(amm, remaining) <= price
      <4>1. get_reversed_amm_px(amm, remaining) \in Int
        BY <1>1, PaidPxType
      <4> QED
        BY <4>1, <1>1, <1>3 DEF amm_px
    <3>3. /\ q \in Nat /\ amm.k # 0
          /\ amm.a_tokens - q = amm.k \div y
          /\ WrapI64(amm.k \div y) = amm.k \div y
          /\ remaining * amm.df <= q * (price + 1)
          /\ (y * y) * amm.df - Grain((y * y) * amm.df) < (price + 1) * amm.k
      BY <1>1, <1>r, <3>1, <3>2, BuyForAll
    <3> HIDE DEF q
    <3>4. (remaining - 1) * amm.df <= (q + 1) * price + Greatest(q, 0)
      <4>0. remaining \in Int /\ amm.df \in Int
        BY <1>1 DEF Reserves
      <4>1. (remaining - 1) * amm.df = remaining * amm.df - amm.df
        BY <4>0, LessOneProduct
      <4>4. q * (price + 1) = q * price + q /\ (q + 1) * price = q * price + price
        BY <1>1, <3>3
      <4>2. Greatest(q, 0) = q
        BY <3>3 DEF Greatest
      <4>3. remaining * amm.df \in Int /\ q * price \in Int /\ amm.df \in Nat
        BY <1>1, <3>3 DEF Reserves
      <4> QED
        BY <4>1, <4>2, <4>3, <4>4, <3>3, <1>1
    <3>5. Overdraws(TailLeg)
      <4>1. ~(remaining - remaining < 0)
        BY <1>1
      <4> QED
        BY <4>1, <2>1, <2>3 DEF Overdraws
    <3>6. y # 0 /\ amm.b_tokens + remaining = y
      BY <3>1, <1>1 DEF Reserves
    <3>7. remaining \in Int /\ remaining <= I64Max
      BY <1>1, WidthAssumption DEF Reserves
    <3> HIDE DEF y
    <3> QED
      BY <2>1, <2>3, <3>3, <3>4, <3>5, <3>6, <3>7 DEF SoundPool
  <2> QED
    BY <2>2, <2>3
<1> QED
  BY <1>2, <1>3

\* What get_reversed_amm_sum takes out of a pool, which is nothing unless the
\* walk ends at the limit.
LEMMA BuyBackSound ==
  ASSUME BuyInv, pc = "loop", NEW p \in Nat, p <= price,
         p = price \/ get_reversed_amm_sum(amm, p) = 0,
         NEW m, m = Least(get_reversed_amm_sum(amm, p), remaining),
         NEW q, ~(amm.b_tokens # 0 /\ amm.b_tokens + m = 0),
         q = get_reversed_amm_qty(amm, m)
  PROVE  SoundPool(Leg(q, m)) /\ Leg(q, m).mints <= 0
<1>1. /\ OnCurve(amm) /\ Reserves(amm) /\ price \in Nat /\ price < I64Max /\ remaining \in Nat
      /\ p \in 0 .. I64Max
  BY LoopFacts, WidthAssumption
<1>r. p < Precision /\ 4 * amm.b_tokens < Precision /\ 4 * amm.df < Precision
  <2>1. /\ 4 * (amm.b_tokens + remaining) < Precision
        /\ 4 * price < Precision /\ 4 * amm.df < Precision
    BY LoopFacts
  <2>2. amm.b_tokens \in Nat
    BY <1>1 DEF Reserves
  <2> QED
    BY <2>1, <2>2, <1>1, PrecisionAssumption
<1> DEFINE s == amm.b_tokens + m
<1>2. get_reversed_amm_sum(amm, p) \in Int /\ get_reversed_amm_sum(amm, p) <= 0
  BY <1>1, <1>r, BuyBack
<1>3. m = get_reversed_amm_sum(amm, p) /\ m \in Int /\ m <= 0
  BY <1>1, <1>2 DEF Least
<1>4. CASE q = 0 \/ m = 0
  BY <1>4, NoLegSound DEF Leg, NoLeg
<1>5. CASE q # 0 /\ m # 0
  <2>1. Leg(q, m) = [qty |-> q, mints |-> m]
    BY <1>5 DEF Leg
  <2>2. p = price
    BY <1>3, <1>5
  <2>3. s # 0
    BY <1>5 DEF get_reversed_amm_qty
  <2>4. /\ q \in Int /\ amm.a_tokens - q = WrapI64(amm.k \div s)
        /\ (m - 1) * amm.df <= q * p
        /\ (s * s) * amm.df < (p + 1) * amm.k /\ amm.k # 0 /\ s \in Nat
    BY <1>1, <1>r, <1>3, <1>5, <2>3, BuyBack
  <2>5. (m - 1) * amm.df <= (q + 1) * price + Greatest(q, 0)
    <3>1. (q + 1) * price = q * price + price
      BY <2>4, <1>1
    <3>2. Greatest(q, 0) \in Int /\ Greatest(q, 0) >= 0
      BY <2>4 DEF Greatest
    <3>3. (m - 1) * amm.df \in Int /\ q * price \in Int
      BY <1>1, <1>3, <2>4 DEF Reserves
    <3> QED
      BY <3>1, <3>2, <3>3, <2>2, <2>4, <1>1
  <2>6. s * s * amm.df - Grain(s * s * amm.df) < (price + 1) * amm.k
    <3> DEFINE n == s * s * amm.df
    <3>1. n < (price + 1) * amm.k
      BY <2>2, <2>4
    <3>2. n \in Nat /\ (price + 1) * amm.k \in Nat
      <4>1. amm.df \in Nat /\ amm.k \in Nat
        BY <1>1 DEF Reserves
      <4> HIDE DEF s
      <4> QED
        BY <4>1, <2>4, <1>1
    <3> HIDE DEF n
    <3>3. Grain(n) \in Nat
      BY <3>2, GrainBound
    <3>4. n - Grain(n) < (price + 1) * amm.k
      BY <3>1, <3>2, <3>3
    <3> QED
      BY <3>4 DEF n
  <2>7. s = amm.b_tokens + m
    OBVIOUS
  <2> HIDE DEF s
  <2>8. m <= I64Max
    BY <1>3, WidthAssumption
  <2> QED
    BY <2>1, <2>3, <2>4, <2>5, <2>6, <2>7, <2>8, <1>3 DEF SoundPool
<1> QED
  BY <1>4, <1>5

\* A line at or below the limit that trade_sum accepts is worth its quantity.
LEMMA WholeLineSound ==
  ASSUME BuyInv, pc = "loop", MoreLines, CurrentLine.price <= price, ~LineFails
  PROVE  /\ SoundLine(WholeLine) /\ Paid(WholeLine)
         /\ WholeLine.mints * amm.df
              <= WholeLine.qty * price + Grain(WholeLine.qty * price)
<1> DEFINE lp == CurrentLine.price
           lq == CurrentLine.qty
           n  == lq * lp
           w  == lq * price
           v  == line_sum
<1>1. lp \in Nat /\ lq \in Nat /\ amm.df \in Nat \ {0} /\ price \in Nat
  BY LineTypes
<1>2. v = trade_sum(amm, lq, lp) /\ WholeLine = [qty |-> lq, mints |-> v]
  BY DEF line_sum, WholeLine
<1>3. v \in Nat /\ v * amm.df <= n + Grain(n)
  BY <1>1, <1>2, TradeSum
<1>4. v <= I64Max
  <2>1. v = F64AsI64(SumNumerator(lq, lp) \div amm.df)
    BY <1>2 DEF trade_sum
  <2> HIDE DEF v
  <2> QED
    BY <2>1, <1>3, WidthAssumption DEF F64AsI64, Least
<1>5. n <= w /\ n \in Nat /\ w \in Nat
  <2>1. lp * lq <= price * lq
    BY <1>1, ProductLe
  <2> HIDE DEF lp, lq
  <2> QED
    BY <2>1, <1>1
<1>6. (lq + 1) * price = w + price
  BY <1>1
<1> HIDE DEF n, w, v, lp, lq
<1>7. Grain(n) <= Grain(w) /\ Grain(n) \in Nat /\ Grain(w) \in Nat
  BY <1>5, GrainMonotone, GrainBound
<1>8. v * amm.df <= w + Grain(w) /\ v * amm.df \in Nat
  BY <1>1, <1>3, <1>5, <1>7
<1>9. v * amm.df <= (lq + 1) * price + Grain(w)
  BY <1>1, <1>5, <1>6, <1>7, <1>8
<1>10. w = lq * price
  BY DEF w, lq
<1> QED
  BY <1>1, <1>2, <1>3, <1>4, <1>8, <1>9, <1>10 DEF SoundLine, Paid

\* What remains, spent on a line at or below the limit.
LEMMA RestSound ==
  ASSUME BuyInv, pc = "loop", MoreLines, CurrentLine.price <= price,
         NEW rest \in 1 .. I64Max
  PROVE  SoundLine(RestAtLine(rest)) /\ RestAtLine(rest).mints = rest
<1> DEFINE lp == CurrentLine.price
           n  == rest * amm.df
           q  == QuotAsI64(n, lp)
           v  == n \div lp
<1>1. lp \in Nat /\ amm.df \in Nat \ {0} /\ price \in Nat /\ rest \in Nat \ {0}
  BY LineTypes, WidthAssumption
<1>2. n \in Nat \ {0}
  BY <1>1
<1>3. RestAtLine(rest) = [qty |-> q, mints |-> rest]
  BY DEF RestAtLine
<1> HIDE DEF n, lp
<1>4. CASE lp = 0
  <2>1. q = I64Max
    BY <1>2, <1>4 DEF QuotAsI64
  <2> QED
    BY <2>1, <1>3, <1>1, WidthAssumption DEF SoundLine
<1>5. CASE lp # 0
  <2>1. q \in Nat
    <3>1. QuotAsI64(n, lp) \in 0 .. I64Max
      BY <1>1, <1>2, QuotType
    <3> QED
      BY <3>1, WidthAssumption
  <2>2. ASSUME q < I64Max PROVE n <= (q + 1) * price + q
    <3>1. n - Grain(n) < lp * (q + 1)
      <4>1. n - Grain(n) < (q + 1) * lp
        BY <2>1, <2>2, <1>1, <1>2, <1>5, QuotUnder
      <4> QED
        BY <4>1, <1>1, <2>1
    <3> HIDE DEF q
    <3> DEFINE u == q + 1
               one == 1
    <3>2. one * lp < Precision
      <4>1. 4 * price < Precision
        BY LoopFacts
      <4> QED
        BY <4>1, <1>1, PrecisionAssumption DEF lp
    <3>u. u \in Nat /\ n - Grain(n) < lp * u /\ one \in Nat
      BY <2>1, <3>1
    <3>3. 1 * n < (1 * lp + 1) * (q + 1)
      <4> HIDE DEF u, one
      <4>1. one * n < (one * lp + 1) * u
        BY <3>u, <3>2, <1>1, <1>2, GrainOfPrice
      <4> QED
        BY <4>1 DEF one, u
    <3>4. (lp + 1) * (q + 1) = lp * (q + 1) + q + 1
      BY <2>1, <1>1
    <3>5. lp * (q + 1) <= price * (q + 1)
      BY <1>1, <2>1, ProductLe DEF lp
    <3>6. price * (q + 1) = (q + 1) * price /\ lp * (q + 1) \in Nat
          /\ price * (q + 1) \in Nat /\ 1 * n = n /\ 1 * lp = lp
      BY <1>1, <1>2, <2>1
    <3> QED
      BY <3>3, <3>4, <3>5, <3>6, <1>1, <1>2, <2>1
  <2> HIDE DEF q
  <2> QED
    BY <1>3, <1>1, <2>1, <2>2, WidthAssumption DEF SoundLine, PaidToTheTick, n
<1> QED
  BY <1>4, <1>5

LEMMA NoLineSound ==
  ASSUME BuyInv, pc = "loop"
  PROVE  SoundLine(NoLeg) /\ Paid(NoLeg)
<1>1. price \in Nat /\ amm.df \in Nat
  BY LoopFacts DEF Reserves
<1>2. 0 * amm.df <= (0 + 1) * price + Grain(0 * price)
  <2>1. 0 * price = 0 /\ 0 * amm.df = 0 /\ (0 + 1) * price = price
    BY <1>1
  <2>2. Grain(0) \in Nat
    BY GrainBound
  <2> QED
    BY <2>1, <2>2, <1>1
<1> QED
  BY <1>2, WidthAssumption DEF SoundLine, Paid, NoLeg

-----------------------------------------------------------------------------
\* A last iteration that trades with the pool alone.
LEMMA PoolStep ==
  ASSUME BuyInv, pc = "loop", NEW leg, SoundPool(leg), Overdraws(leg), NEW fails,
         taken' = taken \/ (taken' = taken + 1 /\ MoreLines),
         Trade(leg, NoLeg, fails, "stopped")
  PROVE  SoundTrade
<1>1. taken' \in {taken, taken + 1} /\ taken' <= Len(market.lines)
  BY LoopFacts, LineFacts
<1>2. SoundLegs(leg, NoLeg, "stopped")
  <2>1. SoundLine(NoLeg) /\ Paid(NoLeg)
    BY NoLineSound
  <2>2. NoLeg.qty = 0 /\ leg.mints + NoLeg.mints = leg.mints
    BY DEF NoLeg, SoundPool
  <2> QED
    BY <2>1, <2>2 DEF SoundLegs, Overdraws
<1>3. SoundStep(leg, NoLeg, fails, "stopped")
  BY <1>1, <1>2 DEF SoundStep
<1> QED
  BY <1>3 DEF SoundTrade

LEMMA UnreachableSound ==
  ASSUME BuyInv, BuyUnreachable
  PROVE  SoundTrade
<1>1. /\ pc = "loop" /\ MoreLines /\ taken' = taken + 1
      /\ ~(amm_px <= CurrentLine.price) /\ price < CurrentLine.price
      /\ Trade(LegToPrice(price), NoLeg, LineFails, "stopped")
  BY DEF BuyUnreachable, AtLine, last_line, line_is_unreachable
<1>2. price \in Nat /\ CurrentLine.price \in Nat
  BY <1>1, LoopFacts, LineFacts, WidthAssumption DEF I64
<1>3. amm_px > price
  BY <1>1, <1>2, AmmPxType
<1> QED
  BY <1>1, <1>2, <1>3, LegToPriceSound, PoolStep

\* The pool up to the line, then the line for what is left, if anything is.
LEMMA PoolThenLineSound ==
  ASSUME BuyInv, BuyPoolThenLine
  PROVE  SoundTrade
<1> DEFINE lp == CurrentLine.price
<1>1. /\ pc = "loop" /\ MoreLines /\ taken' = taken + 1
      /\ ~(amm_px <= lp) /\ ~(price < lp)
  BY DEF BuyPoolThenLine, AtLine, last_line, line_is_unreachable
<1>2. PICK pool : pool = LegToPrice(lp)
  OBVIOUS
<1> DEFINE rest == remaining - pool.mints
           line == IF rest > 0 THEN RestAtLine(rest) ELSE NoLeg
<1>3. Trade(pool, line, LineFails, "stopped")
  BY <1>2 DEF BuyPoolThenLine
<1>4. price \in Nat /\ lp \in Nat /\ remaining \in Nat /\ remaining <= I64Max
      /\ taken + 1 <= Len(market.lines)
  BY <1>1, LineTypes, LineFacts
<1> HIDE DEF lp
<1>5. amm_px > lp /\ lp <= price
  BY <1>1, <1>4, AmmPxType
<1>6. /\ SoundPool(pool) /\ Overdraws(pool)
      /\ pool.qty \in Nat /\ pool.mints \in Nat
  BY <1>1, <1>2, <1>4, <1>5, LegToPriceSound
<1> HIDE DEF line
<1>7. CASE rest > 0
  <2>1. rest \in 1 .. I64Max
    BY <1>4, <1>6, <1>7, WidthAssumption
  <2>2. SoundLine(line) /\ line.mints = rest
    BY <2>1, <1>1, <1>5, <1>7, RestSound DEF line, lp
  <2>3. ~(remaining - (pool.mints + line.mints) < 0)
    BY <2>2, <1>4, <1>6
  <2>4. SoundLegs(pool, line, "stopped")
    BY <2>2, <2>3, <1>1, <1>6 DEF SoundLegs
  <2>5. SoundStep(pool, line, LineFails, "stopped")
    BY <2>4, <1>1, <1>3, <1>4 DEF SoundStep
  <2> QED
    BY <2>5 DEF SoundTrade
<1>8. CASE ~(rest > 0)
  <2>1. line = NoLeg
    BY <1>8 DEF line
  <2> QED
    BY <2>1, <1>1, <1>3, <1>6, PoolStep
<1> QED
  BY <1>7, <1>8

LEMMA CoverLineSound ==
  ASSUME BuyInv, BuyCoverLine
  PROVE  SoundTrade
<1>1. /\ pc = "loop" /\ MoreLines /\ taken' = taken + 1
      /\ remaining > line_sum /\ Least(next_amm_px, price) >= CurrentLine.price
      /\ Trade(NoLeg, WholeLine, LineFails, "loop")
  BY DEF BuyCoverLine, AtLine, cover_line
<1>2. /\ remaining \in Nat /\ taken \in Nat /\ taken + 1 <= Len(market.lines)
      /\ price \in Nat /\ CurrentLine.price \in Nat
  BY <1>1, LoopFacts, LineFacts, WidthAssumption DEF I64
<1>3. CurrentLine.price <= price
  BY <1>1, <1>2, LeastBelow, LineValueTypes
<1>4. LineFails \/ SoundLegs(NoLeg, WholeLine, "loop")
  <2> SUFFICES ASSUME ~LineFails PROVE SoundLegs(NoLeg, WholeLine, "loop")
    OBVIOUS
  <2>1. /\ SoundLine(WholeLine) /\ Paid(WholeLine)
        /\ WholeLine.mints * amm.df
             <= WholeLine.qty * price + Grain(WholeLine.qty * price)
    BY <1>1, <1>3, WholeLineSound
  <2>2. WholeLine.mints <= remaining /\ WholeLine.mints \in Int
    BY <1>1, <1>2, LineValueTypes DEF WholeLine
  <2>3. ~(remaining - (NoLeg.mints + WholeLine.mints) < 0)
    BY <2>2, <1>2 DEF NoLeg
  <2> QED
    BY <2>1, <2>2, <2>3, <1>1, NoLegSound DEF SoundLegs, NoLeg
<1>5. SoundStep(NoLeg, WholeLine, LineFails, "loop")
  BY <1>1, <1>2, <1>4 DEF SoundStep
<1> QED
  BY <1>5 DEF SoundTrade

\* The pool is never paid here; when it pays back the walk is at the limit,
\* because a line below the limit ends the walk only when the pool is cheaper.
LEMMA PoolAndStopSound ==
  ASSUME BuyInv, BuyPoolAndStop
  PROVE  SoundTrade
<1> DEFINE lp == CurrentLine.price
           p  == Least(lp, price)
<1>1. /\ pc = "loop" /\ MoreLines /\ taken' = taken + 1
      /\ remaining > line_sum /\ ~(Least(next_amm_px, price) >= lp)
  BY DEF BuyPoolAndStop, AtLine, cover_line
<1>2. PICK m : m = Least(get_reversed_amm_sum(amm, p), remaining)
  OBVIOUS
<1> DEFINE divides_by_zero == amm.b_tokens # 0 /\ amm.b_tokens + m = 0
           q    == IF divides_by_zero THEN 0 ELSE get_reversed_amm_qty(amm, m)
           pool == Leg(q, m)
           line == IF cover_line(amm_px, price, lp, "Ask") THEN WholeLine ELSE NoLeg
           fails == LineFails \/ divides_by_zero
<1>3. Trade(pool, line, fails, "stopped")
  BY <1>2 DEF BuyPoolAndStop
<1>4. /\ remaining \in Nat /\ taken \in Nat /\ taken + 1 <= Len(market.lines)
      /\ OnCurve(amm) /\ price \in Nat /\ price < I64Max /\ lp \in Nat /\ line_sum \in Nat
  BY <1>1, LoopFacts, LineFacts, LineValueTypes, WidthAssumption DEF I64
<1>5. p \in Nat /\ p <= price /\ p \in 0 .. I64Max
  BY <1>4, WidthAssumption DEF Least
<1>6. p = price \/ get_reversed_amm_sum(amm, p) = 0
  <2> SUFFICES ASSUME p # price PROVE get_reversed_amm_sum(amm, p) = 0
    OBVIOUS
  <2>1. p = lp /\ lp < price
    BY <1>4 DEF Least
  <2>2. remaining - line_sum \in Nat \ {0}
    BY <1>1, <1>4
  <2>r. 2 * (amm.b_tokens + (remaining - line_sum)) < Precision
    <3>1. 4 * (amm.b_tokens + remaining) < Precision /\ amm.b_tokens \in Nat
      BY <1>1, LoopFacts DEF Reserves
    <3> QED
      BY <3>1, <1>1, <1>4, PrecisionAssumption
  <2>3. next_amm_px < lp
    BY <2>1, <1>1, <1>4, LineValueTypes DEF Least
  <2> QED
    BY <2>1, <2>2, <2>r, <2>3, <1>4, <1>5, NoBuyBack DEF next_amm_px
<1> HIDE DEF lp, p
<1>7. fails \/ SoundLegs(pool, line, "stopped")
  <2> SUFFICES ASSUME ~fails PROVE SoundLegs(pool, line, "stopped")
    OBVIOUS
  <2>1. SoundPool(pool) /\ pool.mints <= 0
    BY <1>1, <1>2, <1>5, <1>6, BuyBackSound
  <2>2. /\ SoundLine(line) /\ line.mints <= remaining
        /\ Paid(line)
    <3>1. CASE cover_line(amm_px, price, lp, "Ask")
      <4>1. lp <= price
        BY <3>1, <1>1, <1>4, LeastBelow, AmmPxType DEF cover_line
      <4>2. SoundLine(WholeLine) /\ Paid(WholeLine)
        BY <4>1, <1>1, WholeLineSound DEF lp
      <4> QED
        BY <3>1, <4>2, <1>1, <1>4 DEF WholeLine
    <3>2. CASE ~cover_line(amm_px, price, lp, "Ask")
      <4>1. SoundLine(NoLeg) /\ Paid(NoLeg)
        BY <1>1, NoLineSound
      <4> QED
        BY <3>2, <4>1, <1>4 DEF NoLeg
    <3> QED
      BY <3>1, <3>2
  <2>3. ~(remaining - (pool.mints + line.mints) < 0)
    BY <2>1, <2>2, <1>4 DEF SoundPool, SoundLine
  <2> QED
    BY <2>1, <2>2, <2>3, <1>1 DEF SoundLegs
<1> HIDE DEF pool, line, fails
<1>8. SoundStep(pool, line, fails, "stopped")
  BY <1>1, <1>3, <1>4, <1>7 DEF SoundStep
<1> QED
  BY <1>8 DEF SoundTrade

\* Every branch of the loop trades sound legs, or fails.
LEMMA BranchSound ==
  ASSUME BuyInv,
         \/ BuyFromPool \/ BuyLastLine \/ BuyUnreachable
         \/ BuyPoolThenLine \/ BuyCoverLine \/ BuyPoolAndStop
  PROVE  SoundTrade
<1>1. CASE BuyFromPool
  BY <1>1, TailLegSound, PoolStep DEF BuyFromPool, PastLines
<1>2. CASE BuyLastLine
  BY <1>2, TailLegSound, PoolStep DEF BuyLastLine, AtLine
<1>3. CASE BuyUnreachable
  BY <1>3, UnreachableSound
<1>4. CASE BuyPoolThenLine
  BY <1>4, PoolThenLineSound
<1>5. CASE BuyCoverLine
  BY <1>5, CoverLineSound
<1>6. CASE BuyPoolAndStop
  BY <1>6, PoolAndStopSound
<1> QED
  BY <1>1, <1>2, <1>3, <1>4, <1>5, <1>6

-----------------------------------------------------------------------------
\* The fees of an iteration, added to fees that are the rate on what was spent.
LEMMA FeesAdd ==
  ASSUME market \in Markets, Room,
         NEW spent \in Nat, NEW fees \in Int, NEW n \in Nat,
         fees * FeeDen <= spent * market.fee + Grain(spent * market.fee),
         market.fee <= FeeDen =>
           spent * market.fee <= (fees + n) * FeeDen + Grain(spent * market.fee),
         NEW pm \in Int, pm <= I64Max, NEW lm \in 0 .. I64Max,
         NEW seen \in {0, 1}, seen = 0 => lm = 0
  PROVE  LET f == fees + FeeOn(pm) + FeeOn(lm)
             s == spent + pm + lm
             off == Grain((s + 2 * Greatest(0, -pm)) * market.fee)
         IN  /\ f \in Int
             /\ f * FeeDen <= s * market.fee + off + (IF pm < 0 THEN FeeDen ELSE 0)
             /\ market.fee <= FeeDen =>
                  s * market.fee <= (f + (n + seen) + 1) * FeeDen + off
             /\ pm = 0 /\ fees \in Nat =>
                  /\ f \in Nat /\ f * FeeDen <= s * market.fee + off
                  /\ market.fee <= FeeDen =>
                       s * market.fee <= (f + (n + seen)) * FeeDen + off
<1> DEFINE fp == FeeOn(pm)
           fl == FeeOn(lm)
           r  == market.fee
           f  == fees + fp + fl
           s  == spent + pm + lm
           u  == IF pm < 0 THEN -pm ELSE pm
           off == Grain((s + 2 * Greatest(0, -pm)) * r)
           gs == Grain(spent * r)
           gp == Grain(u * r)
           gl == Grain(lm * r)
<1>1. r \in Nat /\ FeeDen \in Nat \ {0} /\ lm \in Nat /\ lm <= I64Max
  BY MarketFacts, WidthAssumption
<1>u. u \in Nat /\ s + 2 * Greatest(0, -pm) = spent + u + lm
  BY <1>1 DEF Greatest
<1>g. /\ off \in Nat /\ gs \in Nat /\ gp \in Nat /\ gl \in Nat
      /\ gs + gp + gl <= off
      /\ pm = 0 => gp = 0
  <2>1. off = Grain((spent + u + lm) * r)
    BY <1>u
  <2> HIDE DEF u, r, off
  <2>2. /\ Grain((spent + u + lm) * r) \in Nat
        /\ gs \in Nat /\ gp \in Nat /\ gl \in Nat
        /\ gs + gp + gl <= Grain((spent + u + lm) * r)
    BY <1>1, <1>u, GrainAdd
  <2>3. pm = 0 => gp = 0
    <3> SUFFICES ASSUME pm = 0 PROVE gp = 0
      OBVIOUS
    <3>1. u * r = 0
      BY <1>1 DEF u
    <3>2. Grain(0) = 0
      BY PrecisionAssumption DEF Grain
    <3> QED
      BY <3>1, <3>2
  <2> QED
    BY <2>1, <2>2, <2>3
<1> HIDE DEF off, gs
<1>2. /\ fl \in Nat /\ fl * FeeDen <= lm * r + gl
      /\ r <= FeeDen => lm * r <= (fl + seen) * FeeDen + gl
      /\ lm = 0 => fl = 0
  <2>1. /\ fl \in Nat /\ fl * FeeDen <= lm * r + gl
        /\ r <= FeeDen => lm * r <= (fl + 1) * FeeDen + gl
        /\ lm = 0 => fl = 0
    BY <1>1, FeeOnBounds
  <2> HIDE DEF fl, r, gl
  <2>2. lm = 0 => lm * r = 0 /\ (fl + 0) * FeeDen = 0
    <3> SUFFICES ASSUME lm = 0 PROVE lm * r = 0 /\ (fl + 0) * FeeDen = 0
      OBVIOUS
    <3>1. fl = 0
      BY <2>1
    <3>2. 0 * r = 0 /\ (0 + 0) * FeeDen = 0
      BY <1>1
    <3> QED
      BY <3>1, <3>2
  <2> QED
    BY <2>1, <2>2, <1>g
<1>3. /\ fp \in Int
      /\ fp * FeeDen <= pm * r + gp + (IF pm < 0 THEN FeeDen ELSE 0)
      /\ r <= FeeDen => pm * r <= (fp + 1) * FeeDen + gp
      /\ pm = 0 => fp = 0
  <2>1. CASE pm < 0
    <3>0. gp = Grain((-pm) * r)
      BY <2>1
    <3>1. /\ fp \in Int /\ fp * FeeDen <= pm * r + FeeDen + gp
          /\ pm * r <= fp * FeeDen + gp
      BY <1>1, <2>1, <3>0, FeeOnRefund
    <3> HIDE DEF gp, fp
    <3>2. (fp + 1) * FeeDen = fp * FeeDen + FeeDen
      BY <1>1, <3>1
    <3>3. pm * r \in Int /\ fp * FeeDen \in Int
      BY <1>1, <3>1
    <3> QED
      BY <2>1, <3>1, <3>2, <3>3, <1>1, <1>g
  <2>2. CASE ~(pm < 0)
    <3>1. pm \in Nat /\ gp = Grain(pm * r)
      BY <2>2
    <3>2. fp \in Nat /\ fp * FeeDen <= pm * r + gp /\ (pm = 0 => fp = 0)
          /\ (r <= FeeDen => pm * r <= (fp + 1) * FeeDen + gp)
      BY <1>1, <3>1, FeeOnBounds
    <3> HIDE DEF gp, fp, r
    <3> QED
      BY <2>2, <3>1, <3>2, <1>1, <1>g
  <2> QED
    BY <2>1, <2>2
<1> HIDE DEF fp, fl, r, gp, gl, u
<1>4. f * FeeDen = fees * FeeDen + fp * FeeDen + fl * FeeDen
  BY <1>1, <1>2, <1>3
<1>5. s * r = spent * r + pm * r + lm * r
  BY <1>1
<1>6. /\ (f + (n + seen) + 1) * FeeDen
           = (fees + n) * FeeDen + (fp + 1) * FeeDen + (fl + seen) * FeeDen
      /\ (f + (n + seen)) * FeeDen
           = (fees + n) * FeeDen + fp * FeeDen + (fl + seen) * FeeDen
  BY <1>1, <1>2, <1>3
<1>7. /\ fees * FeeDen \in Int /\ fp * FeeDen \in Int /\ fl * FeeDen \in Int
      /\ spent * r \in Int /\ pm * r \in Int /\ lm * r \in Int
      /\ (fees + n) * FeeDen \in Int /\ (fp + 1) * FeeDen \in Int
      /\ (fl + seen) * FeeDen \in Int
  BY <1>1, <1>2, <1>3
<1>8. /\ fees * FeeDen <= spent * r + gs
      /\ r <= FeeDen => spent * r <= (fees + n) * FeeDen + gs
  BY DEF r, gs
<1>9. pm = 0 => pm * r = 0 /\ fp * FeeDen = 0
  BY <1>1, <1>3
<1>10. f \in Int /\ (pm = 0 /\ fees \in Nat => f \in Nat)
  BY <1>2, <1>3
<1> HIDE DEF f, s
<1>11. f * FeeDen <= s * r + off + (IF pm < 0 THEN FeeDen ELSE 0)
  BY <1>1, <1>2, <1>3, <1>4, <1>5, <1>7, <1>8, <1>g
<1>12. r <= FeeDen => s * r <= (f + (n + seen) + 1) * FeeDen + off
  BY <1>2, <1>3, <1>5, <1>6, <1>7, <1>8, <1>g
<1>13. pm = 0 => f * FeeDen <= s * r + off
  BY <1>2, <1>4, <1>5, <1>7, <1>8, <1>9, <1>g
<1>14. pm = 0 /\ r <= FeeDen => s * r <= (f + (n + seen)) * FeeDen + off
  BY <1>2, <1>5, <1>6, <1>7, <1>8, <1>9, <1>g
<1> QED
  BY <1>10, <1>11, <1>12, <1>13, <1>14 DEF f, s, fp, fl, r, off

LEMMA MovedType ==
  ASSUME BuyInv
  PROVE  Grain(Moved * market.fee) \in Int
<1>1. /\ remaining \in Int /\ amm.b_tokens \in Int /\ market.amm.b_tokens \in Nat
      /\ input_sum \in Int /\ market.fee \in Nat
  BY MarketFacts DEF BuyInv, TypeOK, OnCurve, Reserves
<1>2. Moved \in Int
  BY <1>1 DEF Moved, Spent, Greatest
<1>3. Moved * market.fee \in Int
  BY <1>1, <1>2
<1> QED
  BY <1>3, PrecisionAssumption DEF Grain

\* A step that changes at most pc and, at a failing line, taken.
LEMMA ControlStep ==
  ASSUME BuyInv, UNCHANGED <<market, remaining, filled, total_fees, amm>>,
         pc' \in {"loop", "stopped", "quoted", "failed"},
         pc' = "loop" => pc \in {"enter", "loop"} /\ taken' = taken,
         taken' \in {taken, taken + 1} /\ taken' <= Len(market.lines)
  PROVE  BuyInv'
<1>1. /\ price' = price /\ Spent' = Spent /\ input_sum' = input_sum
      /\ OnLines' = OnLines /\ Moved' = Moved
  BY DEF price, Spent, input_sum, OnLines, Moved
<1>2. taken \in 0 .. Len(market.lines) /\ Len(market.lines) \in Nat
  BY MarketFacts DEF BuyInv, TypeOK
<1>3. (market \in Markets)' /\ Room' /\ TypeOK' /\ CurveKept' /\ Walking'
  BY <1>1, <1>2 DEF BuyInv, Room, TypeOK, CurveKept, Walking
<1>4. OverspendsByLessThanOneUnit' /\ PoolStaysBelowLimit' /\ PoolOnCurve'
      /\ BoughtUnlessSaturated'
  BY <1>1 DEF BuyInv, OverspendsByLessThanOneUnit, PoolStaysBelowLimit, PoolOnCurve,
              BoughtUnlessSaturated, BoughtAtLimitOrBetter
<1>5. EveryLegPaysItsFee'
  <2>1. PICK seen \in {0, 1} : taken' = taken + seen
    BY <1>2
  <2>2. /\ total_fees \in Int /\ FeeDen \in Nat /\ taken \in Nat
        /\ Spent * market.fee \in Int
    BY <1>2, MarketFacts DEF BuyInv, TypeOK, Spent
  <2> DEFINE off == Grain(Moved * market.fee)
  <2>o. off \in Int
    BY MovedType
  <2>3. (total_fees + taken + 1) * FeeDen <= (total_fees + (taken + seen) + 1) * FeeDen
    <3>1. (total_fees + (taken + seen) + 1) * FeeDen
            = (total_fees + taken + 1) * FeeDen + seen * FeeDen
      BY <2>2
    <3>2. seen * FeeDen \in Nat /\ (total_fees + taken + 1) * FeeDen \in Int
      BY <2>2
    <3> QED
      BY <3>1, <3>2
  <2>4. (total_fees + taken + 1) * FeeDen \in Int
        /\ (total_fees + (taken + seen) + 1) * FeeDen \in Int
    BY <2>2
  <2>5. off' = off
    BY <1>1
  <2>6. /\ total_fees * FeeDen <= Spent * market.fee + off
           + (IF amm.b_tokens < market.amm.b_tokens THEN FeeDen ELSE 0)
        /\ market.fee <= FeeDen =>
             Spent * market.fee <= (total_fees + taken + 1) * FeeDen + off
    BY DEF BuyInv, EveryLegPaysItsFee
  <2> HIDE DEF off
  <2>7. market.fee <= FeeDen =>
          Spent * market.fee <= (total_fees + (taken + seen) + 1) * FeeDen + off
    <3> DEFINE due == Spent * market.fee
               x == (total_fees + taken + 1) * FeeDen
               y == (total_fees + (taken + seen) + 1) * FeeDen
    <3>1. due \in Int /\ x \in Int /\ y \in Int /\ x <= y
      BY <2>2, <2>3, <2>4
    <3>2. market.fee <= FeeDen => due <= x + off
      BY <2>6
    <3> HIDE DEF due, x, y
    <3>3. market.fee <= FeeDen => due <= y + off
      BY <3>1, <3>2, <2>o
    <3> QED
      BY <3>3 DEF due, y
  <2> QED
    BY <2>1, <2>5, <2>6, <2>7, <1>1 DEF EveryLegPaysItsFee, off
<1> QED
  BY <1>3, <1>4, <1>5 DEF BuyInv

LEMMA GrainShared ==
  ASSUME NEW lim \in Nat, NEW x \in Nat, NEW y \in Nat
  PROVE  /\ Grain((x + y) * lim) \in Nat /\ Grain(x * lim) \in Nat /\ Grain(y * lim) \in Nat
         /\ Grain(x * lim) + Grain(y * lim) <= Grain((x + y) * lim)
<1>1. (x + y) * lim = x * lim + y * lim
  OBVIOUS
<1> DEFINE m == x * lim
           n == y * lim
<1>2. m \in Nat /\ n \in Nat /\ m + n \in Nat
  OBVIOUS
<1> HIDE DEF m, n
<1>3. /\ Grain(m + n) \in Nat /\ Grain(m) \in Nat /\ Grain(n) \in Nat
      /\ Grain(m) + Grain(n) <= Grain(m + n)
  BY <1>2, GrainBound, GrainSum
<1> QED
  BY <1>1, <1>3 DEF m, n

\* The legs of the last iteration, added to lines bought at the limit.
LEMMA BoundsAdd ==
  ASSUME NEW df \in Nat, NEW lim \in Nat,
         NEW s \in Int, NEW f \in Nat, s * df <= f * lim + Grain(f * lim),
         NEW pm \in Int, NEW pq \in Int,
         (pm - 1) * df <= (pq + 1) * lim + Greatest(pq, 0),
         NEW lm \in Nat, NEW lq \in Nat,
         \/ lm * df <= (lq + 1) * lim + Grain(lq * lim)
         \/ pq >= 0 /\ lm * df <= (lq + 1) * lim + lq
  PROVE  ((s + pm + lm) - 1) * df
           <= (f + (pq + lq) + 2) * lim + Greatest(f + (pq + lq), 0)
                + Grain((f + lq) * lim)
<1>1. ((s + pm + lm) - 1) * df = s * df + (pm - 1) * df + lm * df
  OBVIOUS
<1>2. (f + (pq + lq) + 2) * lim = f * lim + (pq + 1) * lim + (lq + 1) * lim
  OBVIOUS
<1> DEFINE gf == Grain(f * lim)
           gl == Grain(lq * lim)
           g  == Grain((f + lq) * lim)
           x  == Greatest(pq, 0)
           y  == Greatest(f + (pq + lq), 0)
<1>3. x <= y /\ x \in Int /\ y \in Int /\ (pq >= 0 => x + lq <= y)
  BY DEF Greatest
<1>4. /\ s * df \in Int /\ (pm - 1) * df \in Int /\ lm * df \in Int
      /\ f * lim \in Int /\ (pq + 1) * lim \in Int /\ (lq + 1) * lim \in Int
  OBVIOUS
<1>5. gf \in Nat /\ gl \in Nat /\ g \in Nat /\ gf + gl <= g
  BY GrainShared
<1>6. /\ s * df <= f * lim + gf
      /\ (pm - 1) * df <= (pq + 1) * lim + x
      /\ \/ lm * df <= (lq + 1) * lim + gl
         \/ pq >= 0 /\ lm * df <= (lq + 1) * lim + lq
  OBVIOUS
<1> HIDE DEF gf, gl, g, x, y
<1>7. s * df + (pm - 1) * df + lm * df
        <= f * lim + (pq + 1) * lim + (lq + 1) * lim + y + g
  BY <1>3, <1>4, <1>5, <1>6
<1> QED
  BY <1>1, <1>2, <1>7 DEF g, y

LEMMA ProductsAdd ==
  ASSUME NEW df \in Nat, NEW lim \in Nat,
         NEW s \in Int, NEW f \in Nat, s * df <= f * lim + Grain(f * lim),
         NEW lm \in Nat, NEW lq \in Nat, lm * df <= lq * lim + Grain(lq * lim)
  PROVE  (s + lm) * df <= (f + lq) * lim + Grain((f + lq) * lim)
<1>1. (s + lm) * df = s * df + lm * df /\ (f + lq) * lim = f * lim + lq * lim
  OBVIOUS
<1>2. s * df \in Int /\ lm * df \in Int /\ f * lim \in Int /\ lq * lim \in Int
  OBVIOUS
<1> DEFINE gf == Grain(f * lim)
           gl == Grain(lq * lim)
           g  == Grain((f + lq) * lim)
<1>3. gf \in Nat /\ gl \in Nat /\ g \in Nat /\ gf + gl <= g
  BY GrainShared
<1>4. s * df <= f * lim + gf /\ lm * df <= lq * lim + gl
  OBVIOUS
<1> HIDE DEF gf, gl, g
<1>5. s * df + lm * df <= f * lim + lq * lim + g
  BY <1>2, <1>3, <1>4
<1> QED
  BY <1>1, <1>5 DEF g

\* A leg moves the reserves of the pool and nothing else.
LEMMA LegMovesPool ==
  ASSUME amm \in Pool, NEW pool, pool.qty \in Int, pool.mints \in Int
  PROVE  LET n == [amm EXCEPT !.a_tokens = @ - pool.qty, !.b_tokens = @ + pool.mints]
         IN  /\ n.k = amm.k /\ n.df = amm.df
             /\ n.a_tokens = amm.a_tokens - pool.qty
             /\ n.b_tokens = amm.b_tokens + pool.mints
             /\ n \in [k : Nat, a_tokens : Int, b_tokens : Int, df : Nat \ {0}]
             /\ pool = NoLeg => n = amm
<1> DEFINE x == amm.a_tokens - pool.qty
           y == amm.b_tokens + pool.mints
           n == [amm EXCEPT !.a_tokens = x, !.b_tokens = y]
<1>1. x \in Int /\ y \in Int /\ (pool = NoLeg => x = amm.a_tokens /\ y = amm.b_tokens)
  BY DEF Pool, NoLeg
<1> HIDE DEF x, y
<1>2. n.k = amm.k /\ n.df = amm.df /\ n.a_tokens = x /\ n.b_tokens = y
  BY DEF Pool
<1>3. n \in [k : Nat, a_tokens : Int, b_tokens : Int, df : Nat \ {0}]
  BY <1>1 DEF Pool
<1>4. x = amm.a_tokens /\ y = amm.b_tokens => n = amm
  BY DEF Pool
<1> HIDE DEF n
<1> QED
  BY <1>1, <1>2, <1>3, <1>4 DEF n, x, y

LEMMA TradePreserves ==
  ASSUME BuyInv, NEW pool, NEW line, NEW fails, NEW next,
         SoundStep(pool, line, fails, next)
  PROVE  BuyInv'
<1> DEFINE fees  == total_fees + FeeOn(pool.mints) + FeeOn(line.mints)
           got   == pool.qty + line.qty
           spent == pool.mints + line.mints
           new   == [amm EXCEPT !.a_tokens = @ - pool.qty, !.b_tokens = @ + pool.mints]
           fail  == fails \/ (amm.b_tokens # 0 /\ amm.b_tokens + remaining > I64Max)
           ok    == ~fail /\ Fits({filled + got, fees, new.a_tokens, new.b_tokens})
<1>1. /\ pc'         = IF ok THEN next ELSE "failed"
      /\ remaining'  = IF ok THEN remaining - spent ELSE remaining
      /\ filled'     = IF ok THEN filled + got ELSE filled
      /\ total_fees' = IF ok THEN fees ELSE total_fees
      /\ amm'        = IF ok THEN new ELSE amm
      /\ market' = market
  BY DEF SoundStep, Trade, Settle
<1>2. /\ pc = "loop" /\ taken' \in {taken, taken + 1} /\ taken' <= Len(market.lines)
      /\ fails \/ SoundLegs(pool, line, next)
  BY DEF SoundStep
<1>3. CASE ~ok
  <2> HIDE DEF ok
  <2>1. pc' = "failed" /\ UNCHANGED <<market, remaining, filled, total_fees, amm>>
    BY <1>1, <1>3
  <2> QED
    BY <2>1, <1>2, ControlStep
<1>4. CASE ok
  <2>1. SoundLegs(pool, line, next)
    BY <1>2, <1>4
  <2> HIDE DEF ok, fail
  <2>2. /\ pc' = next /\ remaining' = remaining - spent /\ filled' = filled + got
        /\ total_fees' = fees /\ amm' = new /\ market' = market
    BY <1>1, <1>4
  <2> HIDE DEF fees, new
  <2>3. /\ market \in Markets /\ Room /\ amm = market.amm /\ amm \in Pool
        /\ filled \in Nat /\ remaining \in Nat /\ remaining <= input_sum
        /\ input_sum \in Nat /\ price \in Nat
        /\ taken \in Nat /\ Len(market.lines) \in Nat /\ market \in Market
        /\ amm.df \in Nat \ {0} /\ amm.a_tokens \in Nat /\ amm.b_tokens \in Nat
        /\ total_fees \in Nat /\ market.fee \in Nat /\ FeeDen \in Nat
        /\ Spent * amm.df <= filled * price + Grain(filled * price)
        /\ total_fees * FeeDen <= Spent * market.fee + Grain(Spent * market.fee)
        /\ market.fee <= FeeDen =>
             Spent * market.fee <= (total_fees + taken) * FeeDen + Grain(Spent * market.fee)
    <3>1. /\ market \in Markets /\ Room /\ amm = market.amm /\ filled \in Nat
          /\ Spent * amm.df <= filled * price + Grain(filled * price)
          /\ total_fees * FeeDen <= Spent * market.fee + Grain(Spent * market.fee)
          /\ market.fee <= FeeDen =>
               Spent * market.fee <= (total_fees + taken) * FeeDen + Grain(Spent * market.fee)
      BY <1>2 DEF BuyInv, Walking
    <3>2. total_fees \in Nat
      BY <1>2 DEF BuyInv, Walking
    <3>3. /\ market \in Market /\ market.fee \in Nat /\ FeeDen \in Nat /\ amm \in Pool
          /\ Len(market.lines) \in Nat
      BY <3>1, MarketFacts
    <3>4. /\ remaining \in Nat /\ remaining <= input_sum /\ input_sum \in Nat
          /\ price \in Nat /\ taken \in Nat
      BY <1>2, LoopFacts
    <3>5. amm.df \in Nat \ {0} /\ amm.a_tokens \in Nat /\ amm.b_tokens \in Nat
      BY <1>2, LoopFacts DEF Reserves
    <3> QED
      BY <3>1, <3>2, <3>3, <3>4, <3>5
  <2>4. price' = price /\ input_sum' = input_sum
    BY <2>2 DEF price, input_sum
  <2>s. Spent \in Nat
    BY <2>3 DEF Spent
  <2>5. /\ SoundPool(pool) /\ SoundLine(line)
        /\ pool.qty \in Int /\ pool.mints \in Int /\ pool.mints <= I64Max
        /\ line.qty \in Nat /\ line.mints \in 0 .. I64Max /\ line.mints \in Nat
        /\ line = NoLeg \/ taken' = taken + 1
        /\ next \in {"loop", "stopped"}
    BY <2>1, WidthAssumption DEF SoundLegs, SoundPool, SoundLine
  <2>6. PICK seen \in {0, 1} :
          taken' = taken + seen /\ (seen = 0 => line.mints = 0)
    BY <1>2, <2>3, <2>5 DEF NoLeg
  <2>7. /\ new \in [k : Nat, a_tokens : Int, b_tokens : Int, df : Nat \ {0}]
        /\ new.k = amm.k /\ new.df = amm.df
        /\ new.a_tokens = amm.a_tokens - pool.qty
        /\ new.b_tokens = amm.b_tokens + pool.mints
        /\ pool = NoLeg => new = amm
    BY <2>3, <2>5, LegMovesPool DEF new
  <2>8. Spent' = Spent + pool.mints + line.mints /\ Spent' \in Int /\ Spent \in Int
    <3>1. Spent' = input_sum - (remaining - spent)
      BY <2>2, <2>4 DEF Spent
    <3>2. /\ remaining \in Int /\ input_sum \in Int
          /\ pool.mints \in Int /\ line.mints \in Int
      BY <2>3, <2>5
    <3> QED
      BY <3>1, <3>2 DEF Spent
  <2> DEFINE cost == Spent + pool.mints + line.mints
             off == Grain((cost + 2 * Greatest(0, -pool.mints)) * market.fee)
  <2>9. /\ fees \in Int
        /\ fees * FeeDen <= cost * market.fee + off + (IF pool.mints < 0 THEN FeeDen ELSE 0)
        /\ market.fee <= FeeDen =>
             cost * market.fee <= (fees + (taken + seen) + 1) * FeeDen + off
        /\ pool.mints = 0 =>
             /\ fees \in Nat /\ fees * FeeDen <= cost * market.fee + off
             /\ market.fee <= FeeDen =>
                  cost * market.fee <= (fees + (taken + seen)) * FeeDen + off
    <3>1. /\ market \in Markets /\ Room /\ Spent \in Nat /\ total_fees \in Int
          /\ total_fees \in Nat /\ taken \in Nat
          /\ total_fees * FeeDen <= Spent * market.fee + Grain(Spent * market.fee)
          /\ market.fee <= FeeDen =>
               Spent * market.fee <= (total_fees + taken) * FeeDen + Grain(Spent * market.fee)
          /\ pool.mints \in Int /\ pool.mints <= I64Max /\ line.mints \in 0 .. I64Max
          /\ seen = 0 => line.mints = 0
      BY <2>3, <2>s, <2>5, <2>6
    <3>2. PICK s \in Nat, t \in Nat, n \in Nat, pm \in Int, lm \in 0 .. I64Max :
            /\ s = Spent /\ t = total_fees /\ n = taken
            /\ pm = pool.mints /\ lm = line.mints
      BY <3>1
    <3>3. /\ t * FeeDen <= s * market.fee + Grain(s * market.fee)
          /\ market.fee <= FeeDen =>
               s * market.fee <= (t + n) * FeeDen + Grain(s * market.fee)
          /\ pm <= I64Max /\ (seen = 0 => lm = 0) /\ t \in Int
          /\ market \in Markets /\ Room
      BY <3>1, <3>2
    <3> DEFINE f == t + FeeOn(pm) + FeeOn(lm)
               c == s + pm + lm
               o == Grain((c + 2 * Greatest(0, -pm)) * market.fee)
    <3>4. /\ f \in Int
          /\ f * FeeDen <= c * market.fee + o + (IF pm < 0 THEN FeeDen ELSE 0)
          /\ market.fee <= FeeDen => c * market.fee <= (f + (n + seen) + 1) * FeeDen + o
          /\ pm = 0 => /\ f \in Nat /\ f * FeeDen <= c * market.fee + o
                       /\ market.fee <= FeeDen =>
                            c * market.fee <= (f + (n + seen)) * FeeDen + o
      BY <3>3, FeesAdd, ZenonT(60)
    <3>5. f = fees /\ c = cost
      BY <3>2 DEF fees
    <3>6. o = off
      BY <3>2, <3>5
    <3> HIDE DEF f, c, cost, o, off
    <3> QED
      BY <3>2, <3>4, <3>5, <3>6
  <2>c. Spent' = cost /\ cost \in Int
    BY <2>8
  <2>n. off = Grain(cost * market.fee) \/ pool.mints # 0
    <3> SUFFICES ASSUME pool.mints = 0 PROVE off = Grain(cost * market.fee)
      OBVIOUS
    <3>1. Greatest(0, -pool.mints) = 0
      BY DEF Greatest
    <3>2. cost + 2 * 0 = cost
      BY <2>c
    <3> QED
      BY <3>1, <3>2
  <2>10. TypeOK' /\ (market \in Markets)' /\ Room' /\ CurveKept'
    <3>1. (remaining - spent) \in Int /\ filled + got \in Int
      <4>1. remaining \in Int /\ filled \in Int
        BY <2>3
      <4>2. /\ pool.qty \in Int /\ pool.mints \in Int
            /\ line.qty \in Int /\ line.mints \in Int
        BY <2>5
      <4>3. spent \in Int /\ got \in Int
        BY <4>2
      <4> HIDE DEF spent, got
      <4> QED
        BY <4>1, <4>3
    <3>2. taken' \in 0 .. Len(market'.lines)
      BY <1>2, <2>2, <2>3
    <3>3. pc' \in {"enter", "loop", "stopped", "quoted", "failed"}
      BY <2>2, <2>5
    <3> HIDE DEF spent, got
    <3> QED
      BY <2>2, <2>3, <2>4, <2>7, <2>9, <3>1, <3>2, <3>3 DEF TypeOK, CurveKept, Room
  <2>11. Walking'
    <3> SUFFICES ASSUME next = "loop" PROVE Walking'
      BY <2>2, <2>5 DEF Walking
    <3>1. pool = NoLeg /\ line.mints <= remaining
          /\ line.mints * amm.df <= line.qty * price + Grain(line.qty * price)
      BY <2>1 DEF SoundLegs
    <3>2. pool.qty = 0 /\ pool.mints = 0 /\ new = amm
      BY <3>1, <2>7 DEF NoLeg
    <3>3. remaining - spent \in 0 .. input_sum /\ filled + got \in Nat
      <4>1. remaining \in Nat /\ input_sum \in Nat /\ remaining <= input_sum
            /\ filled \in Nat /\ line.mints \in Nat /\ line.qty \in Nat
        BY <2>3, <2>5
      <4> QED
        BY <4>1, <3>1, <3>2
    <3>4. Spent' * amm.df <= (filled + got) * price + Grain((filled + got) * price)
      <4>1. /\ amm.df \in Nat /\ price \in Nat /\ Spent \in Int /\ filled \in Nat
            /\ line.mints \in Nat /\ line.qty \in Nat
            /\ Spent * amm.df <= filled * price + Grain(filled * price)
            /\ line.mints * amm.df <= line.qty * price + Grain(line.qty * price)
        BY <2>3, <2>5, <2>8, <3>1
      <4>2. (Spent + line.mints) * amm.df
              <= (filled + line.qty) * price + Grain((filled + line.qty) * price)
        BY <4>1, ProductsAdd
      <4>3. Spent' = Spent + line.mints /\ filled + got = filled + line.qty
        BY <2>8, <3>2, <4>1
      <4> QED
        BY <4>2, <4>3
    <3>5. off = Grain(Spent' * market.fee)
      BY <2>c, <2>n, <3>2
    <3> HIDE DEF spent, got, off, cost
    <3> QED
      BY <2>2, <2>3, <2>4, <2>6, <2>9, <2>c, <3>2, <3>3, <3>4, <3>5 DEF Walking
  <2>12. OverspendsByLessThanOneUnit'
    BY <2>1, <2>2, <2>7 DEF SoundLegs, OverspendsByLessThanOneUnit
  <2>13. BoughtUnlessSaturated'
    <3> DEFINE sum == filled + got
               lines == filled + line.qty
    <3>0. OnLines' = lines
      <4>1. /\ amm.a_tokens \in Int /\ pool.qty \in Int /\ line.qty \in Int
            /\ filled \in Int /\ new.a_tokens = amm.a_tokens - pool.qty
            /\ amm = market.amm
        BY <2>3, <2>5, <2>7
      <4>2. OnLines' = (filled + got) - (market.amm.a_tokens - new.a_tokens)
        BY <2>2 DEF OnLines
      <4> QED
        BY <4>1, <4>2
    <3> HIDE DEF lines
    <3>1. SUFFICES ASSUME sum < I64Max
                   PROVE  (Spent' - 1) * amm.df
                            <= (sum + 2) * price + Greatest(sum, 0) + Grain(lines * price)
      BY <2>2, <2>4, <2>7, <3>0 DEF BoughtUnlessSaturated, BoughtAtLimitOrBetter
    <3>2. Paid(line) \/ (pool.qty >= 0 /\ PaidToTheTick(line))
      BY <3>1, <2>1, <2>3, <2>5, WidthAssumption DEF SoundLegs, SoundLine
    <3>3. /\ amm.df \in Nat /\ price \in Nat /\ Spent \in Int /\ filled \in Nat
          /\ Spent * amm.df <= filled * price + Grain(filled * price)
          /\ pool.mints \in Int /\ pool.qty \in Int
          /\ line.mints \in Nat /\ line.qty \in Nat
          /\ (pool.mints - 1) * amm.df <= (pool.qty + 1) * price + Greatest(pool.qty, 0)
          /\ \/ line.mints * amm.df <= (line.qty + 1) * price + Grain(line.qty * price)
             \/ pool.qty >= 0 /\ line.mints * amm.df <= (line.qty + 1) * price + line.qty
      BY <2>3, <2>5, <2>8, <3>2 DEF SoundPool, Paid, PaidToTheTick
    <3>4. (cost - 1) * amm.df <= (sum + 2) * price + Greatest(sum, 0) + Grain(lines * price)
      BY <3>3, BoundsAdd DEF lines
    <3> HIDE DEF cost, sum
    <3> QED
      BY <3>4, <2>c
  <2>14. EveryLegPaysItsFee'
    <3>1. /\ pool.mints < 0 <=> new.b_tokens < market.amm.b_tokens
          /\ market.amm.b_tokens - new.b_tokens = -pool.mints
      <4>1. amm.b_tokens \in Nat /\ pool.mints \in Int /\ amm = market.amm
            /\ new.b_tokens = amm.b_tokens + pool.mints
        BY <2>3, <2>5, <2>7
      <4> QED
        BY <4>1
    <3>2. Moved' = cost + 2 * Greatest(0, -pool.mints)
      <4>1. Moved' = Spent' + 2 * Greatest(0, market.amm.b_tokens - new.b_tokens)
        BY <2>2 DEF Moved
      <4> HIDE DEF cost
      <4> QED
        BY <4>1, <3>1, <2>c
    <3>3. Grain(Moved' * market.fee) = off
      BY <3>2
    <3>4. fees * FeeDen <= Spent' * market.fee + off
            + (IF new.b_tokens < market.amm.b_tokens THEN FeeDen ELSE 0)
      <4> HIDE DEF cost, off
      <4> QED
        BY <2>9, <2>c, <3>1
    <3>5. market.fee <= FeeDen =>
            Spent' * market.fee <= (fees + taken' + 1) * FeeDen + off
      <4> HIDE DEF cost, off
      <4> QED
        BY <2>9, <2>c, <2>6
    <3> HIDE DEF cost, off
    <3> QED
      BY <2>2, <3>3, <3>4, <3>5 DEF EveryLegPaysItsFee
  <2> HIDE DEF cost, off, spent, got
  <2>15. PoolStaysBelowLimit'
    BY <2>2, <2>3, <2>4, <2>5, <2>7 DEF PoolStaysBelowLimit, SoundPool, NoLeg
  <2>16. PoolOnCurve'
    BY <2>2, <2>3, <2>5, <2>7 DEF PoolOnCurve, SoundPool
  <2> QED
    BY <2>10, <2>11, <2>12, <2>13, <2>14, <2>15, <2>16 DEF BuyInv
<1> QED
  BY <1>3, <1>4

-----------------------------------------------------------------------------
\* A call starts with nothing spent, on the market's own pool.
LEMMA InitSound == InitBuy /\ Room => BuyInv
<1> SUFFICES ASSUME InitBuy, Room PROVE BuyInv
  OBVIOUS
<1>1. /\ market \in Markets /\ amm = market.amm /\ pc = "enter" /\ taken = 0
      /\ filled = 0 /\ total_fees = 0 /\ remaining = input_sum
  BY DEF InitBuy, InitCall
<1>2. /\ market \in Market /\ Len(market.lines) \in Nat /\ market.amm \in Pool
      /\ market.fee \in Nat /\ FeeDen \in Nat /\ input_sum \in Nat /\ price \in Nat
      /\ amm.df \in Nat /\ amm = market.amm
  <2>1. /\ market \in Market /\ Len(market.lines) \in Nat /\ market.amm \in Pool
        /\ market.fee \in Nat /\ FeeDen \in Nat \ {0} /\ price \in Nat
        /\ OnCurve(market.amm)
    BY <1>1, MarketFacts
  <2>2. input_sum \in 0 .. market.amount
    BY <1>1, MarketFacts
  <2>3. amm.df \in Nat
    BY <1>1, <2>1 DEF OnCurve, Reserves
  <2> QED
    BY <1>1, <2>1, <2>2, <2>3
<1>3. TypeOK
  BY <1>1, <1>2 DEF TypeOK, Pool
<1>4. CurveKept /\ PoolStaysBelowLimit /\ PoolOnCurve
  BY <1>1 DEF CurveKept, PoolStaysBelowLimit, PoolOnCurve
<1>5. Spent = 0
  BY <1>1, <1>2 DEF Spent
<1>m. /\ Moved = 0 /\ OnLines = 0 /\ Grain(0) = 0
      /\ Grain(Moved * market.fee) = 0 /\ Grain(OnLines * price) = 0
      /\ Grain(Spent * market.fee) = 0 /\ Grain(filled * price) = 0
  <2>1. market.amm.a_tokens \in Nat /\ market.amm.b_tokens \in Nat
    BY <1>2 DEF Pool
  <2>2. Moved = 0 /\ OnLines = 0
    BY <2>1, <1>1, <1>5 DEF Moved, OnLines, Greatest
  <2>3. Grain(0) = 0
    BY PrecisionAssumption DEF Grain
  <2>4. 0 * market.fee = 0 /\ 0 * price = 0
    BY <1>2
  <2> QED
    BY <2>2, <2>3, <2>4, <1>1, <1>5
<1>6. Spent * amm.df = 0 /\ Spent * market.fee = 0 /\ filled * price = 0
      /\ total_fees * FeeDen = 0 /\ (total_fees + taken) * FeeDen = 0
      /\ (total_fees + taken + 1) * FeeDen = FeeDen
  BY <1>1, <1>2, <1>5
<1>7. Walking
  <2>1. remaining \in 0 .. input_sum
    BY <1>1, <1>2
  <2> QED
    BY <2>1, <1>1, <1>2, <1>6, <1>m DEF Walking
<1>8. OverspendsByLessThanOneUnit
  BY <1>1, <1>2 DEF OverspendsByLessThanOneUnit
<1>9. BoughtUnlessSaturated
  <2>1. (0 - 1) * amm.df <= (0 + 2) * price + 0 + 0
    BY <1>2
  <2>2. Greatest(0, 0) = 0
    BY DEF Greatest
  <2> QED
    BY <2>1, <2>2, <1>1, <1>5, <1>m DEF BoughtUnlessSaturated, BoughtAtLimitOrBetter
<1>10. EveryLegPaysItsFee
  BY <1>1, <1>2, <1>6, <1>m DEF EveryLegPaysItsFee
<1> QED
  BY <1>1, <1>3, <1>4, <1>7, <1>8, <1>9, <1>10 DEF BuyInv

\* Every step of a buy quote preserves the invariant.
LEMMA StepPreserves == BuyInv /\ [Next]_vars => BuyInv'
<1> SUFFICES ASSUME BuyInv, [Next]_vars PROVE BuyInv'
  OBVIOUS
<1>1. taken \in 0 .. Len(market.lines) /\ Len(market.lines) \in Nat
  BY MarketFacts DEF BuyInv, TypeOK
<1>2. CASE EnterBuy
  BY <1>1, <1>2, ControlStep DEF EnterBuy, Enter
<1>3. CASE \/ BuyFromPool \/ BuyLastLine \/ BuyUnreachable
           \/ BuyPoolThenLine \/ BuyCoverLine \/ BuyPoolAndStop
  <2>1. PICK pool, line, fails, next : SoundStep(pool, line, fails, next)
    BY <1>3, BranchSound DEF SoundTrade
  <2> QED
    BY <2>1, TradePreserves
<1>4. CASE ReturnBuy
  BY <1>1, <1>4, ControlStep DEF ReturnBuy, Return
<1>5. CASE UNCHANGED vars
  <2>1. /\ price' = price /\ Spent' = Spent /\ input_sum' = input_sum
        /\ OnLines' = OnLines /\ Moved' = Moved
    BY <1>5 DEF vars, price, Spent, input_sum, OnLines, Moved
  <2>2. (market \in Markets)' /\ Room' /\ TypeOK' /\ CurveKept' /\ Walking'
    BY <1>5, <2>1 DEF vars, BuyInv, Room, TypeOK, CurveKept, Walking
  <2>3. /\ OverspendsByLessThanOneUnit' /\ PoolStaysBelowLimit' /\ PoolOnCurve'
        /\ BoughtUnlessSaturated' /\ EveryLegPaysItsFee'
    BY <1>5, <2>1 DEF vars, BuyInv, OverspendsByLessThanOneUnit, PoolStaysBelowLimit,
       PoolOnCurve, BoughtUnlessSaturated, BoughtAtLimitOrBetter, EveryLegPaysItsFee
  <2> QED
    BY <2>2, <2>3 DEF BuyInv
<1> QED
  BY <1>2, <1>3, <1>4, <1>5 DEF Next

\* A book that hands out its lines one call of next at a time: a line more
\* disturbs nothing.
LEMMA LineArrives ==
  ASSUME BuyInv, market' \in Markets, NEW l,
         market' = [market EXCEPT !.lines = Append(@, l)],
         UNCHANGED <<pc, taken, remaining, filled, total_fees, amm>>
  PROVE  BuyInv'
<1>1. /\ market \in Market /\ market' \in Market
      /\ market.lines \in Seq(Line) /\ market'.lines = Append(market.lines, l)
      /\ market'.amm = market.amm /\ market'.amount = market.amount
      /\ market'.fee = market.fee /\ market_px(market') = market_px(market)
  <2>1. market \in Market /\ market' \in Market
    BY MarketsAssumption DEF BuyInv
  <2> QED
    BY <2>1 DEF Market, market_px
<1>2. taken \in 0 .. Len(market'.lines)
  BY <1>1 DEF BuyInv, TypeOK
<1>4. price' = price /\ input_sum' = input_sum /\ Spent' = Spent
      /\ OnLines' = OnLines /\ Moved' = Moved
  BY <1>1 DEF price, limit_price, input_sum, Spent, OnLines, Moved
<1>3. Room' /\ TypeOK' /\ CurveKept'
  BY <1>1, <1>2, <1>4 DEF BuyInv, Room, TypeOK, CurveKept
<1>5. Walking' /\ OverspendsByLessThanOneUnit' /\ BoughtUnlessSaturated'
  BY <1>1, <1>4 DEF BuyInv, Walking, OverspendsByLessThanOneUnit,
                    BoughtUnlessSaturated, BoughtAtLimitOrBetter
<1>6. EveryLegPaysItsFee' /\ PoolStaysBelowLimit' /\ PoolOnCurve'
  BY <1>1, <1>4 DEF BuyInv, EveryLegPaysItsFee, PoolStaysBelowLimit, PoolOnCurve
<1> QED
  BY <1>3, <1>5, <1>6 DEF BuyInv

LEMMA Invariance == Room /\ Spec => []BuyInv
BY InitSound, StepPreserves, PTL DEF Spec

\* The local variables of a buy quote keep their types (lib.rs, quote).
THEOREM TypeCorrect == Room /\ Spec => []TypeOK
<1>1. BuyInv => TypeOK
  BY DEF BuyInv
<1> QED
  BY <1>1, Invariance, PTL

\* For every market with room, whatever its width and fee, a buy overdraws
\* its budget by less than the price of one more unit, if at all.
THEOREM OverspendsByLessThanOneUnitHolds == Room /\ Spec => []OverspendsByLessThanOneUnit
<1>1. BuyInv => OverspendsByLessThanOneUnit
  BY DEF BuyInv
<1> QED
  BY <1>1, Invariance, PTL

\* For every market with room, what a buy spends is worth the limit price per
\* unit, up to two units and a tick, unless the quantity is saturated.
THEOREM BoughtAtLimitOrBetterHolds ==
  Room /\ Spec => [](filled < I64Max => BoughtAtLimitOrBetter)
<1>1. BuyInv => (filled < I64Max => BoughtAtLimitOrBetter)
  BY DEF BuyInv, BoughtUnlessSaturated
<1> QED
  BY <1>1, Invariance, PTL

\* For every market with room, the fees of a buy are the rate on what it
\* spends, less a truncation per leg, a refund rounding the other way, and up to
\* what f64 may be off.
THEOREM EveryLegPaysItsFeeHolds == Room /\ Spec => []EveryLegPaysItsFee
<1>1. BuyInv => EveryLegPaysItsFee
  BY DEF BuyInv
<1> QED
  BY <1>1, Invariance, PTL

\* For every market with room, no branch of the loop buys from the pool above
\* the limit price by more than the truncation and what f64 may be off.
THEOREM PoolStaysBelowLimitHolds == Room /\ Spec => []PoolStaysBelowLimit
<1>1. BuyInv => PoolStaysBelowLimit
  BY DEF BuyInv
<1> QED
  BY <1>1, Invariance, PTL

\* For every market with room, the clone of the pool ends on the curve it
\* started on.
THEOREM PoolOnCurveHolds == Room /\ Spec => []PoolOnCurve
<1>1. BuyInv => PoolOnCurve
  BY DEF BuyInv
<1> QED
  BY <1>1, Invariance, PTL
=============================================================================
