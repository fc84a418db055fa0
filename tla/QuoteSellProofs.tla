-------------------------- MODULE QuoteSellProofs ---------------------------
(***************************************************************************)
(* The guarantees of a sell quote for every width, fee and rounding, and   *)
(* for every market whose sizes f64 resolves: the quantity sold, the price *)
(* it is sold at, the pool left behind, the route between pool and lines,  *)
(* and the promise to the caller.                                          *)
(***************************************************************************)
EXTENDS QuoteSell, AmmMathProofs

\* The assets the pool may end up with are a quantity that f64 resolves: to the
\* square of the next one it is not off by as much as a unit more would move it.
Resolved == market.amm.a_tokens + market.amount < Precision

\* Until a leg against the pool ends the walk the clone is the market's pool.
PoolUntouched == pc \in {"enter", "loop"} => amm = market.amm

\* Trading moves the reserves only.
CurveKept == amm.k = market.amm.k /\ amm.df = market.amm.df

SlippageBound ==
  /\ filled \in Nat
  /\ SoldAtLimitOrBetter

\* The fees so far, truncated once per leg: as many legs as lines, and the leg
\* that ended the loop.
LegsBeyondLines == IF pc \in {"enter", "loop"} THEN 0 ELSE 1
FeeBound ==
  /\ total_fees \in Nat
  /\ total_fees * FeeDen <= filled * market.fee + Grain(filled * market.fee)
  /\ market.fee <= FeeDen =>
       filled * market.fee <= (total_fees + taken + LegsBeyondLines) * FeeDen
                                + Grain(filled * market.fee)

\* The inductive invariant.  The three bounds follow from each other's legs
\* only while the pool is still the market's, hence PoolUntouched.
IInv ==
  /\ market \in Markets /\ Resolved
  /\ TypeOK
  /\ PoolUntouched
  /\ CurveKept
  /\ NeverOversells
  /\ PoolStaysAboveLimit
  /\ PoolOnCurve
  /\ SlippageBound
  /\ FeeBound

-----------------------------------------------------------------------------
\* A market as MarketsAssumption gives it.
LEMMA MarketFacts ==
  ASSUME NEW m \in Markets
  PROVE  /\ m \in Market
         /\ m.amm \in Pool /\ Reserves(m.amm)
         /\ m.amm.a_tokens \in I64 /\ m.amm.b_tokens \in I64
         /\ m.amm.k = m.amm.a_tokens * m.amm.b_tokens
         /\ m.amount \in I64
         /\ limit_price(m, "Bid") \in I64
<1>1. m \in Market /\ m.amm.a_tokens \in I64 /\ m.amm.b_tokens \in I64
      /\ m.amm = NewPool(m.amm.a_tokens, m.amm.b_tokens, m.amm.df)
  BY MarketsAssumption
<1>2. m.amm \in Pool /\ m.amount \in I64
      /\ m.last_px \in I64 /\ m.best_bid \in I64 /\ m.best_ask \in I64
  BY <1>1 DEF Market
<1>3. m.amm.k = m.amm.a_tokens * m.amm.b_tokens
  BY <1>1 DEF NewPool
<1>4. Reserves(m.amm)
  BY <1>2 DEF Pool, Reserves
<1>5. market_px(m) \in I64
  BY <1>2 DEF market_px
<1>6. limit_price(m, "Bid") \in I64
  BY <1>5, WidthAssumption DEF limit_price, I64
<1> QED
  BY <1>1, <1>2, <1>3, <1>4, <1>6

\* What the walk may do with the pool: pay at least the limit, stay at or
\* above it, and stay on the curve.
SoundPoolLeg(leg) ==
  /\ leg.qty \in Nat /\ leg.mints \in Nat
  /\ leg.qty * price <= leg.mints * amm.df
  /\ leg.qty = 0 => leg.mints = 0
  /\ leg.qty # 0 =>
       /\ price * ((amm.a_tokens + leg.qty) * (amm.a_tokens + leg.qty)) 
            <= amm.k * amm.df + Grain(amm.k * amm.df)
       /\ amm.b_tokens - leg.mints = amm.k \div (amm.a_tokens + leg.qty)

\* A leg against a line pays the limit, up to the truncation of its sum.
SoundLineLeg(leg) ==
  /\ leg.qty \in Nat /\ leg.mints \in Nat
  /\ leg.qty * price <= (leg.mints + 1) * amm.df + Grain(leg.qty * price)
  /\ leg.qty = 0 => leg = NoLeg

LEMMA PoolLegSound ==
  ASSUME IInv, pc = "loop", NEW q \in Nat, NEW px \in I64, price <= px,
         q <= get_amm_qty(amm, px, "Bid") \/ px <= get_amm_px(amm, q, "Bid")
  PROVE  SoundPoolLeg(PoolLeg(q)) /\ PoolLeg(q).qty \in 0 .. q
<1>1. /\ Reserves(amm) /\ amm.b_tokens <= I64Max
      /\ amm.k = amm.a_tokens * amm.b_tokens
      /\ price \in I64 /\ amm.a_tokens < Precision
  <2>1. amm = market.amm /\ market \in Markets /\ Resolved
    BY DEF IInv, PoolUntouched
  <2>2. market.amount \in Nat /\ market.amm.a_tokens \in Nat /\ Precision \in Nat
    BY <2>1, MarketFacts, WidthAssumption, PrecisionAssumption DEF I64
  <2> QED
    BY <2>1, <2>2, MarketFacts DEF Resolved, price, I64
<1> DEFINE m == get_amm_sum(amm, q, "Bid")
           x == amm.a_tokens + q
<1>2. m \in 0 .. amm.b_tokens
      /\ (m # 0 => amm.b_tokens - m = amm.k \div x)
  BY <1>1, SellSum
<1>3. CASE q = 0 \/ m = 0
  <2>1. PoolLeg(q) = NoLeg
    BY <1>3 DEF PoolLeg
  <2> QED
    BY <2>1, <1>1 DEF NoLeg, SoundPoolLeg, Reserves, I64
<1>4. CASE q # 0 /\ m # 0
  <2>1. PoolLeg(q) = [qty |-> q, mints |-> m]
    BY <1>4 DEF PoolLeg
  <2>0. q \in Nat \ {0} /\ px \in 0 .. I64Max
    BY <1>4 DEF I64
  <2>2. px * (x * x) <= amm.k * amm.df + Grain(amm.k * amm.df)
    BY <1>1, <2>0, SellKeepsPrice, SellAllKeepsPrice DEF I64
  <2>3. x \in Nat /\ x * x \in Nat /\ px \in Nat /\ price \in Nat
    BY <1>1 DEF Reserves, I64
  <2>4. price * (x * x) <= px * (x * x)
    BY <2>3, ProductLe
  <2>5. price * (x * x) <= amm.k * amm.df + Grain(amm.k * amm.df)
    <3>1. amm.k * amm.df \in Nat
      BY <1>1 DEF Reserves
    <3>2. Grain(amm.k * amm.df) \in Nat
      BY <3>1, GrainBound
    <3>3. px * (x * x) \in Nat /\ price * (x * x) \in Nat
      BY <2>3
    <3> QED
      BY <3>1, <3>2, <3>3, <2>2, <2>4
  <2>6. q * price <= m * amm.df
    BY <1>1, <1>4, <2>0, <2>5, SellPaysPrice DEF I64
  <2> HIDE DEF m
  <2> QED
    BY <2>1, <2>5, <2>6, <1>1, <1>2, <1>4 DEF SoundPoolLeg, Reserves
<1> QED
  BY <1>3, <1>4

LEMMA LineLegSound ==
  ASSUME IInv, pc = "loop", MoreLines, NEW q \in Nat, price <= CurrentLine.price,
         ~TradeSumFails(amm, q, CurrentLine.price)
  PROVE  SoundLineLeg(LineLeg(q))
<1> DEFINE lp == CurrentLine.price
           n  == q * lp
           m  == q * price
           v  == trade_sum(amm, q, lp)
<1>1. amm.df \in Nat \ {0} /\ price \in Nat
  BY MarketFacts DEF IInv, PoolUntouched, price, I64, Pool
<1>2. lp \in Nat
  <2>1. market.lines \in Seq(Line) /\ taken + 1 \in 1 .. Len(market.lines)
    BY MarketFacts DEF IInv, TypeOK, Market, MoreLines
  <2>2. market.lines[taken + 1] \in Line
    BY <2>1
  <2>3. CurrentLine.price \in I64
    BY <2>2 DEF CurrentLine, Line
  <2> QED
    BY <2>3, WidthAssumption DEF I64
<1>3. LineLeg(q) = [qty |-> q, mints |-> v]
  BY DEF LineLeg
<1>4. v \in Nat /\ (q = 0 => v = 0) /\ n - Grain(n) <= (v + 1) * amm.df
  BY <1>1, <1>2, TradeSum
<1> HIDE DEF v
<1>5. m \in Nat /\ n \in Nat /\ m <= n
  BY <1>1, <1>2, ProductLe
<1> HIDE DEF m, n
<1>6. m - Grain(m) <= n - Grain(n) /\ Grain(m) \in Nat /\ Grain(n) \in Nat
  BY <1>5, GrainMonotone, GrainBound
<1>7. m <= (v + 1) * amm.df + Grain(m)
  BY <1>1, <1>4, <1>5, <1>6
<1> QED
  BY <1>3, <1>4, <1>7 DEF SoundLineLeg, NoLeg, m

-----------------------------------------------------------------------------
LEMMA BoundsAdd ==
  ASSUME NEW df \in Nat, NEW lim \in Nat,
         NEW got \in Nat, NEW sold \in Nat, got * df + Grain(sold * lim) >= sold * lim,
         NEW pm \in Nat, NEW pq \in Nat, pq * lim <= pm * df + Grain(pq * lim),
         NEW lm \in Nat, NEW lq \in Nat, lq * lim <= lm * df + Grain(lq * lim)
  PROVE  (got + pm + lm) * df + Grain((sold + pq + lq) * lim) >= (sold + pq + lq) * lim
<1>1. (got + pm + lm) * df = got * df + pm * df + lm * df
  OBVIOUS
<1>2. (sold + pq + lq) * lim = sold * lim + pq * lim + lq * lim
  OBVIOUS
<1>3. /\ sold * lim \in Nat /\ pq * lim \in Nat /\ lq * lim \in Nat
      /\ got * df \in Nat /\ pm * df \in Nat /\ lm * df \in Nat
  OBVIOUS
<1> DEFINE g == Grain((sold + pq + lq) * lim)
<1>4. /\ g \in Nat
      /\ Grain(sold * lim) \in Nat /\ Grain(pq * lim) \in Nat /\ Grain(lq * lim) \in Nat
      /\ Grain(sold * lim) + Grain(pq * lim) + Grain(lq * lim) <= g
  BY GrainAdd
<1>5. sold * lim + pq * lim + lq * lim <= got * df + pm * df + lm * df + g
  BY <1>3, <1>4
<1> QED
  BY <1>1, <1>2, <1>5

LEMMA FeesAdd ==
  ASSUME NEW den \in Nat, NEW fee \in Nat,
         NEW paid \in Nat, NEW got \in Nat, paid * den <= got * fee + Grain(got * fee),
         NEW pf \in Nat, NEW pm \in Nat, pf * den <= pm * fee + Grain(pm * fee),
         NEW lf \in Nat, NEW lm \in Nat, lf * den <= lm * fee + Grain(lm * fee)
  PROVE  (paid + pf + lf) * den
           <= (got + pm + lm) * fee + Grain((got + pm + lm) * fee)
<1>1. (paid + pf + lf) * den = paid * den + pf * den + lf * den
  OBVIOUS
<1>2. (got + pm + lm) * fee = got * fee + pm * fee + lm * fee
  OBVIOUS
<1>3. /\ got * fee \in Nat /\ pm * fee \in Nat /\ lm * fee \in Nat
      /\ paid * den \in Nat /\ pf * den \in Nat /\ lf * den \in Nat
  OBVIOUS
<1> DEFINE g == Grain((got + pm + lm) * fee)
<1>4. /\ g \in Nat
      /\ Grain(got * fee) \in Nat /\ Grain(pm * fee) \in Nat /\ Grain(lm * fee) \in Nat
      /\ Grain(got * fee) + Grain(pm * fee) + Grain(lm * fee) <= g
  BY GrainAdd
<1>5. paid * den + pf * den + lf * den <= got * fee + pm * fee + lm * fee + g
  BY <1>3, <1>4
<1> QED
  BY <1>1, <1>2, <1>5

\* A leg moves the reserves of the pool and nothing else.
LEMMA LegMovesPool ==
  ASSUME amm \in Pool, NEW leg, leg.qty \in Nat, leg.mints \in Nat
  PROVE  LET n == AfterLeg(leg)
         IN  /\ n.k = amm.k /\ n.df = amm.df
             /\ n.a_tokens = amm.a_tokens + leg.qty
             /\ n.b_tokens = amm.b_tokens - leg.mints
             /\ n \in [k : Nat, a_tokens : Int, b_tokens : Int, df : Nat \ {0}]
             /\ leg.qty = 0 /\ leg.mints = 0 => n = amm
<1> DEFINE n == AfterLeg(leg)
           x == amm.a_tokens + leg.qty
           y == amm.b_tokens - leg.mints
<1>1. n = [amm EXCEPT !.a_tokens = x, !.b_tokens = y]
  BY DEF AfterLeg
<1>2. /\ x \in Int /\ y \in Int
      /\ leg.qty = 0 => x = amm.a_tokens
      /\ leg.mints = 0 => y = amm.b_tokens
  BY DEF Pool
<1> HIDE DEF n, x, y
<1>3. n.k = amm.k /\ n.df = amm.df /\ n.a_tokens = x /\ n.b_tokens = y
  BY <1>1 DEF Pool
<1>4. n \in [k : Nat, a_tokens : Int, b_tokens : Int, df : Nat \ {0}]
  BY <1>1, <1>2 DEF Pool
<1>5. ASSUME x = amm.a_tokens, y = amm.b_tokens PROVE n = amm
  BY <1>1, <1>5 DEF Pool
<1> QED
  BY <1>2, <1>3, <1>4, <1>5 DEF n, x, y

\* One iteration of the loop with sound legs that together sell no more than
\* remains; only an iteration without a pool leg goes on.
SoundStep(pool, line, next) ==
  /\ pc = "loop"
  /\ SoundPoolLeg(pool)
  /\ line.qty \in Nat /\ line.mints \in Int
  /\ \/ line = NoLeg
     \/ /\ taken' = taken + 1
        /\ TradeSumFails(amm, line.qty, CurrentLine.price) \/ SoundLineLeg(line)
  /\ pool.qty + line.qty <= remaining
  /\ taken' \in {taken, taken + 1} /\ taken' <= Len(market.lines)
  /\ next \in {"stopped", "loop"} /\ (next = "loop" => pool = NoLeg)
  /\ TradeLegs(pool, line, next)

SoundTrade == \E pool, line, next : SoundStep(pool, line, next)

LEMMA TradePreserves ==
  ASSUME IInv, NEW pool, NEW line, NEW next, SoundStep(pool, line, next)
  PROVE  IInv'
<1> DEFINE fails == \/ amm.a_tokens + remaining > I64Max
                    \/ line # NoLeg /\ TradeSumFails(amm, line.qty, CurrentLine.price)
           new   == AfterLeg(pool)
           fees  == total_fees + FeeOn(pool.mints) + FeeOn(line.mints)
           got   == pool.mints + line.mints
           spent == pool.qty + line.qty
           ok    == ~fails /\ Fits({filled + got, fees, new.a_tokens, new.b_tokens})
<1>1. /\ pc'         = IF ok THEN next ELSE "failed"
      /\ remaining'  = IF ok THEN remaining - spent ELSE remaining
      /\ filled'     = IF ok THEN filled + got ELSE filled
      /\ total_fees' = IF ok THEN fees ELSE total_fees
      /\ amm'        = IF ok THEN new ELSE amm
      /\ market' = market
  BY DEF SoundStep, TradeLegs, Settle
<1>2. /\ market \in Markets /\ Reserves(market.amm)
      /\ amm = market.amm /\ amm \in Pool
      /\ price \in Nat /\ market.amount \in Nat
      /\ taken \in Nat /\ Len(market.lines) \in Nat
  <2>1. market.lines \in Seq(Line)
    BY MarketFacts DEF IInv, Market
  <2> QED
    BY <2>1, MarketFacts, WidthAssumption
       DEF IInv, TypeOK, PoolUntouched, price, I64, SoundStep
<1>3. price' = price
  BY <1>1 DEF price
<1>4. PICK seen \in 0 .. Len(market.lines) :
        taken' = seen /\ seen \in {taken, taken + 1} /\ taken <= seen
  BY <1>2 DEF SoundStep
<1>5. fees \in Int
  <2>1. market.fee \in Nat /\ total_fees \in Int /\ FeeDen \in Nat \ {0}
    BY MarketFacts, MarketsAssumption DEF IInv, TypeOK, Market
  <2>2. ASSUME NEW m \in Int PROVE FeeOn(m) \in Int
    BY <2>1, FeeOnBounds, FeeOnRefund
  <2>3. pool.mints \in Int /\ line.mints \in Int
    BY DEF SoundPoolLeg, SoundStep
  <2>4. FeeOn(pool.mints) \in Int /\ FeeOn(line.mints) \in Int
    BY <2>2, <2>3
  <2> QED
    BY <2>1, <2>4
<1>6. /\ spent \in Nat /\ got \in Int /\ spent <= remaining
      /\ remaining \in 0 .. market.amount /\ filled \in Nat
  BY DEF SoundPoolLeg, IInv, NeverOversells, SlippageBound, SoundStep
<1>7. /\ new.k = amm.k /\ new.df = amm.df
      /\ new.a_tokens = amm.a_tokens + pool.qty
      /\ new.b_tokens = amm.b_tokens - pool.mints
      /\ new \in [k : Nat, a_tokens : Int, b_tokens : Int, df : Nat \ {0}]
      /\ (pool.qty = 0 /\ pool.mints = 0 => new = amm)
  <2>1. pool.qty \in Nat /\ pool.mints \in Nat
    BY DEF SoundPoolLeg, SoundStep
  <2> QED
    BY <2>1, <1>2, LegMovesPool
<1> HIDE DEF fees, spent, new, got
<1>8. CASE ~ok
  <2> HIDE DEF ok
  <2>1. /\ pc' = "failed" /\ remaining' = remaining /\ filled' = filled
        /\ total_fees' = total_fees /\ amm' = amm /\ market' = market
    BY <1>1, <1>8
  <2>2. TypeOK' /\ (market \in Markets)' /\ Resolved' /\ PoolUntouched' /\ CurveKept'
    BY <2>1, <1>4 DEF IInv, TypeOK, Resolved, PoolUntouched, CurveKept
  <2>3. NeverOversells' /\ PoolStaysAboveLimit' /\ PoolOnCurve'
    BY <2>1, <1>3 DEF IInv, NeverOversells, PoolStaysAboveLimit, PoolOnCurve
  <2>4. SlippageBound'
    <3>1. (filled + taken) * amm.df + Grain(Sold * price) >= Sold * price
          /\ amm.df \in Nat
      BY <1>2 DEF IInv, SlippageBound, SoldAtLimitOrBetter, Pool
    <3>2. (filled + taken) * amm.df <= (filled + seen) * amm.df
      <4>1. filled + taken \in Nat /\ filled + seen \in Nat
            /\ filled + taken <= filled + seen
        BY <1>2, <1>4, <1>6
      <4> QED
        BY <4>1, <3>1, ProductLe
    <3> QED
      <4>1. (filled + seen) * amm.df + Grain(Sold * price) >= Sold * price
        <5>1. Sold \in Nat /\ (filled + taken) * amm.df \in Int
              /\ (filled + seen) * amm.df \in Int
          BY <3>1, <1>2, <1>4, <1>6 DEF Sold
        <5>2. Sold * price \in Nat
          BY <5>1, <1>2
        <5>3. Grain(Sold * price) \in Nat
          BY <5>2, GrainBound
        <5> QED
          BY <3>1, <3>2, <5>1, <5>2, <5>3
      <4> QED
        BY <4>1, <2>1, <1>3, <1>4, <1>6
           DEF SlippageBound, SoldAtLimitOrBetter, Sold
  <2>5. FeeBound'
    <3> DEFINE g == Grain(filled * market.fee)
    <3>1. /\ total_fees \in Nat /\ total_fees * FeeDen <= filled * market.fee + g
          /\ FeeDen \in Nat /\ taken \in Nat /\ filled * market.fee \in Nat
          /\ g \in Nat
      BY <1>2, <1>6, MarketFacts, MarketsAssumption, GrainBound DEF IInv, FeeBound, Market
    <3> HIDE DEF g
    <3>2. ASSUME market.fee <= FeeDen
          PROVE  filled * market.fee <= (total_fees + seen + 1) * FeeDen + g
      <4>1. filled * market.fee <= (total_fees + taken + LegsBeyondLines) * FeeDen + g
            /\ LegsBeyondLines \in {0, 1}
        BY <3>2 DEF IInv, FeeBound, LegsBeyondLines, g
      <4>2. PICK legs \in {0, 1} : LegsBeyondLines = legs
        BY <4>1
      <4>3. (total_fees + taken + legs) * FeeDen <= (total_fees + seen + 1) * FeeDen
        <5>1. total_fees + taken + legs \in Nat /\ total_fees + seen + 1 \in Nat
              /\ total_fees + taken + legs <= total_fees + seen + 1
          BY <3>1, <1>4
        <5> QED
          BY <5>1, <3>1, ProductLe
      <4>4. (total_fees + taken + legs) * FeeDen \in Int
            /\ (total_fees + seen + 1) * FeeDen \in Int
        BY <3>1, <1>4
      <4> QED
        BY <4>1, <4>2, <4>3, <4>4, <3>1
    <3>3. LegsBeyondLines' = 1
      BY <2>1 DEF LegsBeyondLines
    <3> QED
      BY <2>1, <1>4, <3>1, <3>2, <3>3 DEF FeeBound, g
  <2> QED
    BY <2>2, <2>3, <2>4, <2>5 DEF IInv
<1>9. CASE ok
  <2>1. ~fails
    BY <1>9
  <2> HIDE DEF ok
  <2>2. PICK rem, sum :
          /\ pc' = next /\ total_fees' = fees /\ amm' = new /\ market' = market
          /\ remaining' = rem /\ rem = remaining - spent
          /\ filled' = sum /\ sum = filled + got
    BY <1>1, <1>9
  <2>3. line = NoLeg \/ (taken' = taken + 1 /\ SoundLineLeg(line))
    BY <2>1 DEF SoundStep
  <2> HIDE DEF fails
  <2>4. TypeOK' /\ (market \in Markets)' /\ Resolved' /\ CurveKept'
    <3>1. rem \in Int /\ sum \in Int
      BY <2>2, <1>6
    <3>2. pc' \in {"enter", "loop", "stopped", "quoted", "failed"}
      BY <2>2 DEF SoundStep
    <3>3. market' \in Market /\ taken' \in 0 .. Len(market'.lines)
      BY <2>2, <1>2, <1>4, MarketFacts
    <3> QED
      BY <2>2, <1>2, <1>5, <1>7, <3>1, <3>2, <3>3 DEF IInv, TypeOK, Resolved, CurveKept
  <2>5. PoolUntouched'
    <3>1. ASSUME pool = NoLeg PROVE new = amm
      BY <3>1, <1>7 DEF NoLeg
    <3> QED
      BY <3>1, <2>2, <1>2 DEF PoolUntouched, SoundStep
  <2>6. NeverOversells'
    BY <2>2, <1>2, <1>6 DEF NeverOversells
  <2>7. PoolStaysAboveLimit'
    <3>1. new.a_tokens # market.amm.a_tokens => pool.qty # 0
      BY <1>2, <1>7 DEF Pool
    <3> QED
      BY <3>1, <2>2, <1>2, <1>3, <1>7 DEF PoolStaysAboveLimit, SoundPoolLeg, SoundStep
  <2>8. PoolOnCurve'
    <3>1. CASE pool.qty = 0
      <4>1. new = amm
        BY <3>1, <1>7 DEF SoundPoolLeg, SoundStep
      <4> QED
        BY <4>1, <2>2, <1>2 DEF PoolOnCurve
    <3>2. CASE pool.qty # 0
      BY <3>2, <2>2, <1>7 DEF PoolOnCurve, SoundPoolLeg, SoundStep
    <3> QED
      BY <3>1, <3>2
  <2>9. SlippageBound'
    <3>1. amm.df \in Nat /\ seen - taken \in Nat
      BY <1>2, <1>4 DEF Pool
    <3>2. (filled + taken) * amm.df + Grain((market.amount - remaining) * price)
            >= (market.amount - remaining) * price
      BY DEF IInv, SlippageBound, SoldAtLimitOrBetter, Sold
    <3>3. pool.qty * price <= pool.mints * amm.df + Grain(pool.qty * price)
          /\ pool.qty \in Nat /\ pool.mints \in Nat /\ line.qty \in Nat
      <4>1. pool.qty * price <= pool.mints * amm.df
            /\ pool.qty \in Nat /\ pool.mints \in Nat /\ line.qty \in Nat
        BY DEF SoundPoolLeg, SoundStep
      <4>2. pool.qty * price \in Nat /\ pool.mints * amm.df \in Nat
        BY <4>1, <3>1, <1>2
      <4>3. Grain(pool.qty * price) \in Nat
        BY <4>2, GrainBound
      <4> QED
        BY <4>1, <4>2, <4>3
    <3>4. line.qty * price <= (line.mints + (seen - taken)) * amm.df
                                + Grain(line.qty * price)
          /\ line.mints \in Nat
      <4>1. CASE line = NoLeg
        <5>1. 0 <= (0 + (seen - taken)) * amm.df
          BY <3>1
        <5>2. line.qty = 0 /\ line.mints = 0
          BY <4>1 DEF NoLeg
        <5>3. line.qty * price = 0 /\ Grain(0) \in Nat
          BY <5>2, <1>2, GrainBound
        <5> QED
          BY <5>1, <5>2, <5>3, <3>1
      <4>2. CASE taken' = taken + 1 /\ SoundLineLeg(line)
        <5>1. seen - taken = 1
          BY <4>2, <1>2, <1>4
        <5> QED
          BY <4>2, <5>1 DEF SoundLineLeg
      <4> QED
        BY <4>1, <4>2, <2>3
    <3>5. ((filled + taken) + pool.mints + (line.mints + (seen - taken))) * amm.df
            + Grain(((market.amount - remaining) + pool.qty + line.qty) * price)
            >= ((market.amount - remaining) + pool.qty + line.qty) * price
      <4>1. filled + taken \in Nat /\ market.amount - remaining \in Nat
            /\ line.mints + (seen - taken) \in Nat
        BY <1>2, <1>6, <3>1, <3>4
      <4> QED
        BY <4>1, <3>1, <3>2, <3>3, <3>4, <1>2, BoundsAdd
    <3>6. sum + seen = (filled + taken) + pool.mints + (line.mints + (seen - taken))
          /\ sum \in Nat
      <4>1. sum = filled + (pool.mints + line.mints)
        BY <2>2 DEF got
      <4>2. filled \in Nat /\ taken \in Nat /\ seen \in Nat
        BY <1>2, <1>4, <1>6
      <4> QED
        BY <4>1, <4>2, <3>3, <3>4
    <3>7. market.amount - rem = (market.amount - remaining) + pool.qty + line.qty
      <4>1. rem = remaining - (pool.qty + line.qty)
        BY <2>2 DEF spent
      <4>2. remaining \in Int /\ market.amount \in Int
        BY <1>2, <1>6
      <4> QED
        BY <4>1, <4>2, <3>3
    <3>8. (sum + seen) * amm.df + Grain((market.amount - rem) * price)
            >= (market.amount - rem) * price
      BY <3>5, <3>6, <3>7
    <3>9. amm'.df = amm.df /\ filled' = sum /\ taken' = seen
          /\ remaining' = rem /\ market' = market
      BY <2>2, <1>4, <1>7
    <3> QED
      BY <3>6, <3>8, <3>9, <1>3 DEF SlippageBound, SoldAtLimitOrBetter, Sold
  <2>10. FeeBound'
    <3> DEFINE pf == FeeOn(pool.mints)
               lf == FeeOn(line.mints)
               fee == market.fee
               a == IF pool = NoLeg THEN 0 ELSE 1
               b == seen - taken
    <3>1. fee \in Nat /\ FeeDen \in Nat \ {0} /\ filled \in Nat /\ total_fees \in Nat
          /\ taken \in Nat /\ a \in Nat /\ b \in Nat
      BY <1>2, <1>4, <1>6, MarketFacts, MarketsAssumption DEF IInv, FeeBound, Market
    <3>2. pool.mints \in Nat /\ line.mints \in Nat /\ (b = 0 => line.mints = 0)
      <4>1. line = NoLeg => line.mints = 0
        BY DEF NoLeg
      <4>2. taken' = taken + 1 => b = 1
        BY <1>2, <1>4
      <4> QED
        BY <4>1, <4>2, <2>3 DEF SoundPoolLeg, SoundLineLeg, SoundStep
    <3>3. pf \in Nat /\ pf * FeeDen <= pool.mints * fee + Grain(pool.mints * fee)
          /\ lf \in Nat /\ lf * FeeDen <= line.mints * fee + Grain(line.mints * fee)
      BY <3>1, <3>2, FeeOnBounds
    <3>4. filled' = filled + pool.mints + line.mints
          /\ total_fees' = total_fees + pf + lf /\ taken' = seen /\ market' = market
      <4>1. filled' = filled + (pool.mints + line.mints)
        BY <2>2 DEF got
      <4>2. total_fees' = total_fees + pf + lf
        BY <2>2 DEF fees
      <4> QED
        BY <4>1, <4>2, <2>2, <1>4, <3>1, <3>2
    <3>5. total_fees * FeeDen <= filled * fee + Grain(filled * fee)
      BY DEF IInv, FeeBound
    <3>6. (total_fees + pf + lf) * FeeDen
            <= (filled + pool.mints + line.mints) * fee
                 + Grain((filled + pool.mints + line.mints) * fee)
      BY <3>1, <3>2, <3>3, <3>5, FeesAdd
    <3>7. ASSUME fee <= FeeDen
          PROVE  filled' * fee <= (total_fees' + taken' + LegsBeyondLines') * FeeDen
                                    + Grain(filled' * fee)
      <4>1. pool.mints <= I64Max /\ line.mints <= I64Max
        <5>1. filled + got <= I64Max
          BY <1>9 DEF ok, Fits
        <5> QED
          BY <5>1, <3>1, <3>2, WidthAssumption DEF got
      <4>2. /\ pool.mints * fee <= (pf + 1) * FeeDen + Grain(pool.mints * fee)
            /\ pool.mints = 0 => pf = 0
            /\ line.mints * fee <= (lf + 1) * FeeDen + Grain(line.mints * fee)
            /\ line.mints = 0 => lf = 0
            /\ Grain(pool.mints * fee) \in Nat /\ Grain(line.mints * fee) \in Nat
        <5>1. pool.mints * fee \in Nat /\ line.mints * fee \in Nat
          BY <3>1, <3>2
        <5>2. Grain(pool.mints * fee) \in Nat /\ Grain(line.mints * fee) \in Nat
          BY <5>1, GrainBound
        <5> QED
          BY <5>2, <3>1, <3>2, <3>7, <4>1, FeeOnBounds
      <4>3. pool.mints * fee <= (pf + a) * FeeDen + Grain(pool.mints * fee)
        <5>1. CASE pool = NoLeg
          <6>1. pool.mints = 0 /\ a = 0
            BY <5>1 DEF NoLeg
          <6> QED
            BY <6>1, <3>1, <4>2
        <5>2. CASE pool # NoLeg
          BY <5>2, <4>2
        <5> QED
          BY <5>1, <5>2
      <4>4. line.mints * fee <= (lf + b) * FeeDen + Grain(line.mints * fee)
        <5>1. CASE b = 0
          <6>1. line.mints = 0 /\ lf + b = 0
            BY <5>1, <3>2, <4>2
          <6>2. line.mints * fee = 0 /\ (lf + b) * FeeDen = 0
            BY <6>1, <3>1
          <6> QED
            BY <6>2, <4>2
        <5>2. CASE b = 1
          BY <5>2, <4>2
        <5> QED
          BY <5>1, <5>2, <1>2, <1>4
      <4>5. filled * fee <= (total_fees + taken) * FeeDen + Grain(filled * fee)
        <5>1. pc = "loop"
          BY DEF SoundStep
        <5>2. filled * fee <= (total_fees + taken + 0) * FeeDen + Grain(filled * fee)
          BY <5>1, <3>7 DEF IInv, FeeBound, LegsBeyondLines
        <5> QED
          BY <5>2, <3>1
      <4> HIDE DEF pf, lf, a, b, fee
      <4>6. ((total_fees + taken) + (pf + a) + (lf + b)) * FeeDen
              + Grain((filled + pool.mints + line.mints) * fee)
              >= (filled + pool.mints + line.mints) * fee
        <5>1. total_fees + taken \in Nat /\ pf + a \in Nat /\ lf + b \in Nat
          BY <3>1, <3>3
        <5> QED
          BY <5>1, <4>3, <4>4, <4>5, <3>1, <3>2, BoundsAdd
      <4>7. a <= LegsBeyondLines' /\ LegsBeyondLines' \in {0, 1}
        BY <2>2 DEF SoundStep, LegsBeyondLines, a
      <4>8. PICK legs \in {0, 1} : LegsBeyondLines' = legs /\ a <= legs
        BY <4>7
      <4>9. (total_fees + taken) + (pf + a) + (lf + b)
              <= (total_fees + pf + lf) + seen + legs
        BY <4>8, <3>1, <3>3, <1>2, <1>4 DEF b
      <4>10. (filled + pool.mints + line.mints) * fee
               <= ((total_fees + pf + lf) + seen + legs) * FeeDen
                    + Grain((filled + pool.mints + line.mints) * fee)
        <5>1. ((total_fees + taken) + (pf + a) + (lf + b)) * FeeDen
                <= ((total_fees + pf + lf) + seen + legs) * FeeDen
          <6>1. (total_fees + taken) + (pf + a) + (lf + b) \in Nat
                /\ (total_fees + pf + lf) + seen + legs \in Nat
            BY <3>1, <3>3, <4>8, <1>4
          <6> QED
            BY <6>1, <4>9, <3>1, ProductLe
        <5>2. /\ (filled + pool.mints + line.mints) * fee \in Nat
              /\ ((total_fees + taken) + (pf + a) + (lf + b)) * FeeDen \in Int
              /\ ((total_fees + pf + lf) + seen + legs) * FeeDen \in Int
          BY <3>1, <3>2, <3>3, <4>8, <1>4
        <5>3. Grain((filled + pool.mints + line.mints) * fee) \in Nat
          BY <5>2, GrainBound
        <5> QED
          BY <4>6, <5>1, <5>2, <5>3
      <4> QED
        BY <4>8, <4>10, <3>4
    <3>8. total_fees' \in Nat
      BY <3>1, <3>3, <3>4
    <3> QED
      BY <3>4, <3>6, <3>7, <3>8 DEF FeeBound
  <2> QED
    BY <2>4, <2>5, <2>6, <2>7, <2>8, <2>9, <2>10 DEF IInv
<1> QED
  BY <1>8, <1>9

-----------------------------------------------------------------------------
\* What every branch of the loop knows.
LEMMA LoopFacts ==
  ASSUME IInv, pc = "loop"
  PROVE  /\ Reserves(amm) /\ price \in I64 /\ remaining \in Nat /\ taken \in Nat
         /\ amm_px \in Nat
         /\ Len(market.lines) \in Nat /\ taken <= Len(market.lines)
         /\ amm.a_tokens + remaining < Precision
<1>1. market.lines \in Seq(Line)
  BY MarketFacts DEF IInv, Market
<1>2. Reserves(amm) /\ price \in I64 /\ market.amount \in Nat
  BY MarketFacts, WidthAssumption DEF IInv, PoolUntouched, price, I64
<1>3. remaining \in Nat
  BY <1>2 DEF IInv, NeverOversells
<1>4. amm_px \in Nat
  BY <1>2, <1>3, SellTypes DEF amm_px, I64
<1>5. Len(market.lines) \in Nat
  BY <1>1
<1>6. taken \in 0 .. Len(market.lines)
  BY DEF IInv, TypeOK
<1>7. amm.a_tokens + remaining < Precision
  <2>1. amm = market.amm /\ amm.a_tokens \in Nat /\ remaining \in 0 .. market.amount
        /\ amm.a_tokens + market.amount < Precision
    BY <1>2 DEF IInv, PoolUntouched, NeverOversells, Resolved, Reserves
  <2> QED
    BY <2>1, <1>2, PrecisionAssumption
<1> QED
  BY <1>2, <1>3, <1>4, <1>5, <1>6, <1>7

LEMMA LineFacts ==
  ASSUME IInv, pc = "loop", MoreLines
  PROVE  CurrentLine.price \in I64 /\ CurrentLine.qty \in I64 /\ taken + 1 <= Len(market.lines)
<1>1. market.lines \in Seq(Line) /\ taken + 1 \in 1 .. Len(market.lines)
  BY MarketFacts DEF IInv, TypeOK, Market, MoreLines
<1>2. market.lines[taken + 1] \in Line
  BY <1>1
<1> QED
  BY <1>1, <1>2 DEF CurrentLine, Line

LEMMA LineLegFields ==
  ASSUME IInv, pc = "loop", MoreLines, NEW q \in Nat
  PROVE  LineLeg(q).qty = q /\ LineLeg(q).mints \in Int
<1>1. CurrentLine.price \in Nat /\ amm.df \in Nat \ {0}
  BY LineFacts, LoopFacts, WidthAssumption DEF I64, Reserves
<1>2. trade_sum(amm, q, CurrentLine.price) \in Nat
  BY <1>1, TradeSum
<1> QED
  BY <1>2 DEF LineLeg

LEMMA TailLegSound ==
  ASSUME IInv, pc = "loop"
  PROVE  SoundPoolLeg(TailLeg) /\ TailLeg.qty \in 0 .. remaining
<1>1. CASE partial_fill(amm_px, price, "Bid")
  <2>1. get_amm_qty(amm, price, "Bid") \in 0 .. remaining
    BY <1>1, LoopFacts, SellStopsShort DEF partial_fill, amm_px, I64
  <2>2. TailLeg = PoolLeg(get_amm_qty(amm, price, "Bid"))
    BY <1>1 DEF TailLeg
  <2> QED
    BY <2>1, <2>2, LoopFacts, PoolLegSound, WidthAssumption DEF I64
<1>2. CASE ~partial_fill(amm_px, price, "Bid")
  <2>1. price <= get_amm_px(amm, remaining, "Bid")
    BY <1>2, LoopFacts, WidthAssumption DEF partial_fill, amm_px, I64
  <2>2. TailLeg = PoolLeg(remaining)
    BY <1>2 DEF TailLeg
  <2> QED
    BY <2>1, <2>2, LoopFacts, PoolLegSound, WidthAssumption DEF I64
<1> QED
  BY <1>1, <1>2

\* A last iteration that trades with the pool alone.
LEMMA PoolStep ==
  ASSUME IInv, pc = "loop", NEW leg, SoundPoolLeg(leg), leg.qty <= remaining,
         taken' = taken \/ (taken' = taken + 1 /\ MoreLines),
         TradeLegs(leg, NoLeg, "stopped")
  PROVE  SoundTrade
<1>1. taken' <= Len(market.lines)
  BY LoopFacts, LineFacts
<1>2. leg.qty + NoLeg.qty <= remaining
  BY LoopFacts DEF NoLeg, SoundPoolLeg
<1>3. SoundStep(leg, NoLeg, "stopped")
  BY <1>1, <1>2 DEF SoundStep, NoLeg
<1> QED
  BY <1>3 DEF SoundTrade

-----------------------------------------------------------------------------
\* A call starts with nothing sold, on the market's own pool.
LEMMA InitSound == InitSell /\ Resolved => IInv
<1> SUFFICES ASSUME InitSell, Resolved PROVE IInv
  OBVIOUS
<1>1. /\ market \in Markets /\ market \in Market /\ Reserves(market.amm)
      /\ market.amount \in Nat /\ price \in Nat /\ market.amm \in Pool
      /\ amm = market.amm /\ pc = "enter" /\ taken = 0 /\ filled = 0
      /\ total_fees = 0 /\ remaining = market.amount
  BY MarketFacts, WidthAssumption DEF InitSell, InitCall, price, I64
<1>2. Len(market.lines) \in Nat
  BY <1>1 DEF Market
<1>3. TypeOK
  BY <1>1, <1>2 DEF TypeOK, Pool
<1>4. PoolUntouched /\ CurveKept /\ PoolStaysAboveLimit /\ PoolOnCurve
  BY <1>1 DEF PoolUntouched, CurveKept, PoolStaysAboveLimit, PoolOnCurve
<1>5. NeverOversells
  BY <1>1 DEF NeverOversells
<1>6. SlippageBound
  <2>1. Sold = 0 /\ (filled + taken) * amm.df = 0 /\ Sold * price = 0 /\ Grain(0) \in Nat
    BY <1>1, GrainBound DEF Sold, Reserves
  <2> QED
    BY <2>1, <1>1 DEF SlippageBound, SoldAtLimitOrBetter
<1>7. FeeBound
  <2>1. market.fee \in Nat /\ FeeDen \in Nat \ {0} /\ Grain(0) \in Nat
    BY <1>1, MarketsAssumption, GrainBound DEF Market
  <2> QED
    BY <2>1, <1>1 DEF FeeBound, LegsBeyondLines
<1> QED
  BY <1>1, <1>3, <1>4, <1>5, <1>6, <1>7 DEF IInv

\* Steps that touch nothing but pc, and never lead back into the loop after it.
LEMMA ControlStep ==
  ASSUME IInv, UNCHANGED <<market, taken, remaining, filled, total_fees, amm>>,
         pc' \in {"loop", "stopped", "quoted", "failed"},
         pc' = "loop" => pc \in {"enter", "loop"}
  PROVE  IInv'
<1>1. (market \in Markets)' /\ Resolved' /\ TypeOK' /\ PoolUntouched' /\ CurveKept'
  BY DEF IInv, Resolved, TypeOK, PoolUntouched, CurveKept
<1>2. price' = price
  BY DEF price
<1>3. NeverOversells' /\ PoolStaysAboveLimit' /\ PoolOnCurve'
  BY <1>2 DEF IInv, NeverOversells, PoolStaysAboveLimit, PoolOnCurve
<1>4. SlippageBound'
  BY <1>2 DEF IInv, SlippageBound, SoldAtLimitOrBetter, Sold
<1>5. FeeBound'
  <2>0. filled * market.fee \in Nat
    BY MarketFacts DEF IInv, SlippageBound, Market
  <2>1. total_fees \in Nat /\ FeeDen \in Nat /\ taken \in Nat
        /\ Grain(filled * market.fee) \in Nat
    BY <2>0, MarketFacts, MarketsAssumption, GrainBound DEF IInv, FeeBound, TypeOK, Market
  <2>2. PICK old \in {0, 1}, new \in {0, 1} :
          LegsBeyondLines = old /\ LegsBeyondLines' = new /\ old <= new
    BY DEF LegsBeyondLines
  <2>3. (total_fees + taken + old) * FeeDen <= (total_fees + taken + new) * FeeDen
    <3>1. total_fees + taken + old \in Nat /\ total_fees + taken + new \in Nat
          /\ total_fees + taken + old <= total_fees + taken + new
      BY <2>1, <2>2
    <3> QED
      BY <3>1, <2>1, ProductLe
  <2>4. (total_fees + taken + old) * FeeDen \in Int
        /\ (total_fees + taken + new) * FeeDen \in Int
    BY <2>1, <2>2
  <2> QED
    BY <2>0, <2>1, <2>2, <2>3, <2>4 DEF IInv, FeeBound
<1> QED
  BY <1>1, <1>3, <1>4, <1>5 DEF IInv

LEMMA TailStep ==
  ASSUME IInv, pc = "loop",
         taken' = taken \/ (taken' = taken + 1 /\ MoreLines),
         Trade(TailLeg, NoLeg, "stopped")
  PROVE  SoundTrade
<1>1. TradeLegs(TailLeg, NoLeg, "stopped")
  BY Zenon DEF Trade
<1>2. SoundPoolLeg(TailLeg) /\ TailLeg.qty <= remaining
  BY TailLegSound, LoopFacts
<1> QED
  BY <1>1, <1>2, PoolStep

\* The line is out of reach: the pool is sold down to the limit, which takes
\* less than remains because selling all would go past the line, and past it.
LEMMA UnreachableSound ==
  ASSUME IInv, SellUnreachable
  PROVE  SoundTrade
<1> DEFINE q == get_amm_qty(amm, price, "Bid")
<1>1. /\ pc = "loop" /\ MoreLines /\ taken' = taken + 1
      /\ ~(amm_px >= CurrentLine.price) /\ price > CurrentLine.price
      /\ TradeLegs(PoolLeg(q), NoLeg, "stopped")
  BY DEF SellUnreachable, AtLine, Trade, last_line, line_is_unreachable
<1>2. /\ Reserves(amm) /\ price \in I64 /\ remaining \in Nat /\ amm_px \in Nat
      /\ CurrentLine.price \in I64
  BY <1>1, LoopFacts, LineFacts
<1>3. get_amm_px(amm, remaining, "Bid") < price
  BY <1>1, <1>2, WidthAssumption DEF amm_px, I64
<1>4. q \in 0 .. remaining
  BY <1>1, <1>2, <1>3, LoopFacts, SellStopsShort DEF I64
<1> HIDE DEF q
<1>5. SoundPoolLeg(PoolLeg(q)) /\ PoolLeg(q).qty \in 0 .. q
  BY <1>1, <1>2, <1>4, PoolLegSound, WidthAssumption DEF q, I64
<1>6. PoolLeg(q).qty <= remaining
  BY <1>2, <1>4, <1>5
<1> QED
  BY <1>1, <1>5, <1>6, PoolStep

\* The pool down to the line, then the line for the rest.
LEMMA PoolThenLineSound ==
  ASSUME IInv, SellPoolThenLine
  PROVE  SoundTrade
<1> DEFINE lp   == CurrentLine.price
           q    == get_amm_qty(amm, lp, "Bid")
           pool == PoolLeg(q)
           rest == remaining - pool.qty
           line == IF rest > 0 THEN LineLeg(rest) ELSE NoLeg
<1>1. /\ pc = "loop" /\ MoreLines /\ taken' = taken + 1
      /\ ~(amm_px >= lp) /\ ~(price > lp)
      /\ TradeLegs(pool, line, "stopped")
  BY DEF SellPoolThenLine, AtLine, Trade, last_line, line_is_unreachable
<1>2. /\ Reserves(amm) /\ price \in I64 /\ remaining \in Nat /\ amm_px \in Nat
      /\ lp \in I64 /\ taken \in Nat /\ taken + 1 <= Len(market.lines)
  BY <1>1, LoopFacts, LineFacts
<1> HIDE DEF lp
<1>3. get_amm_px(amm, remaining, "Bid") < lp /\ price <= lp
  BY <1>1, <1>2, WidthAssumption DEF amm_px, I64
<1>4. q \in 0 .. remaining
  BY <1>1, <1>2, <1>3, LoopFacts, SellStopsShort DEF I64
<1> HIDE DEF q
<1>5. SoundPoolLeg(pool) /\ pool.qty \in 0 .. q
  BY <1>1, <1>2, <1>3, <1>4, PoolLegSound, WidthAssumption DEF q, I64
<1> HIDE DEF pool
<1>6. rest \in Nat /\ pool.qty + rest = remaining /\ pool.qty \in Nat
  BY <1>2, <1>4, <1>5
<1> HIDE DEF rest
<1>7. /\ line.qty \in Nat /\ line.mints \in Int /\ line.qty <= rest
      /\ \/ line = NoLeg
         \/ TradeSumFails(amm, line.qty, lp) \/ SoundLineLeg(line)
  <2>1. CASE rest > 0
    <3>1. LineLeg(rest).qty = rest /\ LineLeg(rest).mints \in Int
      BY <1>1, <1>6, LineLegFields
    <3>2. TradeSumFails(amm, rest, lp) \/ SoundLineLeg(LineLeg(rest))
      BY <1>1, <1>3, <1>6, LineLegSound DEF lp
    <3> QED
      BY <2>1, <3>1, <3>2, <1>6
  <2>2. CASE ~(rest > 0)
    BY <2>2, <1>6 DEF NoLeg
  <2> QED
    BY <2>1, <2>2
<1> HIDE DEF line
<1>8. SoundStep(pool, line, "stopped")
  BY <1>1, <1>2, <1>5, <1>6, <1>7 DEF SoundStep, lp
<1> QED
  BY <1>8 DEF SoundTrade

\* A line that is taken whole beats the limit, whatever the pool's price.
LEMMA CoverLineSound ==
  ASSUME IInv, SellCoverLine
  PROVE  SoundTrade
<1> DEFINE lp   == CurrentLine.price
           lq   == CurrentLine.qty
           line == LineLeg(lq)
<1>1. /\ pc = "loop" /\ MoreLines /\ taken' = taken + 1
      /\ remaining > lq
      /\ Greatest(next_amm_px, price) <= lp
      /\ TradeLegs(NoLeg, line, "loop")
  BY DEF SellCoverLine, AtLine, Trade, cover_line
<1>2. /\ Reserves(amm) /\ price \in Nat /\ remaining \in Nat
      /\ lp \in Nat /\ lq \in Nat /\ taken \in Nat /\ taken + 1 <= Len(market.lines)
  BY <1>1, LoopFacts, LineFacts, WidthAssumption DEF I64
<1>3. price <= lp
  <2>1. next_amm_px \in Nat
    <3>1. remaining - lq \in Nat /\ price \in I64
      BY <1>1, <1>2, LoopFacts
    <3> QED
      BY <3>1, <1>2, SellTypes DEF next_amm_px, I64
  <2> QED
    BY <2>1, <1>1, <1>2 DEF Greatest
<1>4. line.qty = lq /\ line.mints \in Int
  BY <1>1, <1>2, LineLegFields
<1>5. TradeSumFails(amm, lq, lp) \/ SoundLineLeg(line)
  BY <1>1, <1>2, <1>3, LineLegSound
<1>6. SoundPoolLeg(NoLeg)
  <2>1. 0 * price <= 0 * amm.df
    BY <1>2 DEF Reserves
  <2> QED
    BY <2>1 DEF SoundPoolLeg, NoLeg
<1> HIDE DEF line
<1>7. NoLeg.qty + line.qty <= remaining
  BY <1>1, <1>2, <1>4 DEF NoLeg
<1>8. SoundStep(NoLeg, line, "loop")
  BY <1>1, <1>2, <1>4, <1>5, <1>6, <1>7 DEF SoundStep
<1> QED
  BY <1>8 DEF SoundTrade

\* The pool down to the line or the limit, whichever is higher.
LEMMA PoolAndStopSound ==
  ASSUME IInv, SellPoolAndStop
  PROVE  SoundTrade
<1> DEFINE px == Greatest(CurrentLine.price, price)
           g  == get_amm_qty(amm, px, "Bid")
           q  == Least(g, remaining)
<1>1. /\ pc = "loop" /\ MoreLines /\ taken' = taken + 1
      /\ TradeLegs(PoolLeg(q), NoLeg, "stopped")
  BY DEF SellPoolAndStop, AtLine, Trade
<1>2. Reserves(amm) /\ price \in I64 /\ remaining \in Nat /\ CurrentLine.price \in I64
  BY <1>1, LoopFacts, LineFacts
<1>3. px \in I64 /\ price <= px
  BY <1>2, WidthAssumption DEF Greatest, I64
<1> HIDE DEF px
<1>4. g \in Nat
  BY <1>2, <1>3, SellTypes DEF I64
<1> HIDE DEF g
<1>5. q \in Nat /\ q <= g /\ q <= remaining
  BY <1>2, <1>4 DEF Least
<1> HIDE DEF q
<1>6. SoundPoolLeg(PoolLeg(q)) /\ PoolLeg(q).qty \in 0 .. q
  BY <1>1, <1>3, <1>5, PoolLegSound DEF g
<1>7. PoolLeg(q).qty <= remaining
  BY <1>2, <1>5, <1>6
<1> QED
  BY <1>1, <1>6, <1>7, PoolStep

\* Every branch of the loop trades sound legs.
LEMMA BranchSound ==
  ASSUME IInv,
         \/ SellToPool \/ SellLastLine \/ SellUnreachable
         \/ SellPoolThenLine \/ SellCoverLine \/ SellPoolAndStop
  PROVE  SoundTrade
<1>1. CASE SellToPool
  BY <1>1, TailStep DEF SellToPool, PastLines
<1>2. CASE SellLastLine
  BY <1>2, TailStep DEF SellLastLine, AtLine
<1>3. CASE SellUnreachable
  BY <1>3, UnreachableSound
<1>4. CASE SellPoolThenLine
  BY <1>4, PoolThenLineSound
<1>5. CASE SellCoverLine
  BY <1>5, CoverLineSound
<1>6. CASE SellPoolAndStop
  BY <1>6, PoolAndStopSound
<1> QED
  BY <1>1, <1>2, <1>3, <1>4, <1>5, <1>6

\* Every step of a sell quote preserves the invariant.
LEMMA StepPreserves == IInv /\ [Next]_vars => IInv'
<1> SUFFICES ASSUME IInv, [Next]_vars PROVE IInv'
  OBVIOUS
<1>1. CASE EnterSell
  BY <1>1, ControlStep DEF EnterSell, Enter
<1>2. CASE \/ SellToPool \/ SellLastLine \/ SellUnreachable
           \/ SellPoolThenLine \/ SellCoverLine \/ SellPoolAndStop
  <2>1. PICK pool, line, next : SoundStep(pool, line, next)
    BY <1>2, BranchSound DEF SoundTrade
  <2> QED
    BY <2>1, TradePreserves
<1>3. CASE ReturnSell
  BY <1>3, ControlStep DEF ReturnSell, Return
<1>4. CASE UNCHANGED vars
  <2>1. (market \in Markets)' /\ Resolved' /\ TypeOK' /\ PoolUntouched' /\ CurveKept'
        /\ price' = price
    BY <1>4 DEF vars, IInv, Resolved, TypeOK, PoolUntouched, CurveKept, price
  <2>2. NeverOversells' /\ PoolStaysAboveLimit' /\ PoolOnCurve' /\ SlippageBound'
    BY <1>4, <2>1 DEF vars, IInv, NeverOversells, PoolStaysAboveLimit, PoolOnCurve,
                      SlippageBound, SoldAtLimitOrBetter, Sold
  <2>3. FeeBound'
    BY <1>4 DEF vars, IInv, FeeBound, LegsBeyondLines
  <2> QED
    BY <2>1, <2>2, <2>3 DEF IInv
<1> QED
  BY <1>1, <1>2, <1>3, <1>4 DEF Next

\* A book that hands out its lines one call of next at a time: a line more
\* disturbs nothing.
LEMMA LineArrives ==
  ASSUME IInv, market' \in Markets, NEW l,
         market' = [market EXCEPT !.lines = Append(@, l)],
         UNCHANGED <<pc, taken, remaining, filled, total_fees, amm>>
  PROVE  IInv'
<1>1. /\ market \in Market /\ market' \in Market
      /\ market.lines \in Seq(Line) /\ market'.lines = Append(market.lines, l)
      /\ market'.amm = market.amm /\ market'.amount = market.amount
      /\ market'.fee = market.fee /\ limit_price(market', "Bid") = limit_price(market, "Bid")
  <2>1. market \in Market /\ market' \in Market
    BY MarketFacts DEF IInv
  <2> QED
    BY <2>1 DEF Market, limit_price, market_px
<1>2. taken \in 0 .. Len(market'.lines)
  BY <1>1 DEF IInv, TypeOK
<1>3. Resolved' /\ TypeOK' /\ PoolUntouched' /\ CurveKept' /\ price' = price
  BY <1>1, <1>2 DEF IInv, Resolved, TypeOK, PoolUntouched, CurveKept, price
<1>4. NeverOversells' /\ PoolStaysAboveLimit' /\ PoolOnCurve' /\ SlippageBound'
  BY <1>1, <1>3 DEF IInv, NeverOversells, PoolStaysAboveLimit, PoolOnCurve,
                    SlippageBound, SoldAtLimitOrBetter, Sold
<1>5. FeeBound'
  BY <1>1 DEF IInv, FeeBound, LegsBeyondLines
<1> QED
  BY <1>3, <1>4, <1>5 DEF IInv

LEMMA Invariance == Resolved /\ Spec => []IInv
BY InitSound, StepPreserves, PTL DEF Spec

\* The local variables of a sell quote keep their types (lib.rs, quote).
THEOREM TypeCorrect == Resolved /\ Spec => []TypeOK
<1>1. IInv => TypeOK
  BY DEF IInv
<1> QED
  BY <1>1, Invariance, PTL

\* For every market whose quantities f64 resolves, whatever the width, the fee
\* and the roundings, no branch of the loop sells a negative quantity or more than
\* the amount of the call.
THEOREM NeverOversellsHolds == Resolved /\ Spec => []NeverOversells
<1>1. IInv => NeverOversells
  BY DEF IInv
<1> QED
  BY <1>1, Invariance, PTL

\* However f64 rounds, the pool is never sold below the limit price, through
\* get_amm_qty or through get_amm_px, by more than f64 may be off at the square
\* of the curve.
THEOREM PoolStaysAboveLimitHolds == Resolved /\ Spec => []PoolStaysAboveLimit
<1>1. IInv => PoolStaysAboveLimit
  BY DEF IInv
<1> QED
  BY <1>1, Invariance, PTL

\* However f64 rounds, the clone of the pool ends on the curve it started on.
THEOREM PoolOnCurveHolds == Resolved /\ Spec => []PoolOnCurve
<1>1. IInv => PoolOnCurve
  BY DEF IInv
<1> QED
  BY <1>1, Invariance, PTL

\* For every fee rate, the fees of a sell are the rate on what it fetched, less
\* a truncation per leg and up to a rounding.
THEOREM EveryLegPaysItsFeeHolds == Resolved /\ Spec => []EveryLegPaysItsFee
<1>1. IInv => EveryLegPaysItsFee
  <2> SUFFICES ASSUME IInv PROVE EveryLegPaysItsFee
    OBVIOUS
  <2>0. filled * market.fee \in Nat
    BY MarketFacts DEF IInv, SlippageBound, Market
  <2>1. total_fees \in Nat /\ FeeDen \in Nat /\ taken \in Nat
        /\ Grain(filled * market.fee) \in Nat
    BY <2>0, MarketFacts, MarketsAssumption, GrainBound DEF IInv, FeeBound, TypeOK, Market
  <2>2. PICK legs \in {0, 1} : LegsBeyondLines = legs
    BY DEF LegsBeyondLines
  <2>3. (total_fees + taken + legs) * FeeDen <= (total_fees + taken + 1) * FeeDen
    <3>1. total_fees + taken + legs \in Nat /\ total_fees + taken + 1 \in Nat
          /\ total_fees + taken + legs <= total_fees + taken + 1
      BY <2>1
    <3> QED
      BY <3>1, <2>1, ProductLe
  <2>4. (total_fees + taken + legs) * FeeDen \in Int
        /\ (total_fees + taken + 1) * FeeDen \in Int
    BY <2>1
  <2> QED
    BY <2>0, <2>1, <2>2, <2>3, <2>4 DEF IInv, FeeBound, EveryLegPaysItsFee
<1> QED
  BY <1>1, Invariance, PTL

\* However f64 rounds, the proceeds of a sell are worth the limit price per
\* unit, up to one currency unit for each line met and a rounding.
THEOREM SoldAtLimitOrBetterHolds == Resolved /\ Spec => []SoldAtLimitOrBetter
<1>1. IInv => SoldAtLimitOrBetter
  BY DEF IInv, SlippageBound
<1> QED
  BY <1>1, Invariance, PTL

-----------------------------------------------------------------------------
\* The pool after a leg of q units has nothing left above a price that q
\* units reach.
LEMMA Emptied ==
  ASSUME IInv, pc = "loop", NEW q \in Nat, PoolLeg(q) # NoLeg,
         NEW fl \in I64, get_amm_qty(amm, fl, "Bid") <= q
  PROVE  /\ get_amm_qty(AfterLeg(PoolLeg(q)), fl, "Bid") = 0
         /\ PoolLeg(q).qty = q
<1> DEFINE m   == get_amm_sum(amm, q, "Bid")
           new == AfterLeg(PoolLeg(q))
           r   == RootAsI64(amm.k * amm.df, fl)
<1>1. PoolLeg(q) = [qty |-> q, mints |-> m] /\ q # 0 /\ m # 0
  BY DEF PoolLeg
<1>2. Reserves(amm) /\ amm.b_tokens <= I64Max
  BY MarketFacts, LoopFacts DEF IInv, PoolUntouched, I64
<1>3. m \in Nat
  BY <1>2, SellSum DEF Reserves
<1>4. PoolLeg(q).qty = q /\ PoolLeg(q).mints = m
  BY <1>1
<1>5. new.k = amm.k /\ new.df = amm.df /\ new.a_tokens = amm.a_tokens + q
  <2>1. amm \in Pool
    BY MarketFacts DEF IInv, PoolUntouched
  <2> QED
    BY <2>1, <1>3, <1>4, LegMovesPool
<1>6. r \in Nat
  <2>1. amm.k * amm.df \in Nat
    BY <1>2 DEF Reserves
  <2> QED
    BY <2>1, RootBound, WidthAssumption DEF I64
<1>7. /\ get_amm_qty(amm, fl, "Bid") = Greatest(0, r - amm.a_tokens)
      /\ get_amm_qty(new, fl, "Bid") = Greatest(0, r - (amm.a_tokens + q))
  BY <1>5 DEF get_amm_qty
<1> HIDE DEF r, new, m
<1>8. get_amm_qty(new, fl, "Bid") = 0
  BY <1>2, <1>6, <1>7 DEF Greatest, Reserves
<1> QED
  BY <1>4, <1>8 DEF new

\* A pool that would not take q units is as it was, and takes no fewer either.
LEMMA Refused ==
  ASSUME IInv, pc = "loop", NEW q \in Nat, PoolLeg(q) = NoLeg,
         NEW less \in Nat, less <= q
  PROVE  /\ AfterLeg(PoolLeg(q)) = amm
         /\ less = 0 \/ get_amm_sum(amm, less, "Bid") = 0
<1>1. Reserves(amm) /\ amm.b_tokens <= I64Max /\ amm \in Pool
  BY MarketFacts, LoopFacts DEF IInv, PoolUntouched, I64
<1>2. AfterLeg(PoolLeg(q)) = amm
  <2>1. NoLeg.qty \in Nat /\ NoLeg.mints \in Nat /\ NoLeg.qty = 0 /\ NoLeg.mints = 0
    BY DEF NoLeg
  <2> QED
    BY <2>1, <1>1, LegMovesPool
<1>3. q = 0 \/ get_amm_sum(amm, q, "Bid") = 0
  BY DEF PoolLeg, NoLeg
<1>4. CASE q = 0
  BY <1>2, <1>4
<1>5. CASE get_amm_sum(amm, q, "Bid") = 0
  BY <1>1, <1>2, <1>5, SellNothingForLess
<1> QED
  BY <1>3, <1>4, <1>5

\* A step that ends the walk: pool and remaining quantity are those of its legs.
LEMMA StopOutcome ==
  ASSUME NEW leg, TradeLegs(leg, NoLeg, "stopped"), pc' = "stopped",
         leg.qty \in Int, remaining \in Int
  PROVE  remaining' = remaining - leg.qty /\ amm' = AfterLeg(leg)
<1>1. /\ remaining' \in {remaining - (leg.qty + NoLeg.qty), remaining}
      /\ pc' # "failed" => /\ remaining' = remaining - (leg.qty + NoLeg.qty)
                           /\ amm' = AfterLeg(leg)
  BY DEF TradeLegs, Settle
<1> QED
  BY <1>1 DEF NoLeg

-----------------------------------------------------------------------------
\* The worst price at which the walk may stop and leave something.
Floor == IF taken = 0 \/ market.lines = <<>> THEN price
         ELSE Greatest(price, market.lines[taken].price)

NothingAtFloor ==
  LET q == Least(get_amm_qty(amm, Floor, "Bid"), remaining)
  IN  q = 0 \/ get_amm_sum(amm, q, "Bid") = 0

StopsEmpty ==
  pc = "stopped" /\ Enters(market, "Bid") /\ remaining > 0 => NothingAtFloor

\* A limit price that f64 tells from the next tick at the sizes it resolves.
PriceResolved == 2 * price < Precision

\* The ways the last leg is sized: down to a price not above the floor, or all
\* that remains.
Sized(q, px) ==
  /\ px \in I64
  /\ \/ q = get_amm_qty(amm, px, "Bid")
     \/ q = remaining
     \/ q = Least(get_amm_qty(amm, px, "Bid"), remaining)

LEMMA SizedType ==
  ASSUME IInv, pc = "loop", NEW q, NEW px, Sized(q, px)
  PROVE  q \in Nat /\ get_amm_qty(amm, px, "Bid") \in Nat
<1>1. get_amm_qty(amm, px, "Bid") \in Nat /\ remaining \in Nat
  BY LoopFacts, SellTypes DEF Sized, I64
<1> QED
  BY <1>1 DEF Sized, Least

LEMMA FloorType == IInv => Floor \in I64 /\ price <= Floor
<1> SUFFICES ASSUME IInv PROVE Floor \in I64 /\ price <= Floor
  OBVIOUS
<1>1. price \in I64 /\ market.lines \in Seq(Line) /\ taken \in 0 .. Len(market.lines)
  BY MarketFacts DEF IInv, TypeOK, price, Market
<1>2. CASE taken = 0 \/ market.lines = <<>>
  BY <1>1, <1>2, WidthAssumption DEF Floor, I64
<1>3. CASE ~(taken = 0 \/ market.lines = <<>>)
  <2>1. taken \in 1 .. Len(market.lines)
    BY <1>1, <1>3
  <2>2. market.lines[taken] \in Line
    BY <1>1, <2>1
  <2>3. market.lines[taken].price \in I64
    BY <2>2 DEF Line
  <2>4. Floor = Greatest(price, market.lines[taken].price)
    BY <1>3 DEF Floor
  <2> QED
    BY <1>1, <2>3, <2>4, WidthAssumption DEF Greatest, I64
<1> QED
  BY <1>2, <1>3

LEMMA FloorTypeNext == IInv' => (Floor \in I64 /\ price <= Floor)'
BY FloorType, PTL

LEMMA PoolStops ==
  ASSUME IInv, IInv', pc = "loop", NEW q, NEW px, Sized(q, px), px <= Floor',
         px = Floor' \/ 2 * px < Precision,
         TradeLegs(PoolLeg(q), NoLeg, "stopped"), pc' = "stopped", remaining' > 0
  PROVE  NothingAtFloor'
<1>1. q \in Nat /\ get_amm_qty(amm, px, "Bid") \in Nat /\ px \in I64
  BY SizedType DEF Sized
<1>2. Reserves(amm) /\ remaining \in Nat
  BY LoopFacts
<1>3. PICK fl \in I64 : fl = Floor' /\ px <= fl /\ (px = fl \/ (px < fl /\ 2 * px < Precision))
  <2>1. (Floor \in I64)'
    BY FloorTypeNext
  <2> QED
    <3> DEFINE f == Floor'
    <3>1. f \in I64 /\ px <= f /\ (px = f \/ 2 * px < Precision)
      BY <2>1
    <3>2. f \in Int /\ px \in Int
      BY <3>1, <1>1, WidthAssumption DEF I64
    <3> HIDE DEF f
    <3>3. px # f => px < f
      BY <3>1, <3>2
    <3>4. \E fl \in I64 : fl = f /\ px <= fl /\ (px = fl \/ (px < fl /\ 2 * px < Precision))
      <4>1. f \in I64 /\ px <= f /\ (px = f \/ (px < f /\ 2 * px < Precision))
        BY <3>1, <3>3, Zenon
      <4> QED
        BY <4>1, Zenon
    <3> QED
      BY <3>4 DEF f
<1> DEFINE g == get_amm_qty(amm, fl, "Bid")
<1>4. g \in Nat /\ g <= get_amm_qty(amm, px, "Bid")
  BY <1>1, <1>2, <1>3, SellTypes, SellQtyAntitone DEF I64
<1>5. CASE PoolLeg(q) = NoLeg
  <2>1. remaining' = remaining /\ amm' = AfterLeg(PoolLeg(q))
    BY <1>2, <1>5, StopOutcome DEF NoLeg
  <2> DEFINE less == Least(g, remaining)
  <2> HIDE DEF g
  <2>2. less \in Nat /\ less <= q
    BY <1>1, <1>2, <1>4 DEF Sized, Least
  <2> HIDE DEF less
  <2>3. amm' = amm /\ (less = 0 \/ get_amm_sum(amm, less, "Bid") = 0)
    BY <1>1, <1>5, <2>1, <2>2, Refused
  <2> QED
    BY <1>3, <2>1, <2>3 DEF NothingAtFloor, less, g
<1>6. CASE PoolLeg(q) # NoLeg
  <2>1. PoolLeg(q).qty = q
    BY <1>6 DEF PoolLeg
  <2>2. remaining' = remaining - q /\ amm' = AfterLeg(PoolLeg(q))
    BY <1>1, <1>2, <2>1, StopOutcome
  <2> HIDE DEF g
  <2>3. g <= q
    BY <1>1, <1>2, <1>4, <2>2 DEF Sized, Least
  <2>4. get_amm_qty(amm', fl, "Bid") = 0
    BY <1>1, <1>3, <1>6, <2>2, <2>3, Emptied DEF g
  <2>5. Least(0, remaining') = 0
    BY <1>1, <1>2, <2>2 DEF Least
  <2> QED
    BY <1>3, <2>4, <2>5 DEF NothingAtFloor
<1> QED
  BY <1>5, <1>6

\* The floor of a step that takes a line is that line's price or the limit.
LEMMA FloorAtLine ==
  ASSUME IInv, pc = "loop", MoreLines, taken' = taken + 1, market' = market
  PROVE  Floor' = Greatest(price, CurrentLine.price)
<1>1. market.lines \in Seq(Line) /\ taken \in 0 .. Len(market.lines)
  BY MarketFacts DEF IInv, TypeOK, Market
<1>2. taken + 1 # 0 /\ market.lines # <<>>
  BY <1>1 DEF MoreLines
<1> QED
  BY <1>2 DEF Floor, CurrentLine, price

\* The inputs of a call stay what they are.
LEMMA MarketKept ==
  ASSUME [Next]_vars
  PROVE  market' = market
BY DEF Next, vars, EnterSell, Enter, SellToPool, SellLastLine, SellUnreachable,
       SellPoolThenLine, SellCoverLine, SellPoolAndStop, ReturnSell, Return,
       Trade, TradeLegs, Settle

LEMMA StopsPreserved ==
  IInv /\ PriceResolved /\ StopsEmpty /\ [Next]_vars => PriceResolved' /\ StopsEmpty'
<1>a. ASSUME IInv, PriceResolved, [Next]_vars PROVE PriceResolved'
  BY <1>a, MarketKept DEF PriceResolved, price
<1> SUFFICES ASSUME IInv, PriceResolved, StopsEmpty, [Next]_vars,
                    pc' = "stopped", Enters(market, "Bid")', remaining' > 0
             PROVE  NothingAtFloor'
  BY <1>a DEF StopsEmpty
<1>0. IInv'
  BY StepPreserves
<1>1. CASE EnterSell
  BY <1>1 DEF EnterSell, Enter, Enters
<1>2. CASE SellToPool \/ SellLastLine
  <2>1. /\ pc = "loop" /\ TradeLegs(TailLeg, NoLeg, "stopped")
    BY <1>2 DEF SellToPool, SellLastLine, PastLines, AtLine, Trade
  <2>2. price \in I64
    BY <2>1, LoopFacts
  <2>3. PICK q : TailLeg = PoolLeg(q) /\ Sized(q, price)
    BY <2>2 DEF TailLeg, Sized
  <2>4. price <= Floor'
    <3>1. (Floor \in I64 /\ price <= Floor)'
      BY <1>0, FloorTypeNext
    <3>2. price' = price
      BY <2>1 DEF TradeLegs, Settle, price
    <3> QED
      BY <3>1, <3>2
  <2>5. TradeLegs(PoolLeg(q), NoLeg, "stopped")
    BY <2>1, <2>3
  <2> QED
    BY <2>1, <2>3, <2>4, <2>5, <1>0, PoolStops DEF PriceResolved
<1>3. CASE SellUnreachable
  <2> DEFINE q == get_amm_qty(amm, price, "Bid")
  <2>1. pc = "loop" /\ TradeLegs(PoolLeg(q), NoLeg, "stopped")
    BY <1>3 DEF SellUnreachable, AtLine, Trade
  <2>2. price \in I64 /\ Sized(q, price)
    BY <2>1, LoopFacts DEF Sized
  <2>3. price <= Floor'
    <3>1. (Floor \in I64 /\ price <= Floor)'
      BY <1>0, FloorTypeNext
    <3>2. price' = price
      BY <2>1 DEF TradeLegs, Settle, price
    <3> QED
      BY <3>1, <3>2
  <2> HIDE DEF q
  <2> QED
    BY <2>1, <2>2, <2>3, <1>0, PoolStops DEF PriceResolved
<1>4. CASE SellPoolThenLine
  <2> DEFINE pool == PoolLeg(get_amm_qty(amm, CurrentLine.price, "Bid"))
             rest == remaining - pool.qty
             line == IF rest > 0 THEN LineLeg(rest) ELSE NoLeg
  <2>1. pc = "loop" /\ MoreLines /\ TradeLegs(pool, line, "stopped")
    BY <1>4 DEF SellPoolThenLine, AtLine, Trade
  <2>2. remaining \in Nat /\ pool.qty \in Nat
    <3>1. Reserves(amm) /\ CurrentLine.price \in I64 /\ remaining \in Nat
      BY <2>1, LoopFacts, LineFacts
    <3>2. get_amm_qty(amm, CurrentLine.price, "Bid") \in Nat
      BY <3>1, SellTypes DEF I64
    <3> QED
      BY <3>1, <3>2 DEF PoolLeg, NoLeg
  <2> HIDE DEF pool
  <2>3. rest \in Int /\ (rest > 0 => line.qty = rest) /\ (~(rest > 0) => line.qty = 0)
    <3>1. rest \in Int
      BY <2>2
    <3> QED
      BY <3>1 DEF LineLeg, NoLeg
  <2>4. remaining' = remaining - (pool.qty + line.qty)
    BY <2>1 DEF TradeLegs, Settle
  <2> HIDE DEF line
  <2>5. ~(remaining' > 0)
    BY <2>2, <2>3, <2>4
  <2> QED
    BY <2>5
<1>5. CASE SellCoverLine
  <2>1. pc' \in {"loop", "failed"}
    BY <1>5 DEF SellCoverLine, Trade, TradeLegs, Settle
  <2> QED
    BY <2>1
<1>6. CASE SellPoolAndStop
  <2> DEFINE px == Greatest(CurrentLine.price, price)
             q  == Least(get_amm_qty(amm, px, "Bid"), remaining)
  <2>1. /\ pc = "loop" /\ MoreLines /\ taken' = taken + 1
        /\ TradeLegs(PoolLeg(q), NoLeg, "stopped")
    BY <1>6 DEF SellPoolAndStop, AtLine, Trade
  <2>2. price \in I64 /\ CurrentLine.price \in I64
    BY <2>1, LoopFacts, LineFacts
  <2>3. market' = market
    BY <2>1 DEF TradeLegs, Settle
  <2>4. px \in I64 /\ px <= Floor' /\ px = Floor'
    BY <2>1, <2>2, <2>3, FloorAtLine, WidthAssumption DEF Greatest, I64
  <2> HIDE DEF px
  <2>5. Sized(q, px)
    BY <2>4 DEF Sized
  <2> HIDE DEF q
  <2> QED
    BY <2>1, <2>4, <2>5, <1>0, PoolStops
<1>7. CASE ReturnSell
  BY <1>7 DEF ReturnSell, Return
<1>8. CASE UNCHANGED vars
  <2>1. Floor' = Floor /\ NothingAtFloor' = NothingAtFloor
    BY <1>8 DEF vars, Floor, NothingAtFloor, price
  <2> QED
    BY <1>8, <2>1 DEF vars, StopsEmpty
<1> QED
  BY <1>1, <1>2, <1>3, <1>4, <1>5, <1>6, <1>7, <1>8 DEF Next

\* For every market whose quantities and limit price f64 resolves, a sell that
\* leaves something unsold has used the pool up, down to the limit or to the line
\* it stopped at.
THEOREM StopsOnlyWherePoolEndsHolds ==
  Resolved /\ PriceResolved /\ Spec => []StopsOnlyWherePoolEnds
<1>1. InitSell => StopsEmpty
  BY DEF InitSell, InitCall, StopsEmpty
<1>2. Resolved /\ PriceResolved /\ Spec => [](IInv /\ PriceResolved /\ StopsEmpty)
  <2>1. IInv /\ PriceResolved /\ StopsEmpty /\ [Next]_vars
          => (IInv /\ PriceResolved /\ StopsEmpty)'
    BY StepPreserves, StopsPreserved
  <2> QED
    BY <1>1, <2>1, InitSound, PTL DEF Spec
<1>3. StopsEmpty => StopsOnlyWherePoolEnds
  BY DEF StopsEmpty, NothingAtFloor, Floor, StopsOnlyWherePoolEnds, PoolLeg
<1> QED
  BY <1>2, <1>3, PTL

-----------------------------------------------------------------------------
\* What an order book of one moment gives: best price first, and no price at
\* the very end of the type, where the price of the pool saturates.
Ladder ==
  \A i, j \in 1 .. Len(market.lines) :
    /\ i <= j => market.lines[j].price <= market.lines[i].price
    /\ market.lines[i].price < I64Max

\* Lines at prices that f64 tells from the next tick at the sizes it resolves.
LinesResolved == \A i \in 1 .. Len(market.lines) : 2 * market.lines[i].price < Precision

FineLadder == Ladder /\ LinesResolved

\* When a line has been taken, the pool is not above it even for all that
\* remains.
LinesAhead ==
  /\ pc = "enter" => taken = 0
  /\ pc = "loop" /\ taken > 0 =>
       /\ price <= market.lines[taken].price
       /\ get_amm_px(amm, remaining, "Bid") <= market.lines[taken].price

NothingAbove ==
  LET q == get_amm_qty(amm, market.lines[taken - 1].price + 1, "Bid")
  IN  q = 0 \/ get_amm_sum(amm, q, "Bid") = 0

LinesFirst == pc = "stopped" /\ taken > 1 => NothingAbove

\* A last leg leaves nothing above a price that it reaches and that selling
\* all that remains would pass.
LEMMA PoolBeaten ==
  ASSUME IInv, pc = "loop", NEW q, NEW px, Sized(q, px),
         NEW above \in I64, px = above \/ (px < above /\ 2 * px < Precision),
         get_amm_px(amm, remaining, "Bid") < above
  PROVE  LET new == AfterLeg(PoolLeg(q))
             g   == get_amm_qty(new, above, "Bid")
         IN  g = 0 \/ get_amm_sum(new, g, "Bid") = 0
<1> DEFINE g == get_amm_qty(amm, above, "Bid")
<1>1. q \in Nat /\ get_amm_qty(amm, px, "Bid") \in Nat /\ px \in I64
  BY SizedType DEF Sized
<1>2. Reserves(amm) /\ remaining \in Nat
  BY LoopFacts
<1>3. g \in 0 .. remaining /\ g <= get_amm_qty(amm, px, "Bid")
  <2>1. amm.a_tokens + remaining < Precision
    BY LoopFacts
  <2>2. g \in 0 .. remaining
    BY <2>1, <1>2, SellStopsShort DEF I64
  <2> QED
    BY <2>2, <1>1, <1>2, SellQtyAntitone DEF I64
<1> HIDE DEF g
<1>4. g \in Nat /\ g <= q
  BY <1>1, <1>2, <1>3 DEF Sized, Least
<1>5. CASE PoolLeg(q) = NoLeg
  BY <1>1, <1>4, <1>5, Refused DEF g
<1>6. CASE PoolLeg(q) # NoLeg
  BY <1>1, <1>4, <1>6, Emptied DEF g
<1> QED
  BY <1>5, <1>6

\* The price above the line before the last, when the walk is about to stop.
LEMMA AboveFacts ==
  ASSUME IInv, FineLadder, LinesAhead, pc = "loop", NEW seen \in {taken, taken + 1},
         seen > 1, seen = taken + 1 => MoreLines
  PROVE  /\ market.lines[seen - 1].price + 1 \in I64
         /\ price <= market.lines[seen - 1].price + 1
         /\ seen = taken + 1 => CurrentLine.price <= market.lines[seen - 1].price + 1
         /\ get_amm_px(amm, remaining, "Bid") < market.lines[seen - 1].price + 1
         /\ 2 * price < Precision
         /\ seen = taken + 1 => 2 * CurrentLine.price < Precision
<1>1. /\ market.lines \in Seq(Line) /\ taken \in Nat /\ taken <= Len(market.lines)
      /\ Len(market.lines) \in Nat /\ price \in Nat
  BY LoopFacts, MarketFacts, WidthAssumption DEF IInv, Market, I64
<1>2. taken \in 1 .. Len(market.lines) /\ seen - 1 \in 1 .. Len(market.lines)
      /\ seen - 1 <= taken
  BY <1>1
<1>3. ASSUME NEW i \in 1 .. Len(market.lines) PROVE market.lines[i].price \in I64
  <2>1. market.lines[i] \in Line
    BY <1>1
  <2> QED
    BY <2>1 DEF Line
<1> DEFINE last == market.lines[taken].price
           prev == market.lines[seen - 1].price
<1>4. last \in I64 /\ prev \in I64 /\ last <= prev /\ prev < I64Max /\ 2 * last < Precision
  BY <1>2, <1>3 DEF FineLadder, LinesResolved, Ladder
<1>5. price <= last /\ get_amm_px(amm, remaining, "Bid") <= last
  BY <1>2 DEF LinesAhead
<1>6. get_amm_px(amm, remaining, "Bid") \in Nat
  BY LoopFacts DEF amm_px
<1>7. ASSUME seen = taken + 1
      PROVE  /\ CurrentLine.price \in I64 /\ CurrentLine.price <= prev
             /\ 2 * CurrentLine.price < Precision
  <2>1. taken + 1 \in 1 .. Len(market.lines) /\ seen - 1 <= taken + 1
    BY <1>1, <1>2, <1>7 DEF MoreLines
  <2> QED
    BY <1>2, <1>3, <2>1 DEF FineLadder, LinesResolved, Ladder, CurrentLine
<1> HIDE DEF last, prev
<1>8. prev + 1 \in I64 /\ price <= prev + 1 /\ get_amm_px(amm, remaining, "Bid") < prev + 1
  BY <1>1, <1>4, <1>5, <1>6, WidthAssumption DEF I64
<1>9. seen = taken + 1 => CurrentLine.price <= prev + 1 /\ 2 * CurrentLine.price < Precision
  BY <1>4, <1>7, WidthAssumption DEF I64
<1>10. 2 * price < Precision
  BY <1>1, <1>4, <1>5, PrecisionAssumption, WidthAssumption DEF I64
<1> QED
  BY <1>8, <1>9, <1>10 DEF prev

\* A step that trades a sized leg against the pool and stops.
LEMMA BeatenStep ==
  ASSUME IInv, FineLadder, LinesAhead, pc = "loop", NEW q, NEW px, Sized(q, px),
         NEW line, TradeLegs(PoolLeg(q), line, "stopped"), pc' = "stopped",
         NEW seen \in {taken, taken + 1}, taken' = seen, seen > 1,
         seen = taken + 1 => MoreLines,
         px <= market.lines[seen - 1].price + 1, 2 * px < Precision
  PROVE  NothingAbove'
<1>1. amm' = AfterLeg(PoolLeg(q)) /\ market' = market
  BY DEF TradeLegs, Settle
<1> DEFINE above == market.lines[seen - 1].price + 1
<1>2. above \in I64 /\ get_amm_px(amm, remaining, "Bid") < above
  BY AboveFacts
<1>3. /\ above = market'.lines[taken' - 1].price + 1 /\ px <= above
      /\ px = above \/ (px < above /\ 2 * px < Precision)
  BY <1>1, <1>2, WidthAssumption DEF Sized, I64
<1> HIDE DEF above
<1>4. LET g == get_amm_qty(AfterLeg(PoolLeg(q)), above, "Bid")
      IN  g = 0 \/ get_amm_sum(AfterLeg(PoolLeg(q)), g, "Bid") = 0
  BY <1>2, <1>3, PoolBeaten
<1> QED
  BY <1>1, <1>3, <1>4 DEF NothingAbove

LEMMA CoverAhead ==
  ASSUME IInv, SellCoverLine, pc' = "loop"
  PROVE  LinesAhead'
<1> DEFINE lp   == CurrentLine.price
           lq   == CurrentLine.qty
           line == LineLeg(lq)
<1>1. /\ pc = "loop" /\ MoreLines /\ taken' = taken + 1 /\ remaining > lq
      /\ Greatest(next_amm_px, price) <= lp
      /\ TradeLegs(NoLeg, line, "loop")
  BY DEF SellCoverLine, AtLine, Trade, cover_line
<1>2. /\ Reserves(amm) /\ price \in I64 /\ remaining \in Nat /\ lp \in Nat /\ lq \in Nat
      /\ amm \in Pool
  BY <1>1, LoopFacts, LineFacts, MarketFacts, WidthAssumption DEF I64, IInv, PoolUntouched
<1>3. line.qty = lq
  BY DEF LineLeg
<1>4. /\ remaining' = remaining - (NoLeg.qty + line.qty)
      /\ amm' = AfterLeg(NoLeg) /\ market' = market
  BY <1>1 DEF TradeLegs, Settle
<1>5. amm' = amm
  <2>1. NoLeg.qty \in Nat /\ NoLeg.mints \in Nat /\ NoLeg.qty = 0 /\ NoLeg.mints = 0
    BY DEF NoLeg
  <2> QED
    BY <2>1, <1>2, <1>4, LegMovesPool
<1>6. remaining' = remaining - lq
  BY <1>2, <1>3, <1>4 DEF NoLeg
<1>7. next_amm_px \in Nat /\ next_amm_px = get_amm_px(amm, remaining - lq, "Bid")
  <2>1. remaining - lq \in Nat
    BY <1>1, <1>2
  <2> QED
    BY <2>1, <1>2, SellTypes DEF next_amm_px, I64
<1>8. price <= lp /\ next_amm_px <= lp
  BY <1>1, <1>2, <1>7, WidthAssumption DEF Greatest, I64
<1>9. price' = price /\ market'.lines[taken'].price = lp
  BY <1>1, <1>4 DEF price, CurrentLine
<1> QED
  BY <1>5, <1>6, <1>7, <1>8, <1>9 DEF LinesAhead

LEMMA AheadPreserved == IInv /\ Ladder /\ LinesAhead /\ [Next]_vars => Ladder' /\ LinesAhead'
<1> SUFFICES ASSUME IInv, Ladder, LinesAhead, [Next]_vars PROVE Ladder' /\ LinesAhead'
  OBVIOUS
<1>0. Ladder'
  BY MarketKept DEF Ladder
<1>1. CASE EnterSell
  BY <1>0, <1>1 DEF EnterSell, Enter, LinesAhead
<1>2. CASE SellToPool \/ SellLastLine \/ SellUnreachable \/ SellPoolThenLine \/ SellPoolAndStop
  <2>1. pc' \in {"stopped", "failed"}
    BY <1>2 DEF SellToPool, SellLastLine, SellUnreachable, SellPoolThenLine,
                SellPoolAndStop, Trade, TradeLegs, Settle
  <2> QED
    BY <1>0, <2>1 DEF LinesAhead
<1>3. CASE SellCoverLine
  <2>1. pc' \in {"loop", "failed"}
    BY <1>3 DEF SellCoverLine, Trade, TradeLegs, Settle
  <2>2. CASE pc' = "loop"
    BY <1>0, <1>3, <2>2, CoverAhead
  <2>3. CASE pc' = "failed"
    BY <1>0, <2>3 DEF LinesAhead
  <2> QED
    BY <2>1, <2>2, <2>3
<1>4. CASE ReturnSell
  BY <1>0, <1>4 DEF ReturnSell, Return, LinesAhead
<1>5. CASE UNCHANGED vars
  BY <1>0, <1>5 DEF vars, LinesAhead, price
<1> QED
  BY <1>0, <1>1, <1>2, <1>3, <1>4, <1>5 DEF Next

LEMMA BeatsPreserved ==
  IInv /\ FineLadder /\ LinesAhead /\ LinesFirst /\ [Next]_vars
    => FineLadder' /\ LinesAhead' /\ LinesFirst'
<1> SUFFICES ASSUME IInv, FineLadder, LinesAhead, LinesFirst, [Next]_vars
             PROVE  FineLadder' /\ LinesAhead' /\ LinesFirst'
  OBVIOUS
<1>0. taken \in Nat /\ price \in I64
  <2>1. market.lines \in Seq(Line) /\ taken \in 0 .. Len(market.lines)
    BY MarketFacts DEF IInv, TypeOK, Market
  <2> QED
    BY <2>1, MarketFacts DEF IInv, price
<1>1. CASE EnterSell
  BY <1>0, <1>1 DEF EnterSell, Enter, FineLadder, LinesResolved, Ladder, LinesAhead, LinesFirst
<1>2. CASE SellToPool \/ SellLastLine
  <2>1. /\ pc = "loop" /\ TradeLegs(TailLeg, NoLeg, "stopped")
        /\ taken' = taken \/ (taken' = taken + 1 /\ MoreLines)
    BY <1>2 DEF SellToPool, SellLastLine, PastLines, AtLine, Trade
  <2>2. PICK q : TailLeg = PoolLeg(q) /\ Sized(q, price)
    BY <1>0 DEF TailLeg, Sized
  <2>3. market' = market /\ pc' \in {"stopped", "failed"}
    BY <2>1 DEF TradeLegs, Settle
  <2>4. ASSUME pc' = "stopped", taken' > 1 PROVE NothingAbove'
    <3>1. PICK seen \in {taken, taken + 1} : taken' = seen /\ (seen = taken + 1 => MoreLines)
      BY <1>0, <2>1
    <3>2. price <= market.lines[seen - 1].price + 1 /\ 2 * price < Precision
      BY <2>1, <2>4, <3>1, AboveFacts
    <3>3. TradeLegs(PoolLeg(q), NoLeg, "stopped")
      BY <2>1, <2>2
    <3> QED
      BY <2>1, <2>2, <2>4, <3>1, <3>2, <3>3, BeatenStep
  <2> QED
    BY <2>3, <2>4 DEF FineLadder, LinesResolved, Ladder, LinesAhead, LinesFirst
<1>3. CASE SellUnreachable
  <2> DEFINE q == get_amm_qty(amm, price, "Bid")
  <2>1. /\ pc = "loop" /\ MoreLines /\ taken' = taken + 1
        /\ TradeLegs(PoolLeg(q), NoLeg, "stopped")
    BY <1>3 DEF SellUnreachable, AtLine, Trade
  <2>2. Sized(q, price)
    BY <1>0 DEF Sized
  <2>3. market' = market /\ pc' \in {"stopped", "failed"}
    BY <2>1 DEF TradeLegs, Settle
  <2> HIDE DEF q
  <2>4. ASSUME pc' = "stopped", taken' > 1 PROVE NothingAbove'
    <3>1. PICK seen \in {taken, taken + 1} : taken' = seen /\ seen = taken + 1
      BY <2>1
    <3>2. price <= market.lines[seen - 1].price + 1 /\ 2 * price < Precision
      BY <2>1, <2>4, <3>1, AboveFacts
    <3> QED
      BY <2>1, <2>2, <2>4, <3>1, <3>2, BeatenStep
  <2> QED
    BY <2>3, <2>4 DEF FineLadder, LinesResolved, Ladder, LinesAhead, LinesFirst
<1>4. CASE SellPoolThenLine
  <2> DEFINE lp   == CurrentLine.price
             q    == get_amm_qty(amm, lp, "Bid")
             rest == remaining - PoolLeg(q).qty
             line == IF rest > 0 THEN LineLeg(rest) ELSE NoLeg
  <2>1. /\ pc = "loop" /\ MoreLines /\ taken' = taken + 1
        /\ TradeLegs(PoolLeg(q), line, "stopped")
    BY <1>4 DEF SellPoolThenLine, AtLine, Trade
  <2> HIDE DEF line
  <2>2. Sized(q, lp)
    BY <2>1, LineFacts DEF Sized
  <2>3. market' = market /\ pc' \in {"stopped", "failed"}
    BY <2>1 DEF TradeLegs, Settle
  <2> HIDE DEF q
  <2>4. ASSUME pc' = "stopped", taken' > 1 PROVE NothingAbove'
    <3>1. PICK seen \in {taken, taken + 1} : taken' = seen /\ seen = taken + 1
      BY <2>1
    <3>2. lp <= market.lines[seen - 1].price + 1 /\ 2 * lp < Precision
      BY <2>1, <2>4, <3>1, AboveFacts
    <3> HIDE DEF lp
    <3> QED
      BY <2>1, <2>2, <2>4, <3>1, <3>2, BeatenStep
  <2> QED
    BY <2>3, <2>4 DEF FineLadder, LinesResolved, Ladder, LinesAhead, LinesFirst
<1>5. CASE SellCoverLine
  <2>1. market' = market /\ pc' \in {"loop", "failed"}
    BY <1>5 DEF SellCoverLine, Trade, TradeLegs, Settle
  <2>2. FineLadder' /\ LinesFirst'
    BY <2>1 DEF FineLadder, LinesResolved, Ladder, LinesFirst
  <2>3. CASE pc' = "loop"
    BY <1>5, <2>2, <2>3, CoverAhead
  <2>4. CASE pc' = "failed"
    BY <2>2, <2>4 DEF LinesAhead
  <2> QED
    BY <2>1, <2>3, <2>4
<1>6. CASE SellPoolAndStop
  <2> DEFINE px == Greatest(CurrentLine.price, price)
             q  == Least(get_amm_qty(amm, px, "Bid"), remaining)
  <2>1. /\ pc = "loop" /\ MoreLines /\ taken' = taken + 1
        /\ TradeLegs(PoolLeg(q), NoLeg, "stopped")
    BY <1>6 DEF SellPoolAndStop, AtLine, Trade
  <2>2. px \in I64 /\ px \in {CurrentLine.price, price}
    BY <1>0, <2>1, LineFacts DEF Greatest
  <2>3. Sized(q, px)
    BY <2>2 DEF Sized
  <2>4. market' = market /\ pc' \in {"stopped", "failed"}
    BY <2>1 DEF TradeLegs, Settle
  <2> HIDE DEF px, q
  <2>5. ASSUME pc' = "stopped", taken' > 1 PROVE NothingAbove'
    <3>1. PICK seen \in {taken, taken + 1} : taken' = seen /\ seen = taken + 1
      BY <2>1
    <3>2. px <= market.lines[seen - 1].price + 1 /\ 2 * px < Precision
      BY <2>1, <2>2, <2>5, <3>1, AboveFacts
    <3> QED
      BY <2>1, <2>3, <2>5, <3>1, <3>2, BeatenStep
  <2> QED
    BY <2>4, <2>5 DEF FineLadder, LinesResolved, Ladder, LinesAhead, LinesFirst
<1>7. CASE ReturnSell
  BY <1>7 DEF ReturnSell, Return, FineLadder, LinesResolved, Ladder, LinesAhead, LinesFirst
<1>8. CASE UNCHANGED vars
  <2>1. price' = price /\ NothingAbove' = NothingAbove
    BY <1>8 DEF vars, NothingAbove, price
  <2> QED
    BY <1>8, <2>1 DEF vars, FineLadder, LinesResolved, Ladder, LinesAhead, LinesFirst
<1> QED
  BY <1>1, <1>2, <1>3, <1>4, <1>5, <1>6, <1>7, <1>8 DEF Next

\* For every market whose lines come best price first, at prices f64 resolves, a
\* sell never leaves the pool ahead of a line it took before its last.
THEOREM TakenLinesBeatThePoolHolds ==
  Resolved /\ FineLadder /\ Spec => []TakenLinesBeatThePool
<1> DEFINE Inv == IInv /\ FineLadder /\ LinesAhead /\ LinesFirst
<1>1. Resolved /\ FineLadder /\ InitSell => Inv
  BY InitSound DEF InitSell, InitCall, LinesAhead, LinesFirst
<1>2. Inv /\ [Next]_vars => Inv'
  BY StepPreserves, BeatsPreserved
<1>3. LinesFirst => TakenLinesBeatThePool
  BY DEF LinesFirst, NothingAbove, TakenLinesBeatThePool, PoolLeg
<1> QED
  BY <1>1, <1>2, <1>3, PTL DEF Spec

-----------------------------------------------------------------------------
\* What a sell leaves in front of a line within the limit, where it does not take
\* the line whole.
LeftAtLine ==
  pc = "loop" /\ pc' = "stopped" /\ MoreLines /\ CurrentLine.price >= price
    => remaining' <= CurrentLine.qty

\* The amount that remains after a last iteration is no more than before it.
LEMMA LegsTakeFrom ==
  ASSUME NEW pool, NEW line, TradeLegs(pool, line, "stopped"),
         pool.qty \in Nat, line.qty \in Nat, remaining \in Nat
  PROVE  remaining' <= remaining
<1>1. remaining' \in {remaining - (pool.qty + line.qty), remaining}
  BY DEF TradeLegs, Settle
<1> QED
  BY <1>1

\* The pool is asked for all that the line cannot take, and gives it: its price
\* after that would still be above the line.
LEMMA PoolTakesTheRest ==
  ASSUME IInv, LinesResolved, SellPoolAndStop, pc' = "stopped", CurrentLine.price >= price
  PROVE  remaining' <= CurrentLine.qty
<1> DEFINE lp   == CurrentLine.price
           rest == remaining - CurrentLine.qty
           g    == get_amm_qty(amm, Greatest(lp, price), "Bid")
           q    == Least(g, remaining)
<1>1. /\ pc = "loop" /\ MoreLines /\ remaining > CurrentLine.qty
      /\ ~(Greatest(next_amm_px, price) <= lp)
      /\ TradeLegs(PoolLeg(q), NoLeg, "stopped")
  BY DEF SellPoolAndStop, AtLine, Trade, cover_line
<1>2. /\ Reserves(amm) /\ price \in I64 /\ remaining \in Nat /\ lp \in I64
      /\ CurrentLine.qty \in Nat /\ taken \in Nat /\ taken + 1 <= Len(market.lines)
  BY <1>1, LoopFacts, LineFacts, WidthAssumption DEF I64
<1>3. rest \in Nat /\ rest <= remaining /\ rest # 0
  BY <1>1, <1>2
<1>4. 2 * lp < Precision
  BY <1>2, LoopFacts, <1>1 DEF LinesResolved, CurrentLine
<1>5. lp < get_amm_px(amm, rest, "Bid")
  <2>1. next_amm_px = get_amm_px(amm, rest, "Bid")
    BY DEF next_amm_px
  <2>2. get_amm_px(amm, rest, "Bid") \in Nat
    BY <1>2, <1>3, SellTypes DEF I64
  <2> QED
    BY <1>1, <1>2, <2>1, <2>2, WidthAssumption DEF Greatest, I64
<1>6. amm.a_tokens + remaining <= I64Max
  <2>1. ~(amm.a_tokens + remaining > I64Max)
    BY <1>1 DEF TradeLegs, Settle
  <2> QED
    BY <2>1, <1>2, WidthAssumption DEF Reserves
<1>7. /\ amm.k = amm.a_tokens * amm.b_tokens /\ amm.b_tokens <= I64Max
  BY <1>1, MarketFacts DEF IInv, PoolUntouched, I64
<1>8. Greatest(lp, price) = lp
  BY <1>2, WidthAssumption DEF Greatest, I64
<1> HIDE DEF lp, rest
<1>9. amm.a_tokens # 0 /\ amm.b_tokens # 0 /\ rest <= g
  <2>1. amm.a_tokens + rest <= I64Max
    BY <1>2, <1>3, <1>6, WidthAssumption DEF Reserves
  <2>2. rest <= get_amm_qty(amm, lp, "Bid") /\ amm.a_tokens # 0 /\ amm.b_tokens # 0
    BY <2>1, <1>2, <1>3, <1>4, <1>5, <1>7, SellReaches DEF I64
  <2> QED
    BY <2>2, <1>8
<1>10. g \in Nat
  BY <1>2, <1>8, SellTypes DEF I64
<1> HIDE DEF g
<1>11. q \in Nat /\ rest <= q /\ q # 0
  BY <1>2, <1>3, <1>9, <1>10 DEF Least
<1> HIDE DEF q
<1>12. PoolLeg(q).qty = q
  <2>1. get_amm_sum(amm, q, "Bid") # 0
    BY <1>2, <1>7, <1>9, <1>11, EmptyPays
  <2> QED
    BY <2>1, <1>11 DEF PoolLeg
<1>13. remaining' = remaining - q
  BY <1>1, <1>2, <1>11, <1>12, StopOutcome
<1> QED
  BY <1>2, <1>3, <1>11, <1>13 DEF rest

LEMMA LeftAtLineStep ==
  ASSUME IInv, LinesResolved, [Next]_vars
  PROVE  LeftAtLine
<1>1. SUFFICES ASSUME pc = "loop", pc' = "stopped", MoreLines, CurrentLine.price >= price
               PROVE  remaining' <= CurrentLine.qty
  BY DEF LeftAtLine
<1>2. /\ remaining \in Nat /\ CurrentLine.qty \in Nat
      /\ price \in Nat /\ CurrentLine.price \in Nat /\ Reserves(amm)
  BY <1>1, LoopFacts, LineFacts, WidthAssumption DEF I64
<1>3. NoLeg.qty \in Nat
  BY DEF NoLeg
<1>4. CASE SellLastLine
  <2>1. remaining <= CurrentLine.qty /\ TradeLegs(TailLeg, NoLeg, "stopped")
    BY <1>4 DEF SellLastLine, Trade
  <2>2. TailLeg.qty \in Nat
    BY <1>1, <1>2, TailLegSound
  <2>3. remaining' <= remaining
    BY <2>1, <2>2, <1>2, <1>3, LegsTakeFrom
  <2>4. remaining' \in Int
    BY <2>1, <2>2, <1>2, <1>3 DEF TradeLegs, Settle
  <2> QED
    BY <2>1, <2>3, <2>4, <1>2
<1>5. CASE SellUnreachable
  BY <1>1, <1>2, <1>5 DEF SellUnreachable, line_is_unreachable
<1>6. CASE SellPoolThenLine
  <2> DEFINE pool == PoolLeg(get_amm_qty(amm, CurrentLine.price, "Bid"))
             rest == remaining - pool.qty
             line == IF rest > 0 THEN LineLeg(rest) ELSE NoLeg
  <2>1. remaining <= CurrentLine.qty /\ TradeLegs(pool, line, "stopped")
    BY <1>6 DEF SellPoolThenLine, Trade
  <2>2. pool.qty \in Nat
    <3>1. get_amm_qty(amm, CurrentLine.price, "Bid") \in Nat
      BY <1>1, <1>2, LineFacts, SellTypes DEF I64
    <3> QED
      BY <3>1, <1>3 DEF PoolLeg
  <2> HIDE DEF pool
  <2>3. line.qty \in Nat
    BY <2>2, <1>2, <1>3 DEF LineLeg
  <2> HIDE DEF line
  <2>4. remaining' <= remaining
    BY <2>1, <2>2, <2>3, <1>2, LegsTakeFrom
  <2>5. remaining' \in Int
    BY <2>1, <2>2, <2>3, <1>2 DEF TradeLegs, Settle
  <2> QED
    BY <2>1, <2>4, <2>5, <1>2
<1>7. CASE SellPoolAndStop
  BY <1>1, <1>7, PoolTakesTheRest
<1>8. CASE SellCoverLine
  BY <1>1, <1>8 DEF SellCoverLine, Trade, TradeLegs, Settle
<1>9. CASE SellToPool
  BY <1>1, <1>9 DEF SellToPool, PastLines
<1>10. CASE EnterSell \/ ReturnSell \/ UNCHANGED vars
  BY <1>1, <1>10 DEF EnterSell, Enter, ReturnSell, Return, vars
<1> QED
  BY <1>4, <1>5, <1>6, <1>7, <1>8, <1>9, <1>10 DEF Next

\* For every market whose quantities and line prices f64 resolves, a sell that
\* stops in front of a line within the limit leaves no more than the line could
\* have taken.
THEOREM LeavesAtMostTheLineHolds ==
  Resolved /\ LinesResolved /\ Spec => LeavesAtMostTheLine
<1>1. Resolved /\ LinesResolved /\ InitSell => IInv /\ LinesResolved
  BY InitSound
<1>2. IInv /\ LinesResolved /\ [Next]_vars => (IInv /\ LinesResolved)'
  BY StepPreserves, MarketKept DEF LinesResolved
<1>3. IInv /\ LinesResolved /\ [Next]_vars
        => [pc = "loop" /\ pc' = "stopped" /\ MoreLines /\ CurrentLine.price >= price
              => remaining' <= CurrentLine.qty]_vars
  BY LeftAtLineStep DEF LeftAtLine
<1> QED
  BY <1>1, <1>2, <1>3, PTL DEF Spec, LeavesAtMostTheLine

-----------------------------------------------------------------------------
\* Every sell quote implements SellPromise: each step of the loop is a stutter
\* of the promise, and the return is its one answer.

\* A quote that passes the final test is within the request.
LEMMA ReturnWithinRequest ==
  ASSUME IInv, Sold # 0, filled # total_fees
  PROVE  Promise!WithinRequest(
           [amount |-> market.amount, price |-> price, fee |-> market.fee,
            df |-> market.amm.df, lines |-> Len(market.lines)],
           Sold, filled, total_fees)
<1>1. /\ market.amount \in Nat /\ market.fee \in Nat /\ FeeDen \in Nat \ {0}
      /\ price \in Nat /\ amm.df \in Nat /\ amm.df = market.amm.df
      /\ filled \in Nat /\ total_fees \in Nat /\ remaining \in 0 .. market.amount
  <2>1. market.amount \in Nat /\ market.fee \in Nat /\ price \in Nat
    BY MarketFacts, WidthAssumption DEF IInv, price, I64, Market
  <2>2. amm.df \in Nat /\ amm.df = market.amm.df
    BY DEF IInv, TypeOK, CurveKept
  <2>3. filled \in Nat /\ total_fees \in Nat /\ remaining \in 0 .. market.amount
    BY DEF IInv, FeeBound, SlippageBound, NeverOversells
  <2> QED
    BY <2>1, <2>2, <2>3, MarketsAssumption
<1>2. taken \in Nat /\ Len(market.lines) \in Nat /\ taken <= Len(market.lines)
  <2>1. Len(market.lines) \in Nat
    BY MarketFacts DEF IInv, Market
  <2> QED
    BY <2>1 DEF IInv, TypeOK
<1>3. Sold \in 1 .. market.amount
  BY <1>1 DEF Sold
<1> DEFINE gs == Grain(Sold * price)
           gf == Grain(filled * market.fee)
<1>0. /\ gs = (Sold * price) \div Precision /\ gf = (filled * market.fee) \div Precision
      /\ gs \in Nat /\ gf \in Nat /\ gf <= filled * market.fee
  <2>1. Sold * price \in Nat /\ filled * market.fee \in Nat
    BY <1>1, <1>3
  <2> QED
    BY <2>1, GrainBound DEF Grain
<1> HIDE DEF gs, gf
<1>4. (filled + Len(market.lines)) * market.amm.df + gs >= Sold * price
  <2>1. (filled + taken) * amm.df + gs >= Sold * price
    BY DEF IInv, SlippageBound, SoldAtLimitOrBetter, gs
  <2>2. (filled + taken) * amm.df <= (filled + Len(market.lines)) * amm.df
    <3>1. filled + taken \in Nat /\ filled + Len(market.lines) \in Nat
          /\ filled + taken <= filled + Len(market.lines)
      BY <1>1, <1>2
    <3> QED
      BY <3>1, <1>1, ProductLe
  <2>3. /\ Sold * price \in Int /\ (filled + taken) * amm.df \in Int
        /\ (filled + Len(market.lines)) * amm.df \in Int
    BY <1>1, <1>2, <1>3
  <2> QED
    BY <2>1, <2>2, <2>3, <1>0, <1>1
<1>5. total_fees * FeeDen <= filled * market.fee + gf
  BY DEF IInv, FeeBound, gf
<1>6. ASSUME 2 * market.fee <= FeeDen PROVE filled > total_fees
  <2>1. (2 * market.fee) * filled <= FeeDen * filled
    BY <1>1, <1>6, ProductLe
  <2>2. (2 * market.fee) * filled = 2 * (filled * market.fee) /\ filled * market.fee \in Nat
    BY <1>1
  <2>3. total_fees * FeeDen <= FeeDen * filled
    <3> DEFINE n == filled * market.fee
               f == total_fees * FeeDen
               c == FeeDen * filled
    <3>1. n \in Nat /\ f \in Nat /\ c \in Nat /\ f <= n + gf /\ gf <= n /\ 2 * n <= c
      BY <2>1, <2>2, <1>0, <1>1, <1>5
    <3> HIDE DEF n, f, c
    <3>2. f <= c
      BY <3>1, <1>0
    <3> QED
      BY <3>2 DEF f, c
  <2>4. total_fees <= filled
    <3>1. SUFFICES ASSUME filled + 1 <= total_fees PROVE FALSE
      BY <1>1
    <3>2. (filled + 1) * FeeDen <= total_fees * FeeDen
      BY <3>1, <1>1, ProductLe
    <3>3. (filled + 1) * FeeDen = FeeDen * filled + FeeDen
      BY <1>1
    <3>4. FeeDen * filled \in Nat /\ total_fees * FeeDen \in Nat
      BY <1>1
    <3> QED
      BY <2>3, <3>2, <3>3, <3>4, <1>1
  <2> QED
    BY <1>1, <2>4
<1> QED
  BY <1>0, <1>1, <1>3, <1>4, <1>5, <1>6 DEF Promise!WithinRequest

\* A step that does not return leaves the answer open or makes it an error.
LEMMA NoReturnStep ==
  ASSUME market' = market, pc \in {"enter", "loop", "stopped"},
         pc' \in {"loop", "stopped", "failed"}
  PROVE  [Promise!AnswerTrade \/ Promise!AnswerError]_(Promise!vars)
<1>1. price' = price
  BY DEF price
<1>2. CASE pc' = "failed"
  BY <1>1, <1>2 DEF Promise!AnswerError
<1>3. CASE pc' # "failed"
  BY <1>1, <1>3 DEF Promise!vars
<1> QED
  BY <1>2, <1>3

LEMMA PromiseStep ==
  ASSUME IInv, [Next]_vars
  PROVE  [Promise!AnswerTrade \/ Promise!AnswerError]_(Promise!vars)
<1>1. CASE EnterSell
  BY <1>1, NoReturnStep DEF EnterSell, Enter
<1>2. CASE \/ SellToPool \/ SellLastLine \/ SellUnreachable
           \/ SellPoolThenLine \/ SellCoverLine \/ SellPoolAndStop
  <2>1. PICK pool, line, next : SoundStep(pool, line, next)
    BY <1>2, BranchSound DEF SoundTrade
  <2>2. /\ market' = market /\ pc = "loop"
        /\ pc' \in {next, "failed"} /\ next \in {"stopped", "loop"}
    BY <2>1 DEF SoundStep, TradeLegs, Settle
  <2> QED
    BY <2>2, NoReturnStep
<1>3. CASE ReturnSell
  <2>1. /\ pc = "stopped" /\ pc' \in {"quoted", "failed"}
        /\ UNCHANGED <<market, taken, remaining, filled, total_fees, amm>>
    BY <1>3 DEF ReturnSell, Return
  <2>2. CASE pc' = "failed"
    BY <2>1, <2>2, NoReturnStep
  <2>3. CASE pc' = "quoted"
    <3>1. -(market.amount - remaining) # 0 /\ filled - total_fees # 0
      BY <1>3, <2>3 DEF ReturnSell, Return
    <3>2. Sold # 0 /\ filled # total_fees
      <4>1. /\ market.amount \in Int /\ remaining \in Int
            /\ filled \in Int /\ total_fees \in Int
        BY MarketFacts, WidthAssumption DEF IInv, TypeOK, I64
      <4> QED
        BY <3>1, <4>1 DEF Sold
    <3>3. price' = price /\ Sold' = Sold
      BY <2>1 DEF price, Sold
    <3>4. Promise!WithinRequest(
            [amount |-> market.amount, price |-> price, fee |-> market.fee,
             df |-> market.amm.df, lines |-> Len(market.lines)],
            Sold, filled, total_fees)
      BY <3>2, ReturnWithinRequest
    <3> QED
      BY <2>1, <2>3, <3>3, <3>4 DEF Promise!AnswerTrade
  <2> QED
    BY <2>1, <2>2, <2>3
<1>4. CASE UNCHANGED vars
  BY <1>4 DEF vars, Promise!vars, price, Sold
<1> QED
  BY <1>1, <1>2, <1>3, <1>4 DEF Next

\* For every market whose quantities f64 resolves and every fee rate, a sell
\* quote answers once, and what it quotes is a trade within the request.
THEOREM KeepsPromiseHolds == Resolved /\ Spec => KeepsPromise
<1>1. InitSell => Promise!Init
  BY DEF InitSell, InitCall, Promise!Init
<1>2. IInv /\ [Next]_vars => [Promise!AnswerTrade \/ Promise!AnswerError]_(Promise!vars)
  BY PromiseStep
<1> QED
  BY <1>1, <1>2, Invariance, PTL DEF Spec, KeepsPromise, Promise!Spec

-----------------------------------------------------------------------------
\* In the loop the lines taken fetched the price of the last of them, up to one
\* unit of currency for each and to what f64 may be off at that worth.
Proceeds ==
  /\ pc = "enter" => taken = 0 /\ filled = 0 /\ Sold = 0
  /\ pc = "loop" /\ taken = 0 => Sold = 0
  /\ pc = "loop" /\ taken # 0 =>
       Sold * market.lines[taken].price
         <= (filled + taken) * amm.df + Grain(Sold * market.lines[taken].price)

\* What two errors of f64 take off the worth of the route is less than what the
\* curve of the pool loses over one unit.
RouteResolved == 2 * (market.amm.a_tokens + market.amount) + 2 <= Precision

\* RoutingBeatsPoolAlone of the figures so far, from the stop on.
BeatsPool ==
  (filled + taken + get_amm_sum(market.amm, 1, "Bid")) * market.amm.df + Sold
    >= get_amm_sum(market.amm, Sold, "Bid") * market.amm.df

Routed == pc \in {"stopped", "quoted"} => BeatsPool

\* The clone while the walk goes on.
LEMMA FreshFacts ==
  ASSUME IInv, pc \in {"enter", "loop"}
  PROVE  /\ amm = market.amm /\ Reserves(amm) /\ amm.b_tokens <= I64Max
         /\ amm.k = amm.a_tokens * amm.b_tokens
         /\ filled \in Nat /\ taken \in Nat /\ Sold \in Nat /\ remaining \in Nat
         /\ market.amount \in Nat
<1>1. market.amount \in Nat /\ taken \in Nat
  <2>1. market.lines \in Seq(Line) /\ taken \in 0 .. Len(market.lines)
    BY MarketFacts DEF IInv, TypeOK, Market
  <2> QED
    BY <2>1, MarketFacts, WidthAssumption DEF IInv, I64
<1>2. filled \in Nat /\ remaining \in 0 .. market.amount
  BY DEF IInv, SlippageBound, NeverOversells
<1>3. Sold \in Nat /\ remaining \in Nat
  BY <1>1, <1>2 DEF Sold
<1>4. /\ amm = market.amm /\ Reserves(amm) /\ amm.b_tokens <= I64Max
      /\ amm.k = amm.a_tokens * amm.b_tokens
  BY MarketFacts DEF IInv, PoolUntouched, I64
<1> QED
  BY <1>1, <1>2, <1>3, <1>4

\* Where a leg ends: with all that remains, or where one unit more would be sold
\* below the price it was sized for.
LEMMA LegEnds ==
  ASSUME IInv, pc = "loop", NEW q, NEW px, Sized(q, px), q <= remaining,
         amm.a_tokens + remaining <= I64Max
  PROVE  \/ q = remaining
         \/ amm.a_tokens = 0 \/ amm.b_tokens = 0
         \/ PoolLeftAt(amm, q, px)
<1> DEFINE a == amm.a_tokens
           b == amm.b_tokens
           n == amm.k * amm.df
           r == RootAsI64(n, px)
<1>1. /\ Reserves(amm) /\ amm.k = a * b /\ remaining \in Nat
      /\ px \in I64 /\ q \in Nat
  BY FreshFacts, SizedType DEF Sized
<1>2. a \in Nat /\ b \in Nat /\ amm.df \in Nat \ {0} /\ n \in Nat /\ px \in Nat
  BY <1>1, WidthAssumption DEF Reserves, I64
<1>3. SUFFICES ASSUME q # remaining, a # 0, b # 0 PROVE PoolLeftAt(amm, q, px)
  OBVIOUS
<1>4. q = get_amm_qty(amm, px, "Bid")
  BY <1>1, <1>3 DEF Sized, Least
<1>5. r \in 0 .. I64Max
  BY <1>1, <1>2, RootType DEF I64
<1>6. q = Greatest(0, r - a)
  BY <1>4 DEF get_amm_qty
<1> HIDE DEF r
<1>7. r <= a + q /\ r < I64Max
  <2>1. /\ a \in Nat /\ q \in Nat /\ remaining \in Nat /\ r \in Nat /\ I64Max \in Nat
        /\ q <= remaining /\ q # remaining /\ a + remaining <= I64Max
    BY <1>1, <1>2, <1>3, <1>5, WidthAssumption
  <2> HIDE DEF a
  <2>2. r <= a + q
    BY <2>1, <1>6 DEF Greatest
  <2> QED
    BY <2>1, <2>2
<1>8. n # 0
  <2>1. ASSUME NEW x \in Nat \ {0}, NEW y \in Nat \ {0} PROVE x * y \in Nat \ {0}
    OBVIOUS
  <2>2. a * b \in Nat \ {0}
    BY <1>2, <1>3, <2>1
  <2> QED
    BY <1>1, <1>2, <2>1, <2>2
<1>9. px # 0
  BY <1>7, <1>8, WidthAssumption DEF r, RootAsI64
<1>10. n - Grain(n) < px * ((r + 1) * (r + 1)) /\ Grain(n) \in Nat
  BY <1>2, <1>7, <1>9, RootAbove, GrainBound DEF r
<1>11. px * ((r + 1) * (r + 1)) <= px * ((a + q + 1) * (a + q + 1))
  <2> DEFINE y == r + 1
             z == a + q + 1
  <2>1. y \in Nat /\ z \in Nat /\ y <= z
    BY <1>1, <1>2, <1>5, <1>7
  <2> HIDE DEF y, z
  <2>2. y * y <= z * z
    <3>1. y * y <= z * y
      BY <2>1, ProductLe
    <3>2. y * z <= z * z
      BY <2>1, ProductLe
    <3>3. z * y = y * z /\ y * y \in Nat /\ z * z \in Nat /\ y * z \in Nat
      BY <2>1
    <3> QED
      BY <3>1, <3>2, <3>3
  <2>3. (y * y) * px <= (z * z) * px
    BY <2>1, <2>2, <1>2, ProductLe
  <2> QED
    BY <2>1, <2>3, <1>2 DEF y, z
<1>12. n - Grain(n) < px * ((a + q + 1) * (a + q + 1))
  <2>1. r + 1 \in Nat /\ a + q + 1 \in Nat
    BY <1>1, <1>2, <1>5
  <2>2. (r + 1) * (r + 1) \in Nat /\ (a + q + 1) * (a + q + 1) \in Nat
    BY <2>1
  <2>3. px * ((r + 1) * (r + 1)) \in Nat /\ px * ((a + q + 1) * (a + q + 1)) \in Nat
    BY <2>2, <1>2
  <2> QED
    BY <1>2, <1>10, <1>11, <2>3
<1> QED
  BY <1>12 DEF PoolLeftAt

\* Behind a line that was taken the pool is worth at most its price, even after
\* all that remains.
LEMMA BehindLine ==
  ASSUME IInv, Ladder, LinesAhead, pc = "loop", taken # 0
  PROVE  /\ market.lines[taken].price \in Nat
         /\ amm.a_tokens = 0 \/ PoolLeftAt(amm, remaining, market.lines[taken].price)
<1> DEFINE p == market.lines[taken].price
           x == amm.a_tokens + remaining
           n == amm.k * amm.df
<1>1. Reserves(amm) /\ remaining \in Nat /\ taken \in Nat
  BY FreshFacts
<1>2. taken \in 1 .. Len(market.lines) /\ market.lines \in Seq(Line)
  BY <1>1, MarketFacts DEF IInv, TypeOK, Market
<1>3. market.lines[taken] \in Line
  BY <1>2
<1>4. p \in Nat /\ p < I64Max
  BY <1>2, <1>3, WidthAssumption DEF Line, I64, Ladder
<1>5. get_amm_px(amm, remaining, "Bid") <= p
  BY <1>1 DEF LinesAhead
<1>6. QuotAsI64(n, x * x) <= p
  BY <1>5 DEF get_amm_px
<1>7. n \in Nat /\ x \in Nat /\ x * x \in Nat
  BY <1>1 DEF Reserves
<1> HIDE DEF p, x, n
<1>8. n - Grain(n) < (p + 1) * (x * x) \/ (n = 0 /\ x * x = 0)
  BY <1>4, <1>6, <1>7, QuotUnder
<1>9. ASSUME x * x = 0 PROVE amm.a_tokens = 0
  <2>1. x = 0
    BY <1>7, <1>9
  <2> QED
    BY <2>1, <1>1 DEF x, Reserves
<1> QED
  BY <1>4, <1>8, <1>9 DEF PoolLeftAt, p, x, n

\* What was taken so far fetched any price that is not above the limit, or not
\* above the line the walk is at.
LEMMA TakenWorth ==
  ASSUME IInv, Ladder, Proceeds, pc = "loop", NEW px \in I64,
         px <= price \/ (MoreLines /\ px <= CurrentLine.price)
  PROVE  Sold * px <= (filled + taken) * amm.df + Grain(Sold * px)
<1>1. /\ filled \in Nat /\ taken \in Nat /\ Sold \in Nat /\ amm.df \in Nat
      /\ px \in Nat /\ price \in Nat
  BY FreshFacts, LoopFacts, WidthAssumption DEF Reserves, I64
<1>2. (filled + taken) * amm.df \in Nat /\ Sold * px \in Nat /\ Grain(Sold * px) \in Nat
  <2>1. (filled + taken) * amm.df \in Nat /\ Sold * px \in Nat
    BY <1>1
  <2> QED
    BY <2>1, GrainBound
<1>m. ASSUME NEW p \in Nat, px <= p, Sold * p <= (filled + taken) * amm.df + Grain(Sold * p)
      PROVE  Sold * px <= (filled + taken) * amm.df + Grain(Sold * px)
  <2>1. Sold * px <= Sold * p /\ Sold * p \in Nat
    <3>1. px * Sold <= p * Sold
      BY <1>1, <1>m, ProductLe
    <3> QED
      BY <3>1, <1>1
  <2>2. /\ Sold * px - Grain(Sold * px) <= Sold * p - Grain(Sold * p)
        /\ Grain(Sold * p) \in Nat
    BY <2>1, <1>2, GrainMonotone, GrainBound
  <2> QED
    BY <2>1, <2>2, <1>2, <1>m
<1>3. CASE px <= price
  <2>1. Sold * price <= (filled + taken) * amm.df + Grain(Sold * price)
    BY <1>1 DEF IInv, SlippageBound, SoldAtLimitOrBetter
  <2> QED
    BY <2>1, <1>1, <1>3, <1>m
<1>4. CASE taken = 0
  <2>1. Sold = 0
    BY <1>4 DEF Proceeds
  <2> QED
    BY <2>1, <1>1, <1>2
<1>5. CASE taken # 0 /\ MoreLines /\ px <= CurrentLine.price
  <2> DEFINE p == market.lines[taken].price
  <2>1. taken \in 1 .. Len(market.lines) /\ taken + 1 \in 1 .. Len(market.lines)
    BY <1>1, <1>5, LoopFacts DEF MoreLines
  <2>2. CurrentLine.price <= p
    BY <2>1 DEF Ladder, CurrentLine
  <2>3. p \in Nat /\ CurrentLine.price \in Nat
    <3>1. market.lines[taken] \in Line
      BY <2>1, MarketFacts DEF IInv, Market
    <3> QED
      BY <3>1, <1>5, LineFacts, WidthAssumption DEF Line, I64
  <2>4. Sold * p <= (filled + taken) * amm.df + Grain(Sold * p)
    BY <1>5 DEF Proceeds
  <2> HIDE DEF p
  <2>5. px <= p
    BY <1>1, <1>5, <2>2, <2>3
  <2> QED
    BY <2>3, <2>4, <2>5, <1>m
<1> QED
  BY <1>1, <1>3, <1>4, <1>5

\* The line the walk is at fetches its price, up to the unit it is counted for.
LEMMA LineWorth ==
  ASSUME IInv, pc = "loop", MoreLines, NEW q \in Nat,
         ~TradeSumFails(amm, q, CurrentLine.price)
  PROVE  /\ LineLeg(q).mints \in Nat /\ LineLeg(q).qty = q
         /\ q * CurrentLine.price
              <= (LineLeg(q).mints + 1) * amm.df + Grain(q * CurrentLine.price)
<1> DEFINE n == q * CurrentLine.price
           v == trade_sum(amm, q, CurrentLine.price)
<1>1. amm.df \in Nat \ {0} /\ CurrentLine.price \in Nat /\ n \in Nat
  BY FreshFacts, LineFacts, WidthAssumption DEF Reserves, I64
<1>2. LineLeg(q).qty = q /\ LineLeg(q).mints = v
  BY DEF LineLeg
<1>3. v \in Nat /\ n - Grain(n) <= (v + 1) * amm.df
  BY <1>1, TradeSum
<1> HIDE DEF n, v
<1>4. Grain(n) \in Nat
  BY <1>1, GrainBound
<1>5. n <= (v + 1) * amm.df + Grain(n)
  BY <1>1, <1>3, <1>4
<1> QED
  BY <1>2, <1>3, <1>5 DEF n

\* A last iteration whose pool leg was sized for px and whose lines fetched px.
LEMMA StopWorth ==
  ASSUME IInv, RouteResolved, Ladder, LinesAhead, Proceeds, pc = "loop",
         NEW q, NEW px, Sized(q, px), q <= remaining,
         NEW line, line.qty \in Nat, line.mints \in Nat,
         line.qty # 0 => line.qty = remaining - PoolLeg(q).qty,
         TradeLegs(PoolLeg(q), line, "stopped"), pc' = "stopped",
         taken' \in {taken, taken + 1},
         (Sold + line.qty) * px
           <= (filled + taken' + line.mints) * amm.df + Grain((Sold + line.qty) * px)
  PROVE  BeatsPool'
<1> DEFINE pool == PoolLeg(q)
           l    == Sold + line.qty
           g    == filled + taken' + line.mints
<1>1. /\ amm = market.amm /\ Reserves(amm) /\ amm.b_tokens <= I64Max
      /\ amm.k = amm.a_tokens * amm.b_tokens
      /\ filled \in Nat /\ taken \in Nat /\ Sold \in Nat /\ remaining \in Nat
      /\ market.amount \in Nat /\ q \in Nat /\ px \in Nat
  <2>1. q \in Nat
    BY SizedType
  <2>2. px \in Nat
    BY WidthAssumption DEF Sized, I64
  <2> QED
    BY <2>1, <2>2, FreshFacts
<1>2. /\ market' = market
      /\ remaining' = remaining - (pool.qty + line.qty)
      /\ filled' = filled + (pool.mints + line.mints)
      /\ ~(amm.a_tokens + remaining > I64Max)
  BY DEF TradeLegs, Settle
<1>3. amm.a_tokens + remaining <= I64Max
  BY <1>1, <1>2, WidthAssumption DEF Reserves
<1>4. \/ pool.qty = q
      \/ pool.qty = 0 /\ (amm.a_tokens = 0 \/ amm.b_tokens = 0)
  <2>1. CASE pool = NoLeg
    <3>1. pool.qty = 0
      BY <2>1 DEF NoLeg
    <3>2. q = 0 \/ get_amm_sum(amm, q, "Bid") = 0
      <4>1. SUFFICES ASSUME ~(q = 0 \/ get_amm_sum(amm, q, "Bid") = 0) PROVE FALSE
        OBVIOUS
      <4>2. pool = [qty |-> q, mints |-> get_amm_sum(amm, q, "Bid")]
        BY <4>1 DEF PoolLeg
      <4>3. pool.qty = q
        BY <4>2
      <4> QED
        BY <4>1, <4>3, <3>1
    <3> QED
      BY <3>1, <3>2, <1>1, EmptyPays
  <2>2. CASE pool # NoLeg
    <3>1. pool = [qty |-> q, mints |-> get_amm_sum(amm, q, "Bid")]
      BY <2>2 DEF PoolLeg
    <3> QED
      BY <3>1
  <2> QED
    BY <2>1, <2>2
<1>5. pool.qty \in Nat /\ pool.mints = get_amm_sum(amm, pool.qty, "Bid") /\ pool.mints \in Nat
  <2>1. CASE pool = NoLeg
    <3>1. pool.qty = 0 /\ pool.mints = 0
      BY <2>1 DEF NoLeg
    <3>2. get_amm_sum(amm, 0, "Bid") = 0
      BY <1>1, EmptyPays
    <3> QED
      BY <3>1, <3>2
  <2>2. CASE pool # NoLeg
    <3>1. pool = [qty |-> q, mints |-> get_amm_sum(amm, q, "Bid")]
      BY <2>2 DEF PoolLeg
    <3>2. get_amm_sum(amm, q, "Bid") \in Nat
      BY <1>1, SellSum DEF Reserves
    <3> QED
      BY <3>1, <3>2, <1>1
  <2> QED
    BY <2>1, <2>2
<1>6. l \in Nat /\ g \in Nat /\ taken' \in Nat
  BY <1>1
<1>7. \/ amm.a_tokens = 0 \/ amm.b_tokens = 0
      \/ l = 0
      \/ \E p \in Nat : l * p - Grain(l * p) <= g * amm.df /\ PoolLeftAt(amm, pool.qty, p)
  <2>1. SUFFICES ASSUME amm.a_tokens # 0, amm.b_tokens # 0
                 PROVE  \/ l = 0
                        \/ \E p \in Nat : /\ l * p - Grain(l * p) <= g * amm.df
                                           /\ PoolLeftAt(amm, q, p)
    BY <1>4
  <2>2. pool.qty = q
    BY <1>4, <2>1
  <2>3. CASE q = remaining
    <3>1. line.qty = 0 /\ l = Sold
      BY <2>2, <2>3, <1>1
    <3>2. CASE taken = 0
      BY <3>1, <3>2 DEF Proceeds
    <3>3. CASE taken # 0
      <4> DEFINE p == market.lines[taken].price
      <4>1. p \in Nat /\ PoolLeftAt(amm, remaining, p)
        BY <3>3, <2>1, BehindLine
      <4>2. Sold * p <= (filled + taken) * amm.df + Grain(Sold * p)
        BY <3>3 DEF Proceeds
      <4>3. (filled + taken) * amm.df <= g * amm.df
        <5>1. amm.df \in Nat /\ filled + taken \in Nat /\ filled + taken <= g
          BY <1>1 DEF Reserves
        <5> QED
          BY <5>1, <1>6, ProductLe
      <4> HIDE DEF p, g, l
      <4>4. Sold * p - Grain(Sold * p) <= g * amm.df
        <5>1. Sold * p \in Nat /\ (filled + taken) * amm.df \in Nat /\ g * amm.df \in Nat
          BY <4>1, <1>1, <1>6 DEF Reserves
        <5>2. Grain(Sold * p) \in Nat
          BY <5>1, GrainBound
        <5> QED
          BY <5>1, <5>2, <4>2, <4>3
      <4> QED
        BY <4>1, <4>4, <3>1, <2>3
    <3> QED
      BY <3>2, <3>3
  <2>4. CASE q # remaining
    <3>1. PoolLeftAt(amm, q, px)
      BY <2>1, <2>4, <1>3, LegEnds
    <3>2. l * px - Grain(l * px) <= g * amm.df
      <4>1. l * px <= g * amm.df + Grain(l * px)
        OBVIOUS
      <4> HIDE DEF l, g
      <4>2. l * px \in Nat /\ g * amm.df \in Nat
        BY <1>1, <1>6 DEF Reserves
      <4>3. Grain(l * px) \in Nat
        BY <4>2, GrainBound
      <4> QED
        BY <4>1, <4>2, <4>3
    <3> QED
      BY <3>1, <3>2, <1>1
  <2> QED
    BY <2>3, <2>4
<1>r. 2 * (amm.a_tokens + pool.qty + l) + 2 <= Precision
  <2>1. pool.qty + line.qty <= remaining
    <3>1. /\ pool.qty \in Nat /\ pool.qty <= remaining /\ remaining \in Nat
          /\ line.qty = 0 \/ line.qty = remaining - pool.qty
      BY <1>1, <1>4, <1>5
    <3> DEFINE pq == pool.qty
               lq == line.qty
    <3>2. /\ pq \in Nat /\ pq <= remaining /\ remaining \in Nat
          /\ lq = 0 \/ lq = remaining - pq
      BY <3>1
    <3> HIDE DEF pq, lq
    <3>3. pq + lq <= remaining
      BY <3>2
    <3> QED
      BY <3>3 DEF pq, lq
  <2>2. pool.qty + l <= market.amount
    <3>1. Sold = market.amount - remaining
      BY DEF Sold
    <3> HIDE DEF pool
    <3> QED
      BY <2>1, <3>1, <1>1, <1>5
  <2>3. 2 * (amm.a_tokens + market.amount) + 2 <= Precision
    BY <1>1 DEF RouteResolved
  <2>4. amm.a_tokens \in Nat
    BY <1>1 DEF Reserves
  <2> HIDE DEF pool, l
  <2> QED
    BY <2>2, <2>3, <2>4, <1>1, <1>5, <1>6, PrecisionAssumption
<1>8. (get_amm_sum(amm, pool.qty, "Bid") + g + get_amm_sum(amm, 1, "Bid")) * amm.df + (pool.qty + l)
        >= get_amm_sum(amm, pool.qty + l, "Bid") * amm.df
  <2> HIDE DEF g, l, pool
  <2> QED
    BY <1>1, <1>5, <1>6, <1>7, <1>r, RouteWorth
<1>9. Sold' = pool.qty + l
  <2>1. remaining \in Nat /\ market.amount \in Nat /\ pool.qty \in Nat /\ line.qty \in Nat
    BY <1>1, <1>5
  <2> HIDE DEF pool
  <2> QED
    BY <2>1, <1>2 DEF Sold
<1>10. filled' + taken' = get_amm_sum(amm, pool.qty, "Bid") + g
  BY <1>1, <1>2, <1>5, <1>6
<1> HIDE DEF pool, l, g
<1> QED
  BY <1>1, <1>2, <1>8, <1>9, <1>10 DEF BeatsPool

\* A leg that is not traded adds nothing.
LEMMA NoLineFacts == NoLeg.qty \in Nat /\ NoLeg.mints \in Nat /\ NoLeg.qty = 0 /\ NoLeg.mints = 0
BY DEF NoLeg

\* One line more taken is one unit more of slack.
LEMMA RoundsUp ==
  ASSUME NEW f \in Nat, NEW t \in Nat, NEW u \in Nat, NEW d \in Nat, t <= u
  PROVE  /\ (f + t) * d <= (f + u) * d
         /\ (f + u) * d \in Nat /\ (f + t) * d \in Nat /\ f + u \in Nat
<1>1. f + t \in Nat /\ f + u \in Nat /\ f + t <= f + u
  OBVIOUS
<1> QED
  BY <1>1, ProductLe

\* The same where no line is traded.
LEMMA PoolStopWorth ==
  ASSUME IInv, RouteResolved, Ladder, LinesAhead, Proceeds, pc = "loop",
         NEW q, NEW px, Sized(q, px), q <= remaining,
         TradeLegs(PoolLeg(q), NoLeg, "stopped"), pc' = "stopped",
         taken' \in {taken, taken + 1},
         px <= price \/ (MoreLines /\ px <= CurrentLine.price)
  PROVE  BeatsPool'
<1>1. /\ filled \in Nat /\ taken \in Nat /\ Sold \in Nat /\ amm.df \in Nat
      /\ px \in I64 /\ px \in Nat
  BY FreshFacts, WidthAssumption DEF Reserves, Sized, I64
<1>2. Sold * px <= (filled + taken) * amm.df + Grain(Sold * px)
  BY <1>1, TakenWorth
<1>t. taken' \in Nat /\ taken <= taken'
  <2>1. CASE taken' = taken
    BY <2>1, <1>1
  <2>2. CASE taken' = taken + 1
    BY <2>2, <1>1
  <2> QED
    BY <2>1, <2>2
<1>3. /\ (filled + taken) * amm.df <= (filled + taken') * amm.df
      /\ (filled + taken') * amm.df \in Nat /\ (filled + taken) * amm.df \in Nat
      /\ filled + taken' \in Nat
  BY <1>1, <1>t, RoundsUp
<1>4. (Sold + NoLeg.qty) * px
        <= (filled + taken' + NoLeg.mints) * amm.df + Grain((Sold + NoLeg.qty) * px)
  <2>1. Sold + NoLeg.qty = Sold /\ filled + taken' + NoLeg.mints = filled + taken'
    BY <1>1, <1>3, NoLineFacts
  <2>2. Sold * px \in Nat
    BY <1>1
  <2>3. Grain(Sold * px) \in Nat
    BY <2>2, GrainBound
  <2> QED
    BY <2>1, <2>2, <2>3, <1>2, <1>3
<1> QED
  BY <1>4, NoLineFacts, StopWorth

\* The leg of an iteration that trades against the pool last: down to the limit,
\* or all that remains.
LEMMA TailLegSized ==
  ASSUME IInv, pc = "loop"
  PROVE  \E q : TailLeg = PoolLeg(q) /\ Sized(q, price) /\ q <= remaining
<1>1. Reserves(amm) /\ remaining \in Nat /\ price \in I64
  BY LoopFacts
<1>2. CASE partial_fill(amm_px, price, "Bid")
  <2>1. get_amm_qty(amm, price, "Bid") \in 0 .. remaining
    BY <1>1, <1>2, LoopFacts, SellStopsShort DEF partial_fill, amm_px, I64
  <2>2. TailLeg = PoolLeg(get_amm_qty(amm, price, "Bid"))
    BY <1>2 DEF TailLeg
  <2> QED
    BY <2>1, <2>2, <1>1 DEF Sized
<1>3. CASE ~partial_fill(amm_px, price, "Bid")
  <2>1. TailLeg = PoolLeg(remaining)
    BY <1>3 DEF TailLeg
  <2> QED
    BY <2>1, <1>1 DEF Sized
<1> QED
  BY <1>2, <1>3

\* The pool down to the line and the rest to the line: all is sold.
LEMMA PoolThenLineWorth ==
  ASSUME IInv, RouteResolved, Ladder, LinesAhead, Proceeds,
         SellPoolThenLine, pc' = "stopped"
  PROVE  BeatsPool'
<1> DEFINE lp   == CurrentLine.price
           q    == get_amm_qty(amm, lp, "Bid")
           pool == PoolLeg(q)
           rest == remaining - pool.qty
           line == IF rest > 0 THEN LineLeg(rest) ELSE NoLeg
<1>1. /\ pc = "loop" /\ MoreLines /\ taken' = taken + 1
      /\ ~(amm_px >= lp) /\ TradeLegs(pool, line, "stopped")
  BY DEF SellPoolThenLine, AtLine, Trade, last_line
<1>2. /\ Reserves(amm) /\ remaining \in Nat /\ lp \in I64 /\ amm_px \in Nat
      /\ filled \in Nat /\ taken \in Nat /\ Sold \in Nat /\ lp \in Nat /\ amm.df \in Nat
  BY <1>1, FreshFacts, LoopFacts, LineFacts, WidthAssumption DEF I64, Reserves
<1>3. q \in 0 .. remaining
  <2>1. get_amm_px(amm, remaining, "Bid") < lp
    BY <1>1, <1>2 DEF amm_px
  <2> QED
    BY <2>1, <1>1, <1>2, LoopFacts, SellStopsShort DEF I64
<1>4. pool.qty \in 0 .. remaining
  <2>1. CASE pool = NoLeg
    BY <2>1, <1>2, NoLineFacts
  <2>2. CASE pool # NoLeg
    <3>1. pool = [qty |-> q, mints |-> get_amm_sum(amm, q, "Bid")]
      BY <2>2 DEF PoolLeg
    <3> QED
      BY <3>1, <1>3
  <2> QED
    BY <2>1, <2>2
<1>5. Sized(q, lp)
  BY <1>2 DEF Sized
<1>6. Sold * lp <= (filled + taken) * amm.df + Grain(Sold * lp)
  BY <1>1, <1>2, TakenWorth
<1> HIDE DEF q, pool
<1>7. CASE rest > 0
  <2>1. line = LineLeg(rest) /\ rest \in Nat
    BY <1>2, <1>4, <1>7
  <2>2. ~TradeSumFails(amm, line.qty, lp)
    <3>1. line # NoLeg
      BY <2>1, <1>7, NoLineFacts DEF LineLeg
    <3> QED
      BY <3>1, <1>1 DEF TradeLegs, Settle
  <2>3. line.qty = rest
    BY <2>1 DEF LineLeg
  <2>4. line.mints \in Nat /\ rest * lp <= (line.mints + 1) * amm.df + Grain(rest * lp)
    BY <2>1, <2>2, <2>3, <1>1, LineWorth
  <2> HIDE DEF line, lp, rest
  <2>5. (Sold + rest) * lp
          <= (filled + taken' + line.mints) * amm.df + Grain((Sold + rest) * lp)
    <3> DEFINE d == amm.df
               m == line.mints
    <3>1. /\ d \in Nat /\ m \in Nat
          /\ Sold * lp <= (filled + taken) * d + Grain(Sold * lp)
          /\ rest * lp <= (m + 1) * d + Grain(rest * lp)
      BY <1>2, <1>6, <2>4
    <3> HIDE DEF d, m
    <3>2. (Sold + rest) * lp = Sold * lp + rest * lp
      BY <2>1, <1>2
    <3>3. (filled + taken' + m) * d = (filled + taken) * d + (m + 1) * d
      <4>1. filled + taken' + m = (filled + taken) + (m + 1)
        BY <1>1, <1>2, <3>1
      <4> DEFINE u == filled + taken
                 w == m + 1
      <4>2. u \in Nat /\ w \in Nat
        BY <1>2, <3>1
      <4> HIDE DEF u, w
      <4>3. (u + w) * d = u * d + w * d
        BY <4>2, <3>1
      <4> QED
        BY <4>1, <4>3 DEF u, w
    <3>4. /\ Sold * lp \in Nat /\ rest * lp \in Nat /\ (filled + taken) * d \in Nat
          /\ (m + 1) * d \in Nat
      BY <1>2, <2>1, <3>1
    <3>5. /\ Grain(Sold * lp) + Grain(rest * lp) <= Grain(Sold * lp + rest * lp)
          /\ Grain(Sold * lp) \in Nat /\ Grain(rest * lp) \in Nat
          /\ Grain(Sold * lp + rest * lp) \in Nat
      <4> DEFINE x == Sold * lp
                 y == rest * lp
      <4>1. x \in Nat /\ y \in Nat /\ x + y \in Nat
        BY <3>4
      <4> HIDE DEF x, y
      <4>2. /\ Grain(x) + Grain(y) <= Grain(x + y)
            /\ Grain(x) \in Nat /\ Grain(y) \in Nat /\ Grain(x + y) \in Nat
        BY <4>1, GrainSum, GrainBound
      <4> QED
        BY <4>2 DEF x, y
    <3>6. Sold * lp + rest * lp
            <= (filled + taken) * d + (m + 1) * d + Grain(Sold * lp + rest * lp)
      BY <3>1, <3>4, <3>5
    <3> QED
      BY <3>2, <3>3, <3>6 DEF d, m
  <2>6. line.qty # 0 => line.qty = remaining - pool.qty
    BY <2>3 DEF rest
  <2> QED
    BY <1>1, <1>2, <1>3, <1>5, <2>1, <2>3, <2>4, <2>5, <2>6, StopWorth DEF pool
<1>8. CASE ~(rest > 0)
  <2>1. TradeLegs(PoolLeg(q), NoLeg, "stopped")
    BY <1>1, <1>8 DEF pool
  <2> HIDE DEF line
  <2> QED
    BY <2>1, <1>1, <1>2, <1>3, <1>5, PoolStopWorth
<1> QED
  BY <1>7, <1>8

\* A line that is taken whole.
LEMMA CoverWorth ==
  ASSUME IInv, Ladder, Proceeds, SellCoverLine, pc' = "loop"
  PROVE  Proceeds'
<1> DEFINE lp   == CurrentLine.price
           lq   == CurrentLine.qty
           line == LineLeg(lq)
           d    == amm.df
           m    == line.mints
<1>1. /\ pc = "loop" /\ MoreLines /\ taken' = taken + 1
      /\ TradeLegs(NoLeg, line, "loop")
  BY DEF SellCoverLine, AtLine, Trade
<1>2. /\ remaining \in Nat /\ lp \in I64 /\ lp \in Nat /\ lq \in Nat
      /\ filled \in Nat /\ taken \in Nat /\ Sold \in Nat /\ d \in Nat
      /\ market.amount \in Nat /\ amm \in Pool
  <2>1. /\ Reserves(amm) /\ remaining \in Nat /\ filled \in Nat /\ taken \in Nat
        /\ Sold \in Nat /\ market.amount \in Nat
    BY <1>1, FreshFacts
  <2>2. lp \in I64 /\ lq \in I64
    BY <1>1, LineFacts
  <2> HIDE DEF lp, lq
  <2>3. lp \in Nat /\ lq \in Nat
    BY <2>2, WidthAssumption DEF I64
  <2>4. amm \in Pool
    BY <1>1, MarketFacts DEF IInv, PoolUntouched
  <2>5. amm.df \in Nat
    BY <2>4 DEF Pool
  <2> QED
    BY <2>1, <2>2, <2>3, <2>4, <2>5
<1>3. /\ market' = market /\ amm' = AfterLeg(NoLeg)
      /\ remaining' = remaining - (NoLeg.qty + line.qty)
      /\ filled' = filled + (NoLeg.mints + line.mints)
      /\ line # NoLeg => ~TradeSumFails(amm, line.qty, lp)
  BY <1>1 DEF TradeLegs, Settle
<1>4. amm'.df = d
  BY <1>2, <1>3, NoLineFacts, LegMovesPool
<1>5. line.qty = lq
  BY DEF LineLeg
<1>6. m \in Nat /\ lq * lp <= (m + 1) * d + Grain(lq * lp)
  <2>1. CASE line = NoLeg
    <3>1. lq = 0 /\ m = 0
      BY <2>1, <1>5, NoLineFacts
    <3>2. lq * lp = 0 /\ (m + 1) * d = d /\ Grain(0) \in Nat
      BY <3>1, <1>2, GrainBound
    <3> QED
      BY <3>1, <3>2, <1>2
  <2>2. CASE line # NoLeg
    BY <2>2, <1>1, <1>2, <1>3, <1>5, LineWorth
  <2> QED
    BY <2>1, <2>2
<1>7. Sold * lp <= (filled + taken) * d + Grain(Sold * lp)
  BY <1>1, <1>2, TakenWorth
<1> HIDE DEF line, m, d, lp, lq
<1>8. filled' = filled + m /\ Sold' = Sold + lq
  <2>1. filled' = filled + m
    BY <1>2, <1>3, <1>6, NoLineFacts DEF m
  <2>2. remaining' = remaining - lq
    BY <1>2, <1>3, <1>5, NoLineFacts
  <2> QED
    BY <2>1, <2>2, <1>2, <1>3 DEF Sold
<1>9. market'.lines[taken'].price = lp
  BY <1>1, <1>3 DEF CurrentLine, lp
<1>10. (Sold + lq) * lp <= (filled + m + (taken + 1)) * d + Grain((Sold + lq) * lp)
  <2> DEFINE u == filled + taken
             w == m + 1
  <2>1. u \in Nat /\ w \in Nat /\ filled + m + (taken + 1) = u + w
    BY <1>2, <1>6
  <2>2. Sold * lp <= u * d + Grain(Sold * lp) /\ lq * lp <= w * d + Grain(lq * lp)
    BY <1>6, <1>7
  <2> HIDE DEF u, w
  <2>3. (u + w) * d = u * d + w * d /\ (Sold + lq) * lp = Sold * lp + lq * lp
    BY <2>1, <1>2
  <2>4. u * d \in Nat /\ w * d \in Nat /\ Sold * lp \in Nat /\ lq * lp \in Nat
    BY <2>1, <1>2
  <2>5. /\ Grain(Sold * lp) + Grain(lq * lp) <= Grain(Sold * lp + lq * lp)
        /\ Grain(Sold * lp) \in Nat /\ Grain(lq * lp) \in Nat
        /\ Grain(Sold * lp + lq * lp) \in Nat
    <3> DEFINE x == Sold * lp
               y == lq * lp
    <3>1. x \in Nat /\ y \in Nat /\ x + y \in Nat
      BY <2>4
    <3> HIDE DEF x, y
    <3>2. /\ Grain(x) + Grain(y) <= Grain(x + y)
          /\ Grain(x) \in Nat /\ Grain(y) \in Nat /\ Grain(x + y) \in Nat
      BY <3>1, GrainSum, GrainBound
    <3> QED
      BY <3>2 DEF x, y
  <2>6. Sold * lp + lq * lp <= u * d + w * d + Grain(Sold * lp + lq * lp)
    BY <2>2, <2>4, <2>5
  <2> QED
    BY <2>1, <2>3, <2>6
<1>11. taken' # 0 /\ taken' = taken + 1
  BY <1>1, <1>2
<1> QED
  BY <1>4, <1>8, <1>9, <1>10, <1>11 DEF Proceeds

\* Each branch keeps the proceeds of the lines, or stops with the pool beaten.
LEMMA RoutedPreserved ==
  IInv /\ RouteResolved /\ Ladder /\ LinesAhead /\ Proceeds /\ Routed /\ [Next]_vars
    => Proceeds' /\ Routed'
<1> SUFFICES ASSUME IInv, RouteResolved, Ladder, LinesAhead, Proceeds, Routed, [Next]_vars
             PROVE  Proceeds' /\ Routed'
  OBVIOUS
<1>1. CASE EnterSell
  <2>1. /\ pc = "enter" /\ pc' \in {"failed", "loop", "stopped"}
        /\ UNCHANGED <<market, taken, remaining, filled, total_fees, amm>>
    BY <1>1 DEF EnterSell, Enter
  <2>2. taken = 0 /\ filled = 0 /\ Sold = 0
    BY <2>1 DEF Proceeds
  <2>3. Proceeds'
    BY <2>1, <2>2 DEF Proceeds, Sold
  <2>4. BeatsPool
    <3>1. /\ get_amm_sum(market.amm, 0, "Bid") = 0
          /\ get_amm_sum(market.amm, 1, "Bid") \in Nat
          /\ market.amm.df \in Nat
      BY <2>1, FreshFacts, EmptyPays, SellSum DEF Reserves
    <3>2. get_amm_sum(market.amm, 1, "Bid") * market.amm.df \in Nat
      BY <3>1
    <3> QED
      BY <2>2, <3>1, <3>2 DEF BeatsPool
  <2>5. BeatsPool'
    BY <2>1, <2>4 DEF BeatsPool, Sold
  <2> QED
    BY <2>3, <2>5 DEF Routed
<1>2. CASE SellToPool \/ SellLastLine
  <2>1. /\ pc = "loop" /\ TradeLegs(TailLeg, NoLeg, "stopped")
        /\ taken' \in {taken, taken + 1}
    BY <1>2 DEF SellToPool, SellLastLine, PastLines, AtLine, Trade
  <2>2. PICK q : TailLeg = PoolLeg(q) /\ Sized(q, price) /\ q <= remaining
    BY <2>1, TailLegSized
  <2>3. pc' \in {"stopped", "failed"}
    BY <2>1 DEF TradeLegs, Settle
  <2>4. TradeLegs(PoolLeg(q), NoLeg, "stopped")
    BY <2>1, <2>2
  <2>5. price <= price
    BY LoopFacts, <2>1, WidthAssumption DEF I64
  <2>6. ASSUME pc' = "stopped" PROVE BeatsPool'
    BY <2>1, <2>2, <2>4, <2>5, <2>6, PoolStopWorth
  <2> QED
    BY <2>3, <2>6 DEF Proceeds, Routed
<1>3. CASE SellUnreachable
  <2> DEFINE q == get_amm_qty(amm, price, "Bid")
  <2>1. /\ pc = "loop" /\ MoreLines /\ taken' = taken + 1
        /\ ~(amm_px >= CurrentLine.price) /\ price > CurrentLine.price
        /\ TradeLegs(PoolLeg(q), NoLeg, "stopped")
    BY <1>3 DEF SellUnreachable, AtLine, Trade, last_line, line_is_unreachable
  <2>2. /\ Reserves(amm) /\ remaining \in Nat /\ price \in I64 /\ price \in Nat
        /\ amm_px \in Nat /\ CurrentLine.price \in Nat
    BY <2>1, LoopFacts, LineFacts, WidthAssumption DEF I64
  <2>3. q <= remaining
    <3>1. get_amm_px(amm, remaining, "Bid") < price
      BY <2>1, <2>2 DEF amm_px
    <3> QED
      BY <3>1, <2>1, <2>2, LoopFacts, SellStopsShort DEF I64
  <2>4. Sized(q, price)
    BY <2>2 DEF Sized
  <2>5. pc' \in {"stopped", "failed"}
    BY <2>1 DEF TradeLegs, Settle
  <2> HIDE DEF q
  <2>6. ASSUME pc' = "stopped" PROVE BeatsPool'
    BY <2>1, <2>2, <2>3, <2>4, <2>6, PoolStopWorth
  <2> QED
    BY <2>5, <2>6 DEF Proceeds, Routed
<1>4. CASE SellPoolThenLine
  <2>1. pc' \in {"stopped", "failed"}
    BY <1>4 DEF SellPoolThenLine, Trade, TradeLegs, Settle
  <2>2. ASSUME pc' = "stopped" PROVE BeatsPool'
    BY <1>4, <2>2, PoolThenLineWorth
  <2> QED
    BY <2>1, <2>2 DEF Proceeds, Routed
<1>5. CASE SellCoverLine
  <2>1. pc' \in {"loop", "failed"}
    BY <1>5 DEF SellCoverLine, Trade, TradeLegs, Settle
  <2>2. ASSUME pc' = "loop" PROVE Proceeds'
    BY <1>5, <2>2, CoverWorth
  <2> QED
    BY <2>1, <2>2 DEF Proceeds, Routed
<1>6. CASE SellPoolAndStop
  <2> DEFINE px == Greatest(CurrentLine.price, price)
             q  == Least(get_amm_qty(amm, px, "Bid"), remaining)
  <2>1. /\ pc = "loop" /\ MoreLines /\ taken' = taken + 1
        /\ TradeLegs(PoolLeg(q), NoLeg, "stopped")
    BY <1>6 DEF SellPoolAndStop, AtLine, Trade
  <2>2. /\ px \in I64 /\ px \in {CurrentLine.price, price}
        /\ CurrentLine.price \in Nat /\ price \in Nat /\ remaining \in Nat
    BY <2>1, LoopFacts, LineFacts, WidthAssumption DEF Greatest, I64
  <2>3. Sized(q, px)
    BY <2>2 DEF Sized
  <2> HIDE DEF px
  <2>4. q <= remaining
    <3>1. get_amm_qty(amm, px, "Bid") \in Nat
      BY <2>1, <2>3, SizedType
    <3> QED
      BY <3>1, <2>2 DEF Least
  <2>5. px <= price \/ px <= CurrentLine.price
    BY <2>2
  <2>6. pc' \in {"stopped", "failed"}
    BY <2>1 DEF TradeLegs, Settle
  <2> HIDE DEF q
  <2>7. ASSUME pc' = "stopped" PROVE BeatsPool'
    BY <2>1, <2>3, <2>4, <2>5, <2>7, PoolStopWorth
  <2> QED
    BY <2>6, <2>7 DEF Proceeds, Routed
<1>7. CASE ReturnSell
  <2>1. /\ pc = "stopped" /\ pc' \in {"quoted", "failed"}
        /\ UNCHANGED <<market, taken, remaining, filled, total_fees, amm>>
    BY <1>7 DEF ReturnSell, Return
  <2> QED
    BY <2>1 DEF Proceeds, Routed, BeatsPool, Sold
<1>8. CASE UNCHANGED vars
  BY <1>8 DEF vars, Proceeds, Routed, BeatsPool, Sold
<1> QED
  BY <1>1, <1>2, <1>3, <1>4, <1>5, <1>6, <1>7, <1>8 DEF Next

\* For every market whose quantities f64 resolves with a bit to spare and every
\* ladder of lines, what a sell quote pays for the quantity it sold is, up to the truncations the property
\* names, at least what the pool alone pays for it.
THEOREM RoutingBeatsPoolAloneHolds ==
  RouteResolved /\ Ladder /\ Spec => []RoutingBeatsPoolAlone
<1> DEFINE Inv == IInv /\ RouteResolved /\ Ladder /\ LinesAhead /\ Proceeds /\ Routed
<1>1. RouteResolved /\ Ladder /\ InitSell => Inv
  <2> SUFFICES ASSUME RouteResolved, Ladder, InitSell PROVE Inv
    OBVIOUS
  <2>0. Resolved
    <3>1. market.amm.a_tokens \in Nat /\ market.amount \in Nat
      BY MarketFacts, WidthAssumption DEF InitSell, InitCall, I64
    <3> QED
      BY <3>1, PrecisionAssumption DEF Resolved, RouteResolved
  <2>1. IInv
    BY <2>0, InitSound
  <2>2. /\ pc = "enter" /\ taken = 0 /\ filled = 0 /\ remaining = market.amount
    BY DEF InitSell, InitCall
  <2>3. Sold = 0
    BY <2>1, <2>2, FreshFacts DEF Sold
  <2> QED
    BY <2>1, <2>2, <2>3 DEF LinesAhead, Proceeds, Routed
<1>2. Inv /\ [Next]_vars => Inv'
  <2> SUFFICES ASSUME Inv, [Next]_vars PROVE Inv'
    OBVIOUS
  <2>1. RouteResolved'
    BY MarketKept DEF RouteResolved
  <2> QED
    BY <2>1, StepPreserves, AheadPreserved, RoutedPreserved
<1>3. Inv => RoutingBeatsPoolAlone
  BY DEF Routed, BeatsPool, RoutingBeatsPoolAlone
<1> QED
  BY <1>1, <1>2, <1>3, PTL DEF Spec
=============================================================================
