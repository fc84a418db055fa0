------------------------------ MODULE QuoteBuy ------------------------------
(***************************************************************************)
(* Deriverse::quote for a taker who pays currency for the asset: the walk  *)
(* up the ask lines and along the pool curve.  One action per branch of    *)
(* the loop.                                                               *)
(***************************************************************************)
EXTENDS Quote

\* (amount as f64 / (1.0 + fee_rate)) as i64: what the fee leaves to spend.
input_sum ==
  Blurred(market.amount * FeeDen, <<"input_sum">>) \div (FeeDen + market.fee)

price       == limit_price(market, "Ask")
line_sum    == trade_sum(amm, CurrentLine.qty, CurrentLine.price)
amm_px      == get_reversed_amm_px(amm, remaining)
next_amm_px == get_reversed_amm_px(amm, remaining - line_sum)

Leg(qty, mints) ==
  IF qty = 0 \/ mints = 0 THEN NoLeg ELSE [qty |-> qty, mints |-> mints]

\* Buying from the pool until it has the price p, with no look at remaining.
LegToPrice(p) ==
  LET q == get_amm_qty(amm, p, "Ask") IN Leg(q, get_amm_sum(amm, q, "Ask"))

\* Mutation: the last leg always goes up to the limit.
TailLegToLimit == LegToPrice(price)

\* The last leg: up to the limit price, or for all that remains, where the
\* code refuses a zero quantity only.
TailLeg ==
  IF partial_fill(amm_px, price, "Ask")
  THEN LegToPrice(price)
  ELSE LET q == get_reversed_amm_qty(amm, remaining)
       IN  IF q = 0 THEN NoLeg ELSE [qty |-> q, mints |-> remaining]

\* What the line gives for rest: the branch never reads the line's quantity.
RestAtLine(rest) ==
  [qty |-> QuotAsI64(rest * amm.df, CurrentLine.price), mints |-> rest]

WholeLine == [qty |-> CurrentLine.qty, mints |-> line_sum]

\* The pool and line legs are bound by \E so that TLC evaluates them once.
Trade(pool_leg, line_leg, fails, next) ==
  \E pool \in {pool_leg}, line \in {line_leg} :
    Settle(pool.mints + line.mints, pool.qty + line.qty, pool, line,
           [amm EXCEPT !.a_tokens = @ - pool.qty, !.b_tokens = @ + pool.mints],
           fails \/ (amm.b_tokens # 0 /\ amm.b_tokens + remaining > I64Max),
           next)

LineFails == TradeSumFails(amm, CurrentLine.qty, CurrentLine.price)

-----------------------------------------------------------------------------
InitBuy  == InitCall /\ remaining = input_sum
EnterBuy == Enter("Ask")

\* No line is left: the pool alone.
BuyFromPool == PastLines /\ Trade(TailLeg, NoLeg, FALSE, "stopped")

\* The line could serve all that remains, but the pool is as cheap.
BuyLastLine ==
  /\ AtLine
  /\ remaining <= line_sum
  /\ last_line(amm_px, CurrentLine.price, "Ask")
  /\ Trade(TailLeg, NoLeg, LineFails, "stopped")

\* The line could serve all that remains, but it is above the limit.
BuyUnreachable ==
  /\ AtLine
  /\ remaining <= line_sum
  /\ ~last_line(amm_px, CurrentLine.price, "Ask")
  /\ line_is_unreachable(price, CurrentLine.price, "Ask")
  /\ Trade(LegToPrice(price), NoLeg, LineFails, "stopped")

\* The pool up to the price of the line, then the line for all that remains.
BuyPoolThenLine ==
  /\ AtLine
  /\ remaining <= line_sum
  /\ ~last_line(amm_px, CurrentLine.price, "Ask")
  /\ ~line_is_unreachable(price, CurrentLine.price, "Ask")
  /\ \E pool \in {LegToPrice(CurrentLine.price)} :
       LET rest == remaining - pool.mints
       IN  Trade(pool, IF rest > 0 THEN RestAtLine(rest) ELSE NoLeg,
                 LineFails, "stopped")

\* The line is taken whole and the walk goes on.
BuyCoverLine ==
  /\ AtLine
  /\ remaining > line_sum
  /\ cover_line(next_amm_px, price, CurrentLine.price, "Ask")
  /\ Trade(NoLeg, WholeLine, LineFails, "loop")

\* The pool up to the line or the limit, whichever is lower, for what
\* get_reversed_amm_sum says; then the line too, if amm_px, the pool's price
\* had it been paid all of remaining at the head of the iteration, covers it.
\* A reserve brought to zero makes get_reversed_amm_qty divide by zero.
BuyPoolAndStop ==
  /\ AtLine
  /\ remaining > line_sum
  /\ ~cover_line(next_amm_px, price, CurrentLine.price, "Ask")
  /\ \E m \in {Least(get_reversed_amm_sum(amm, Least(CurrentLine.price, price)),
                     remaining)} :
       LET divides_by_zero == amm.b_tokens # 0 /\ amm.b_tokens + m = 0
           q == IF divides_by_zero THEN 0 ELSE get_reversed_amm_qty(amm, m)
       IN  Trade(Leg(q, m),
                 IF cover_line(amm_px, price, CurrentLine.price, "Ask")
                 THEN WholeLine ELSE NoLeg,
                 LineFails \/ divides_by_zero, "stopped")

ReturnBuy == Return(filled, WrapI64(-(market.amount - remaining) - total_fees))

Next ==
  \/ EnterBuy
  \/ BuyFromPool
  \/ BuyLastLine
  \/ BuyUnreachable
  \/ BuyPoolThenLine
  \/ BuyCoverLine
  \/ BuyPoolAndStop
  \/ ReturnBuy

Spec == InitBuy /\ [][Next]_vars
-----------------------------------------------------------------------------
Spent == input_sum - remaining

\* The in_amount and out_amount of the quote, before the casts to u64.
in_amount  == market.amount - remaining + total_fees
out_amount == filled

\* A buy whose pool leg and line leg are sized from two truncated numbers may
\* overdraw its budget, but never by more than the price of one more unit.
OverspendsByLessThanOneUnit ==
  remaining < 0 => -remaining * amm.a_tokens <= amm.b_tokens

\* What the lines gave, of what was bought.
OnLines == filled - (market.amm.a_tokens - amm.a_tokens)

\* The slippage bound of the quote: what was spent buys at no worse than the
\* limit price, up to one unit of the asset for the leg against the pool and
\* one for the line the walk ends at, however many lines it took before.  The
\* pool is asked for its price truncated, which may be a tick above the limit
\* for each unit bought, a leg of negative currency rounds by one unit, and f64
\* may be off at what the lines are worth.
BoughtAtLimitOrBetter ==
  (Spent - 1) * amm.df
    <= (filled + 2) * price + Greatest(filled, 0) + Grain(OnLines * price)

\* The currency that changed hands, where Spent is the balance: a leg of
\* negative currency, which the code can produce, counts as what it gives back.
Moved == Spent + 2 * Greatest(0, market.amm.b_tokens - amm.b_tokens)

\* Every leg pays the fee rate once, up to what f64 may be off at the fees.  A
\* leg of negative currency refunds a fee truncated the other way.  A rate
\* above one could saturate the conversion of a fee, and then less is paid.
EveryLegPaysItsFee ==
  LET off == Grain(Moved * market.fee)
  IN  /\ total_fees * FeeDen <= Spent * market.fee + off
         + (IF amm.b_tokens < market.amm.b_tokens THEN FeeDen ELSE 0)
      /\ market.fee <= FeeDen =>
           Spent * market.fee <= (total_fees + taken + 1) * FeeDen + off

\* Whatever branch moved the pool, its price is not above the limit by more
\* than the truncation: one asset unit on the branches that go through
\* get_amm_qty, one price unit on those that go through get_reversed_amm_px,
\* and what f64 may be off at the square of either reserve.
PoolStaysBelowLimit ==
  amm.a_tokens # market.amm.a_tokens =>
    LET a2 == amm.k * amm.df
        b2 == amm.b_tokens * amm.b_tokens * amm.df
    IN  \/ a2 - Grain(a2) < price * ((amm.a_tokens + 1) * (amm.a_tokens + 1))
        \/ b2 - Grain(b2) < (price + 1) * amm.k

\* The pool the loop leaves behind is on its curve: one reserve is exactly
\* what the constant product leaves for the other.
PoolOnCurve ==
  amm # market.amm =>
    \/ amm.a_tokens # 0 /\ amm.b_tokens = amm.k \div amm.a_tokens
    \/ amm.b_tokens # 0 /\ amm.a_tokens = WrapI64(amm.k \div amm.b_tokens)


\* The second quote example of src/README.md offers an amount of token B: a
\* quote that fills the offer takes no more than the amount from the taker.
FilledOfferCostsTheOffer ==
  pc = "quoted" /\ remaining = 0 => in_amount <= market.amount
=============================================================================
