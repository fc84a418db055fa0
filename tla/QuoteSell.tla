----------------------------- MODULE QuoteSell -----------------------------
(***************************************************************************)
(* Deriverse::quote for a taker who sells the asset: the walk down the bid *)
(* lines and along the pool curve.  One action per branch of the loop.     *)
(***************************************************************************)
EXTENDS Quote

price       == limit_price(market, "Bid")
amm_px      == get_amm_px(amm, remaining, "Bid")
next_amm_px == get_amm_px(amm, remaining - CurrentLine.qty, "Bid")

\* Selling q to the pool; nothing is traded when either amount is zero.
PoolLeg(q) ==
  LET m == get_amm_sum(amm, q, "Bid")
  IN  IF q = 0 \/ m = 0 THEN NoLeg ELSE [qty |-> q, mints |-> m]

\* The last leg: down to the limit price, or all that remains.
TailLeg ==
  PoolLeg(IF partial_fill(amm_px, price, "Bid")
          THEN get_amm_qty(amm, price, "Bid")
          ELSE remaining)

LineLeg(q) == [qty |-> q, mints |-> trade_sum(amm, q, CurrentLine.price)]

\* Mutation: the currency that left the pool is not taken off its reserve.
AfterLegOneSided(leg) == [amm EXCEPT !.a_tokens = @ + leg.qty]

\* The pool after a leg: assets go in and currency comes out.
AfterLeg(leg) ==
  [amm EXCEPT !.a_tokens = @ + leg.qty, !.b_tokens = @ - leg.mints]

\* One iteration that trades the two legs.
TradeLegs(pool, line, next) ==
  Settle(pool.qty + line.qty, pool.mints + line.mints, pool, line, AfterLeg(pool),
         \/ amm.a_tokens + remaining > I64Max
         \/ line # NoLeg /\ TradeSumFails(amm, line.qty, CurrentLine.price),
         next)

\* The legs are bound by \E so that TLC evaluates each of them once.
Trade(pool_leg, line_leg, next) ==
  \E pool \in {pool_leg}, line \in {line_leg} : TradeLegs(pool, line, next)

-----------------------------------------------------------------------------
InitSell  == InitCall /\ remaining = market.amount
EnterSell == Enter("Bid")

\* Mutation: the break after the last leg is missing.
SellToPoolAndGoOn == PastLines /\ Trade(TailLeg, NoLeg, "loop")

\* No line is left: the pool alone.
SellToPool == PastLines /\ Trade(TailLeg, NoLeg, "stopped")

\* The line could take all that remains, but the pool pays at least as much.
SellLastLine ==
  /\ AtLine
  /\ remaining <= CurrentLine.qty
  /\ last_line(amm_px, CurrentLine.price, "Bid")
  /\ Trade(TailLeg, NoLeg, "stopped")

\* The line could take all that remains, but it is below the limit.
SellUnreachable ==
  /\ AtLine
  /\ remaining <= CurrentLine.qty
  /\ ~last_line(amm_px, CurrentLine.price, "Bid")
  /\ line_is_unreachable(price, CurrentLine.price, "Bid")
  /\ Trade(PoolLeg(get_amm_qty(amm, price, "Bid")), NoLeg, "stopped")

\* The pool down to the price of the line, then the line.
SellPoolThenLine ==
  /\ AtLine
  /\ remaining <= CurrentLine.qty
  /\ ~last_line(amm_px, CurrentLine.price, "Bid")
  /\ ~line_is_unreachable(price, CurrentLine.price, "Bid")
  /\ LET pool == PoolLeg(get_amm_qty(amm, CurrentLine.price, "Bid"))
         rest == remaining - pool.qty
     IN  Trade(pool, IF rest > 0 THEN LineLeg(rest) ELSE NoLeg, "stopped")

\* The line is taken whole and the walk goes on.
SellCoverLine ==
  /\ AtLine
  /\ remaining > CurrentLine.qty
  /\ cover_line(next_amm_px, price, CurrentLine.price, "Bid")
  /\ Trade(NoLeg, LineLeg(CurrentLine.qty), "loop")

\* Mutations: the pool leg is not capped by what remains, or is capped by the
\* quantity of the line.
SellPoolAndStopUncapped ==
  /\ AtLine
  /\ remaining > CurrentLine.qty
  /\ ~cover_line(next_amm_px, price, CurrentLine.price, "Bid")
  /\ LET q == get_amm_qty(amm, Greatest(CurrentLine.price, price), "Bid")
     IN  Trade(PoolLeg(q), NoLeg, "stopped")

SellPoolAndStopAtLineQty ==
  /\ AtLine
  /\ remaining > CurrentLine.qty
  /\ ~cover_line(next_amm_px, price, CurrentLine.price, "Bid")
  /\ LET q == get_amm_qty(amm, Greatest(CurrentLine.price, price), "Bid")
     IN  Trade(PoolLeg(Least(q, CurrentLine.qty)), NoLeg, "stopped")

\* The pool down to the line or the limit, whichever is higher, and stop.
\* The code then tests cover_line once more, on the values that were just
\* found not to satisfy it, so the line is never taken here.
SellPoolAndStop ==
  /\ AtLine
  /\ remaining > CurrentLine.qty
  /\ ~cover_line(next_amm_px, price, CurrentLine.price, "Bid")
  /\ LET q == get_amm_qty(amm, Greatest(CurrentLine.price, price), "Bid")
     IN  Trade(PoolLeg(Least(q, remaining)), NoLeg, "stopped")

\* Mutation: the "Swap failed" test is missing.
ReturnSellUnchecked == Return(1, 1)

ReturnSell == Return(-(market.amount - remaining), filled - total_fees)

Next ==
  \/ EnterSell
  \/ SellToPool
  \/ SellLastLine
  \/ SellUnreachable
  \/ SellPoolThenLine
  \/ SellCoverLine
  \/ SellPoolAndStop
  \/ ReturnSell

Spec == InitSell /\ [][Next]_vars

-----------------------------------------------------------------------------
Sold == market.amount - remaining

\* A sell quote never sells a negative amount and never more than was asked,
\* although the quantities come out of f64 roots and quotients truncated at
\* different places of amm.rs.
NeverOversells == remaining \in 0 .. market.amount

\* Whatever branch moved the pool, it did not move it below the limit price by
\* more than f64 may be off at the square of the curve, k * df.
PoolStaysAboveLimit ==
  amm.a_tokens # market.amm.a_tokens =>
    price * (amm.a_tokens * amm.a_tokens)
      <= amm.k * amm.df + Grain(amm.k * amm.df)

\* The slippage bound of the quote: what is received is worth at least the
\* limit price per unit sold, up to one unit of currency for each line met and
\* to what f64 may be off at that worth.
SoldAtLimitOrBetter ==
  (filled + taken) * amm.df + Grain(Sold * price) >= Sold * price

\* Every leg pays the fee rate once: the fees are the rate applied to the
\* proceeds, less the truncation of at most one unit per leg, up to what f64
\* may be off at them.  A rate above one could saturate the conversion of a
\* fee, and then less is paid.
EveryLegPaysItsFee ==
  LET fees == filled * market.fee
  IN  /\ total_fees * FeeDen <= fees + Grain(fees)
      /\ market.fee <= FeeDen =>
           fees <= (total_fees + taken + 1) * FeeDen + Grain(fees)

\* The pool the loop leaves behind is on its curve: its currency is exactly
\* what the constant product leaves for its assets, never negative.
PoolOnCurve ==
  amm # market.amm => amm.b_tokens = amm.k \div amm.a_tokens

\* Routing over lines, best price first, and pool never quotes less for the
\* quantity sold than the pool alone would pay for it.  The truncations leave
\* one currency unit per leg, one asset unit at the pool's price, and one price
\* tick per unit sold: a line is taken when the truncated price of the pool is
\* not above its own.
RoutingBeatsPoolAlone ==
  pc = "quoted" =>
    (filled + taken + get_amm_sum(market.amm, 1, "Bid")) * market.amm.df + Sold
      >= get_amm_sum(market.amm, Sold, "Bid") * market.amm.df

\* A sell that stops short has used the pool up: down to the limit, or to the
\* line it stopped in front of, the pool would pay nothing for what remains.
StopsOnlyWherePoolEnds ==
  pc = "stopped" /\ Enters(market, "Bid") /\ remaining > 0 =>
    LET floor == IF taken = 0 \/ market.lines = <<>> THEN price
                 ELSE Greatest(price, market.lines[taken].price)
    IN  PoolLeg(Least(get_amm_qty(amm, floor, "Bid"), remaining)) = NoLeg

\* The pool is never left ahead of a line that was taken: when a sell stops,
\* the pool pays nothing more at any price above the worst of the lines the
\* walk took before the last.
TakenLinesBeatThePool ==
  pc = "stopped" /\ taken > 1 =>
    LET above == market.lines[taken - 1].price + 1
    IN  PoolLeg(get_amm_qty(amm, above, "Bid")) = NoLeg

\* A sell that stops in front of a line within the limit leaves no more than
\* that line could have taken whole: the second test of cover_line, which never
\* holds there, costs the taker at most that line.
LeavesAtMostTheLine ==
  [][pc = "loop" /\ pc' = "stopped" /\ MoreLines /\ CurrentLine.price >= price
       => remaining' <= CurrentLine.qty]_vars

\* The whole call is one answer within the request: nothing of what the loop
\* does on the way can be told from outside.
Promise == INSTANCE SellPromise WITH
  request <- [amount |-> market.amount, price |-> price, fee |-> market.fee,
              df |-> market.amm.df, lines |-> Len(market.lines)],
  answer  <- CASE pc = "quoted" -> "trade" [] pc = "failed" -> "error"
               [] OTHER -> "none",
  sold    <- IF pc = "quoted" THEN Sold ELSE 0,
  gross   <- IF pc = "quoted" THEN filled ELSE 0,
  fees    <- IF pc = "quoted" THEN total_fees ELSE 0

KeepsPromise == Promise!Spec
=============================================================================
