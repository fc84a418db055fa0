------------------------------- MODULE Quote -------------------------------
(***************************************************************************)
(* What the two halves of Deriverse::quote (titan-deriverse/src/lib.rs)    *)
(* share: the inputs of a call, its local variables, the limit price, the  *)
(* entry test and the final test.  QuoteSell and QuoteBuy add one action   *)
(* per branch of the loop.                                                 *)
(*                                                                         *)
(* The lines are those the iterator yields for the side the taker walks,   *)
(* in order; module LinesIter is about the iterator.  The rate             *)
(* day_volatility * fee_rate_factor is fee / FeeDen.                       *)
(***************************************************************************)
EXTENDS AmmMath, Sequences

CONSTANTS
  Markets,  \* the inputs a call may be made with
  FeeDen    \* the fee unit: rates are multiples of 1 / FeeDen

I64 == 0 .. I64Max

Line == [price : I64, qty : I64]

\* Header fields, lines and pool as `update` left them, and the QuoteParams.
Market == [lines : Seq(Line), amm : Pool,
           last_px : I64, best_bid : I64, best_ask : I64, fee : Nat,
           total_lines_count : Nat, ps : Nat,
           amount : I64, swap_mode : {"ExactIn", "ExactOut"}]

ASSUME MarketsAssumption ==
  /\ FeeDen \in Nat \ {0}
  /\ \A m \in Markets :
       /\ m \in Market
       /\ m.amm.a_tokens \in I64 /\ m.amm.b_tokens \in I64
       /\ m.amm = NewPool(m.amm.a_tokens, m.amm.b_tokens, m.amm.df)

VARIABLES
  market,      \* the inputs, fixed during the call
  pc,          \* "enter", "loop", "stopped" (after break), "quoted", "failed"
  taken,       \* how many lines the iterator has yielded
  remaining,   \* remaining_qty of a sell, remaining_sum of a buy
  filled,      \* sum of a sell, qty of a buy
  total_fees,
  amm          \* the clone of the pool the loop trades against

vars == <<market, pc, taken, remaining, filled, total_fees, amm>>

TypeOK ==
  /\ market \in Market
  /\ pc \in {"enter", "loop", "stopped", "quoted", "failed"}
  /\ taken \in 0 .. Len(market.lines)
  /\ remaining \in Int
  /\ filled \in Int
  /\ total_fees \in Int
  /\ amm \in [k : Nat, a_tokens : Int, b_tokens : Int, df : Nat \ {0}]

-----------------------------------------------------------------------------
\* OffChainInstrAccountHeader::market_px
market_px(m) == IF m.best_ask < m.last_px THEN m.best_ask
                ELSE IF m.best_bid > m.last_px THEN m.best_bid
                ELSE m.last_px

\* The worst price the taker accepts: an eighth of the market price away.
limit_price(m, side) ==
  LET px == market_px(m)
      max_diff == px \div 8
  IN  IF side = "Ask" THEN WrapI64(px + max_diff) ELSE px - max_diff

\* OrderBook::cross
cross(m, price, side) ==
  /\ m.lines # <<>>
  /\ IF side = "Ask" THEN price >= Head(m.lines).price
                     ELSE price <= Head(m.lines).price

\* is_active, of the header and the book this market was read from.
is_active(m) == m.total_lines_count # 0 /\ m.ps # 0

\* (traded_mints as f64 * fee_rate) as i64, which truncates towards zero.
FeeOn(mints) ==
  LET fee(m) == Blurred(m * market.fee, <<"fee">>) \div FeeDen
  IN  IF mints < 0 THEN -fee(-mints) ELSE F64AsI64(fee(mints))

-----------------------------------------------------------------------------
InitCall ==
  /\ market \in Markets
  /\ pc = "enter"
  /\ taken = 0
  /\ filled = 0
  /\ total_fees = 0
  /\ amm = market.amm

\* The loop runs when the limit is beyond the market price or crosses the
\* first line of the side.
Opens(m, side, crosses) ==
  LET px    == market_px(m)
      price == limit_price(m, side)
  IN  \/ side = "Ask" /\ price > px
      \/ side = "Bid" /\ price < px
      \/ crosses

Enters(m, side) == Opens(m, side, cross(m, limit_price(m, side), side))

\* Exact-out is refused.
Enter(side) ==
  /\ pc = "enter"
  /\ pc' = IF market.swap_mode = "ExactOut" THEN "failed"
           ELSE IF Enters(market, side) THEN "loop" ELSE "stopped"
  /\ UNCHANGED <<market, taken, remaining, filled, total_fees, amm>>

MoreLines   == taken < Len(market.lines)
CurrentLine == market.lines[taken + 1]

\* Mutation: the end of the walk is counted as a line.
PastLinesCounted == pc = "loop" /\ ~MoreLines /\ taken' = taken + 1

\* lines.next() at the head of an iteration.
AtLine    == pc = "loop" /\ MoreLines /\ taken' = taken + 1
PastLines == pc = "loop" /\ ~MoreLines /\ taken' = taken

NoLeg == [qty |-> 0, mints |-> 0]

Fits(S) == \A x \in S : x <= I64Max

\* Mutation: the fee of a filled line is forgotten.
SettleFreeLine(spent, got, pool, line, new_amm, fails, next) ==
  LET fees == total_fees + FeeOn(pool.mints)
      ok   == ~fails /\ Fits({filled + got, fees, new_amm.a_tokens, new_amm.b_tokens})
  IN  /\ pc'         = IF ok THEN next ELSE "failed"
      /\ remaining'  = IF ok THEN remaining - spent ELSE remaining
      /\ filled'     = IF ok THEN filled + got ELSE filled
      /\ total_fees' = IF ok THEN fees ELSE total_fees
      /\ amm'        = IF ok THEN new_amm ELSE amm
      /\ UNCHANGED market

\* The assignments of one iteration: a leg against the pool and a leg against
\* the current line, either of which may be NoLeg, each paying its own fee.
\* Any failing checked operation makes the call return an error.
Settle(spent, got, pool, line, new_amm, fails, next) ==
  LET fees == total_fees + FeeOn(pool.mints) + FeeOn(line.mints)
      ok   == ~fails /\ Fits({filled + got, fees, new_amm.a_tokens, new_amm.b_tokens})
  IN  /\ pc'         = IF ok THEN next ELSE "failed"
      /\ remaining'  = IF ok THEN remaining - spent ELSE remaining
      /\ filled'     = IF ok THEN filled + got ELSE filled
      /\ total_fees' = IF ok THEN fees ELSE total_fees
      /\ amm'        = IF ok THEN new_amm ELSE amm
      /\ UNCHANGED market

\* "Swap failed" when either balance change of the client is zero.
Return(client_tokens, client_mints) ==
  /\ pc = "stopped"
  /\ pc' = IF client_tokens = 0 \/ client_mints = 0 THEN "failed" ELSE "quoted"
  /\ UNCHANGED <<market, taken, remaining, filled, total_fees, amm>>

-----------------------------------------------------------------------------
\* jupiter-amm-interface/src/lib.rs says that is_active tells "if the AMM can be
\* used for trading": a market that quote has a trade for is reported active.
QuotedMarketIsActive == pc = "quoted" => is_active(market)
=============================================================================
