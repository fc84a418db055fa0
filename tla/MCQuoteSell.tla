---------------------------- MODULE MCQuoteSell ----------------------------
(***************************************************************************)
(* Small markets for QuoteSell.  With dec_factor 8 a pool of a asset and b *)
(* currency tokens has the price 8 * b / a: the pools below stand below,   *)
(* at and above the limit and the lines.                                   *)
(***************************************************************************)
EXTENDS QuoteSell

INSTANCE MCFloats

MCLines == [price : {9, 14, 17}, qty : {1, 4}]

\* Bid books of at most two lines, best price first.
MCBids == {<<>>} \cup {<<l>> : l \in MCLines}
  \cup {b \in MCLines \X MCLines : b[1].price >= b[2].price}

MCPools == {NewPool(p[1], p[2], 8) :
              p \in {<<0, 0>>, <<40, 80>>, <<13, 21>>, <<30, 100>>}}

MCMarket(lines, pool, px, ask, fee, amount, mode) ==
  [lines |-> lines, amm |-> pool, last_px |-> px, best_ask |-> ask,
   best_bid |-> IF lines = <<>> THEN 0 ELSE lines[1].price,
   total_lines_count |-> Greatest(Len(lines), IF ask < 99 THEN 1 ELSE 0), ps |-> 1,
   fee |-> fee, amount |-> amount, swap_mode |-> mode]

\* No trade yet (px = 0) or a last price of 16; an ask below it or none (99).
MCOrdinary ==
  {MCMarket(b, p, px, ask, f, n, "ExactIn") :
     b \in MCBids, p \in MCPools, px \in {0, 16}, ask \in {13, 99},
     f \in {0, 100}, n \in {0, 1, 3, 5, 7, 12}}

\* Trades so large that the truncations are small beside them: a pool near the
\* limit, and one whose asset unit is worth less than a unit of currency.
MCLarge ==
  {MCMarket(b, p, 16, 99, 100, n, "ExactIn") :
     b \in {<<>>, <<[price |-> 17, qty |-> 25]>>,
            <<[price |-> 18, qty |-> 25], [price |-> 17, qty |-> 20],
              [price |-> 15, qty |-> 60]>>},
     p \in {NewPool(400, 1200, 8), NewPool(400, 900, 8), NewPool(600, 1100, 8)},
     n \in {40, 100, 250}}
  \cup
  {MCMarket(b, p, 3, 99, 100, n, "ExactIn") :
     b \in {<<>>, <<[price |-> 5, qty |-> 40], [price |-> 3, qty |-> 80]>>,
            <<[price |-> 4, qty |-> 30], [price |-> 4, qty |-> 35]>>},
     p \in {NewPool(700, 800, 8), NewPool(900, 400, 8)},
     n \in {60, 200, 700}}

\* A limit price equal to dec_factor and pools whose product is at, or one
\* below, a square: the way f64 rounds decides how far the pool may be taken.
MCRounding ==
  {MCMarket(b, p, 9, 99, 100, n, "ExactIn") :
     b \in {<<>>, <<[price |-> 8, qty |-> 3]>>, <<[price |-> 7, qty |-> 3]>>,
            <<[price |-> 9, qty |-> 2], [price |-> 8, qty |-> 4]>>},
     p \in {NewPool(299, 301, 8), NewPool(300, 300, 8), NewPool(297, 303, 8)},
     n \in {1, 2, 3, 5, 9}}

\* Exact-out, and amounts whose sums leave I64Max or MaxSum.
MCExtreme ==
  {MCMarket(b, NewPool(40, 80, 8), 16, 99, 100, n, mode) :
     b \in {<<>>, <<[price |-> 17, qty |-> 1500]>>},
     n \in {1400, 1600, I64Max}, mode \in {"ExactIn", "ExactOut"}}

MCMarkets == MCOrdinary \cup MCLarge \cup MCRounding \cup MCExtreme
=============================================================================
