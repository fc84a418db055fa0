----------------------------- MODULE MCQuoteBuy -----------------------------
(***************************************************************************)
(* Small markets for QuoteBuy.  With dec_factor 8 a pool of a asset and b  *)
(* currency tokens has the price 8 * b / a: the pools below stand below,   *)
(* at and above the limit and the lines.                                   *)
(***************************************************************************)
EXTENDS QuoteBuy

INSTANCE MCFloats

MCLines == [price : {15, 17, 20}, qty : {1, 4}]

\* Ask books of at most two lines, best price first.
MCAsks == {<<>>} \cup {<<l>> : l \in MCLines}
  \cup {b \in MCLines \X MCLines : b[1].price <= b[2].price}

MCPools == {NewPool(p[1], p[2], 8) :
              p \in {<<0, 0>>, <<40, 80>>, <<21, 13>>, <<9, 20>>, <<30, 100>>}}

MCMarket(lines, pool, px, bid, fee, amount, mode) ==
  [lines |-> lines, amm |-> pool, last_px |-> px, best_bid |-> bid,
   best_ask |-> IF lines = <<>> THEN 99 ELSE lines[1].price,
   total_lines_count |-> Greatest(Len(lines), IF bid > 7 THEN 1 ELSE 0), ps |-> 1,
   fee |-> fee, amount |-> amount, swap_mode |-> mode]

\* No trade yet (px = 0) or a last price of 16; a bid above it or none (7).
MCOrdinary ==
  {MCMarket(b, p, px, bid, f, n, "ExactIn") :
     b \in MCAsks, p \in MCPools, px \in {0, 16}, bid \in {7, 17},
     f \in {0, 100}, n \in {0, 1, 2, 4, 7, 12, 20}}

\* Trades so large that the truncations are small beside them: a pool near the
\* limit, and one whose asset unit is worth less than a unit of currency.
MCLarge ==
  {MCMarket(b, p, 16, 7, 100, n, "ExactIn") :
     b \in {<<>>, <<[price |-> 16, qty |-> 25]>>,
            <<[price |-> 15, qty |-> 25], [price |-> 17, qty |-> 20],
              [price |-> 18, qty |-> 60]>>},
     p \in {NewPool(700, 1000, 8), NewPool(600, 1100, 8), NewPool(400, 850, 8)},
     n \in {60, 200, 500}}
  \cup
  {MCMarket(b, p, px, 0, 100, n, "ExactIn") :
     b \in {<<>>, <<[price |-> 3, qty |-> 40], [price |-> 5, qty |-> 80]>>,
            <<[price |-> 4, qty |-> 30], [price |-> 4, qty |-> 35]>>},
     p \in {NewPool(900, 300, 8), NewPool(900, 500, 8), NewPool(282, 4, 800)},
     px \in {4, 8}, n \in {30, 100, 400}}

\* A limit price equal to dec_factor and pools whose product is at, or one
\* below, a square: the way f64 rounds decides how far the pool may be taken.
MCRounding ==
  {MCMarket(b, p, 8, 0, f, n, "ExactIn") :
     b \in {<<>>, <<[price |-> 9, qty |-> 3]>>, <<[price |-> 10, qty |-> 3]>>,
            <<[price |-> 8, qty |-> 2], [price |-> 9, qty |-> 4]>>},
     p \in {NewPool(301, 299, 9), NewPool(300, 300, 9), NewPool(303, 297, 9)},
     f \in {0, 100}, n \in {1, 2, 3, 5, 9}}

\* Exact-out, sums that leave I64Max or MaxSum, and a pool so small that a
\* buy towards a low price would empty its reserve.
MCExtreme ==
  {MCMarket(b, p, 16, 7, 100, n, mode) :
     b \in {<<>>, <<[price |-> 17, qty |-> 1500]>>, <<[price |-> 20, qty |-> 1]>>},
     p \in {NewPool(40, 80, 8), NewPool(0, 3, 8)},
     n \in {40, 3000, I64Max}, mode \in {"ExactIn", "ExactOut"}}

MCMarkets == MCOrdinary \cup MCLarge \cup MCRounding \cup MCExtreme
=============================================================================
