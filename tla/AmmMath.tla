------------------------------ MODULE AmmMath ------------------------------
(***************************************************************************)
(* The constant-product pool arithmetic of DeriverseAmm                    *)
(* (titan-deriverse/src/amm.rs), operator for function, under the names of *)
(* the code.  A pool is the record DeriverseAmm without rdf, which is      *)
(* 1 / df.                                                                 *)
(*                                                                         *)
(* Numbers.  i64 and i128 values are integers.  `as i64` of an f64         *)
(* saturates, `as i64` of an i128 wraps, and so does an unchecked i64      *)
(* addition in a release build: all are written where the code has them    *)
(* and the result can leave the type.                                      *)
(*                                                                         *)
(* An f64 computation of the code is a chain of conversions, products, a   *)
(* quotient and perhaps a root, truncated at the end.  What it returns is  *)
(* the exact truncated quotient, or root, of a numerator near the exact    *)
(* one: `Blurred`.  Which numerator is left open (`Rounded`), and how near *)
(* it is is a parameter (`Precision`).                                     *)
(***************************************************************************)
EXTENDS Integers

CONSTANTS
  I64Max,    \* i64::MAX, the width of every quantity (small in the runs)
  MaxSum,    \* drv_models trading_limitations::MAX_SUM, the cap of trade_sum
  Precision, \* f64 is exact below it and errs by at most one part in it above:
             \* 2^49 for the code, whose chains have at most six roundings of
             \* one part in 2^53 each (small in the runs)
  Rounded(_, _)  \* how f64 rounds the numerator n of a chain of operations

ASSUME WidthAssumption == I64Max \in Nat /\ MaxSum \in 0 .. I64Max
ASSUME PrecisionAssumption == Precision \in Nat \ {0}

Least(x, y)    == IF x <= y THEN x ELSE y
Greatest(x, y) == IF x >= y THEN x ELSE y

\* f64 -> i64 saturates; i128 -> i64, and an unchecked i64 sum in a release
\* build, keep the low 64 bits.
F64AsI64(x)  == Least(x, I64Max)
WrapI64(x) == ((x + I64Max + 1) % (2 * (I64Max + 1))) - (I64Max + 1)

\* The largest natural whose square does not exceed n.
Isqrt[n \in Nat] == CHOOSE r \in 0 .. n : r * r <= n /\ n < (r + 1) * (r + 1)

\* By how much f64 may be off at n.
Grain(n) == n \div Precision

\* The numerator that the f64 chain stands for: within the precision of the
\* exact n, or up to slip lower.
Nearby(n, chain, slip) ==
  IF Rounded(n, chain) \in Greatest(0, n - Grain(n) - slip) .. n + Grain(n)
  THEN Rounded(n, chain)
  ELSE n

Blurred(n, chain) == Nearby(n, chain, 0)

\* (n / d) as i64 and (n / d).sqrt() as i64 for naturals n and d: a division
\* by zero is infinite, or NaN when n = 0 too, and NaN converts to 0.
QuotAsI64(n, d) ==
  IF d # 0 THEN F64AsI64(Blurred(n, <<"quotient", d>>) \div d)
  ELSE IF n = 0 THEN 0 ELSE I64Max
RootAsI64(n, d) ==
  IF d # 0 THEN F64AsI64(Isqrt[Blurred(n, <<"root", d>>) \div d])
  ELSE IF n = 0 THEN 0 ELSE I64Max

-----------------------------------------------------------------------------
Side == {"Bid", "Ask"}
Pool == [k : Nat, a_tokens : Nat, b_tokens : Nat, df : Nat \ {0}]

\* DeriverseAmm::new
NewPool(asset_tokens, crncy_tokens, dec_factor) ==
  [k        |-> asset_tokens * crncy_tokens,
   a_tokens |-> asset_tokens,
   b_tokens |-> crncy_tokens,
   df       |-> dec_factor]

\* qty * price * rdf, where rdf = 1 / df is inexact: a product that df divides
\* may come out just below its quotient.
SumNumerator(qty, price) == Nearby(qty * price, <<"sum", qty, price>>, 1)

\* The currency value of qty at price, and when trade_sum refuses it.
trade_sum(p, qty, price) == F64AsI64(SumNumerator(qty, price) \div p.df)
TradeSumFails(p, qty, price) == SumNumerator(qty, price) > MaxSum * p.df

\* The asset quantity that moves the pool to price.
get_amm_qty(p, price, side) ==
  LET target == RootAsI64(p.k * p.df, price)
  IN  Greatest(0, IF side = "Bid" THEN target - p.a_tokens
                                  ELSE p.a_tokens - target)

\* The price of the pool after q asset tokens are sold to it or bought from it.
get_amm_px(p, q, side) ==
  IF side = "Ask" /\ q >= p.a_tokens
  THEN I64Max \div 2
  ELSE LET new_tokens == IF side = "Bid" THEN p.a_tokens + q
                                         ELSE p.a_tokens - q
       IN  QuotAsI64(p.k * p.df, new_tokens * new_tokens)

\* Mutation: the pool trades at its present price and not along its curve.
get_amm_sumAtSpot(p, traded_qty, side) ==
  IF p.a_tokens = 0 THEN 0 ELSE (traded_qty * p.b_tokens) \div p.a_tokens

\* The currency the pool pays, or asks, for traded_qty asset tokens.
get_amm_sum(p, traded_qty, side) ==
  IF side = "Bid"
  THEN IF p.a_tokens = 0 THEN 0
       ELSE WrapI64(Greatest(0, p.b_tokens - p.k \div (p.a_tokens + traded_qty)))
  ELSE IF p.a_tokens - traded_qty <= 0 THEN 0
       ELSE WrapI64(Greatest(0, p.k \div (p.a_tokens - traded_qty) - p.b_tokens))

\* The price of the pool after sum currency units are paid into it.
get_reversed_amm_px(p, sum) ==
  IF p.b_tokens = 0 THEN I64Max \div 2
  ELSE QuotAsI64((p.b_tokens + sum) * (p.b_tokens + sum) * p.df, p.k)

\* The asset quantity the pool gives for traded_sum.
get_reversed_amm_qty(p, traded_sum) ==
  IF p.b_tokens = 0 THEN 0
  ELSE p.a_tokens - WrapI64(p.k \div (p.b_tokens + traded_sum))

\* In the code the unary minus applies to the whole of `(..)?.max(0)`: the
\* result is never positive.
get_reversed_amm_sum(p, price) ==
  IF p.b_tokens = 0 THEN 0
  ELSE -Greatest(0, p.b_tokens - RootAsI64(p.k * price, p.df))

-----------------------------------------------------------------------------
\* Mutations: the limit compared from the wrong side, and a line covered
\* without a look at the limit or without a look at the pool.
partial_fillFlipped(amm_px, price, side) ==
  IF side = "Bid" THEN amm_px > price ELSE amm_px < price

cover_lineBeyondLimit(amm_px, price, line_px, side) ==
  IF side = "Bid" THEN amm_px <= line_px ELSE amm_px >= line_px

cover_lineBeforePool(amm_px, price, line_px, side) ==
  IF side = "Bid" THEN price <= line_px ELSE price >= line_px

\* The four comparisons of a taker's walk; a selling taker reads the bids.
partial_fill(amm_px, price, side) ==
  IF side = "Bid" THEN amm_px < price ELSE amm_px > price

last_line(amm_px, line_px, side) ==
  IF side = "Bid" THEN amm_px >= line_px ELSE amm_px <= line_px

cover_line(amm_px, price, line_px, side) ==
  IF side = "Bid" THEN Greatest(amm_px, price) <= line_px
                  ELSE Least(amm_px, price) >= line_px

line_is_unreachable(price, line_px, side) ==
  IF side = "Bid" THEN price > line_px ELSE price < line_px
=============================================================================
