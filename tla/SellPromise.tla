---------------------------- MODULE SellPromise -----------------------------
(***************************************************************************)
(* What a sell quote promises the taker, whatever route it takes through   *)
(* book and pool: the call answers once, and an answer that is not an      *)
(* error is a trade within the request.                                    *)
(***************************************************************************)
EXTENDS Integers

CONSTANTS FeeDen, Precision  \* as in Quote and AmmMath

VARIABLES
  request,  \* amount, limit price, fee rate, dec_factor, lines on the book
  answer,   \* "none", "trade" or "error"
  sold,     \* the in_amount of the quote
  gross,    \* what the sold amount fetches, and
  fees      \* the fee_amount taken off it

vars == <<request, answer, sold, gross, fees>>

Init == answer = "none" /\ sold = 0 /\ gross = 0 /\ fees = 0

\* Something is sold and at most the amount; it fetches the limit price, up to
\* one unit of currency per line; the fee is at most the rate; at a rate of a
\* half or less something is left of it.  f64 may be off at either product.
WithinRequest(r, s, g, f) ==
  /\ s \in 1 .. r.amount
  /\ (g + r.lines) * r.df + (s * r.price) \div Precision >= s * r.price
  /\ f >= 0 /\ f * FeeDen <= g * r.fee + (g * r.fee) \div Precision
  /\ 2 * r.fee <= FeeDen => g > f

AnswerTrade ==
  /\ answer = "none"
  /\ answer' = "trade"
  /\ request' = request
  /\ WithinRequest(request, sold', gross', fees')

AnswerError ==
  /\ answer = "none"
  /\ answer' = "error"
  /\ UNCHANGED <<request, sold, gross, fees>>

Spec == Init /\ [][AnswerTrade \/ AnswerError]_vars
=============================================================================
