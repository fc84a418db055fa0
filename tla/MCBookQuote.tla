----------------------------- MODULE MCBookQuote ----------------------------
(***************************************************************************)
(* Books and markets for BookQuote: prices around the limits of 14 for a   *)
(* sell and 18 for a buy, and sides of different lengths.                  *)
(***************************************************************************)
EXTENDS BookQuote

INSTANCE MCBooks
INSTANCE MCFloats

L(px, q) == [price |-> px, qty |-> q]

MCBids == {<<>>, <<L(17, 4)>>, <<L(17, 1), L(9, 4)>>, <<L(17, 1), L(14, 4)>>,
           <<L(17, 1), L(17, 2), L(15, 4)>>}
MCAsks == {<<>>, <<L(15, 4)>>, <<L(17, 1), L(20, 4)>>, <<L(17, 1), L(18, 4)>>,
           <<L(16, 1), L(17, 2), L(17, 4)>>}

\* One side with any ladder, the other with none, one line or three.
Ladders == {<<b, a>> : b \in MCBids, a \in {<<>>, <<L(18, 1), L(20, 2), L(21, 1)>>}}
      \cup {<<b, a>> : b \in {<<>>, <<L(15, 1), L(14, 2), L(13, 1)>>}, a \in MCAsks}

MCOrders == {<<7, 6, 5, 4, 3, 2, 1>>, <<3, 1, 5, 2, 7, 4, 6>>}

MCWellFormed ==
  {Lay(l[1], l[2], order, self) : l \in Ladders, order \in MCOrders, self \in BOOLEAN}

MCPools == {NewPool(p[1], p[2], 8) : p \in {<<0, 0>>, <<40, 80>>, <<13, 21>>, <<30, 100>>}}

MCMarkets ==
  {[lines |-> <<>>, amm |-> pool, last_px |-> px, best_bid |-> BestBid(b),
    best_ask |-> BestAsk(b), total_lines_count |-> Count(b), ps |-> 1, fee |-> 100,
    amount |-> n, swap_mode |-> "ExactIn"] :
     b \in MCWellFormed, pool \in MCPools, px \in {0, 16}, n \in {0, 4, 12}}
  \cup
  {[lines |-> <<>>, amm |-> NewPool(40, 80, 8), last_px |-> 16, best_bid |-> 0,
    best_ask |-> 99, total_lines_count |-> 0, ps |-> 1, fee |-> 100,
    amount |-> 4, swap_mode |-> "ExactOut"]}

OfHeader(m, books) ==
  {b \in books : /\ BestBid(b) = m.best_bid /\ BestAsk(b) = m.best_ask
                 /\ Count(b) = m.total_lines_count}

\* Headers and slots of different moments, among them slots of an account
\* with room for two lines only.
Moments ==
  {Lay(l[1], l[2], <<3, 1, 5, 2, 7, 4, 6>>, TRUE) : l \in Ladders}
  \cup {Lay(<<L(17, 4)>>, <<L(15, 4)>>, <<2, 1>>, FALSE)}

MCBooksOf(m) ==
  OfHeader(m, MCWellFormed)
  \cup {Torn(b, c) : b \in OfHeader(m, Moments), c \in Moments}
=============================================================================
