------------------------------ MODULE MCBooks -------------------------------
(***************************************************************************)
(* Order books laid out in slots.                                          *)
(***************************************************************************)
EXTENDS Integers, Sequences

CONSTANT NULL_ORDER

\* A freed slot keeps a line, a quantity and a link.
Freed == [line |-> [price |-> 16, qty |-> 2], next |-> 0, sref |-> NULL_ORDER]

\* Places 1, 2, ... are for the bids and then for the asks; order[p] is the
\* position of place p among the slots, and a side ends with NULL_ORDER or,
\* if self, with a link to itself.
Lay(bids, asks, order, self) ==
  LET lines == bids \o asks
      End(p) == p \in {Len(bids), Len(lines)}
      Content(p) ==
        IF p > Len(lines) THEN Freed
        ELSE [line |-> lines[p], sref |-> 0,
              next |-> IF ~End(p) THEN order[p + 1] - 1
                       ELSE IF self THEN order[p] - 1 ELSE NULL_ORDER]
  IN  [header |->
         [begin |-> [s \in {"Bid", "Ask"} |->
                       IF s = "Bid"
                       THEN IF bids = <<>> THEN NULL_ORDER ELSE order[1] - 1
                       ELSE IF asks = <<>> THEN NULL_ORDER
                                           ELSE order[Len(bids) + 1] - 1],
          count |-> [s \in {"Bid", "Ask"} |->
                       IF s = "Bid" THEN Len(bids) ELSE Len(asks)]],
       slots  |-> [j \in 1 .. Len(order) |->
                     Content(CHOOSE p \in 1 .. Len(order) : order[p] = j)],
       ladder |-> [s \in {"Bid", "Ask"} |-> IF s = "Bid" THEN bids ELSE asks]]

\* The header of one moment with the slots of another.
Torn(b, c) == [b EXCEPT !.slots = c.slots]

\* What a header says of its book, next to the begins and counts.
BestBid(b) == LET l == b.ladder["Bid"] IN IF l = <<>> THEN 0 ELSE Head(l).price
BestAsk(b) == LET l == b.ladder["Ask"] IN IF l = <<>> THEN 99 ELSE Head(l).price
Count(b)   == LET c == b.header.count
              IN  IF c["Bid"] >= c["Ask"] THEN c["Bid"] ELSE c["Ask"]
=============================================================================
