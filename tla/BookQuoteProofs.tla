--------------------------- MODULE BookQuoteProofs ---------------------------
(***************************************************************************)
(* The composition of quote and order book: on any book a quote keeps to   *)
(* its amount and its limit, and on a book of one moment it is the quote   *)
(* QuoteSell or QuoteBuy makes of the ladder.                              *)
(***************************************************************************)
EXTENDS BookQuote, SequenceTheorems, TLAPS

\* What is proved of the iterator, of the sells and of the buys.
IterP == INSTANCE LinesIterProofs WITH
  acc <- book, remaining <- lines_left, pc <- walk,
  Accounts <- UNION {Books(m) : m \in Markets}
SellP == INSTANCE QuoteSellProofs WITH Markets <- AnyMarket
BuyP  == INSTANCE QuoteBuyProofs WITH Markets <- AnyMarket

-----------------------------------------------------------------------------
LEMMA IterNames ==
  /\ It!TypeOK <=> IterP!TypeOK
  /\ It!IterFrom <=> IterP!IterFrom
  /\ It!NextAfterCount <=> IterP!NextAfterCount
  /\ It!NextAfterLast <=> IterP!NextAfterLast
  /\ It!NextOfEmpty <=> IterP!NextOfEmpty
  /\ It!NextOutOfBounds <=> IterP!NextOutOfBounds
  /\ It!NextYields <=> IterP!NextYields
  /\ \A i : It!SlotAt(i) = IterP!SlotAt(i)
  /\ It!begin(side) = IterP!begin(side)
  /\ \A a : It!Linked(a) <=> IterP!Linked(a)
BY DEF It!TypeOK, It!Header, It!Slot, It!Side, It!IterFrom, It!total_lines_count, It!Largest,
       It!Ends, It!NextAfterCount, It!NextAfterLast, It!NextOfEmpty, It!NextOutOfBounds,
       It!NextYields, It!InBounds, It!SlotAt, It!begin, It!Linked, It!Chains, It!IsChain,
       IterP!TypeOK, IterP!Header, IterP!Slot, IterP!Side, IterP!IterFrom,
       IterP!total_lines_count, IterP!Largest,
       IterP!Ends, IterP!NextAfterCount, IterP!NextAfterLast, IterP!NextOfEmpty,
       IterP!NextOutOfBounds, IterP!NextYields, IterP!InBounds, IterP!SlotAt, IterP!begin,
       IterP!Linked, IterP!Chains, IterP!IsChain

LEMMA IterAssumption ==
  /\ NULL_ORDER \notin Nat /\ None \notin Nat /\ NULL_ORDER # None
  /\ \A a \in UNION {Books(m) : m \in Markets} :
       /\ a.header \in IterP!Header
       /\ a.slots \in Seq(IterP!Slot)
       /\ DOMAIN a.ladder = IterP!Side
<1>1. It!Header = IterP!Header /\ It!Slot = IterP!Slot /\ Side = IterP!Side
  BY DEF It!Header, It!Slot, It!Side, IterP!Header, IterP!Slot, IterP!Side, Side
<1> QED
  BY <1>1, BooksAssumption

LEMMA IterStep == IterP!IInv /\ [IterP!Next]_(IterP!vars) => IterP!IInv'
BY IterP!StepIInv, IterAssumption, Zenon

LEMMA IterInit == IterP!Init => IterP!IInv
BY IterP!InitIInv, IterAssumption, Zenon

LEMMA SellAssumption ==
  /\ FeeDen \in Nat \ {0}
  /\ \A m \in AnyMarket :
       /\ m \in SellP!Market
       /\ m.amm.a_tokens \in SellP!I64 /\ m.amm.b_tokens \in SellP!I64
       /\ m.amm = SellP!NewPool(m.amm.a_tokens, m.amm.b_tokens, m.amm.df)
<1>1. I64 = SellP!I64 /\ Market = SellP!Market
  BY DEF I64, Line, Pool, Market, SellP!I64, SellP!Line, SellP!Pool, SellP!Market
<1>2. \A m \in AnyMarket : NewPool(m.amm.a_tokens, m.amm.b_tokens, m.amm.df)
                             = SellP!NewPool(m.amm.a_tokens, m.amm.b_tokens, m.amm.df)
  BY DEF NewPool, SellP!NewPool
<1> QED
  BY <1>1, <1>2, MarketsAssumption DEF AnyMarket

LEMMA BuyAssumption ==
  /\ FeeDen \in Nat \ {0}
  /\ \A m \in AnyMarket :
       /\ m \in BuyP!Market
       /\ m.amm.a_tokens \in BuyP!I64 /\ m.amm.b_tokens \in BuyP!I64
       /\ m.amm = BuyP!NewPool(m.amm.a_tokens, m.amm.b_tokens, m.amm.df)
<1>1. I64 = BuyP!I64 /\ Market = BuyP!Market
  BY DEF I64, Line, Pool, Market, BuyP!I64, BuyP!Line, BuyP!Pool, BuyP!Market
<1>2. \A m \in AnyMarket : NewPool(m.amm.a_tokens, m.amm.b_tokens, m.amm.df)
                             = BuyP!NewPool(m.amm.a_tokens, m.amm.b_tokens, m.amm.df)
  BY DEF NewPool, BuyP!NewPool
<1> QED
  BY <1>1, <1>2, MarketsAssumption DEF AnyMarket

LEMMA SellInit == SellP!InitSell /\ SellP!Resolved => SellP!IInv
BY SellP!InitSound, SellAssumption, WidthAssumption, PrecisionAssumption, Zenon

LEMMA SellStep == SellP!IInv /\ [SellP!Next]_(SellP!vars) => SellP!IInv'
BY SellP!StepPreserves, SellAssumption, WidthAssumption, PrecisionAssumption, Zenon

LEMMA SellControl ==
  ASSUME SellP!IInv, UNCHANGED <<market, taken, remaining, filled, total_fees, amm>>,
         pc' \in {"loop", "stopped", "quoted", "failed"},
         pc' = "loop" => pc \in {"enter", "loop"}
  PROVE  SellP!IInv'
BY SellP!ControlStep, SellAssumption, WidthAssumption, PrecisionAssumption, Zenon

LEMMA SellLine ==
  ASSUME SellP!IInv, market' \in AnyMarket, NEW l,
         market' = [market EXCEPT !.lines = Append(@, l)],
         UNCHANGED <<pc, taken, remaining, filled, total_fees, amm>>
  PROVE  SellP!IInv'
BY SellP!LineArrives, SellAssumption, WidthAssumption, PrecisionAssumption, Zenon

LEMMA BuyInit == BuyP!InitBuy /\ BuyP!Room => BuyP!BuyInv
BY BuyP!InitSound, BuyAssumption, WidthAssumption, PrecisionAssumption, Zenon

LEMMA BuyStep == BuyP!BuyInv /\ [BuyP!Next]_(BuyP!vars) => BuyP!BuyInv'
BY BuyP!StepPreserves, BuyAssumption, WidthAssumption, PrecisionAssumption, Zenon

LEMMA BuyControl ==
  ASSUME BuyP!BuyInv, UNCHANGED <<market, remaining, filled, total_fees, amm>>,
         pc' \in {"loop", "stopped", "quoted", "failed"},
         pc' = "loop" => pc \in {"enter", "loop"} /\ taken' = taken,
         taken' \in {taken, taken + 1} /\ taken' <= Len(market.lines)
  PROVE  BuyP!BuyInv'
BY BuyP!ControlStep, BuyAssumption, WidthAssumption, PrecisionAssumption, Zenon

LEMMA BuyLine ==
  ASSUME BuyP!BuyInv, market' \in AnyMarket, NEW l,
         market' = [market EXCEPT !.lines = Append(@, l)],
         UNCHANGED <<pc, taken, remaining, filled, total_fees, amm>>
  PROVE  BuyP!BuyInv'
BY BuyP!LineArrives, BuyAssumption, WidthAssumption, PrecisionAssumption, Zenon

LEMMA SellNames ==
  /\ Sells!SellToPool <=> SellP!SellToPool
  /\ Sells!SellLastLine <=> SellP!SellLastLine
  /\ Sells!SellUnreachable <=> SellP!SellUnreachable
  /\ Sells!SellPoolThenLine <=> SellP!SellPoolThenLine
  /\ Sells!SellCoverLine <=> SellP!SellCoverLine
  /\ Sells!SellPoolAndStop <=> SellP!SellPoolAndStop
  /\ Sells!ReturnSell <=> SellP!ReturnSell
<1>1. Sells!price = SellP!price /\ Sells!amm_px = SellP!amm_px /\ Sells!next_amm_px = SellP!next_amm_px
  BY DEF Sells!price, Sells!amm_px, Sells!next_amm_px, Sells!limit_price, Sells!market_px,
         Sells!WrapI64, Sells!get_amm_px, Sells!QuotAsI64, Sells!F64AsI64, Sells!Least,
         Sells!CurrentLine, SellP!price, SellP!amm_px, SellP!next_amm_px, SellP!limit_price,
         SellP!market_px, SellP!WrapI64, SellP!get_amm_px, SellP!QuotAsI64, SellP!F64AsI64,
         SellP!Least, SellP!CurrentLine, Sells!Blurred, Sells!Nearby, Sells!Grain,
         Sells!Greatest, SellP!Blurred, SellP!Nearby, SellP!Grain, SellP!Greatest
<1>2. \A p, x : Sells!get_amm_qty(p, x, "Bid") = SellP!get_amm_qty(p, x, "Bid")
  BY DEF Sells!get_amm_qty, Sells!RootAsI64, Sells!F64AsI64, Sells!Least, Sells!Isqrt,
         Sells!Greatest, SellP!get_amm_qty, SellP!RootAsI64, SellP!F64AsI64, SellP!Least,
         SellP!Isqrt, SellP!Greatest, Sells!Blurred, Sells!Nearby, Sells!Grain,
         SellP!Blurred, SellP!Nearby, SellP!Grain
<1>3. \A q : Sells!PoolLeg(q) = SellP!PoolLeg(q)
  BY DEF Sells!PoolLeg, Sells!get_amm_sum, Sells!WrapI64, Sells!Greatest, Sells!NoLeg,
         SellP!PoolLeg, SellP!get_amm_sum, SellP!WrapI64, SellP!Greatest, SellP!NoLeg
<1>4. \A q : Sells!LineLeg(q) = SellP!LineLeg(q)
  BY DEF Sells!LineLeg, Sells!trade_sum, Sells!F64AsI64, Sells!Least, Sells!CurrentLine,
         SellP!LineLeg, SellP!trade_sum, SellP!F64AsI64, SellP!Least, SellP!CurrentLine,
         Sells!SumNumerator, Sells!Nearby, Sells!Grain, Sells!Greatest, SellP!SumNumerator,
         SellP!Nearby, SellP!Grain, SellP!Greatest
<1>5. /\ Sells!NoLeg = SellP!NoLeg /\ Sells!CurrentLine = SellP!CurrentLine
      /\ Sells!AtLine <=> SellP!AtLine
      /\ Sells!PastLines <=> SellP!PastLines
      /\ \A x, y : Sells!Greatest(x, y) = SellP!Greatest(x, y)
      /\ \A x, y : Sells!Least(x, y) = SellP!Least(x, y)
  BY DEF Sells!NoLeg, Sells!CurrentLine, Sells!AtLine, Sells!PastLines, Sells!MoreLines,
         Sells!Greatest, Sells!Least, SellP!NoLeg, SellP!CurrentLine, SellP!AtLine,
         SellP!PastLines, SellP!MoreLines, SellP!Greatest, SellP!Least
<1>6. /\ \A x, y : Sells!partial_fill(x, y, "Bid") <=> SellP!partial_fill(x, y, "Bid")
      /\ \A x, y : Sells!last_line(x, y, "Bid") <=> SellP!last_line(x, y, "Bid")
      /\ \A x, y, z : Sells!cover_line(x, y, z, "Bid") <=> SellP!cover_line(x, y, z, "Bid")
      /\ \A x, y : Sells!line_is_unreachable(x, y, "Bid")
                    <=> SellP!line_is_unreachable(x, y, "Bid")
  BY DEF Sells!partial_fill, Sells!last_line, Sells!cover_line,
         Sells!line_is_unreachable, Sells!Greatest, SellP!partial_fill, SellP!last_line,
         SellP!cover_line, SellP!line_is_unreachable, SellP!Greatest
<1>7. \A spent, got, pool, line, new, fails, next :
        Sells!Settle(spent, got, pool, line, new, fails, next)
          <=> SellP!Settle(spent, got, pool, line, new, fails, next)
  BY DEF Sells!Settle, Sells!Fits, Sells!FeeOn, Sells!F64AsI64, Sells!Least, SellP!Settle,
         SellP!Fits, SellP!FeeOn, SellP!F64AsI64, SellP!Least, Sells!Blurred, Sells!Nearby,
         Sells!Grain, Sells!Greatest, SellP!Blurred, SellP!Nearby, SellP!Grain,
         SellP!Greatest
<1>8. \A pool, line, next : Sells!TradeLegs(pool, line, next) <=> SellP!TradeLegs(pool, line, next)
  <2>1. \A q, x : Sells!SumNumerator(q, x) = SellP!SumNumerator(q, x)
    BY DEF Sells!SumNumerator, Sells!Nearby, Sells!Grain, Sells!Greatest,
         SellP!SumNumerator, SellP!Nearby, SellP!Grain, SellP!Greatest
  <2>2. \A p, q, x : Sells!TradeSumFails(p, q, x) <=> SellP!TradeSumFails(p, q, x)
    BY <2>1 DEF Sells!TradeSumFails, SellP!TradeSumFails
  <2> QED
    BY <2>2, <1>5, <1>7 DEF Sells!TradeLegs, Sells!AfterLeg, SellP!TradeLegs, SellP!AfterLeg
<1>9. \A pool, line, next : Sells!Trade(pool, line, next) <=> SellP!Trade(pool, line, next)
  BY <1>8 DEF Sells!Trade, SellP!Trade
<1>10. Sells!TailLeg = SellP!TailLeg
  BY <1>1, <1>2, <1>3, <1>6 DEF Sells!TailLeg, SellP!TailLeg
<1>11. Sells!SellToPool <=> SellP!SellToPool
  BY <1>5, <1>9, <1>10 DEF Sells!SellToPool, SellP!SellToPool
<1>12. Sells!SellLastLine <=> SellP!SellLastLine
  BY <1>1, <1>2, <1>3, <1>4, <1>5, <1>6, <1>9, <1>10 DEF Sells!SellLastLine,
         SellP!SellLastLine
<1>13. Sells!SellUnreachable <=> SellP!SellUnreachable
  BY <1>1, <1>2, <1>3, <1>4, <1>5, <1>6, <1>9, <1>10 DEF Sells!SellUnreachable,
         SellP!SellUnreachable
<1>14. Sells!SellPoolThenLine <=> SellP!SellPoolThenLine
  BY <1>1, <1>2, <1>3, <1>4, <1>5, <1>6, <1>9, <1>10 DEF Sells!SellPoolThenLine,
         SellP!SellPoolThenLine
<1>15. Sells!SellCoverLine <=> SellP!SellCoverLine
  BY <1>1, <1>2, <1>3, <1>4, <1>5, <1>6, <1>9, <1>10 DEF Sells!SellCoverLine,
         SellP!SellCoverLine
<1>16. Sells!SellPoolAndStop <=> SellP!SellPoolAndStop
  BY <1>1, <1>2, <1>3, <1>4, <1>5, <1>6, <1>9, <1>10 DEF Sells!SellPoolAndStop,
         SellP!SellPoolAndStop
<1>17. Sells!ReturnSell <=> SellP!ReturnSell
  BY DEF Sells!ReturnSell, Sells!Return, SellP!ReturnSell, SellP!Return
<1> QED
  BY ONLY <1>11, <1>12, <1>13, <1>14, <1>15, <1>16, <1>17

LEMMA BuyNames ==
  /\ Buys!BuyFromPool <=> BuyP!BuyFromPool
  /\ Buys!BuyLastLine <=> BuyP!BuyLastLine
  /\ Buys!BuyUnreachable <=> BuyP!BuyUnreachable
  /\ Buys!BuyPoolThenLine <=> BuyP!BuyPoolThenLine
  /\ Buys!BuyCoverLine <=> BuyP!BuyCoverLine
  /\ Buys!BuyPoolAndStop <=> BuyP!BuyPoolAndStop
  /\ Buys!ReturnBuy <=> BuyP!ReturnBuy
<1>1. /\ Buys!NoLeg = BuyP!NoLeg /\ Buys!CurrentLine = BuyP!CurrentLine
      /\ Buys!AtLine <=> BuyP!AtLine
      /\ Buys!PastLines <=> BuyP!PastLines
      /\ \A x, y : Buys!Least(x, y) = BuyP!Least(x, y)
  BY DEF Buys!NoLeg, Buys!CurrentLine, Buys!AtLine, Buys!PastLines, Buys!MoreLines,
         Buys!Least, BuyP!NoLeg, BuyP!CurrentLine, BuyP!AtLine, BuyP!PastLines,
         BuyP!MoreLines, BuyP!Least
<1>2. /\ Buys!price = BuyP!price /\ Buys!line_sum = BuyP!line_sum
      /\ Buys!LineFails <=> BuyP!LineFails
  BY <1>1 DEF Buys!price, Buys!line_sum, Buys!LineFails, Buys!TradeSumFails,
         Buys!limit_price, Buys!market_px, Buys!WrapI64, Buys!trade_sum, Buys!F64AsI64,
         Buys!Least, BuyP!price, BuyP!line_sum, BuyP!LineFails, BuyP!TradeSumFails,
         BuyP!limit_price, BuyP!market_px, BuyP!WrapI64, BuyP!trade_sum,
         BuyP!F64AsI64, BuyP!Least, Buys!SumNumerator, Buys!Nearby, Buys!Grain,
         Buys!Greatest, BuyP!SumNumerator, BuyP!Nearby, BuyP!Grain, BuyP!Greatest
<1>3. /\ Buys!amm_px = BuyP!amm_px /\ Buys!next_amm_px = BuyP!next_amm_px
  BY <1>2 DEF Buys!amm_px, Buys!next_amm_px, Buys!get_reversed_amm_px, Buys!QuotAsI64,
         Buys!F64AsI64, Buys!Least, BuyP!amm_px, BuyP!next_amm_px,
         BuyP!get_reversed_amm_px, BuyP!QuotAsI64, BuyP!F64AsI64, BuyP!Least,
         Buys!Blurred, Buys!Nearby, Buys!Grain, Buys!Greatest, BuyP!Blurred,
         BuyP!Nearby, BuyP!Grain, BuyP!Greatest
<1>4. /\ \A q, s : Buys!Leg(q, s) = BuyP!Leg(q, s)
      /\ \A p : Buys!LegToPrice(p) = BuyP!LegToPrice(p)
  <2>1. \A p : Buys!get_amm_qty(amm, p, "Ask") = BuyP!get_amm_qty(amm, p, "Ask")
    BY DEF Buys!get_amm_qty, Buys!RootAsI64, Buys!F64AsI64, Buys!Least, Buys!Isqrt,
         Buys!Greatest, Buys!Blurred, Buys!Nearby, Buys!Grain, BuyP!get_amm_qty,
         BuyP!RootAsI64, BuyP!F64AsI64, BuyP!Least, BuyP!Isqrt, BuyP!Greatest,
         BuyP!Blurred, BuyP!Nearby, BuyP!Grain
  <2>2. \A q : Buys!get_amm_sum(amm, q, "Ask") = BuyP!get_amm_sum(amm, q, "Ask")
    BY DEF Buys!get_amm_sum, Buys!WrapI64, Buys!Greatest, BuyP!get_amm_sum,
         BuyP!WrapI64, BuyP!Greatest
  <2>3. \A q, s : Buys!Leg(q, s) = BuyP!Leg(q, s)
    BY DEF Buys!Leg, Buys!NoLeg, BuyP!Leg, BuyP!NoLeg
  <2> QED
    BY <2>1, <2>2, <2>3 DEF Buys!LegToPrice, BuyP!LegToPrice
<1>5. /\ \A s : Buys!get_reversed_amm_qty(amm, s) = BuyP!get_reversed_amm_qty(amm, s)
      /\ \A p : Buys!get_reversed_amm_sum(amm, p) = BuyP!get_reversed_amm_sum(amm, p)
  BY DEF Buys!get_reversed_amm_qty, Buys!get_reversed_amm_sum, Buys!RootAsI64,
         Buys!F64AsI64, Buys!Least, Buys!Isqrt, Buys!Greatest, Buys!WrapI64,
         BuyP!get_reversed_amm_qty, BuyP!get_reversed_amm_sum, BuyP!RootAsI64,
         BuyP!F64AsI64, BuyP!Least, BuyP!Isqrt, BuyP!Greatest, BuyP!WrapI64,
         Buys!Blurred, Buys!Nearby, Buys!Grain, BuyP!Blurred, BuyP!Nearby, BuyP!Grain
<1>6. /\ \A x, y : Buys!partial_fill(x, y, "Ask") <=> BuyP!partial_fill(x, y, "Ask")
      /\ \A x, y : Buys!last_line(x, y, "Ask") <=> BuyP!last_line(x, y, "Ask")
      /\ \A x, y, z : Buys!cover_line(x, y, z, "Ask") <=> BuyP!cover_line(x, y, z, "Ask")
      /\ \A x, y : Buys!line_is_unreachable(x, y, "Ask")
                    <=> BuyP!line_is_unreachable(x, y, "Ask")
  BY DEF Buys!partial_fill, Buys!last_line, Buys!cover_line, Buys!line_is_unreachable,
         Buys!Least, BuyP!partial_fill, BuyP!last_line, BuyP!cover_line,
         BuyP!line_is_unreachable, BuyP!Least
<1>7. \A x : Buys!FeeOn(x) = BuyP!FeeOn(x)
  BY DEF Buys!FeeOn, Buys!F64AsI64, Buys!Least, BuyP!FeeOn, BuyP!F64AsI64,
         BuyP!Least, Buys!Blurred, Buys!Nearby, Buys!Grain, Buys!Greatest, BuyP!Blurred,
         BuyP!Nearby, BuyP!Grain, BuyP!Greatest
<1>8. \A spent, got, pool, line, new, fails, next :
        Buys!Settle(spent, got, pool, line, new, fails, next)
          <=> BuyP!Settle(spent, got, pool, line, new, fails, next)
  BY <1>7 DEF Buys!Settle, Buys!Fits, BuyP!Settle, BuyP!Fits
<1>9. \A pool, line, fails, next :
         Buys!Trade(pool, line, fails, next) <=> BuyP!Trade(pool, line, fails, next)
  BY <1>8 DEF Buys!Trade, BuyP!Trade
<1>10. Buys!TailLeg = BuyP!TailLeg
  BY <1>1, <1>2, <1>3, <1>4, <1>5, <1>6 DEF Buys!TailLeg, BuyP!TailLeg
<1>11. /\ \A rest : Buys!RestAtLine(rest) = BuyP!RestAtLine(rest)
       /\ Buys!WholeLine = BuyP!WholeLine
  BY <1>1, <1>2 DEF Buys!RestAtLine, Buys!WholeLine, Buys!QuotAsI64, Buys!F64AsI64,
         Buys!Least, BuyP!RestAtLine, BuyP!WholeLine, BuyP!QuotAsI64, BuyP!F64AsI64,
         BuyP!Least, Buys!Blurred, Buys!Nearby, Buys!Grain, Buys!Greatest, BuyP!Blurred,
         BuyP!Nearby, BuyP!Grain, BuyP!Greatest
<1>12. Buys!BuyFromPool <=> BuyP!BuyFromPool
  BY <1>1, <1>9, <1>10 DEF Buys!BuyFromPool, BuyP!BuyFromPool
<1>13. Buys!BuyLastLine <=> BuyP!BuyLastLine
  BY <1>1, <1>2, <1>3, <1>6, <1>9, <1>10 DEF Buys!BuyLastLine, BuyP!BuyLastLine
<1>14. Buys!BuyUnreachable <=> BuyP!BuyUnreachable
  BY <1>1, <1>2, <1>3, <1>4, <1>6, <1>9 DEF Buys!BuyUnreachable, BuyP!BuyUnreachable
<1>15. Buys!BuyPoolThenLine <=> BuyP!BuyPoolThenLine
  BY <1>1, <1>2, <1>3, <1>4, <1>6, <1>9, <1>11 DEF Buys!BuyPoolThenLine,
         BuyP!BuyPoolThenLine
<1>16. Buys!BuyCoverLine <=> BuyP!BuyCoverLine
  BY <1>1, <1>2, <1>3, <1>6, <1>9, <1>11 DEF Buys!BuyCoverLine, BuyP!BuyCoverLine
<1>17. Buys!BuyPoolAndStop <=> BuyP!BuyPoolAndStop
  BY <1>1, <1>2, <1>3, <1>4, <1>5, <1>6, <1>9, <1>11 DEF Buys!BuyPoolAndStop,
         BuyP!BuyPoolAndStop
<1>18. Buys!ReturnBuy <=> BuyP!ReturnBuy
  BY DEF Buys!ReturnBuy, Buys!Return, Buys!WrapI64, BuyP!ReturnBuy, BuyP!Return, BuyP!WrapI64
<1> QED
  BY ONLY <1>12, <1>13, <1>14, <1>15, <1>16, <1>17, <1>18

-----------------------------------------------------------------------------
\* The casts of a buy do not wrap, and f64 resolves its reserves and amount:
\* see QuoteBuyProofs.  Of a sell only the latter is asked.
Room     == BuyP!Room
Resolved == SellP!Resolved

HasRoom == (side = "Bid" => Resolved) /\ (side = "Ask" => Room)

\* The iterator keeps its invariant, the branches keep theirs over the lines it
\* has yielded so far, and the market has no others.
BookInv ==
  /\ IterP!IInv
  /\ market \in AnyMarket
  /\ market.lines = IterP!LinesYielded
  /\ side = "Bid" => SellP!IInv
  /\ side = "Ask" => BuyP!BuyInv

LEMMA MarketsAreAny == Markets \subseteq AnyMarket
BY MarketsAssumption DEF AnyMarket

LEMMA InitBookInv ==
  ASSUME InitBook, HasRoom
  PROVE  BookInv
<1>1. /\ market \in Markets /\ book \in Books(market) /\ side \in {"Bid", "Ask"}
      /\ It!IterFrom
  BY DEF InitBook, InitWalk, Sells!InitSell, Sells!InitCall, Buys!InitBuy, Buys!InitCall
<1>2. market \in AnyMarket
  BY <1>1, MarketsAreAny
<1>3. IterP!IInv
  <2>1. book \in UNION {Books(m) : m \in Markets}
    BY <1>1
  <2>2. IterP!Init
    BY <1>1, <2>1, IterNames DEF IterP!Init, IterP!Side
  <2> QED
    BY <2>2, IterInit
<1>4. market.lines = IterP!LinesYielded
  <2>1. market.lines = <<>> /\ yielded = <<>>
    BY <1>1, BooksAssumption DEF It!IterFrom
  <2> QED
    BY <2>1 DEF IterP!LinesYielded
<1>5. CASE side = "Bid"
  <2>1. Sells!InitSell
    BY <1>5 DEF InitBook, InitWalk
  <2>2. SellP!InitSell
    BY <2>1, <1>2 DEF Sells!InitSell, Sells!InitCall, SellP!InitSell, SellP!InitCall
  <2> QED
    BY <2>2, <1>2, <1>3, <1>4, <1>5, SellInit DEF BookInv, HasRoom, Resolved
<1>6. CASE side = "Ask"
  <2>1. Buys!InitBuy
    BY <1>6 DEF InitBook, InitWalk
  <2>2. BuyP!InitBuy
    BY <2>1, <1>2 DEF Buys!InitBuy, Buys!InitCall, Buys!input_sum, BuyP!InitBuy,
         BuyP!InitCall, BuyP!input_sum, Buys!Blurred, Buys!Nearby, Buys!Grain,
         Buys!Greatest, BuyP!Blurred, BuyP!Nearby, BuyP!Grain, BuyP!Greatest
  <2> QED
    BY <2>2, <1>2, <1>3, <1>4, <1>6, BuyInit DEF BookInv, HasRoom, Room
<1> QED
  BY <1>1, <1>5, <1>6

\* The iterator takes a step of its own, or none.
LEMMA IterMoves ==
  ASSUME IterP!IInv, It!NextAfterCount \/ It!NextAfterLast \/ It!NextOfEmpty \/ It!NextOutOfBounds
  PROVE  /\ IterP!IInv' /\ UNCHANGED <<book, side, yielded>>
         /\ IterP!LinesYielded' = IterP!LinesYielded
<1>1. IterP!NextAfterCount \/ IterP!NextAfterLast \/ IterP!NextOfEmpty \/ IterP!NextOutOfBounds
  BY IterNames
<1>2. IterP!IInv'
  BY <1>1, IterStep DEF IterP!Next
<1>3. UNCHANGED <<book, side, yielded>>
  BY <1>1 DEF IterP!NextAfterCount, IterP!NextAfterLast, IterP!NextOfEmpty,
              IterP!NextOutOfBounds, IterP!Ends
<1> QED
  BY <1>2, <1>3 DEF IterP!LinesYielded, IterP!SlotAt

LEMMA IterRests ==
  ASSUME IterP!IInv, UNCHANGED <<book, iter_vars>>
  PROVE  IterP!IInv' /\ side' = side /\ IterP!LinesYielded' = IterP!LinesYielded
<1>1. UNCHANGED IterP!vars /\ UNCHANGED <<book, side, yielded>>
  BY DEF IterP!vars, iter_vars
<1> QED
  BY <1>1, IterStep DEF IterP!LinesYielded, IterP!SlotAt

\* Steps that leave the quote's variables alone, but for pc.
LEMMA QuoteRests ==
  ASSUME BookInv, UNCHANGED <<market, taken, remaining, filled, total_fees, amm>>,
         side' = side, IterP!IInv', IterP!LinesYielded' = IterP!LinesYielded,
         \/ pc' = pc
         \/ pc' \in {"loop", "stopped", "quoted", "failed"} /\ (pc' = "loop" => pc = "enter")
  PROVE  BookInv'
<1>1. ASSUME side = "Bid" PROVE SellP!IInv'
  <2>1. SellP!IInv
    BY <1>1 DEF BookInv
  <2>2. CASE pc' = pc
    <3>1. UNCHANGED SellP!vars
      BY <2>2 DEF SellP!vars
    <3> QED
      BY <2>1, <3>1, SellStep
  <2>3. CASE pc' \in {"loop", "stopped", "quoted", "failed"} /\ (pc' = "loop" => pc = "enter")
    BY <2>1, <2>3, SellControl
  <2> QED
    BY <2>2, <2>3
<1>2. ASSUME side = "Ask" PROVE BuyP!BuyInv'
  <2>1. BuyP!BuyInv /\ taken <= Len(market.lines)
    BY <1>2 DEF BookInv, BuyP!BuyInv, BuyP!TypeOK
  <2>2. CASE pc' = pc
    <3>1. UNCHANGED BuyP!vars
      BY <2>2 DEF BuyP!vars
    <3> QED
      BY <2>1, <3>1, BuyStep
  <2>3. CASE pc' \in {"loop", "stopped", "quoted", "failed"} /\ (pc' = "loop" => pc = "enter")
    BY <2>1, <2>3, BuyControl
  <2> QED
    BY <2>2, <2>3
<1> QED
  BY <1>1, <1>2 DEF BookInv

\* A line arrives.
LEMMA NextLineKeeps ==
  ASSUME BookInv, NextLine
  PROVE  BookInv'
<1> DEFINE line == It!SlotAt(current).line
<1>1. /\ IterP!NextYields /\ side' = side
      /\ market' = [market EXCEPT !.lines = Append(@, line)]
      /\ UNCHANGED <<pc, taken, remaining, filled, total_fees, amm>>
  BY IterNames DEF NextLine, It!NextYields
<1>2. IterP!IInv'
  BY <1>1, IterStep DEF BookInv, IterP!Next
<1>3. line \in Line /\ IterP!LinesYielded' = Append(IterP!LinesYielded, line)
  <2>1. line = IterP!SlotAt(current).line
    BY IterNames
  <2> QED
    BY <1>1, <2>1, IterP!YieldAppends, IterAssumption, Zenon DEF BookInv
<1> HIDE DEF line
<1>4. /\ market' \in AnyMarket /\ market'.lines = Append(market.lines, line)
  <2>1. market \in AnyMarket /\ market.lines \in Seq(Line)
    BY DEF BookInv, AnyMarket, Market
  <2>2. Append(market.lines, line) \in Seq(Line)
    BY <2>1, <1>3
  <2> QED
    BY <2>1, <2>2, <1>1 DEF AnyMarket, Market
<1>5. market'.lines = IterP!LinesYielded'
  BY <1>3, <1>4 DEF BookInv
<1>6. ASSUME side = "Bid" PROVE SellP!IInv'
  BY <1>1, <1>4, <1>6, SellLine DEF BookInv
<1>7. ASSUME side = "Ask" PROVE BuyP!BuyInv'
  BY <1>1, <1>4, <1>7, BuyLine DEF BookInv
<1> QED
  BY <1>1, <1>2, <1>4, <1>5, <1>6, <1>7 DEF BookInv

\* A branch of the loop, or the return.
LEMMA BranchKeeps ==
  ASSUME BookInv, UNCHANGED <<book, iter_vars>>,
         \/ BranchOfSell
         \/ BranchOfBuy
         \/ side = "Bid" /\ Sells!ReturnSell
         \/ side = "Ask" /\ Buys!ReturnBuy
  PROVE  BookInv'
<1>1. IterP!IInv' /\ side' = side /\ IterP!LinesYielded' = IterP!LinesYielded
  BY IterRests DEF BookInv
<1>2. CASE side = "Bid"
  <2>1. SellP!Next /\ market' = market
    <3>1. SellP!Next
      BY <1>2, SellNames DEF BranchOfSell, BranchOfBuy, SellP!Next
    <3>2. market' = market
      BY <1>2 DEF BranchOfSell, BranchOfBuy, Sells!SellToPool, Sells!SellLastLine,
                  Sells!SellUnreachable, Sells!SellPoolThenLine, Sells!SellCoverLine,
                  Sells!SellPoolAndStop, Sells!ReturnSell, Sells!Return, Sells!Trade,
                  Sells!TradeLegs, Sells!Settle
    <3> QED
      BY <3>1, <3>2
  <2>2. SellP!IInv'
    BY <2>1, <1>2, SellStep DEF BookInv
  <2> QED
    BY <1>1, <1>2, <2>1, <2>2 DEF BookInv
<1>3. CASE side = "Ask"
  <2>1. BuyP!Next /\ market' = market
    <3>1. BuyP!Next
      BY <1>3, BuyNames DEF BranchOfSell, BranchOfBuy, BuyP!Next
    <3>2. market' = market
      BY <1>3 DEF BranchOfSell, BranchOfBuy, Buys!BuyFromPool, Buys!BuyLastLine,
                  Buys!BuyUnreachable, Buys!BuyPoolThenLine, Buys!BuyCoverLine,
                  Buys!BuyPoolAndStop, Buys!ReturnBuy, Buys!Return, Buys!Trade,
                  Buys!Settle
    <3> QED
      BY <3>1, <3>2
  <2>2. BuyP!BuyInv'
    BY <2>1, <1>3, BuyStep DEF BookInv
  <2> QED
    BY <1>1, <1>3, <2>1, <2>2 DEF BookInv
<1>4. side \in {"Bid", "Ask"}
  BY DEF BookInv, IterP!IInv, IterP!TypeOK, IterP!Side
<1> QED
  BY <1>2, <1>3, <1>4

LEMMA BookStep == BookInv /\ [Next]_book_vars => BookInv'
<1> SUFFICES ASSUME BookInv, [Next]_book_vars PROVE BookInv'
  OBVIOUS
<1>1. CASE EnterBook
  <2>1. IterP!IInv' /\ side' = side /\ IterP!LinesYielded' = IterP!LinesYielded
    BY <1>1, IterRests DEF BookInv, EnterBook
  <2> QED
    BY <1>1, <2>1, QuoteRests DEF EnterBook
<1>2. CASE NextLine
  BY <1>2, NextLineKeeps
<1>3. CASE NoNextLine
  <2>1. IterP!IInv' /\ side' = side /\ IterP!LinesYielded' = IterP!LinesYielded
    BY <1>3, IterMoves DEF BookInv, NoNextLine
  <2> QED
    BY <1>3, <2>1, QuoteRests DEF NoNextLine, vars
<1>4. CASE NextPanics
  <2>1. IterP!IInv' /\ side' = side /\ IterP!LinesYielded' = IterP!LinesYielded
    BY <1>4, IterMoves DEF BookInv, NextPanics
  <2> QED
    BY <1>4, <2>1, QuoteRests DEF NextPanics
<1>5. CASE AfterNext(BranchOfSell) \/ AfterNext(BranchOfBuy) \/ Returns
  BY <1>5, BranchKeeps DEF AfterNext, Returns
<1>6. CASE UNCHANGED book_vars
  <2>1. IterP!IInv' /\ side' = side /\ IterP!LinesYielded' = IterP!LinesYielded
    BY <1>6, IterRests DEF BookInv, book_vars
  <2> QED
    BY <1>6, <2>1, QuoteRests DEF book_vars, vars
<1> QED
  BY <1>1, <1>2, <1>3, <1>4, <1>5, <1>6 DEF Next

LEMMA BookAlways == HasRoom /\ Spec => []BookInv
BY InitBookInv, BookStep, PTL DEF Spec

\* The side of a call is fixed, whatever room the call has.
LEMMA SideFixed ==
  ASSUME [Next]_book_vars
  PROVE  side' = side
BY DEF Next, book_vars, iter_vars, EnterBook, NextLine, NoNextLine, NextPanics, AfterNext, Returns,
       It!NextYields, It!NextAfterCount, It!NextAfterLast, It!NextOfEmpty,
       It!NextOutOfBounds, It!Ends

\* On any book the quote's variables and the iterator's keep their types.
THEOREM BookTypeCorrect == HasRoom /\ Spec => []BookTypeOK
<1>1. BookInv => BookTypeOK
  <2> SUFFICES ASSUME BookInv PROVE BookTypeOK
    OBVIOUS
  <2>1. side \in {"Bid", "Ask"} /\ It!TypeOK
    BY IterNames DEF BookInv, IterP!IInv, IterP!TypeOK, IterP!Side
  <2>2. SellP!TypeOK \/ BuyP!TypeOK
    BY <2>1 DEF BookInv, SellP!IInv, BuyP!BuyInv
  <2>3. TypeOK
    BY <2>2 DEF TypeOK, Market, Line, I64, Pool,
                SellP!TypeOK, SellP!Market, SellP!Line, SellP!I64, SellP!Pool,
                BuyP!TypeOK, BuyP!Market, BuyP!Line, BuyP!I64, BuyP!Pool
  <2> QED
    BY <2>1, <2>3 DEF BookTypeOK
<1> QED
  BY <1>1, BookAlways, PTL

\* On any book, also one whose header and slots are of different moments, a sell
\* of sizes f64 resolves keeps to the amount and to the limit price.
THEOREM SellKeepsWithinHolds == (side = "Bid" => Resolved) /\ Spec => []SellKeepsWithin
<1>1. BookInv => SellKeepsWithin
  BY DEF BookInv, SellKeepsWithin, SellP!IInv, SellP!NeverOversells, Sells!NeverOversells,
         SellP!SlippageBound, SellP!SoldAtLimitOrBetter, Sells!SoldAtLimitOrBetter,
         SellP!Sold, Sells!Sold, SellP!price, Sells!price,
         SellP!limit_price, Sells!limit_price, SellP!market_px, Sells!market_px,
         SellP!WrapI64, Sells!WrapI64, SellP!Grain, Sells!Grain
<1>2. side = "Ask" => SellKeepsWithin
  BY DEF SellKeepsWithin
<1>3. side = "Ask" /\ [Next]_book_vars => (side = "Ask")'
  BY SideFixed
<1> QED
  BY <1>1, <1>2, <1>3, BookAlways, PTL DEF Spec, HasRoom

\* And a buy with room keeps to its budget, and to the limit price unless its
\* quantity is saturated.
THEOREM BuyKeepsWithinHolds ==
  (side = "Ask" => Room) /\ Spec => [](filled < I64Max => BuyKeepsWithin)
<1>1. BookInv => (filled < I64Max => BuyKeepsWithin)
  <2>1. BuyP!price = Buys!price
    BY DEF BuyP!price, Buys!price, BuyP!limit_price, Buys!limit_price, BuyP!market_px,
           Buys!market_px, BuyP!WrapI64, Buys!WrapI64
  <2>2. BuyP!Spent = Buys!Spent
    BY DEF BuyP!Spent, Buys!Spent, BuyP!input_sum, Buys!input_sum, BuyP!Blurred,
           BuyP!Nearby, BuyP!Grain, BuyP!Greatest, Buys!Blurred, Buys!Nearby, Buys!Grain,
           Buys!Greatest
  <2>3. \A n : BuyP!Grain(n) = Buys!Grain(n)
    BY DEF BuyP!Grain, Buys!Grain
  <2>4. \A x, y : BuyP!Greatest(x, y) = Buys!Greatest(x, y)
    BY DEF BuyP!Greatest, Buys!Greatest
  <2>5. BuyP!OnLines = Buys!OnLines
    BY DEF BuyP!OnLines, Buys!OnLines
  <2>6. BuyP!BoughtAtLimitOrBetter <=> Buys!BoughtAtLimitOrBetter
    BY <2>1, <2>2, <2>3, <2>4, <2>5 DEF BuyP!BoughtAtLimitOrBetter, Buys!BoughtAtLimitOrBetter
  <2>7. BuyP!OverspendsByLessThanOneUnit <=> Buys!OverspendsByLessThanOneUnit
    BY DEF BuyP!OverspendsByLessThanOneUnit, Buys!OverspendsByLessThanOneUnit
  <2> QED
    BY <2>6, <2>7 DEF BookInv, BuyKeepsWithin, BuyP!BuyInv, BuyP!BoughtUnlessSaturated
<1>2. side = "Bid" => BuyKeepsWithin
  BY DEF BuyKeepsWithin
<1>3. side = "Bid" /\ [Next]_book_vars => (side = "Bid")'
  BY SideFixed
<1> QED
  BY <1>1, <1>2, <1>3, BookAlways, PTL DEF Spec, HasRoom

-----------------------------------------------------------------------------
\* A sell that is quoted has sold something, and something is left of what it
\* fetched.
Answered ==
  side = "Bid" /\ pc = "quoted" => SellP!Sold # 0 /\ filled # total_fees

LEMMA QuotedIsKept ==
  ASSUME side = "Bid", pc = "quoted", [Next]_book_vars
  PROVE  UNCHANGED <<market, remaining, filled, total_fees>>
BY DEF Next, book_vars, vars, EnterBook, NextLine, NoNextLine, NextPanics, CallsNext,
       AfterNext, BranchOfSell, BranchOfBuy, Returns,
       Sells!SellToPool, Sells!SellLastLine, Sells!SellUnreachable,
       Sells!SellPoolThenLine, Sells!SellCoverLine, Sells!SellPoolAndStop,
       Sells!AtLine, Sells!PastLines, Sells!ReturnSell, Sells!Return

LEMMA QuotedByReturn ==
  ASSUME side = "Bid", pc # "quoted", pc' = "quoted", [Next]_book_vars
  PROVE  Sells!ReturnSell
BY DEF Next, book_vars, vars, EnterBook, NextLine, NoNextLine, NextPanics,
       AfterNext, BranchOfSell, BranchOfBuy, Returns,
       Sells!SellToPool, Sells!SellLastLine, Sells!SellUnreachable,
       Sells!SellPoolThenLine, Sells!SellCoverLine, Sells!SellPoolAndStop,
       Sells!Trade, Sells!TradeLegs, Sells!Settle

LEMMA AnsweredStep ==
  ASSUME BookInv, Answered, [Next]_book_vars
  PROVE  Answered'
<1> SUFFICES ASSUME side' = "Bid", pc' = "quoted"
             PROVE  SellP!Sold' # 0 /\ filled' # total_fees'
  BY DEF Answered
<1>1. side = "Bid" /\ SellP!IInv
  BY SideFixed DEF BookInv
<1>2. CASE pc = "quoted"
  BY <1>1, <1>2, QuotedIsKept DEF Answered, SellP!Sold
<1>3. CASE pc # "quoted"
  <2>1. Sells!ReturnSell
    BY <1>1, <1>3, QuotedByReturn
  <2>2. /\ UNCHANGED <<market, remaining, filled, total_fees>>
        /\ -(market.amount - remaining) # 0 /\ filled - total_fees # 0
    BY <2>1 DEF Sells!ReturnSell, Sells!Return
  <2>3. /\ market.amount \in Int /\ remaining \in Int
        /\ filled \in Int /\ total_fees \in Int
    <3>1. SellP!TypeOK
      BY <1>1 DEF SellP!IInv
    <3> QED
      BY <3>1, WidthAssumption DEF SellP!TypeOK, SellP!Market, SellP!I64
  <2> QED
    BY <2>2, <2>3 DEF SellP!Sold
<1> QED
  BY <1>2, <1>3

\* On any book, also a torn one, what a sell of such sizes answers is the trade
\* SellPromise allows for the lines the iterator handed out: something is sold,
\* no more than the amount, for the limit price, with a fee of at most the rate.
THEOREM BookAnswersWithinRequest ==
  (side = "Bid" => Resolved) /\ Spec => [](side = "Bid" /\ pc = "quoted" =>
               SellP!Promise!WithinRequest(
                 [amount |-> market.amount, price |-> SellP!price, fee |-> market.fee,
                  df |-> market.amm.df, lines |-> Len(market.lines)],
                 SellP!Sold, filled, total_fees))
<1> DEFINE Within == SellP!Promise!WithinRequest(
                       [amount |-> market.amount, price |-> SellP!price, fee |-> market.fee,
                        df |-> market.amm.df, lines |-> Len(market.lines)],
                       SellP!Sold, filled, total_fees)
           Inv == BookInv /\ Answered
<1>1. InitBook => Answered
  BY DEF InitBook, Sells!InitSell, Sells!InitCall, Buys!InitBuy, Buys!InitCall, Answered
<1>2. Inv => (side = "Bid" /\ pc = "quoted" => Within)
  BY SellP!ReturnWithinRequest, SellAssumption, WidthAssumption, PrecisionAssumption, Zenon
     DEF BookInv, Answered
<1>3. side = "Ask" => (side = "Bid" /\ pc = "quoted" => Within)
  OBVIOUS
<1>4. side = "Ask" /\ [Next]_book_vars => (side = "Ask")'
  BY SideFixed
<1>5. BookInv /\ Answered /\ [Next]_book_vars => Answered'
  BY AnsweredStep
<1> HIDE DEF Within
<1>6. BookInv /\ Answered => (side = "Bid" /\ pc = "quoted" => Within)
  BY <1>2
<1>7. (side = "Bid" => Resolved) /\ Spec => [](side = "Bid" /\ pc = "quoted" => Within)
  BY <1>1, <1>3, <1>4, <1>5, <1>6, BookAlways, PTL DEF Spec, HasRoom
<1> QED
  BY <1>7 DEF Within

-----------------------------------------------------------------------------
\* Over a book of one moment the lines given are the first rungs of its ladder,
\* and all of them once the iterator has returned None.
MomentInv ==
  /\ IterP!OneMomentInv
  /\ market \in AnyMarket
  /\ market.lines = IterP!LinesYielded
  /\ taken \in 0 .. Len(market.lines)

LEMMA LinkStep == IterP!OneMomentInv /\ [IterP!Next]_(IterP!vars) => IterP!OneMomentInv'
BY IterP!StepLinkInv, IterAssumption, Zenon

\* What a branch does to the walk and to the inputs.
LEMMA BranchTakes ==
  ASSUME \/ BranchOfSell
         \/ BranchOfBuy
         \/ side = "Bid" /\ Sells!ReturnSell
         \/ side = "Ask" /\ Buys!ReturnBuy
  PROVE  /\ market' = market
         /\ taken' = taken \/ (taken' = taken + 1 /\ taken < Len(market.lines))
<1>1. CASE BranchOfSell \/ Sells!ReturnSell
  BY <1>1 DEF BranchOfSell, Sells!SellToPool, Sells!SellLastLine, Sells!SellUnreachable,
              Sells!SellPoolThenLine, Sells!SellCoverLine, Sells!SellPoolAndStop,
              Sells!ReturnSell, Sells!Return, Sells!Trade, Sells!TradeLegs, Sells!Settle,
              Sells!AtLine, Sells!PastLines, Sells!MoreLines
<1>2. \A pool, line, fails, next : Buys!Trade(pool, line, fails, next) => market' = market
  BY DEF Buys!Trade, Buys!Settle
<1>3. CASE Buys!BuyFromPool \/ Buys!BuyLastLine \/ Buys!BuyUnreachable \/ Buys!BuyCoverLine
  BY <1>2, <1>3 DEF Buys!BuyFromPool, Buys!BuyLastLine, Buys!BuyUnreachable,
                    Buys!BuyCoverLine, Buys!AtLine, Buys!PastLines, Buys!MoreLines
<1>4. CASE Buys!BuyPoolThenLine
  BY <1>2, <1>4 DEF Buys!BuyPoolThenLine, Buys!AtLine, Buys!MoreLines
<1>5. CASE Buys!BuyPoolAndStop
  BY <1>2, <1>5 DEF Buys!BuyPoolAndStop, Buys!AtLine, Buys!MoreLines
<1>6. CASE Buys!ReturnBuy
  BY <1>6 DEF Buys!ReturnBuy, Buys!Return
<1> QED
  BY <1>1, <1>3, <1>4, <1>5, <1>6 DEF BranchOfBuy

LEMMA InitMoment == InitBook /\ OneMoment => MomentInv
<1> SUFFICES ASSUME InitBook, OneMoment PROVE MomentInv
  OBVIOUS
<1>1. /\ market \in Markets /\ book \in Books(market) /\ side \in {"Bid", "Ask"}
      /\ It!IterFrom /\ taken = 0
  BY DEF InitBook, InitWalk, Sells!InitSell, Sells!InitCall, Buys!InitBuy, Buys!InitCall
<1>2. IterP!Init /\ IterP!Linked(book)
  <2>1. book \in UNION {Books(m) : m \in Markets}
    BY <1>1
  <2>2. IterP!Linked(book)
    BY IterNames, BooksAssumption DEF OneMoment
  <2> QED
    BY <1>1, <2>1, <2>2, IterNames DEF IterP!Init, IterP!Side
<1>3. IterP!OneMomentInv
  BY <1>2, IterP!InitLinkInv, IterAssumption, Zenon
<1>4. market.lines = <<>> /\ market.lines = IterP!LinesYielded
  <2>1. market.lines = <<>> /\ yielded = <<>>
    BY <1>1, BooksAssumption DEF It!IterFrom
  <2> QED
    BY <2>1 DEF IterP!LinesYielded
<1>5. taken \in 0 .. Len(market.lines)
  BY <1>1, <1>4
<1> QED
  BY <1>1, <1>3, <1>4, <1>5, MarketsAreAny DEF MomentInv

LEMMA MomentStep == MomentInv /\ [Next]_book_vars => MomentInv'
<1> SUFFICES ASSUME MomentInv, [Next]_book_vars PROVE MomentInv'
  OBVIOUS
<1>0. IterP!IInv /\ market.lines \in Seq(Line) /\ Len(market.lines) \in Nat /\ taken \in Nat
  BY DEF MomentInv, IterP!OneMomentInv, AnyMarket, Market
<1>1. CASE NextLine
  <2> DEFINE line == It!SlotAt(current).line
  <2>1. /\ IterP!NextYields /\ taken' = taken
        /\ market' = [market EXCEPT !.lines = Append(@, line)]
    BY <1>1, IterNames DEF NextLine
  <2>2. IterP!OneMomentInv'
    BY <2>1, LinkStep DEF MomentInv, IterP!Next
  <2>3. line \in Line /\ IterP!LinesYielded' = Append(IterP!LinesYielded, line)
    <3>1. line = IterP!SlotAt(current).line
      BY IterNames
    <3> QED
      BY <1>0, <2>1, <3>1, IterP!YieldAppends, IterAssumption, Zenon
  <2> HIDE DEF line
  <2>4. /\ Append(market.lines, line) \in Seq(Line)
        /\ Len(Append(market.lines, line)) = Len(market.lines) + 1
    BY <1>0, <2>3
  <2>5. /\ market' \in AnyMarket /\ market'.lines = Append(market.lines, line)
    BY <2>1, <2>4 DEF MomentInv, AnyMarket, Market
  <2>6. taken' \in 0 .. Len(market'.lines)
    BY <1>0, <2>1, <2>4, <2>5 DEF MomentInv
  <2> QED
    BY <2>2, <2>3, <2>5, <2>6 DEF MomentInv
<1>2. CASE NoNextLine \/ NextPanics
  <2>1. IterP!IInv' /\ UNCHANGED <<book, side, yielded>>
        /\ IterP!LinesYielded' = IterP!LinesYielded
    BY <1>0, <1>2, IterMoves DEF NoNextLine, NextPanics
  <2>2. IterP!OneMomentInv'
    BY <1>2, LinkStep, IterNames DEF MomentInv, IterP!Next, NoNextLine, NextPanics
  <2> QED
    BY <1>2, <2>1, <2>2 DEF MomentInv, NoNextLine, NextPanics, vars
<1>3. CASE UNCHANGED <<book, iter_vars>> /\ market' = market
           /\ (taken' = taken \/ (taken' = taken + 1 /\ taken < Len(market.lines)))
  <2>1. IterP!IInv' /\ IterP!LinesYielded' = IterP!LinesYielded
    BY <1>0, <1>3, IterRests
  <2>2. UNCHANGED IterP!vars
    BY <1>3 DEF IterP!vars, iter_vars
  <2>3. IterP!OneMomentInv'
    BY <2>2, LinkStep DEF MomentInv
  <2>4. taken' \in 0 .. Len(market'.lines)
    BY <1>0, <1>3 DEF MomentInv
  <2> QED
    BY <1>3, <2>1, <2>3, <2>4 DEF MomentInv
<1>4. CASE AfterNext(BranchOfSell) \/ AfterNext(BranchOfBuy) \/ Returns
  BY <1>3, <1>4, BranchTakes DEF AfterNext, Returns
<1>5. CASE EnterBook \/ UNCHANGED book_vars
  BY <1>3, <1>5 DEF EnterBook, book_vars, vars
<1> QED
  BY <1>1, <1>2, <1>4, <1>5 DEF Next

\* The entry test on the book is the one on the ladder.
LEMMA CrossOfLadder ==
  ASSUME MomentInv, NEW px
  PROVE  cross_book(px) <=>
           /\ book.ladder[side] # <<>>
           /\ IF side = "Ask" THEN px >= Head(book.ladder[side]).price
                              ELSE px <= Head(book.ladder[side]).price
<1>1. /\ book.ladder[side] = <<>> => IterP!begin(side) = None
      /\ book.ladder[side] # <<>> =>
           /\ IterP!begin(side) # None
           /\ IterP!SlotAt(IterP!begin(side)).line = Head(book.ladder[side])
  BY IterP!BeginFacts, IterAssumption, Zenon DEF MomentInv
<1>2. It!begin(side) = IterP!begin(side) /\ \A i : It!SlotAt(i) = IterP!SlotAt(i)
  BY IterNames
<1> QED
  BY <1>1, <1>2 DEF cross_book

\* The branch that follows a call of next sees the line, or the end, that the
\* ladder has at this place.
LEMMA SeesLadder ==
  ASSUME MomentInv, taken < Len(market.lines) \/ walk = "ended"
  PROVE  LET ladder == book.ladder[side]
         IN  /\ taken < Len(ladder) <=> taken < Len(market.lines)
             /\ ladder[taken + 1] = market.lines[taken + 1]
<1> DEFINE ladder == book.ladder[side]
           n      == Len(yielded)
<1>1. /\ ladder \in Seq(Line) /\ n \in 0 .. Len(ladder) /\ Len(ladder) \in Nat
      /\ walk = "ended" => n = Len(ladder)
  <2>1. ladder \in Seq(Line)
    BY IterP!BeginFacts, IterAssumption, Zenon DEF MomentInv
  <2>2. n <= Len(ladder) /\ (walk = "ended" => n = Len(ladder)) /\ yielded \in Seq(Nat)
    BY DEF MomentInv, IterP!OneMomentInv, IterP!LinkInv, IterP!Rungs, IterP!IInv, IterP!TypeOK
  <2> QED
    BY <2>1, <2>2
<1>2. market.lines = SubSeq(ladder, 1, n)
  BY IterP!YieldedPrefix, IterAssumption, Zenon DEF MomentInv
<1> HIDE DEF ladder, n
<1>3. Len(market.lines) = n /\ \A i \in 1 .. n : market.lines[i] = ladder[i]
  BY <1>1, <1>2
<1>4. taken \in 0 .. n
  BY <1>3 DEF MomentInv
<1>5. CASE taken < n
  BY <1>1, <1>3, <1>4, <1>5 DEF ladder
<1>6. CASE walk = "ended"
  <2>1. SubSeq(ladder, 1, n) = ladder
    BY <1>1, <1>6, SubSeqFull
  <2> QED
    BY <2>1, <1>2 DEF ladder
<1> QED
  BY <1>3, <1>5, <1>6

-----------------------------------------------------------------------------
\* A branch of a sell reads nothing of the lines but the one the walk is at.
LEMMA BidsBranch ==
  ASSUME market \in AnyMarket, market' = market, book' = book,
         taken < Len(book.ladder["Bid"]) <=> taken < Len(market.lines),
         book.ladder["Bid"][taken + 1] = market.lines[taken + 1],
         \/ Sells!SellToPool
         \/ Sells!SellLastLine
         \/ Sells!SellUnreachable
         \/ Sells!SellPoolThenLine
         \/ Sells!SellCoverLine
         \/ Sells!SellPoolAndStop
  PROVE  \/ OnBids!SellToPool
         \/ OnBids!SellLastLine
         \/ OnBids!SellUnreachable
         \/ OnBids!SellPoolThenLine
         \/ OnBids!SellCoverLine
         \/ OnBids!SellPoolAndStop
<1> DEFINE m == [market EXCEPT !.lines = book.ladder["Bid"]]
<1>1. /\ m.lines = book.ladder["Bid"] /\ m' = m /\ m.amm = market.amm /\ m.fee = market.fee
      /\ m.amount = market.amount /\ m.swap_mode = market.swap_mode
      /\ m.last_px = market.last_px /\ m.best_bid = market.best_bid
      /\ m.best_ask = market.best_ask
  BY DEF AnyMarket, Market
<1>2. /\ Sells!NoLeg = OnBids!NoLeg /\ Sells!CurrentLine = OnBids!CurrentLine
      /\ Sells!AtLine <=> OnBids!AtLine
      /\ Sells!PastLines <=> OnBids!PastLines
      /\ \A x, y : Sells!Greatest(x, y) = OnBids!Greatest(x, y)
      /\ \A x, y : Sells!Least(x, y) = OnBids!Least(x, y)
  BY <1>1 DEF Sells!NoLeg, Sells!CurrentLine, Sells!AtLine, Sells!PastLines,
         Sells!MoreLines, Sells!Greatest, Sells!Least, OnBids!NoLeg, OnBids!CurrentLine,
         OnBids!AtLine, OnBids!PastLines, OnBids!MoreLines, OnBids!Greatest,
         OnBids!Least
<1>3. /\ Sells!price = OnBids!price /\ Sells!amm_px = OnBids!amm_px
      /\ Sells!next_amm_px = OnBids!next_amm_px
  BY <1>1, <1>2 DEF Sells!price, Sells!amm_px, Sells!next_amm_px, Sells!limit_price,
         Sells!market_px, Sells!WrapI64, Sells!get_amm_px, Sells!QuotAsI64, Sells!F64AsI64,
         Sells!Least, OnBids!price, OnBids!amm_px, OnBids!next_amm_px, OnBids!limit_price,
         OnBids!market_px, OnBids!WrapI64, OnBids!get_amm_px, OnBids!QuotAsI64,
         OnBids!F64AsI64, OnBids!Least, Sells!Blurred, Sells!Nearby, Sells!Grain,
         Sells!Greatest, OnBids!Blurred, OnBids!Nearby, OnBids!Grain, OnBids!Greatest
<1>4. \A p, x : Sells!get_amm_qty(p, x, "Bid") = OnBids!get_amm_qty(p, x, "Bid")
  BY DEF Sells!get_amm_qty, Sells!RootAsI64, Sells!F64AsI64, Sells!Least, Sells!Isqrt,
         Sells!Greatest, OnBids!get_amm_qty, OnBids!RootAsI64, OnBids!F64AsI64,
         OnBids!Least, OnBids!Isqrt, OnBids!Greatest, Sells!Blurred, Sells!Nearby,
         Sells!Grain, OnBids!Blurred, OnBids!Nearby, OnBids!Grain
<1>5. \A q : Sells!PoolLeg(q) = OnBids!PoolLeg(q)
  BY DEF Sells!PoolLeg, Sells!get_amm_sum, Sells!WrapI64, Sells!Greatest, Sells!NoLeg,
         OnBids!PoolLeg, OnBids!get_amm_sum, OnBids!WrapI64, OnBids!Greatest,
         OnBids!NoLeg
<1>6. \A q : Sells!LineLeg(q) = OnBids!LineLeg(q)
  BY <1>2 DEF Sells!LineLeg, Sells!trade_sum, Sells!F64AsI64, Sells!Least, OnBids!LineLeg,
         OnBids!trade_sum, OnBids!F64AsI64, OnBids!Least, Sells!SumNumerator, Sells!Nearby,
         Sells!Grain, Sells!Greatest, OnBids!SumNumerator, OnBids!Nearby, OnBids!Grain,
         OnBids!Greatest
<1>7. /\ \A x, y : Sells!partial_fill(x, y, "Bid") <=> OnBids!partial_fill(x, y, "Bid")
      /\ \A x, y : Sells!last_line(x, y, "Bid") <=> OnBids!last_line(x, y, "Bid")
      /\ \A x, y, z : Sells!cover_line(x, y, z, "Bid") <=> OnBids!cover_line(x, y, z, "Bid")
      /\ \A x, y : Sells!line_is_unreachable(x, y, "Bid")
                    <=> OnBids!line_is_unreachable(x, y, "Bid")
  BY DEF Sells!partial_fill, Sells!last_line, Sells!cover_line,
         Sells!line_is_unreachable, Sells!Greatest, OnBids!partial_fill,
         OnBids!last_line, OnBids!cover_line, OnBids!line_is_unreachable,
         OnBids!Greatest
<1>8. \A x : Sells!FeeOn(x) = OnBids!FeeOn(x)
  BY <1>1 DEF Sells!FeeOn, Sells!F64AsI64, Sells!Least, OnBids!FeeOn, OnBids!F64AsI64,
         OnBids!Least, Sells!Blurred, Sells!Nearby, Sells!Grain, Sells!Greatest,
         OnBids!Blurred, OnBids!Nearby, OnBids!Grain, OnBids!Greatest
<1>9. \A spent, got, pool, line, new, fails, next :
        Sells!Settle(spent, got, pool, line, new, fails, next)
          <=> OnBids!Settle(spent, got, pool, line, new, fails, next)
  BY <1>1, <1>8 DEF Sells!Settle, Sells!Fits, OnBids!Settle, OnBids!Fits
<1>10. \A pool, line, next : Sells!TradeLegs(pool, line, next) <=> OnBids!TradeLegs(pool, line, next)
  <2>1. \A q, x : Sells!SumNumerator(q, x) = OnBids!SumNumerator(q, x)
    BY DEF Sells!SumNumerator, Sells!Nearby, Sells!Grain, Sells!Greatest,
         OnBids!SumNumerator, OnBids!Nearby, OnBids!Grain, OnBids!Greatest
  <2>2. \A p, q, x : Sells!TradeSumFails(p, q, x) <=> OnBids!TradeSumFails(p, q, x)
    BY <2>1 DEF Sells!TradeSumFails, OnBids!TradeSumFails
  <2> QED
    BY <2>2, <1>2, <1>9 DEF Sells!TradeLegs, Sells!AfterLeg, OnBids!TradeLegs, OnBids!AfterLeg
<1>11. \A pool, line, next : Sells!Trade(pool, line, next) <=> OnBids!Trade(pool, line, next)
  BY <1>10 DEF Sells!Trade, OnBids!Trade
<1>12. Sells!TailLeg = OnBids!TailLeg
  BY <1>3, <1>4, <1>5, <1>7 DEF Sells!TailLeg, OnBids!TailLeg
<1>13. Sells!SellToPool => OnBids!SellToPool
  BY <1>2, <1>11, <1>12 DEF Sells!SellToPool, OnBids!SellToPool
<1>14. Sells!SellLastLine => OnBids!SellLastLine
  BY <1>2, <1>3, <1>4, <1>5, <1>6, <1>7, <1>11, <1>12 DEF Sells!SellLastLine,
         OnBids!SellLastLine
<1>15. Sells!SellUnreachable => OnBids!SellUnreachable
  BY <1>2, <1>3, <1>4, <1>5, <1>6, <1>7, <1>11, <1>12 DEF Sells!SellUnreachable,
         OnBids!SellUnreachable
<1>16. Sells!SellPoolThenLine => OnBids!SellPoolThenLine
  BY <1>2, <1>3, <1>4, <1>5, <1>6, <1>7, <1>11, <1>12 DEF Sells!SellPoolThenLine,
         OnBids!SellPoolThenLine
<1>17. Sells!SellCoverLine => OnBids!SellCoverLine
  BY <1>2, <1>3, <1>4, <1>5, <1>6, <1>7, <1>11, <1>12 DEF Sells!SellCoverLine,
         OnBids!SellCoverLine
<1>18. Sells!SellPoolAndStop => OnBids!SellPoolAndStop
  BY <1>2, <1>3, <1>4, <1>5, <1>6, <1>7, <1>11, <1>12 DEF Sells!SellPoolAndStop,
         OnBids!SellPoolAndStop
<1> QED
  BY <1>13, <1>14, <1>15, <1>16, <1>17, <1>18

LEMMA BidsReturn ==
  ASSUME market \in AnyMarket, book' = book, Sells!ReturnSell
  PROVE  OnBids!ReturnSell
<1>1. [market EXCEPT !.lines = book.ladder["Bid"]].amount = market.amount
  BY DEF AnyMarket, Market
<1> QED
  BY <1>1 DEF Sells!ReturnSell, Sells!Return, OnBids!ReturnSell, OnBids!Return

\* The entry test of quote, made of the book.
LEMMA BidsEnter ==
  ASSUME MomentInv, side = "Bid", EnterBook
  PROVE  OnBids!EnterSell
<1> DEFINE m == [market EXCEPT !.lines = book.ladder["Bid"]]
<1>1. /\ m.lines = book.ladder["Bid"] /\ m' = m /\ m.swap_mode = market.swap_mode
      /\ m.last_px = market.last_px /\ m.best_bid = market.best_bid
      /\ m.best_ask = market.best_ask
  BY DEF MomentInv, AnyMarket, Market, EnterBook
<1>2. /\ OnBids!market_px(m) = market_px(market)
      /\ OnBids!limit_price(m, "Bid") = limit_price(market, "Bid")
  BY <1>1 DEF OnBids!market_px, market_px, OnBids!limit_price, limit_price,
              OnBids!WrapI64, WrapI64
<1> DEFINE px == limit_price(market, "Bid")
<1> HIDE DEF px, m
<1>3. cross_book(px) <=> OnBids!cross(m, px, "Bid")
  BY <1>1, CrossOfLadder DEF OnBids!cross
<1>4. Opens(market, "Bid", cross_book(px)) <=> OnBids!Enters(m, "Bid")
  BY <1>2, <1>3 DEF Opens, OnBids!Opens, OnBids!Enters, px
<1> QED
  BY <1>1, <1>4 DEF EnterBook, OnBids!EnterSell, OnBids!Enter, px, m

\* Every step of a call that sells over a book of one moment is the step QuoteSell
\* makes of the bids, or none.
LEMMA BidsStep ==
  ASSUME MomentInv, MomentInv', side = "Bid", [Next]_book_vars
  PROVE  [OnBids!Next]_(OnBids!vars)
<1>1. market \in AnyMarket
  BY DEF MomentInv
<1>2. CASE EnterBook
  BY <1>2, BidsEnter DEF OnBids!Next
<1>3. CASE NextLine
  <2>1. market' = [market EXCEPT !.lines = Append(@, It!SlotAt(current).line)] /\ book' = book
    BY <1>3 DEF NextLine, It!NextYields
  <2>2. [market' EXCEPT !.lines = book'.ladder["Bid"]] = [market EXCEPT !.lines = book.ladder["Bid"]]
    BY <2>1, <1>1 DEF AnyMarket, Market
  <2> QED
    BY <1>3, <2>2 DEF NextLine, OnBids!vars
<1>4. CASE NoNextLine
  BY <1>4 DEF NoNextLine, vars, OnBids!vars, It!NextAfterCount, It!NextAfterLast,
              It!NextOfEmpty, It!Ends
<1>5. CASE NextPanics
  BY <1>5 DEF NextPanics, It!NextOutOfBounds, MomentInv, IterP!OneMomentInv, IterP!LinkInv
<1>6. CASE AfterNext(BranchOfSell)
  <2>1. /\ taken < Len(book.ladder["Bid"]) <=> taken < Len(market.lines)
        /\ book.ladder["Bid"][taken + 1] = market.lines[taken + 1]
    BY <1>6, SeesLadder DEF AfterNext
  <2>2. market' = market /\ book' = book /\ BranchOfSell
    BY <1>6, BranchTakes DEF AfterNext
  <2> QED
    BY <1>1, <2>1, <2>2, BidsBranch DEF BranchOfSell, OnBids!Next
<1>7. CASE Returns
  BY <1>1, <1>7, BidsReturn DEF Returns, OnBids!Next
<1>8. CASE UNCHANGED book_vars
  BY <1>8 DEF book_vars, vars, OnBids!vars
<1>9. ~AfterNext(BranchOfBuy)
  BY DEF AfterNext, BranchOfBuy
<1> QED
  BY <1>2, <1>3, <1>4, <1>5, <1>6, <1>7, <1>8, <1>9 DEF Next

LEMMA BidsInit ==
  ASSUME InitBook, OneMoment, side = "Bid"
  PROVE  OnBids!InitSell
<1> DEFINE m == [market EXCEPT !.lines = book.ladder["Bid"]]
<1>1. MomentInv /\ Sells!InitSell
  BY InitMoment DEF InitBook, InitWalk
<1>2. book.ladder["Bid"] \in Seq(Line)
  BY <1>1, IterP!BeginFacts, IterAssumption, Zenon DEF MomentInv
<1>3. m \in AnyMarket /\ m.amm = market.amm /\ m.amount = market.amount
  BY <1>1, <1>2 DEF MomentInv, AnyMarket, Market
<1> QED
  BY <1>1, <1>3 DEF Sells!InitSell, Sells!InitCall, OnBids!InitSell, OnBids!InitCall

\* A book of one moment stays one.
LEMMA MomentKept == [Next]_book_vars => book' = book
BY DEF Next, book_vars, EnterBook, NextLine, NoNextLine, NextPanics, AfterNext, Returns,
       It!NextYields, It!NextAfterCount, It!NextAfterLast, It!NextOfEmpty,
       It!NextOutOfBounds, It!Ends

\* Over every book of one moment a sell implements QuoteSell of the bids the book
\* is meant to hold, entry test, iterator and branches together.
THEOREM ImplementsSellHolds == Spec => ImplementsSell
<1> DEFINE Inv == OneMoment => MomentInv
<1>1. InitBook => Inv /\ (side = "Bid" /\ OneMoment => OnBids!InitSell)
  BY InitMoment, BidsInit
<1>2. Inv /\ [Next]_book_vars => Inv'
  BY MomentStep, MomentKept DEF OneMoment
<1>3. Inv /\ Inv' /\ [Next]_book_vars
        => [side = "Bid" /\ OneMoment => [OnBids!Next]_(OnBids!vars)]_book_vars
  BY BidsStep, MomentKept DEF OneMoment
<1> QED
  BY <1>1, <1>2, <1>3, PTL DEF Spec, ImplementsSell

-----------------------------------------------------------------------------
\* A branch of a buy reads nothing of the lines but the one the walk is at.
LEMMA AsksBranch ==
  ASSUME market \in AnyMarket, market' = market, book' = book,
         taken < Len(book.ladder["Ask"]) <=> taken < Len(market.lines),
         book.ladder["Ask"][taken + 1] = market.lines[taken + 1],
         \/ Buys!BuyFromPool
         \/ Buys!BuyLastLine
         \/ Buys!BuyUnreachable
         \/ Buys!BuyPoolThenLine
         \/ Buys!BuyCoverLine
         \/ Buys!BuyPoolAndStop
  PROVE  \/ OnAsks!BuyFromPool
         \/ OnAsks!BuyLastLine
         \/ OnAsks!BuyUnreachable
         \/ OnAsks!BuyPoolThenLine
         \/ OnAsks!BuyCoverLine
         \/ OnAsks!BuyPoolAndStop
<1> DEFINE m == [market EXCEPT !.lines = book.ladder["Ask"]]
<1>1. /\ m.lines = book.ladder["Ask"] /\ m' = m /\ m.amm = market.amm /\ m.fee = market.fee
      /\ m.amount = market.amount /\ m.swap_mode = market.swap_mode
      /\ m.last_px = market.last_px /\ m.best_bid = market.best_bid
      /\ m.best_ask = market.best_ask
  BY DEF AnyMarket, Market
<1>2. /\ Buys!NoLeg = OnAsks!NoLeg /\ Buys!CurrentLine = OnAsks!CurrentLine
      /\ Buys!AtLine <=> OnAsks!AtLine
      /\ Buys!PastLines <=> OnAsks!PastLines
      /\ \A x, y : Buys!Least(x, y) = OnAsks!Least(x, y)
  BY <1>1 DEF Buys!NoLeg, Buys!CurrentLine, Buys!AtLine, Buys!PastLines, Buys!MoreLines,
         Buys!Least, OnAsks!NoLeg, OnAsks!CurrentLine, OnAsks!AtLine, OnAsks!PastLines,
         OnAsks!MoreLines, OnAsks!Least
<1>3. /\ Buys!price = OnAsks!price /\ Buys!line_sum = OnAsks!line_sum
      /\ Buys!LineFails <=> OnAsks!LineFails
  BY <1>1, <1>2 DEF Buys!price, Buys!line_sum, Buys!LineFails, Buys!TradeSumFails,
         Buys!limit_price, Buys!market_px, Buys!WrapI64, Buys!trade_sum, Buys!F64AsI64,
         Buys!Least, OnAsks!price, OnAsks!line_sum, OnAsks!LineFails, OnAsks!TradeSumFails,
         OnAsks!limit_price, OnAsks!market_px, OnAsks!WrapI64, OnAsks!trade_sum,
         OnAsks!F64AsI64, OnAsks!Least, Buys!SumNumerator, Buys!Nearby, Buys!Grain,
         Buys!Greatest, OnAsks!SumNumerator, OnAsks!Nearby, OnAsks!Grain, OnAsks!Greatest
<1>4. /\ Buys!amm_px = OnAsks!amm_px /\ Buys!next_amm_px = OnAsks!next_amm_px
  BY <1>3 DEF Buys!amm_px, Buys!next_amm_px, Buys!get_reversed_amm_px, Buys!QuotAsI64,
         Buys!F64AsI64, Buys!Least, OnAsks!amm_px, OnAsks!next_amm_px,
         OnAsks!get_reversed_amm_px, OnAsks!QuotAsI64, OnAsks!F64AsI64, OnAsks!Least,
         Buys!Blurred, Buys!Nearby, Buys!Grain, Buys!Greatest, OnAsks!Blurred,
         OnAsks!Nearby, OnAsks!Grain, OnAsks!Greatest
<1>5. /\ \A q, s : Buys!Leg(q, s) = OnAsks!Leg(q, s)
      /\ \A p : Buys!LegToPrice(p) = OnAsks!LegToPrice(p)
  <2>1. \A p : Buys!get_amm_qty(amm, p, "Ask") = OnAsks!get_amm_qty(amm, p, "Ask")
    BY DEF Buys!get_amm_qty, Buys!RootAsI64, Buys!F64AsI64, Buys!Least, Buys!Isqrt,
         Buys!Greatest, Buys!Blurred, Buys!Nearby, Buys!Grain, OnAsks!get_amm_qty,
         OnAsks!RootAsI64, OnAsks!F64AsI64, OnAsks!Least, OnAsks!Isqrt, OnAsks!Greatest,
         OnAsks!Blurred, OnAsks!Nearby, OnAsks!Grain
  <2>2. \A q : Buys!get_amm_sum(amm, q, "Ask") = OnAsks!get_amm_sum(amm, q, "Ask")
    BY DEF Buys!get_amm_sum, Buys!WrapI64, Buys!Greatest, OnAsks!get_amm_sum,
         OnAsks!WrapI64, OnAsks!Greatest
  <2>3. \A q, s : Buys!Leg(q, s) = OnAsks!Leg(q, s)
    BY DEF Buys!Leg, Buys!NoLeg, OnAsks!Leg, OnAsks!NoLeg
  <2> QED
    BY <2>1, <2>2, <2>3 DEF Buys!LegToPrice, OnAsks!LegToPrice
<1>6. /\ \A s : Buys!get_reversed_amm_qty(amm, s) = OnAsks!get_reversed_amm_qty(amm, s)
      /\ \A p : Buys!get_reversed_amm_sum(amm, p) = OnAsks!get_reversed_amm_sum(amm, p)
  BY DEF Buys!get_reversed_amm_qty, Buys!get_reversed_amm_sum, Buys!RootAsI64,
         Buys!F64AsI64, Buys!Least, Buys!Isqrt, Buys!Greatest, Buys!WrapI64,
         OnAsks!get_reversed_amm_qty, OnAsks!get_reversed_amm_sum, OnAsks!RootAsI64,
         OnAsks!F64AsI64, OnAsks!Least, OnAsks!Isqrt, OnAsks!Greatest, OnAsks!WrapI64,
         Buys!Blurred, Buys!Nearby, Buys!Grain, OnAsks!Blurred, OnAsks!Nearby, OnAsks!Grain
<1>7. /\ \A x, y : Buys!partial_fill(x, y, "Ask") <=> OnAsks!partial_fill(x, y, "Ask")
      /\ \A x, y : Buys!last_line(x, y, "Ask") <=> OnAsks!last_line(x, y, "Ask")
      /\ \A x, y, z : Buys!cover_line(x, y, z, "Ask") <=> OnAsks!cover_line(x, y, z, "Ask")
      /\ \A x, y : Buys!line_is_unreachable(x, y, "Ask")
                    <=> OnAsks!line_is_unreachable(x, y, "Ask")
  BY DEF Buys!partial_fill, Buys!last_line, Buys!cover_line, Buys!line_is_unreachable,
         Buys!Least, OnAsks!partial_fill, OnAsks!last_line, OnAsks!cover_line,
         OnAsks!line_is_unreachable, OnAsks!Least
<1>8. \A x : Buys!FeeOn(x) = OnAsks!FeeOn(x)
  BY <1>1 DEF Buys!FeeOn, Buys!F64AsI64, Buys!Least, OnAsks!FeeOn, OnAsks!F64AsI64,
         OnAsks!Least, Buys!Blurred, Buys!Nearby, Buys!Grain, Buys!Greatest, OnAsks!Blurred,
         OnAsks!Nearby, OnAsks!Grain, OnAsks!Greatest
<1>9. \A spent, got, pool, line, new, fails, next :
        Buys!Settle(spent, got, pool, line, new, fails, next)
          <=> OnAsks!Settle(spent, got, pool, line, new, fails, next)
  BY <1>1, <1>8 DEF Buys!Settle, Buys!Fits, OnAsks!Settle, OnAsks!Fits
<1>10. \A pool, line, fails, next :
         Buys!Trade(pool, line, fails, next) <=> OnAsks!Trade(pool, line, fails, next)
  BY <1>9 DEF Buys!Trade, OnAsks!Trade
<1>11. Buys!TailLeg = OnAsks!TailLeg
  BY <1>2, <1>3, <1>4, <1>5, <1>6, <1>7 DEF Buys!TailLeg, OnAsks!TailLeg
<1>12. /\ \A rest : Buys!RestAtLine(rest) = OnAsks!RestAtLine(rest)
       /\ Buys!WholeLine = OnAsks!WholeLine
  BY <1>2, <1>3 DEF Buys!RestAtLine, Buys!WholeLine, Buys!QuotAsI64, Buys!F64AsI64,
         Buys!Least, OnAsks!RestAtLine, OnAsks!WholeLine, OnAsks!QuotAsI64, OnAsks!F64AsI64,
         OnAsks!Least, Buys!Blurred, Buys!Nearby, Buys!Grain, Buys!Greatest, OnAsks!Blurred,
         OnAsks!Nearby, OnAsks!Grain, OnAsks!Greatest
<1>13. Buys!BuyFromPool => OnAsks!BuyFromPool
  BY <1>2, <1>10, <1>11 DEF Buys!BuyFromPool, OnAsks!BuyFromPool
<1>14. Buys!BuyLastLine => OnAsks!BuyLastLine
  BY <1>2, <1>3, <1>4, <1>7, <1>10, <1>11 DEF Buys!BuyLastLine, OnAsks!BuyLastLine
<1>15. Buys!BuyUnreachable => OnAsks!BuyUnreachable
  BY <1>2, <1>3, <1>4, <1>5, <1>7, <1>10 DEF Buys!BuyUnreachable, OnAsks!BuyUnreachable
<1>16. Buys!BuyPoolThenLine => OnAsks!BuyPoolThenLine
  BY <1>2, <1>3, <1>4, <1>5, <1>7, <1>10, <1>12 DEF Buys!BuyPoolThenLine,
         OnAsks!BuyPoolThenLine
<1>17. Buys!BuyCoverLine => OnAsks!BuyCoverLine
  BY <1>2, <1>3, <1>4, <1>7, <1>10, <1>12 DEF Buys!BuyCoverLine, OnAsks!BuyCoverLine
<1>18. Buys!BuyPoolAndStop => OnAsks!BuyPoolAndStop
  BY <1>2, <1>3, <1>4, <1>5, <1>6, <1>7, <1>10, <1>12 DEF Buys!BuyPoolAndStop,
         OnAsks!BuyPoolAndStop
<1> QED
  BY <1>13, <1>14, <1>15, <1>16, <1>17, <1>18

LEMMA AsksReturn ==
  ASSUME market \in AnyMarket, book' = book, Buys!ReturnBuy
  PROVE  OnAsks!ReturnBuy
<1>1. /\ [market EXCEPT !.lines = book.ladder["Ask"]].amount = market.amount
      /\ OnAsks!WrapI64(-(market.amount - remaining) - total_fees)
           = Buys!WrapI64(-(market.amount - remaining) - total_fees)
  BY DEF AnyMarket, Market, OnAsks!WrapI64, Buys!WrapI64
<1> QED
  BY <1>1 DEF Buys!ReturnBuy, Buys!Return, OnAsks!ReturnBuy, OnAsks!Return

\* The entry test of quote, made of the book.
LEMMA AsksEnter ==
  ASSUME MomentInv, side = "Ask", EnterBook
  PROVE  OnAsks!EnterBuy
<1> DEFINE m == [market EXCEPT !.lines = book.ladder["Ask"]]
<1>1. /\ m.lines = book.ladder["Ask"] /\ m' = m /\ m.swap_mode = market.swap_mode
      /\ m.last_px = market.last_px /\ m.best_bid = market.best_bid
      /\ m.best_ask = market.best_ask
  BY DEF MomentInv, AnyMarket, Market, EnterBook
<1>2. /\ OnAsks!market_px(m) = market_px(market)
      /\ OnAsks!limit_price(m, "Ask") = limit_price(market, "Ask")
  BY <1>1 DEF OnAsks!market_px, market_px, OnAsks!limit_price, limit_price,
              OnAsks!WrapI64, WrapI64
<1> DEFINE px == limit_price(market, "Ask")
<1> HIDE DEF px, m
<1>3. cross_book(px) <=> OnAsks!cross(m, px, "Ask")
  BY <1>1, CrossOfLadder DEF OnAsks!cross
<1>4. Opens(market, "Ask", cross_book(px)) <=> OnAsks!Enters(m, "Ask")
  BY <1>2, <1>3 DEF Opens, OnAsks!Opens, OnAsks!Enters, px
<1> QED
  BY <1>1, <1>4 DEF EnterBook, OnAsks!EnterBuy, OnAsks!Enter, px, m

\* Every step of a call that buys over a book of one moment is the step QuoteBuy
\* makes of the asks, or none.
LEMMA AsksStep ==
  ASSUME MomentInv, MomentInv', side = "Ask", [Next]_book_vars
  PROVE  [OnAsks!Next]_(OnAsks!vars)
<1>1. market \in AnyMarket
  BY DEF MomentInv
<1>2. CASE EnterBook
  BY <1>2, AsksEnter DEF OnAsks!Next
<1>3. CASE NextLine
  <2>1. market' = [market EXCEPT !.lines = Append(@, It!SlotAt(current).line)] /\ book' = book
    BY <1>3 DEF NextLine, It!NextYields
  <2>2. [market' EXCEPT !.lines = book'.ladder["Ask"]] = [market EXCEPT !.lines = book.ladder["Ask"]]
    BY <2>1, <1>1 DEF AnyMarket, Market
  <2> QED
    BY <1>3, <2>2 DEF NextLine, OnAsks!vars
<1>4. CASE NoNextLine
  BY <1>4 DEF NoNextLine, vars, OnAsks!vars, It!NextAfterCount, It!NextAfterLast,
              It!NextOfEmpty, It!Ends
<1>5. CASE NextPanics
  BY <1>5 DEF NextPanics, It!NextOutOfBounds, MomentInv, IterP!OneMomentInv, IterP!LinkInv
<1>6. CASE AfterNext(BranchOfBuy)
  <2>1. /\ taken < Len(book.ladder["Ask"]) <=> taken < Len(market.lines)
        /\ book.ladder["Ask"][taken + 1] = market.lines[taken + 1]
    BY <1>6, SeesLadder DEF AfterNext
  <2>2. market' = market /\ book' = book /\ BranchOfBuy
    BY <1>6, BranchTakes DEF AfterNext
  <2> QED
    BY <1>1, <2>1, <2>2, AsksBranch DEF BranchOfBuy, OnAsks!Next
<1>7. CASE Returns
  BY <1>1, <1>7, AsksReturn DEF Returns, OnAsks!Next
<1>8. CASE UNCHANGED book_vars
  BY <1>8 DEF book_vars, vars, OnAsks!vars
<1>9. ~AfterNext(BranchOfSell)
  BY DEF AfterNext, BranchOfSell
<1> QED
  BY <1>2, <1>3, <1>4, <1>5, <1>6, <1>7, <1>8, <1>9 DEF Next

LEMMA AsksInit ==
  ASSUME InitBook, OneMoment, side = "Ask"
  PROVE  OnAsks!InitBuy
<1> DEFINE m == [market EXCEPT !.lines = book.ladder["Ask"]]
<1>1. MomentInv /\ Buys!InitBuy
  BY InitMoment DEF InitBook, InitWalk
<1>2. book.ladder["Ask"] \in Seq(Line)
  BY <1>1, IterP!BeginFacts, IterAssumption, Zenon DEF MomentInv
<1>3. m \in AnyMarket /\ m.amm = market.amm /\ m.amount = market.amount
      /\ m.fee = market.fee
  BY <1>1, <1>2 DEF MomentInv, AnyMarket, Market
<1> QED
  BY <1>1, <1>3 DEF Buys!InitBuy, Buys!InitCall, OnAsks!InitBuy, OnAsks!InitCall,
         Buys!input_sum, OnAsks!input_sum, Buys!Blurred, Buys!Nearby, Buys!Grain,
         Buys!Greatest, OnAsks!Blurred, OnAsks!Nearby, OnAsks!Grain, OnAsks!Greatest

\* Over every book of one moment a buy implements QuoteBuy of the asks the book
\* is meant to hold, entry test, iterator and branches together.
THEOREM ImplementsBuyHolds == Spec => ImplementsBuy
<1> DEFINE Inv == OneMoment => MomentInv
<1>1. InitBook => Inv /\ (side = "Ask" /\ OneMoment => OnAsks!InitBuy)
  BY InitMoment, AsksInit
<1>2. Inv /\ [Next]_book_vars => Inv'
  BY MomentStep, MomentKept DEF OneMoment
<1>3. Inv /\ Inv' /\ [Next]_book_vars
        => [side = "Ask" /\ OneMoment => [OnAsks!Next]_(OnAsks!vars)]_book_vars
  BY AsksStep, MomentKept DEF OneMoment
<1> QED
  BY <1>1, <1>2, <1>3, PTL DEF Spec, ImplementsBuy

-----------------------------------------------------------------------------
\* What is proved of QuoteSell, of the bids of a book.
LadderP == INSTANCE QuoteSellProofs WITH
  market  <- [market EXCEPT !.lines = book.ladder["Bid"]],
  Markets <- AnyMarket

LEMMA LadderNames ==
  /\ OnBids!SellToPool <=> LadderP!SellToPool
  /\ OnBids!SellLastLine <=> LadderP!SellLastLine
  /\ OnBids!SellUnreachable <=> LadderP!SellUnreachable
  /\ OnBids!SellPoolThenLine <=> LadderP!SellPoolThenLine
  /\ OnBids!SellCoverLine <=> LadderP!SellCoverLine
  /\ OnBids!SellPoolAndStop <=> LadderP!SellPoolAndStop
  /\ OnBids!ReturnSell <=> LadderP!ReturnSell
<1>1. OnBids!price = LadderP!price /\ OnBids!amm_px = LadderP!amm_px /\ OnBids!next_amm_px = LadderP!next_amm_px
  BY DEF OnBids!price, OnBids!amm_px, OnBids!next_amm_px, OnBids!limit_price,
         OnBids!market_px, OnBids!WrapI64, OnBids!get_amm_px, OnBids!QuotAsI64,
         OnBids!F64AsI64, OnBids!Least, OnBids!CurrentLine, LadderP!price, LadderP!amm_px,
         LadderP!next_amm_px, LadderP!limit_price, LadderP!market_px, LadderP!WrapI64,
         LadderP!get_amm_px, LadderP!QuotAsI64, LadderP!F64AsI64, LadderP!Least,
         LadderP!CurrentLine, OnBids!Blurred, OnBids!Nearby, OnBids!Grain, OnBids!Greatest,
         LadderP!Blurred, LadderP!Nearby, LadderP!Grain, LadderP!Greatest
<1>2. \A p, x : OnBids!get_amm_qty(p, x, "Bid") = LadderP!get_amm_qty(p, x, "Bid")
  BY DEF OnBids!get_amm_qty, OnBids!RootAsI64, OnBids!F64AsI64, OnBids!Least, OnBids!Isqrt,
         OnBids!Greatest, LadderP!get_amm_qty, LadderP!RootAsI64, LadderP!F64AsI64,
         LadderP!Least, LadderP!Isqrt, LadderP!Greatest, OnBids!Blurred, OnBids!Nearby,
         OnBids!Grain, LadderP!Blurred, LadderP!Nearby, LadderP!Grain
<1>3. \A q : OnBids!PoolLeg(q) = LadderP!PoolLeg(q)
  BY DEF OnBids!PoolLeg, OnBids!get_amm_sum, OnBids!WrapI64, OnBids!Greatest,
         OnBids!NoLeg, LadderP!PoolLeg, LadderP!get_amm_sum, LadderP!WrapI64,
         LadderP!Greatest, LadderP!NoLeg
<1>4. \A q : OnBids!LineLeg(q) = LadderP!LineLeg(q)
  BY DEF OnBids!LineLeg, OnBids!trade_sum, OnBids!F64AsI64, OnBids!Least,
         OnBids!CurrentLine, LadderP!LineLeg, LadderP!trade_sum, LadderP!F64AsI64,
         LadderP!Least, LadderP!CurrentLine, OnBids!SumNumerator, OnBids!Nearby,
         OnBids!Grain, OnBids!Greatest, LadderP!SumNumerator, LadderP!Nearby, LadderP!Grain,
         LadderP!Greatest
<1>5. /\ OnBids!NoLeg = LadderP!NoLeg /\ OnBids!CurrentLine = LadderP!CurrentLine
      /\ OnBids!AtLine <=> LadderP!AtLine
      /\ OnBids!PastLines <=> LadderP!PastLines
      /\ \A x, y : OnBids!Greatest(x, y) = LadderP!Greatest(x, y)
      /\ \A x, y : OnBids!Least(x, y) = LadderP!Least(x, y)
  BY DEF OnBids!NoLeg, OnBids!CurrentLine, OnBids!AtLine, OnBids!PastLines,
         OnBids!MoreLines, OnBids!Greatest, OnBids!Least, LadderP!NoLeg,
         LadderP!CurrentLine, LadderP!AtLine, LadderP!PastLines, LadderP!MoreLines,
         LadderP!Greatest, LadderP!Least
<1>6. /\ \A x, y : OnBids!partial_fill(x, y, "Bid") <=> LadderP!partial_fill(x, y, "Bid")
      /\ \A x, y : OnBids!last_line(x, y, "Bid") <=> LadderP!last_line(x, y, "Bid")
      /\ \A x, y, z : OnBids!cover_line(x, y, z, "Bid") <=> LadderP!cover_line(x, y, z, "Bid")
      /\ \A x, y : OnBids!line_is_unreachable(x, y, "Bid")
                    <=> LadderP!line_is_unreachable(x, y, "Bid")
  BY DEF OnBids!partial_fill, OnBids!last_line, OnBids!cover_line,
         OnBids!line_is_unreachable, OnBids!Greatest, LadderP!partial_fill,
         LadderP!last_line, LadderP!cover_line, LadderP!line_is_unreachable,
         LadderP!Greatest
<1>7. \A spent, got, pool, line, new, fails, next :
        OnBids!Settle(spent, got, pool, line, new, fails, next)
          <=> LadderP!Settle(spent, got, pool, line, new, fails, next)
  BY DEF OnBids!Settle, OnBids!Fits, OnBids!FeeOn, OnBids!F64AsI64, OnBids!Least,
         LadderP!Settle, LadderP!Fits, LadderP!FeeOn, LadderP!F64AsI64, LadderP!Least,
         OnBids!Blurred, OnBids!Nearby, OnBids!Grain, OnBids!Greatest, LadderP!Blurred,
         LadderP!Nearby, LadderP!Grain, LadderP!Greatest
<1>8. \A pool, line, next : OnBids!TradeLegs(pool, line, next) <=> LadderP!TradeLegs(pool, line, next)
  <2>1. \A q, x : OnBids!SumNumerator(q, x) = LadderP!SumNumerator(q, x)
    BY DEF OnBids!SumNumerator, OnBids!Nearby, OnBids!Grain, OnBids!Greatest,
         LadderP!SumNumerator, LadderP!Nearby, LadderP!Grain, LadderP!Greatest
  <2>2. \A p, q, x : OnBids!TradeSumFails(p, q, x) <=> LadderP!TradeSumFails(p, q, x)
    BY <2>1 DEF OnBids!TradeSumFails, LadderP!TradeSumFails
  <2> QED
    BY <2>2, <1>5, <1>7 DEF OnBids!TradeLegs, OnBids!AfterLeg, LadderP!TradeLegs, LadderP!AfterLeg
<1>9. \A pool, line, next : OnBids!Trade(pool, line, next) <=> LadderP!Trade(pool, line, next)
  BY <1>8 DEF OnBids!Trade, LadderP!Trade
<1>10. OnBids!TailLeg = LadderP!TailLeg
  BY <1>1, <1>2, <1>3, <1>6 DEF OnBids!TailLeg, LadderP!TailLeg
<1>11. OnBids!SellToPool <=> LadderP!SellToPool
  BY <1>5, <1>9, <1>10 DEF OnBids!SellToPool, LadderP!SellToPool
<1>12. OnBids!SellLastLine <=> LadderP!SellLastLine
  BY <1>1, <1>2, <1>3, <1>4, <1>5, <1>6, <1>9, <1>10 DEF OnBids!SellLastLine,
         LadderP!SellLastLine
<1>13. OnBids!SellUnreachable <=> LadderP!SellUnreachable
  BY <1>1, <1>2, <1>3, <1>4, <1>5, <1>6, <1>9, <1>10 DEF OnBids!SellUnreachable,
         LadderP!SellUnreachable
<1>14. OnBids!SellPoolThenLine <=> LadderP!SellPoolThenLine
  BY <1>1, <1>2, <1>3, <1>4, <1>5, <1>6, <1>9, <1>10 DEF OnBids!SellPoolThenLine,
         LadderP!SellPoolThenLine
<1>15. OnBids!SellCoverLine <=> LadderP!SellCoverLine
  BY <1>1, <1>2, <1>3, <1>4, <1>5, <1>6, <1>9, <1>10 DEF OnBids!SellCoverLine,
         LadderP!SellCoverLine
<1>16. OnBids!SellPoolAndStop <=> LadderP!SellPoolAndStop
  BY <1>1, <1>2, <1>3, <1>4, <1>5, <1>6, <1>9, <1>10 DEF OnBids!SellPoolAndStop,
         LadderP!SellPoolAndStop
<1>17. OnBids!ReturnSell <=> LadderP!ReturnSell
  BY DEF OnBids!ReturnSell, OnBids!Return, LadderP!ReturnSell, LadderP!Return
<1> QED
  BY ONLY <1>11, <1>12, <1>13, <1>14, <1>15, <1>16, <1>17

LEMMA LadderAssumption ==
  /\ FeeDen \in Nat \ {0}
  /\ \A m \in AnyMarket :
       /\ m \in LadderP!Market
       /\ m.amm.a_tokens \in LadderP!I64 /\ m.amm.b_tokens \in LadderP!I64
       /\ m.amm = LadderP!NewPool(m.amm.a_tokens, m.amm.b_tokens, m.amm.df)
<1>1. I64 = LadderP!I64 /\ Market = LadderP!Market
  BY DEF I64, Line, Pool, Market, LadderP!I64, LadderP!Line, LadderP!Pool, LadderP!Market
<1>2. \A m \in AnyMarket : NewPool(m.amm.a_tokens, m.amm.b_tokens, m.amm.df)
                             = LadderP!NewPool(m.amm.a_tokens, m.amm.b_tokens, m.amm.df)
  BY DEF NewPool, LadderP!NewPool
<1> QED
  BY <1>1, <1>2, MarketsAssumption DEF AnyMarket

LEMMA LadderEnter == OnBids!EnterSell <=> LadderP!EnterSell
BY DEF OnBids!EnterSell, OnBids!Enter, OnBids!Enters, OnBids!Opens, OnBids!cross,
       OnBids!limit_price, OnBids!market_px, OnBids!WrapI64,
       LadderP!EnterSell, LadderP!Enter, LadderP!Enters, LadderP!Opens, LadderP!cross,
       LadderP!limit_price, LadderP!market_px, LadderP!WrapI64

LEMMA LadderInit == OnBids!InitSell => LadderP!InitSell
BY DEF OnBids!InitSell, OnBids!InitCall, LadderP!InitSell, LadderP!InitCall

LEMMA LadderStep == [OnBids!Next]_(OnBids!vars) => [LadderP!Next]_(LadderP!vars)
BY LadderNames, LadderEnter DEF OnBids!Next, LadderP!Next, OnBids!vars, LadderP!vars

\* Over every book of one moment whose bids come best price first, and for sizes
\* f64 resolves with a bit to spare, the route a sell takes through the linked
\* lines and the pool pays, up to the truncations, what the pool alone pays for
\* the same quantity.
THEOREM BookBeatsPoolAlone ==
  side = "Bid" /\ OneMoment /\ LadderP!RouteResolved /\ LadderP!Ladder /\ Spec
    => []OnBids!RoutingBeatsPoolAlone
<1> DEFINE Sell == side = "Bid" /\ OneMoment
<1>1. Sell /\ [Next]_book_vars => Sell'
  BY SideFixed, MomentKept DEF OneMoment
<1>2. Sell /\ [Sell => [OnBids!Next]_(OnBids!vars)]_book_vars => [LadderP!Next]_(LadderP!vars)
  <2>1. UNCHANGED book_vars => UNCHANGED LadderP!vars
    BY DEF book_vars, vars, LadderP!vars
  <2> QED
    BY <2>1, LadderStep
<1>3. LadderP!RouteResolved /\ LadderP!Ladder /\ LadderP!Spec => []LadderP!RoutingBeatsPoolAlone
  BY LadderP!RoutingBeatsPoolAloneHolds, LadderAssumption, WidthAssumption, PrecisionAssumption, PTL
<1>4. LadderP!RoutingBeatsPoolAlone => OnBids!RoutingBeatsPoolAlone
  BY DEF LadderP!RoutingBeatsPoolAlone, OnBids!RoutingBeatsPoolAlone,
         LadderP!get_amm_sum, OnBids!get_amm_sum, LadderP!WrapI64, OnBids!WrapI64,
         LadderP!Greatest, OnBids!Greatest, LadderP!Sold, OnBids!Sold
<1> QED
  BY <1>1, <1>2, <1>3, <1>4, ImplementsSellHolds, LadderInit, PTL
     DEF Spec, ImplementsSell, LadderP!Spec
=============================================================================
