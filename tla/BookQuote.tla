----------------------------- MODULE BookQuote ------------------------------
(***************************************************************************)
(* Deriverse::quote as one call on an order book: the branches of          *)
(* QuoteSell over the bid iterator, those of QuoteBuy over the ask         *)
(* iterator.                                                               *)
(***************************************************************************)
EXTENDS BookWalk

Sells == INSTANCE QuoteSell
Buys  == INSTANCE QuoteBuy

InitBook ==
  \/ Sells!InitSell /\ InitWalk("Bid")
  \/ Buys!InitBuy /\ InitWalk("Ask")

BranchOfSell ==
  /\ side = "Bid"
  /\ \/ Sells!SellToPool
     \/ Sells!SellLastLine
     \/ Sells!SellUnreachable
     \/ Sells!SellPoolThenLine
     \/ Sells!SellCoverLine
     \/ Sells!SellPoolAndStop

BranchOfBuy ==
  /\ side = "Ask"
  /\ \/ Buys!BuyFromPool
     \/ Buys!BuyLastLine
     \/ Buys!BuyUnreachable
     \/ Buys!BuyPoolThenLine
     \/ Buys!BuyCoverLine
     \/ Buys!BuyPoolAndStop

Returns ==
  /\ \/ side = "Bid" /\ Sells!ReturnSell
     \/ side = "Ask" /\ Buys!ReturnBuy
  /\ UNCHANGED <<book, iter_vars>>

Next ==
  \/ EnterBook
  \/ NextLine
  \/ NoNextLine
  \/ NextPanics
  \/ AfterNext(BranchOfSell)
  \/ AfterNext(BranchOfBuy)
  \/ Returns

\* quote is synchronous and waits for nothing: it takes its steps.
Spec == InitBook /\ [][Next]_book_vars /\ WF_book_vars(Next)

-----------------------------------------------------------------------------
\* The header and the slots are of one moment.
OneMoment == book \in WellFormed

\* Over such a book a sell is the one QuoteSell makes of the bids the on-chain
\* program means the book to hold: entry test, iterator and branches see the
\* same book, and what is proved of QuoteSell holds of the quote as the adapter
\* computes it.
OnBids == INSTANCE QuoteSell WITH
  market  <- [market EXCEPT !.lines = book.ladder["Bid"]],
  Markets <- AnyMarket

ImplementsSell ==
  /\ side = "Bid" /\ OneMoment => OnBids!InitSell
  /\ [][side = "Bid" /\ OneMoment => [OnBids!Next]_(OnBids!vars)]_book_vars

\* And a buy the one QuoteBuy makes of the asks.
OnAsks == INSTANCE QuoteBuy WITH
  market  <- [market EXCEPT !.lines = book.ladder["Ask"]],
  Markets <- AnyMarket

ImplementsBuy ==
  /\ side = "Ask" /\ OneMoment => OnAsks!InitBuy
  /\ [][side = "Ask" /\ OneMoment => [OnAsks!Next]_(OnAsks!vars)]_book_vars

\* Over any book, also a header with the slots of another moment, a sell keeps
\* to its quantity and to the limit price.  It may do worse than the pool alone
\* there: RoutingBeatsPoolAlone needs lines that come best price first.
SellKeepsWithin ==
  side = "Bid" => Sells!NeverOversells /\ Sells!SoldAtLimitOrBetter

\* And a buy keeps to its budget and to the limit price.
BuyKeepsWithin ==
  side = "Ask" => Buys!OverspendsByLessThanOneUnit /\ Buys!BoughtAtLimitOrBetter
=============================================================================
