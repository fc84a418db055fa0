------------------------------ MODULE BookWalk ------------------------------
(***************************************************************************)
(* Deriverse::quote with the order book it walks (titan-deriverse/src/     *)
(* lib.rs with lines_linked_list.rs): what QuoteSell and QuoteBuy take as  *)
(* a given sequence of lines is here what LinesIter yields, one call of    *)
(* next at the head of each iteration, and the entry test reads the book   *)
(* through cross and begin.  BookQuote adds the branches.                  *)
(*                                                                         *)
(* market.lines is what the iterator has yielded so far: empty in the      *)
(* inputs, and one line longer after each call of next that yields one.    *)
(***************************************************************************)
EXTENDS Quote

CONSTANTS
  Books(_),    \* the order books a market of Markets may come with
  WellFormed,  \* the books whose header and slots are of one moment
  NULL_ORDER,  \* as in LinesIter
  None

VARIABLES
  book,        \* self.order_book, as accounts and ladders (see LinesIter)
  side,        \* the side the iterator was made for, and its fields
  current,
  lines_left,
  yielded,     \* the indexes it has yielded
  walk         \* "walking", "ended" or "panicked"

iter_vars == <<side, current, lines_left, yielded, walk>>
book_vars == <<vars, book, iter_vars>>

It == INSTANCE LinesIter WITH
  acc <- book, remaining <- lines_left, pc <- walk,
  Accounts <- UNION {Books(m) : m \in Markets}

ASSUME BooksAssumption ==
  /\ NULL_ORDER \notin Nat /\ None \notin Nat /\ NULL_ORDER # None
  /\ \A m \in Markets :
       /\ m.lines = <<>>
       /\ \A b \in Books(m) : /\ b.header \in It!Header
                             /\ b.slots \in Seq(It!Slot)
                             /\ DOMAIN b.ladder = Side
  /\ \A b \in WellFormed : It!Linked(b)

BookTypeOK == TypeOK /\ It!TypeOK

-----------------------------------------------------------------------------
\* OrderBook::cross, of the line that begin returns.
cross_book(px) ==
  LET idx == It!begin(side)
      line == It!SlotAt(idx).line
  IN  idx # None /\ IF side = "Ask" THEN px >= line.price ELSE px <= line.price

\* The iterator is made before the loop, whether or not the loop is entered.
InitWalk(taker_side) ==
  /\ book \in Books(market)
  /\ side = taker_side
  /\ It!IterFrom

\* Quote!Enter, on the book.
EnterBook ==
  /\ pc = "enter"
  /\ pc' = IF market.swap_mode = "ExactOut" THEN "failed"
           ELSE IF Opens(market, side, cross_book(limit_price(market, side)))
           THEN "loop" ELSE "stopped"
  /\ UNCHANGED <<market, taken, remaining, filled, total_fees, amm, book, iter_vars>>

\* lines.next() at the head of an iteration, before its branch is taken.
CallsNext == pc = "loop" /\ taken = Len(market.lines) /\ walk = "walking"

\* It yields a line.
NextLine ==
  /\ CallsNext
  /\ It!NextYields
  /\ market' = [market EXCEPT !.lines = Append(@, It!SlotAt(current).line)]
  /\ UNCHANGED <<pc, taken, remaining, filled, total_fees, amm>>

\* It returns None, for one of three reasons.
NoNextLine ==
  /\ CallsNext
  /\ \/ It!NextAfterCount
     \/ It!NextAfterLast
     \/ It!NextOfEmpty
  /\ UNCHANGED vars

\* It indexes outside the slots, and the call panics.
NextPanics ==
  /\ CallsNext
  /\ It!NextOutOfBounds
  /\ pc' = "failed"
  /\ UNCHANGED <<market, taken, remaining, filled, total_fees, amm>>

\* What follows the call of next in the same iteration: the branch for the
\* line it yielded, or the branch for None.
AfterNext(branch) ==
  /\ taken < Len(market.lines) \/ walk = "ended"
  /\ branch
  /\ UNCHANGED <<book, iter_vars>>

-----------------------------------------------------------------------------
\* Every market that MarketsAssumption allows.
AnyMarket ==
  {m \in Market : /\ m.amm.a_tokens \in I64 /\ m.amm.b_tokens \in I64
                  /\ m.amm = NewPool(m.amm.a_tokens, m.amm.b_tokens, m.amm.df)}

\* A call of quote returns or panics, whatever links and counts it finds:
\* the loop breaks, or the count of the iterator runs out.
QuoteReturns == <>(pc \in {"quoted", "failed"})
=============================================================================
