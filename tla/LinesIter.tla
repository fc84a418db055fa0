----------------------------- MODULE LinesIter ------------------------------
(***************************************************************************)
(* The order book as the adapter reads it (lines_linked_list.rs): an array *)
(* of slots copied from the lines account, two begin indexes and one line  *)
(* count taken from the instrument header, and the iterator that follows   *)
(* the links of one side.  The state is one LinesIter between two calls of *)
(* next; its caller, quote, calls next until it returns None.              *)
(*                                                                         *)
(* The two accounts are written by the on-chain program and may have been  *)
(* read at different moments, so nothing makes links, begins and count     *)
(* agree: Accounts says which combinations are considered.                 *)
(***************************************************************************)
EXTENDS Integers, Sequences

CONSTANTS
  Line,        \* what a line is, apart from its links
  Accounts,    \* pairs of a header and an array of slots
  NULL_ORDER,  \* drv_models constants::nulls::NULL_ORDER, no index
  None         \* Option::None

Side == {"Bid", "Ask"}

\* The fields the code reads of a PxOrders and of the header.  The ladders
\* are what the on-chain program means the two accounts to hold; no code
\* reads them.
Slot   == [line : Line, next : Nat \cup {NULL_ORDER}, sref : Nat \cup {NULL_ORDER}]
Header == [begin : [Side -> Nat \cup {NULL_ORDER}], count : [Side -> Nat]]

ASSUME AccountsAssumption ==
  /\ NULL_ORDER \notin Nat /\ None \notin Nat /\ NULL_ORDER # None
  /\ \A acc \in Accounts :
       /\ acc.header \in Header
       /\ acc.slots \in Seq(Slot)
       /\ DOMAIN acc.ladder = Side

VARIABLES
  acc,        \* the accounts the book was built from
  side,       \* the side the iterator was made for
  current,    \* Option of the next index; NULL_ORDER is an index in the code
  remaining,  \* how many lines it may still yield
  yielded,    \* the indexes it has yielded, in order
  pc          \* "walking", "ended" (next returned None) or "panicked"

vars == <<acc, side, current, remaining, yielded, pc>>

Largest(x, y) == IF x >= y THEN x ELSE y

-----------------------------------------------------------------------------
\* Mutations: the index of the last line is taken for the count, and begin
\* reads the other side.
total_lines_countOfLast(a) ==
  Largest(a.header.count["Ask"], a.header.count["Bid"]) - 1

\* OrderBook::new: one count serves both sides.
total_lines_count(a) == Largest(a.header.count["Ask"], a.header.count["Bid"])

InBounds(idx) == idx \in 0 .. Len(acc.slots) - 1
SlotAt(idx)   == acc.slots[idx + 1]

beginOfOther(s) ==
  LET idx == acc.header.begin[IF s = "Bid" THEN "Ask" ELSE "Bid"]
  IN  IF InBounds(idx) /\ SlotAt(idx).sref # NULL_ORDER THEN idx ELSE None

\* OrderBook::begin, an Option of the index of the first line of the side.
begin(s) ==
  LET idx == acc.header.begin[s]
  IN  IF InBounds(idx) /\ SlotAt(idx).sref # NULL_ORDER THEN idx ELSE None

TypeOK ==
  /\ acc.header \in Header /\ acc.slots \in Seq(Slot)
  /\ side \in Side
  /\ current \in Nat \cup {NULL_ORDER, None}
  /\ remaining \in Nat
  /\ yielded \in Seq(Nat)
  /\ pc \in {"walking", "ended", "panicked"}

\* iter_bids or iter_asks.
IterFrom ==
  /\ current = acc.header.begin[side]
  /\ remaining = total_lines_count(acc)
  /\ yielded = <<>>
  /\ pc = "walking"

\* OrderBook::new, then the iterator of one side.
Init == acc \in Accounts /\ side \in Side /\ IterFrom

Ends ==
  /\ pc = "walking"
  /\ pc' = "ended"
  /\ UNCHANGED <<acc, side, remaining, yielded>>

\* Mutation: the count is looked at only where the chain has ended.
NextAfterCountOfChain ==
  Ends /\ remaining = 0 /\ current = None /\ UNCHANGED current

\* The count is used up: current is not looked at.
NextAfterCount == Ends /\ remaining = 0 /\ UNCHANGED current

\* The previous line was the last of the chain.
NextAfterLast == Ends /\ remaining > 0 /\ current = None /\ UNCHANGED current

\* The side begins at NULL_ORDER: it is empty.
NextOfEmpty == Ends /\ remaining > 0 /\ current = NULL_ORDER /\ current' = None

\* self.slice[idx] outside the array.
NextOutOfBounds ==
  /\ pc = "walking"
  /\ remaining > 0
  /\ current \notin {None, NULL_ORDER}
  /\ ~InBounds(current)
  /\ current' = None
  /\ pc' = "panicked"
  /\ UNCHANGED <<acc, side, remaining, yielded>>

\* Mutations: a link of the last line to itself is followed, and yielded lines
\* are not counted.
NextYieldsSelf ==
  /\ pc = "walking"
  /\ remaining > 0
  /\ current \notin {None, NULL_ORDER}
  /\ InBounds(current)
  /\ LET next == SlotAt(current).next
     IN  current' = IF next = NULL_ORDER THEN None ELSE next
  /\ remaining' = remaining - 1
  /\ yielded' = Append(yielded, current)
  /\ UNCHANGED <<acc, side, pc>>

NextYieldsUncounted ==
  /\ pc = "walking"
  /\ remaining > 0
  /\ current \notin {None, NULL_ORDER}
  /\ InBounds(current)
  /\ LET next == SlotAt(current).next
     IN  current' = IF next \in {NULL_ORDER, current} THEN None ELSE next
  /\ yielded' = Append(yielded, current)
  /\ UNCHANGED <<acc, side, pc, remaining>>

\* A line is yielded; a link to NULL_ORDER or to the line itself is the last.
NextYields ==
  /\ pc = "walking"
  /\ remaining > 0
  /\ current \notin {None, NULL_ORDER}
  /\ InBounds(current)
  /\ LET next == SlotAt(current).next
     IN  current' = IF next \in {NULL_ORDER, current} THEN None ELSE next
  /\ remaining' = remaining - 1
  /\ yielded' = Append(yielded, current)
  /\ UNCHANGED <<acc, side, pc>>

Next ==
  \/ NextAfterCount
  \/ NextAfterLast
  \/ NextOfEmpty
  \/ NextOutOfBounds
  \/ NextYields

\* The loop of quote is synchronous: it keeps calling next.
Spec == Init /\ [][Next]_vars /\ WF_vars(Next)

-----------------------------------------------------------------------------
\* The header and the slots are of one moment: the slots of the chain c hold
\* the ladder of side s, and the header begins it and counts it.
IsChain(a, s, c) ==
  LET lines == a.ladder[s]
      slot(i) == a.slots[c[i] + 1]
  IN  /\ a.header.count[s] = Len(lines)
      /\ a.header.begin[s] = IF lines = <<>> THEN NULL_ORDER ELSE c[1]
      /\ \A i \in 1 .. Len(lines) :
           /\ slot(i).line = lines[i]
           /\ slot(i).sref # NULL_ORDER
           /\ i < Len(lines) => slot(i).next = c[i + 1] /\ c[i + 1] # c[i]
           /\ i = Len(lines) => slot(i).next \in {NULL_ORDER, c[i]}

Chains(a, s) == [1 .. Len(a.ladder[s]) -> 0 .. Len(a.slots) - 1]

Linked(a) ==
  \A s \in Side : /\ a.ladder[s] \in Seq(Line)
                  /\ \E c \in Chains(a, s) : IsChain(a, s, c)

LinesYielded == [i \in 1 .. Len(yielded) |-> SlotAt(yielded[i]).line]

\* Where the accounts hold two well-formed ladders the iterator is a LineWalk
\* of its side: every line once, in order, none left out although the count
\* is shared with the other side, none beyond the end of the chain.
Walk == INSTANCE LineWalk WITH
  given <- LinesYielded,
  left  <- SubSeq(acc.ladder[side], Len(yielded) + 1, Len(acc.ladder[side]))

WalksTheLadder == Walk!Spec

\* quote decides whether to enter its loop by OrderBook::cross, which reads
\* the book through begin; the loop reads it through the iterator.  Both see
\* the same first line, or both see none.
FirstYieldIsBegin ==
  /\ yielded # <<>> => yielded[1] = begin(side)
  /\ pc = "ended" /\ yielded = <<>> => begin(side) = None

\* Whatever the links are, a cycle included, the iterator yields at most as
\* many lines as the header counts on the longer side.
YieldsWithinCount == Len(yielded) <= total_lines_count(acc)

\* And so the walk ends, with None or with a panic.
WalkEnds == <>(pc # "walking")
=============================================================================
