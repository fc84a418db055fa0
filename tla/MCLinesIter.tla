---------------------------- MODULE MCLinesIter -----------------------------
(***************************************************************************)
(* Well-formed books for LinesIter: up to three bids and two asks, placed  *)
(* in any order in five slots, each chain ended by NULL_ORDER or by a link *)
(* to itself; the slots in no chain are freed ones that still have a link. *)
(***************************************************************************)
EXTENDS LinesIter, FiniteSets

MCLine == {"Bid", "Ask", "Freed"} \X (0 .. 3)

\* order[p] is the slot of place p: places 1 to 3 are for the bids, 4 and 5
\* for the asks.
Orders == {f \in [1 .. 5 -> 0 .. 4] : Cardinality({f[p] : p \in 1 .. 5}) = 5}

Lines == <<<<"Bid", 1>>, <<"Bid", 2>>, <<"Bid", 3>>, <<"Ask", 1>>, <<"Ask", 2>>>>

InUse(bids, asks) == 1 .. bids \cup 4 .. 3 + asks

PlaceContent(order, used, p, self) ==
  IF p \notin used
  THEN [line |-> <<"Freed", 0>>, next |-> 0, sref |-> NULL_ORDER]
  ELSE [line |-> Lines[p], sref |-> 0,
        next |-> IF p # 3 /\ p + 1 \in used THEN order[p + 1]
                 ELSE IF self THEN order[p] ELSE NULL_ORDER]

Book(order, bids, asks, self) ==
  [header |-> [begin |-> [s \in Side |->
                 IF s = "Bid" THEN IF bids = 0 THEN NULL_ORDER ELSE order[1]
                              ELSE IF asks = 0 THEN NULL_ORDER ELSE order[4]],
               count |-> [s \in Side |-> IF s = "Bid" THEN bids ELSE asks]],
   slots  |-> [j \in 1 .. 5 |->
                 PlaceContent(order, InUse(bids, asks),
                              CHOOSE p \in 1 .. 5 : order[p] = j - 1, self)],
   ladder |-> [s \in Side |-> IF s = "Bid" THEN SubSeq(Lines, 1, bids)
                                           ELSE SubSeq(Lines, 4, 3 + asks)]]

MCAccounts == {Book(order, bids, asks, self) :
                 order \in Orders, bids \in 0 .. 3, asks \in 0 .. 2, self \in BOOLEAN}

\* Every one of them is what the theorems about whole ladders ask for.
ASSUME AccountsLinked == \A a \in MCAccounts : Linked(a)
=============================================================================
