-------------------------- MODULE MCLinesIterTorn ---------------------------
(***************************************************************************)
(* A header and a lines account read at different moments: any begin, any  *)
(* counts and any links over three slots, the index 3 being out of bounds, *)
(* or no slot at all, as for an account no longer than its own header.     *)
(***************************************************************************)
EXTENDS LinesIter

MCLine == {"Any"} \X (1 .. 3)

Index == 0 .. 3 \cup {NULL_ORDER}

Torn(b, bids, asks, slots) ==
  [header |-> [begin |-> [s \in Side |-> b],
               count |-> [s \in Side |-> IF s = "Bid" THEN bids ELSE asks]],
   slots  |-> slots,
   ladder |-> [s \in Side |-> <<>>]]

SlotsOf(links) ==
  [j \in 1 .. 3 |-> [line |-> <<"Any", j>>, next |-> links[j], sref |-> 0]]

MCAccounts ==
  {Torn(b, bids, asks, slots) :
     b \in Index, bids \in {0, 4}, asks \in {0, 2},
     slots \in {SlotsOf(links) : links \in [1 .. 3 -> Index]} \cup {<<>>}}
=============================================================================
