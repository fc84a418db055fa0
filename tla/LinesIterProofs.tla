-------------------------- MODULE LinesIterProofs ---------------------------
(***************************************************************************)
(* Proofs about the order book's iterator: for every header and slots,     *)
(* whatever the links are, it stays within its types and its count; over   *)
(* a header and slots of one moment it walks the ladder.                   *)
(***************************************************************************)
EXTENDS LinesIter, SequenceTheorems, TLAPS

\* The inductive invariant: every line of the count has been yielded or may
\* still be.
IInv ==
  /\ TypeOK
  /\ Len(yielded) + remaining = total_lines_count(acc)

-----------------------------------------------------------------------------
LEMMA CountIsNat ==
  ASSUME acc.header \in Header
  PROVE  total_lines_count(acc) \in Nat
BY DEF Header, Side, total_lines_count, Largest

LEMMA InitIInv == Init => IInv
<1> SUFFICES ASSUME Init PROVE IInv
  OBVIOUS
<1>1. acc.header \in Header /\ acc.slots \in Seq(Slot) /\ side \in Side
  BY AccountsAssumption DEF Init
<1>2. current \in Nat \cup {NULL_ORDER, None}
  BY <1>1 DEF Init, IterFrom, Header
<1>3. total_lines_count(acc) \in Nat
  BY <1>1, CountIsNat
<1>4. yielded = <<>> /\ Len(yielded) = 0 /\ yielded \in Seq(Nat)
  BY DEF Init, IterFrom
<1>5. remaining = total_lines_count(acc) /\ pc = "walking"
  BY DEF Init, IterFrom
<1> QED
  BY <1>1, <1>2, <1>3, <1>4, <1>5 DEF IInv, TypeOK

\* A line is yielded from a slot, whose link is an index or none.
LEMMA YieldPreserves ==
  ASSUME IInv, NextYields
  PROVE  IInv'
<1>1. current \in Nat /\ current + 1 \in 1 .. Len(acc.slots)
  BY DEF IInv, TypeOK, NextYields, InBounds
<1>2. SlotAt(current) \in Slot
  BY <1>1 DEF IInv, TypeOK, SlotAt
<1>3. current' \in Nat \cup {NULL_ORDER, None}
  BY <1>2 DEF NextYields, Slot
<1>4. remaining \in Nat /\ remaining > 0 /\ remaining' = remaining - 1
  BY DEF IInv, TypeOK, NextYields
<1>5. yielded' \in Seq(Nat) /\ Len(yielded') = Len(yielded) + 1 /\ Len(yielded) \in Nat
  BY <1>1 DEF IInv, TypeOK, NextYields
<1>6. UNCHANGED <<acc, side, pc>>
  BY DEF NextYields
<1>7. TypeOK'
  BY <1>3, <1>4, <1>5, <1>6 DEF IInv, TypeOK
<1>8. total_lines_count(acc') = total_lines_count(acc)
  BY <1>6
<1>9. Len(yielded') + remaining' = total_lines_count(acc')
  BY <1>4, <1>5, <1>8 DEF IInv
<1> QED
  BY <1>7, <1>9 DEF IInv

\* The other outcomes of next leave the lines and the count alone.
LEMMA EndPreserves ==
  ASSUME IInv, UNCHANGED <<acc, side, remaining, yielded>>,
         current' \in {current, None}, pc' \in {"walking", "ended", "panicked"}
  PROVE  IInv'
BY DEF IInv, TypeOK

LEMMA StepIInv == IInv /\ [Next]_vars => IInv'
<1> SUFFICES ASSUME IInv, [Next]_vars PROVE IInv'
  OBVIOUS
<1>1. CASE NextAfterCount
  BY <1>1, EndPreserves DEF NextAfterCount, Ends
<1>2. CASE NextAfterLast
  BY <1>2, EndPreserves DEF NextAfterLast, Ends
<1>3. CASE NextOfEmpty
  BY <1>3, EndPreserves DEF NextOfEmpty, Ends
<1>4. CASE NextOutOfBounds
  BY <1>4, EndPreserves DEF NextOutOfBounds
<1>5. CASE UNCHANGED vars
  BY <1>5, EndPreserves DEF vars, IInv, TypeOK
<1> QED
  BY <1>1, <1>2, <1>3, <1>4, <1>5, YieldPreserves DEF Next

LEMMA AlwaysIInv == Spec => []IInv
BY InitIInv, StepIInv, PTL DEF Spec

-----------------------------------------------------------------------------
\* The iterator's fields keep their types, over any accounts.
THEOREM TypeCorrect == Spec => []TypeOK
<1>1. IInv => TypeOK
  BY DEF IInv
<1> QED
  BY <1>1, AlwaysIInv, PTL

\* Links in cycles, links out of bounds, begins of another moment: the loop of
\* quote is handed at most as many lines as the header counts on the longer
\* side.
THEOREM YieldsWithinCountHolds == Spec => []YieldsWithinCount
<1>1. IInv => YieldsWithinCount
  <2> SUFFICES ASSUME IInv PROVE YieldsWithinCount
    OBVIOUS
  <2>1. Len(yielded) \in Nat /\ remaining \in Nat
    BY DEF IInv, TypeOK
  <2> QED
    BY <2>1 DEF IInv, YieldsWithinCount
<1> QED
  BY <1>1, AlwaysIInv, PTL

-----------------------------------------------------------------------------
\* Any accounts: the line of the slot the iterator is at comes after those it
\* has yielded.
LEMMA YieldAppends ==
  ASSUME IInv, NextYields
  PROVE  /\ SlotAt(current).line \in Line
         /\ LinesYielded' = Append(LinesYielded, SlotAt(current).line)
<1> DEFINE line == SlotAt(current).line
           n    == Len(yielded)
           S    == {SlotAt(yielded[i]).line : i \in 1 .. n} \cup {line}
<1>1. current \in Nat /\ SlotAt(current) \in Slot
  BY DEF IInv, TypeOK, NextYields, InBounds, SlotAt
<1>2. /\ yielded \in Seq(Nat) /\ n \in Nat /\ Len(yielded') = n + 1
      /\ \A i \in 1 .. n + 1 : yielded'[i] = IF i = n + 1 THEN current ELSE yielded[i]
  BY <1>1 DEF IInv, TypeOK, NextYields
<1>3. LinesYielded' = [i \in 1 .. n + 1 |-> IF i = n + 1 THEN line
                                                        ELSE SlotAt(yielded[i]).line]
  BY <1>2 DEF LinesYielded, NextYields, SlotAt
<1>4. /\ LinesYielded \in Seq(S) /\ Len(LinesYielded) = n
      /\ \A i \in 1 .. n : LinesYielded[i] = SlotAt(yielded[i]).line
  BY <1>2 DEF LinesYielded
<1>5. line \in S
  OBVIOUS
<1> HIDE DEF S, line, n
<1>6. /\ Append(LinesYielded, line) \in Seq(S) /\ Len(Append(LinesYielded, line)) = n + 1
      /\ \A i \in 1 .. n : Append(LinesYielded, line)[i] = LinesYielded[i]
      /\ Append(LinesYielded, line)[n + 1] = line
  BY <1>4, <1>5, AppendProperties
<1>7. LinesYielded' \in Seq(S) /\ Len(LinesYielded') = n + 1
  <2>1. \A i \in 1 .. n + 1 : (IF i = n + 1 THEN line ELSE SlotAt(yielded[i]).line) \in S
    BY <1>2, <1>5 DEF S
  <2> QED
    BY <2>1, <1>2, <1>3
<1>8. \A i \in 1 .. n + 1 : LinesYielded'[i] = Append(LinesYielded, line)[i]
  BY <1>2, <1>3, <1>4, <1>6
<1>9. LinesYielded' = Append(LinesYielded, line)
  BY <1>6, <1>7, <1>8, SeqEqual
<1> QED
  BY <1>1, <1>9 DEF line, Slot

-----------------------------------------------------------------------------
\* Over accounts of one moment: the iterator is at the next line of the chain,
\* and the count is never used up before the chain is.
Chain == CHOOSE c \in Chains(acc, side) : IsChain(acc, side, c)
Rungs == Len(acc.ladder[side])

LinkInv ==
  /\ Len(yielded) <= Rungs
  /\ \A i \in 1 .. Len(yielded) : yielded[i] = Chain[i]
  /\ pc # "panicked"
  /\ pc = "walking" => current = IF Len(yielded) < Rungs THEN Chain[Len(yielded) + 1]
                                 ELSE IF Rungs = 0 THEN NULL_ORDER ELSE None
  /\ pc = "ended" => Len(yielded) = Rungs

OneMomentInv == IInv /\ Linked(acc) /\ LinkInv

LEMMA ChainFacts ==
  ASSUME Linked(acc), side \in Side
  PROVE  /\ acc.ladder[side] \in Seq(Line) /\ Rungs \in Nat
         /\ Chain \in Chains(acc, side) /\ IsChain(acc, side, Chain)
<1>1. /\ acc.ladder[side] \in Seq(Line)
      /\ \E c \in Chains(acc, side) : IsChain(acc, side, c)
  BY DEF Linked
<1>2. Chain \in Chains(acc, side) /\ IsChain(acc, side, Chain)
  BY <1>1 DEF Chain
<1> QED
  BY <1>1, <1>2 DEF Rungs

LEMMA ChainSlots ==
  ASSUME Linked(acc), side \in Side, NEW i \in 1 .. Rungs
  PROVE  /\ Chain[i] \in Nat /\ InBounds(Chain[i])
         /\ SlotAt(Chain[i]).line = acc.ladder[side][i]
         /\ SlotAt(Chain[i]).sref # NULL_ORDER
         /\ i < Rungs => SlotAt(Chain[i]).next = Chain[i + 1] /\ Chain[i + 1] # Chain[i]
         /\ i = Rungs => SlotAt(Chain[i]).next \in {NULL_ORDER, Chain[i]}
<1>1. Chain \in Chains(acc, side) /\ IsChain(acc, side, Chain)
  BY ChainFacts
<1>2. Chain[i] \in 0 .. Len(acc.slots) - 1
  BY <1>1 DEF Chains, Rungs
<1> QED
  BY <1>1, <1>2 DEF IsChain, Rungs, InBounds, SlotAt

LEMMA ChainBegin ==
  ASSUME Linked(acc), side \in Side
  PROVE  /\ acc.header.begin[side] = IF Rungs = 0 THEN NULL_ORDER ELSE Chain[1]
         /\ acc.header.count[side] = Rungs
<1>1. /\ IsChain(acc, side, Chain) /\ acc.ladder[side] \in Seq(Line)
  BY ChainFacts
<1>2. acc.ladder[side] = <<>> <=> Rungs = 0
  BY <1>1 DEF Rungs
<1> QED
  BY <1>1, <1>2 DEF IsChain, Rungs

\* The count of the longer side covers the chain.
LEMMA CountCovers ==
  ASSUME IInv, Linked(acc)
  PROVE  remaining \in Nat /\ Len(yielded) \in Nat /\ remaining >= Rungs - Len(yielded)
<1>1. side \in Side /\ remaining \in Nat /\ yielded \in Seq(Nat) /\ acc.header \in Header
  BY DEF IInv, TypeOK
<1>2. acc.header.count[side] = Rungs
  BY <1>1, ChainBegin
<1>3. total_lines_count(acc) >= acc.header.count[side] /\ total_lines_count(acc) \in Nat
  BY <1>1 DEF Header, Side, total_lines_count, Largest
<1>4. Rungs \in Nat
  BY <1>1, ChainFacts
<1> QED
  BY <1>1, <1>2, <1>3, <1>4 DEF IInv

LEMMA InitLinkInv == Init /\ Linked(acc) => OneMomentInv
<1> SUFFICES ASSUME Init, Linked(acc) PROVE OneMomentInv
  OBVIOUS
<1>1. IInv /\ side \in Side
  BY InitIInv DEF Init
<1>2. yielded = <<>> /\ pc = "walking" /\ current = acc.header.begin[side]
  BY DEF Init, IterFrom
<1>3. Len(yielded) = 0 /\ Rungs \in Nat
  BY <1>1, <1>2, ChainFacts
<1> QED
  BY <1>1, <1>2, <1>3, ChainBegin DEF OneMomentInv, LinkInv

\* What next finds, walking: the next rung, or the end of the chain.
LEMMA AtRung ==
  ASSUME OneMomentInv, pc = "walking", current \notin {None, NULL_ORDER}
  PROVE  /\ Len(yielded) \in Nat /\ Rungs \in Nat /\ Len(yielded) < Rungs
         /\ current = Chain[Len(yielded) + 1]
         /\ Len(yielded) + 1 \in 1 .. Rungs
<1>1. Len(yielded) \in Nat /\ Rungs \in Nat
  BY ChainFacts, CountCovers DEF OneMomentInv, IInv, TypeOK
<1> QED
  BY <1>1 DEF OneMomentInv, LinkInv

LEMMA AtEnd ==
  ASSUME OneMomentInv, pc = "walking",
         remaining = 0 \/ current \in {None, NULL_ORDER}
  PROVE  Len(yielded) = Rungs
<1>1. /\ Len(yielded) \in Nat /\ Rungs \in Nat /\ Len(yielded) <= Rungs
      /\ remaining \in Nat /\ remaining >= Rungs - Len(yielded)
  BY ChainFacts, CountCovers DEF OneMomentInv, IInv, TypeOK, LinkInv
<1>2. ASSUME Len(yielded) < Rungs PROVE current \in Nat
  <2>1. Len(yielded) + 1 \in 1 .. Rungs /\ current = Chain[Len(yielded) + 1]
    BY <1>1, <1>2 DEF OneMomentInv, LinkInv
  <2> QED
    BY <2>1, ChainSlots DEF OneMomentInv, IInv, TypeOK
<1> QED
  BY <1>1, <1>2, AccountsAssumption

LEMMA EndLinks ==
  ASSUME OneMomentInv, Ends, Len(yielded) = Rungs
  PROVE  LinkInv'
<1>1. Chain' = Chain /\ Rungs' = Rungs
  BY DEF Ends, Chain, Rungs, Chains, IsChain
<1> QED
  BY <1>1 DEF Ends, OneMomentInv, LinkInv

LEMMA YieldLinks ==
  ASSUME OneMomentInv, NextYields
  PROVE  LinkInv'
<1> DEFINE n == Len(yielded)
<1>1. /\ n \in Nat /\ Rungs \in Nat /\ n < Rungs /\ n + 1 \in 1 .. Rungs
      /\ current = Chain[n + 1]
  BY AtRung DEF NextYields
<1>2. Chain' = Chain /\ Rungs' = Rungs
  BY DEF NextYields, Chain, Rungs, Chains, IsChain
<1>3. yielded \in Seq(Nat) /\ side \in Side /\ Linked(acc)
  BY DEF OneMomentInv, IInv, TypeOK
<1>4. /\ yielded' = Append(yielded, Chain[n + 1]) /\ Chain[n + 1] \in Nat
  BY <1>1, <1>3, ChainSlots DEF NextYields
<1>5. /\ Len(yielded') = n + 1
      /\ \A i \in 1 .. n + 1 : yielded'[i] = IF i = n + 1 THEN Chain[n + 1] ELSE yielded[i]
  BY <1>3, <1>4
<1>6. \A i \in 1 .. n + 1 : yielded'[i] = Chain[i]
  BY <1>5, <1>1 DEF OneMomentInv, LinkInv
<1>7. current' = IF SlotAt(current).next \in {NULL_ORDER, current} THEN None
                 ELSE SlotAt(current).next
  BY DEF NextYields
<1>8. CASE n + 1 < Rungs
  <2>1. SlotAt(current).next = Chain[n + 2] /\ Chain[n + 2] # Chain[n + 1]
    BY <1>1, <1>3, <1>8, ChainSlots
  <2>2. n + 2 \in 1 .. Rungs
    BY <1>1, <1>8
  <2>3. Chain[n + 2] \in Nat
    BY <2>2, <1>3, ChainSlots
  <2>4. current' = Chain[n + 2]
    BY <2>1, <2>3, <1>1, <1>7, AccountsAssumption
  <2> QED
    BY <2>4, <1>1, <1>2, <1>5, <1>6, <1>8 DEF NextYields, LinkInv
<1>9. CASE n + 1 = Rungs
  <2>1. SlotAt(current).next \in {NULL_ORDER, current}
    BY <1>1, <1>3, <1>9, ChainSlots
  <2>2. current' = None
    BY <2>1, <1>7
  <2> QED
    BY <2>2, <1>1, <1>2, <1>5, <1>6, <1>9 DEF NextYields, LinkInv
<1> QED
  BY <1>1, <1>8, <1>9

LEMMA StepLinkInv == OneMomentInv /\ [Next]_vars => OneMomentInv'
<1> SUFFICES ASSUME OneMomentInv, [Next]_vars PROVE OneMomentInv'
  OBVIOUS
<1>1. IInv'
  BY StepIInv DEF OneMomentInv
<1>2. acc' = acc /\ side' = side
  BY DEF Next, vars, NextAfterCount, NextAfterLast, NextOfEmpty, NextOutOfBounds,
         NextYields, Ends
<1>3. Linked(acc)'
  BY <1>2 DEF OneMomentInv, Linked, Chains, IsChain
<1>4. ASSUME NextAfterCount \/ NextAfterLast \/ NextOfEmpty PROVE LinkInv'
  <2>1. Ends /\ (remaining = 0 \/ current \in {None, NULL_ORDER})
    BY <1>4 DEF NextAfterCount, NextAfterLast, NextOfEmpty
  <2>2. Len(yielded) = Rungs
    BY <2>1, AtEnd DEF Ends
  <2> QED
    BY <2>1, <2>2, EndLinks
<1>5. ASSUME NextOutOfBounds PROVE FALSE
  <2>1. Len(yielded) + 1 \in 1 .. Rungs /\ current = Chain[Len(yielded) + 1]
    BY <1>5, AtRung DEF NextOutOfBounds
  <2>2. InBounds(current)
    BY <2>1, ChainSlots DEF OneMomentInv, IInv, TypeOK
  <2> QED
    BY <1>5, <2>2 DEF NextOutOfBounds
<1>6. ASSUME NextYields PROVE LinkInv'
  BY <1>6, YieldLinks
<1>7. ASSUME UNCHANGED vars PROVE LinkInv'
  <2>1. Chain' = Chain /\ Rungs' = Rungs
    BY <1>2 DEF Chain, Rungs, Chains, IsChain
  <2> QED
    BY <1>7, <2>1 DEF vars, OneMomentInv, LinkInv
<1>8. LinkInv'
  BY <1>4, <1>5, <1>6, <1>7 DEF Next
<1> QED
  BY <1>1, <1>3, <1>8 DEF OneMomentInv

LEMMA AlwaysLinkInv == Linked(acc) /\ Spec => []OneMomentInv
BY InitLinkInv, StepLinkInv, PTL DEF Spec

\* What begin finds there: the line the ladder begins with.
LEMMA BeginFacts ==
  ASSUME OneMomentInv
  PROVE  /\ acc.ladder[side] \in Seq(Line)
         /\ acc.ladder[side] = <<>> => begin(side) = None
         /\ acc.ladder[side] # <<>> => /\ begin(side) # None
                                       /\ SlotAt(begin(side)).line = Head(acc.ladder[side])
<1>1. /\ side \in Side /\ Linked(acc) /\ Rungs \in Nat /\ acc.ladder[side] \in Seq(Line)
      /\ Rungs = Len(acc.ladder[side])
  BY ChainFacts DEF OneMomentInv, IInv, TypeOK, Rungs
<1>2. acc.header.begin[side] = IF Rungs = 0 THEN NULL_ORDER ELSE Chain[1]
  BY <1>1, ChainBegin
<1>3. acc.ladder[side] = <<>> <=> Rungs = 0
  BY <1>1
<1>4. CASE Rungs = 0
  <2>1. ~InBounds(NULL_ORDER)
    BY AccountsAssumption DEF InBounds
  <2> QED
    BY <2>1, <1>1, <1>2, <1>4, <1>3 DEF begin
<1>5. CASE Rungs # 0
  <2>1. 1 \in 1 .. Rungs /\ acc.ladder[side] # <<>>
    BY <1>1, <1>5
  <2>2. /\ InBounds(Chain[1]) /\ SlotAt(Chain[1]).sref # NULL_ORDER /\ Chain[1] \in Nat
        /\ SlotAt(Chain[1]).line = acc.ladder[side][1]
    BY <2>1, <1>1, ChainSlots
  <2>3. begin(side) = Chain[1]
    BY <2>2, <1>2, <1>5 DEF begin
  <2> QED
    BY <2>1, <2>2, <2>3, <1>1, AccountsAssumption
<1> QED
  BY <1>4, <1>5

\* The entry test and the loop see the same first line, however long the chain
\* is and wherever the account keeps it.
THEOREM FirstYieldIsBeginHolds == Linked(acc) /\ Spec => []FirstYieldIsBegin
<1>1. OneMomentInv => FirstYieldIsBegin
  <2> SUFFICES ASSUME OneMomentInv PROVE FirstYieldIsBegin
    OBVIOUS
  <2>1. /\ side \in Side /\ Linked(acc) /\ yielded \in Seq(Nat) /\ Rungs \in Nat
        /\ Len(yielded) <= Rungs
    BY ChainFacts DEF OneMomentInv, LinkInv, IInv, TypeOK
  <2>2. acc.header.begin[side] = IF Rungs = 0 THEN NULL_ORDER ELSE Chain[1]
    BY <2>1, ChainBegin
  <2>3. ASSUME yielded # <<>> PROVE yielded[1] = begin(side)
    <3>1. 1 \in 1 .. Len(yielded) /\ 1 \in 1 .. Rungs
      BY <2>1, <2>3
    <3>2. yielded[1] = Chain[1]
      BY <3>1 DEF OneMomentInv, LinkInv
    <3>3. InBounds(Chain[1]) /\ SlotAt(Chain[1]).sref # NULL_ORDER
      BY <3>1, <2>1, ChainSlots
    <3> QED
      BY <3>1, <3>2, <3>3, <2>1, <2>2 DEF begin
  <2>4. ASSUME pc = "ended", yielded = <<>> PROVE begin(side) = None
    <3>1. Rungs = 0
      BY <2>4 DEF OneMomentInv, LinkInv
    <3>2. ~InBounds(NULL_ORDER)
      BY AccountsAssumption DEF InBounds
    <3> QED
      BY <3>1, <3>2, <2>2 DEF begin
  <2> QED
    BY <2>3, <2>4 DEF FirstYieldIsBegin
<1> QED
  BY <1>1, AlwaysLinkInv, PTL

-----------------------------------------------------------------------------
\* The lines yielded are a prefix of the ladder.
LEMMA YieldedPrefix ==
  ASSUME OneMomentInv
  PROVE  LinesYielded = SubSeq(acc.ladder[side], 1, Len(yielded))
<1>1. /\ side \in Side /\ Linked(acc) /\ yielded \in Seq(Nat) /\ Rungs \in Nat
      /\ Len(yielded) <= Rungs /\ Len(yielded) \in Nat
  BY ChainFacts DEF OneMomentInv, LinkInv, IInv, TypeOK
<1>2. \A i \in 1 .. Len(yielded) : SlotAt(yielded[i]).line = acc.ladder[side][i]
  <2> SUFFICES ASSUME NEW i \in 1 .. Len(yielded)
               PROVE  SlotAt(yielded[i]).line = acc.ladder[side][i]
    OBVIOUS
  <2>1. i \in 1 .. Rungs /\ yielded[i] = Chain[i]
    BY <1>1 DEF OneMomentInv, LinkInv
  <2> QED
    BY <2>1, <1>1, ChainSlots
<1>3. acc.ladder[side] \in Seq(Line)
  BY <1>1, ChainFacts
<1>4. SubSeq(acc.ladder[side], 1, Len(yielded))
        = [i \in 1 .. Len(yielded) |-> acc.ladder[side][i]]
  BY <1>1, <1>3 DEF Rungs
<1> QED
  BY <1>2, <1>4 DEF LinesYielded

LEMMA YieldedPrefixNext ==
  OneMomentInv' => (LinesYielded = SubSeq(acc.ladder[side], 1, Len(yielded)))'
BY YieldedPrefix, PTL

LEMMA WalkStep ==
  ASSUME OneMomentInv, OneMomentInv', [Next]_vars
  PROVE  [Walk!Give]_<<LinesYielded, SubSeq(acc.ladder[side], Len(yielded) + 1, Rungs)>>
<1> DEFINE lines == acc.ladder[side]
           n     == Len(yielded)
<1>1. CASE NextYields
  <2>1. /\ n \in Nat /\ Rungs \in Nat /\ n < Rungs /\ yielded \in Seq(Nat)
        /\ lines \in Seq(Line) /\ Rungs = Len(lines)
    BY <1>1, AtRung, ChainFacts DEF NextYields, OneMomentInv, IInv, TypeOK, Rungs
  <2>2. /\ lines' = lines /\ Rungs' = Rungs /\ Len(yielded') = n + 1
    BY <1>1, <2>1 DEF NextYields, Rungs, OneMomentInv, IInv, TypeOK
  <2>3. /\ LinesYielded = SubSeq(lines, 1, n)
        /\ LinesYielded' = SubSeq(lines, 1, n + 1)
    BY <2>2, YieldedPrefix, YieldedPrefixNext
  <2> HIDE DEF lines, n
  <2>4. n + 1 \in 1 .. Len(lines) /\ Rungs \in n + 1 .. Len(lines)
    BY <2>1
  <2>5. Len(SubSeq(lines, n + 1, Rungs)) = Rungs - n
    BY <2>1, <2>4
  <2>6. /\ SubSeq(lines, n + 1, Rungs) # <<>>
        /\ Head(SubSeq(lines, n + 1, Rungs)) = lines[n + 1]
        /\ Tail(SubSeq(lines, n + 1, Rungs)) = SubSeq(lines, n + 2, Rungs)
    <3>1. (n + 1) + 1 = n + 2
      BY <2>1
    <3>2. SubSeq(lines, n + 1, Rungs) # <<>>
      <4>1. Len(SubSeq(lines, n + 1, Rungs)) # 0
        BY <2>1, <2>5
      <4>2. \A t : t = <<>> => Len(t) = 0
        OBVIOUS
      <4> QED
        BY <4>1, <4>2, Zenon
    <3> QED
      BY <2>1, <2>4, <3>1, <3>2, HeadTailOfSubSeq
  <2>7. SubSeq(lines, 1, n + 1) = Append(SubSeq(lines, 1, n), lines[n + 1])
    <3>1. SubSeq(lines, 1, n + 1) = SubSeq(lines, 1, n) \o <<lines[n + 1]>>
      <4>1. 1 \in 1 .. Len(lines) /\ n + 1 \in 1 .. Len(lines) /\ (n + 1) - 1 = n
        BY <2>1, <2>4
      <4> QED
        BY <2>1, <4>1, SubSeqRecursiveSecond
    <3>2. SubSeq(lines, 1, n) \in Seq(Line) /\ lines[n + 1] \in Line
      BY <2>1, <2>4
    <3> QED
      BY <3>1, <3>2, AppendIsConcat
  <2>8. LinesYielded' = Append(LinesYielded, Head(SubSeq(lines, n + 1, Rungs)))
    BY <2>3, <2>6, <2>7
  <2>9. SubSeq(lines', Len(yielded') + 1, Rungs') = Tail(SubSeq(lines, n + 1, Rungs))
    <3>1. Len(yielded') + 1 = n + 2
      BY <2>1, <2>2
    <3> QED
      BY <2>2, <2>6, <3>1
  <2> QED
    BY <2>1, <2>2, <2>6, <2>8, <2>9 DEF Walk!Give, lines, n, Rungs
<1>2. CASE UNCHANGED <<acc, side, yielded>>
  BY <1>2 DEF LinesYielded, SlotAt, Rungs
<1> QED
  BY <1>1, <1>2 DEF Next, vars, NextAfterCount, NextAfterLast, NextOfEmpty,
                    NextOutOfBounds, Ends

\* Over accounts of one moment the iterator hands out the ladder of its side,
\* each line once and in order: the safety part of WalksTheLadder.
THEOREM WalksInOrder == Linked(acc) /\ Spec => Walk!Safety
<1>1. Init /\ Linked(acc) => Walk!Init
  <2> SUFFICES ASSUME Init, Linked(acc) PROVE Walk!Init
    OBVIOUS
  <2>1. yielded = <<>> /\ Len(yielded) = 0 /\ side \in Side
    BY DEF Init, IterFrom
  <2>2. LinesYielded = <<>>
    BY <2>1 DEF LinesYielded
  <2>3. acc.ladder[side] \in Seq(Line) /\ Rungs \in Nat
    BY <2>1, ChainFacts
  <2>4. SubSeq(acc.ladder[side], Len(yielded) + 1, Len(acc.ladder[side])) \in Seq(Line)
    BY <2>1, <2>3 DEF Rungs
  <2> QED
    BY <2>2, <2>4 DEF Walk!Init
<1> QED
  BY <1>1, AlwaysLinkInv, WalkStep, PTL DEF Spec, Walk!Safety, Rungs

\* And it never stops short of the last line, nor panics on the way.
THEOREM EndsBehindTheLast ==
  Linked(acc) /\ Spec
    => [](pc # "panicked" /\ (pc = "ended" => LinesYielded = acc.ladder[side]))
<1>1. OneMomentInv => pc # "panicked" /\ (pc = "ended" => LinesYielded = acc.ladder[side])
  <2> SUFFICES ASSUME OneMomentInv, pc = "ended"
               PROVE  LinesYielded = acc.ladder[side]
    BY DEF OneMomentInv, LinkInv
  <2>1. acc.ladder[side] \in Seq(Line) /\ Len(yielded) = Len(acc.ladder[side])
    BY ChainFacts DEF OneMomentInv, LinkInv, IInv, TypeOK, Rungs
  <2> QED
    BY <2>1, YieldedPrefix
<1> QED
  BY <1>1, AlwaysLinkInv, PTL
=============================================================================
