--------------------------- MODULE AdapterProofs ----------------------------
(***************************************************************************)
(* What the copies of the adapter may mix, for every number of slots and   *)
(* every set of faults: theorems about module Adapter.                     *)
(***************************************************************************)
EXTENDS Adapter, TLAPS

\* Between a complete update and the next round the map is still the one whose
\* accounts the instance holds.
HoldsTheMap ==
  result = "ok" /\ pc = "idle" =>
    \A f \in Field : Source[f] \in DOMAIN map /\ own[f] = map[Source[f]].slot

\* The inductive invariant.
IInv ==
  /\ TypeOK
  /\ BookAndPoolOfOneHeader
  /\ PriceAndPoolPartOnlyAfterFailure
  /\ LiquidityComesLast
  /\ HoldsTheMap

\* The book's part of the header and the pool are assigned by the same read;
\* the header and the pool are assigned by a complete update.
LEMMA Assigned ==
  /\ DOMAIN AssignedAfter = Field
  /\ \A f \in Field : AssignedAfter[f] \in 1 .. Len(Reads)
  /\ AssignedAfter["book"] = AssignedAfter["amm"]
  /\ Source["book"] = "instr_header" /\ Source["amm"] = "instr_header"
  /\ Source["instr_header"] = "instr_header"
  /\ "book" \in Field /\ "amm" \in Field /\ "instr_header" \in Field
BY DEF AssignedAfter, Field, Source, Reads

\* A field is assigned after the read of the account it comes from.
LEMMA ReadBeforeAssigned ==
  \A f \in Field : \E i \in 1 .. AssignedAfter[f] : Reads[i] = Source[f]
BY DEF Field, Source, AssignedAfter, Reads

\* After n complete reads the instance holds slots that were read.
LEMMA AfterType ==
  ASSUME TypeOK, NEW n \in 0 .. Len(Reads), Completes(n)
  PROVE  After(n) \in [Field -> 0 .. MaxSlot]
<1> SUFFICES ASSUME NEW f \in Field
             PROVE  (IF AssignedAfter[f] <= n THEN map[Source[f]].slot ELSE own[f])
                      \in 0 .. MaxSlot
    BY DEF After
<1>1. CASE AssignedAfter[f] <= n
  <2>1. PICK i \in 1 .. AssignedAfter[f] : Reads[i] = Source[f]
      BY ReadBeforeAssigned
  <2>2. i \in 1 .. n
      BY <1>1, Assigned, Len(Reads) \in Nat DEF Reads
  <2>3. Source[f] \in DOMAIN map
      BY <2>1, <2>2 DEF Completes, Missing
  <2>4. map[Source[f]].slot \in 1 .. MaxSlot
      BY <2>3 DEF TypeOK
  <2> QED BY <1>1, <2>4
<1>2. CASE ~(AssignedAfter[f] <= n)
    BY <1>2 DEF TypeOK
<1> QED BY <1>1, <1>2

\* Book and pool agree after any number of reads.
LEMMA AfterBookAndPool ==
  ASSUME BookAndPoolOfOneHeader, NEW n \in 0 .. Len(Reads)
  PROVE  After(n)["book"] = After(n)["amm"]
BY Assigned DEF After, BookAndPoolOfOneHeader

\* Header and pool agree after all reads.
LEMMA AfterAll == After(Len(Reads))["instr_header"] = After(Len(Reads))["amm"]
<1>1. /\ AssignedAfter["instr_header"] <= Len(Reads)
      /\ AssignedAfter["amm"] <= Len(Reads)
    BY Assigned, Len(Reads) \in Nat DEF Reads
<1> QED BY <1>1, Assigned DEF After

\* After all reads every field is the copy of its account in the map.
LEMMA AfterHoldsTheMap ==
  ASSUME Completes(Len(Reads)), NEW f \in Field
  PROVE  Source[f] \in DOMAIN map /\ After(Len(Reads))[f] = map[Source[f]].slot
<1>1. PICK i \in 1 .. AssignedAfter[f] : Reads[i] = Source[f]
    BY ReadBeforeAssigned
<1>2. i \in 1 .. Len(Reads) /\ AssignedAfter[f] <= Len(Reads)
    BY Assigned, Len(Reads) \in Nat DEF Reads
<1>3. Source[f] \in DOMAIN map
    BY <1>1, <1>2 DEF Completes, Missing
<1> QED BY <1>2, <1>3 DEF After

\* What a partial update has assigned includes all that comes before the pool.
LEMMA AfterLiquidity ==
  ASSUME TypeOK, LiquidityComesLast, NEW n \in 0 .. Len(Reads), Completes(n),
         After(n)["amm"] # 0,
         NEW f \in {"instr_header", "a_token_state", "b_token_state", "fee_rate_factor"}
  PROVE  After(n)[f] # 0
<1>1. f \in Field /\ "amm" \in Field /\ AssignedAfter[f] <= AssignedAfter["amm"]
    BY DEF Field, Source, AssignedAfter
<1>2. CASE AssignedAfter[f] <= n
  <2>1. PICK i \in 1 .. AssignedAfter[f] : Reads[i] = Source[f]
      BY <1>1, ReadBeforeAssigned
  <2>2. i \in 1 .. n
      BY <1>1, <1>2, Assigned, Len(Reads) \in Nat DEF Reads
  <2>3. Source[f] \in DOMAIN map
      BY <2>1, <2>2 DEF Completes, Missing
  <2>4. map[Source[f]].slot \in 1 .. MaxSlot
      BY <2>3 DEF TypeOK
  <2> QED BY <1>1, <1>2, <2>4 DEF After
<1>3. CASE ~(AssignedAfter[f] <= n)
  <2>1. ~(AssignedAfter["amm"] <= n)
      BY <1>1, <1>3, Assigned, Len(Reads) \in Nat DEF Reads
  <2>2. After(n)["amm"] = own["amm"] /\ After(n)[f] = own[f]
      BY <1>1, <1>3, <2>1 DEF After
  <2> QED BY <2>2 DEF LiquidityComesLast
<1> QED BY <1>2, <1>3

LEMMA InitIInv == Init => IInv
<1> SUFFICES ASSUME Init PROVE IInv
    OBVIOUS
<1>1. TypeOK
  <2>1. to_fetch \in Seq(Account)
      BY DEF Init
  <2>2. DOMAIN map = {}
      BY DEF Init
  <2> QED BY <2>1, <2>2, AdapterAssumption DEF Init, TypeOK
<1>2. /\ BookAndPoolOfOneHeader /\ PriceAndPoolPartOnlyAfterFailure /\ HoldsTheMap
      /\ LiquidityComesLast
    BY Assigned DEF Init, BookAndPoolOfOneHeader, PriceAndPoolPartOnlyAfterFailure,
       HoldsTheMap, LiquidityComesLast
<1> QED BY <1>1, <1>2 DEF IInv

LEMMA StepIInv == IInv /\ [Next]_vars => IInv'
<1> SUFFICES ASSUME IInv, [Next]_vars PROVE IInv'
    OBVIOUS
<1> USE DEF IInv
<1>1. CASE Write
    BY <1>1, AdapterAssumption DEF Write, TypeOK, BookAndPoolOfOneHeader,
       PriceAndPoolPartOnlyAfterFailure, HoldsTheMap, LiquidityComesLast
<1>2. CASE FromKeyedAccount
  <2>1. slot \in 0 .. MaxSlot /\ 0 \in 0 .. MaxSlot
      BY AdapterAssumption DEF TypeOK
  <2>2. own' \in [Field -> 0 .. MaxSlot]
      BY <1>2, <2>1 DEF FromKeyedAccount
  <2>3. TypeOK'
      BY <1>2, <2>2 DEF FromKeyedAccount, TypeOK
  <2>4. BookAndPoolOfOneHeader'
      BY <1>2, Assigned DEF FromKeyedAccount, BookAndPoolOfOneHeader
  <2>5. PriceAndPoolPartOnlyAfterFailure'
      BY <1>2 DEF FromKeyedAccount, PriceAndPoolPartOnlyAfterFailure
  <2>6. HoldsTheMap'
      BY <1>2 DEF FromKeyedAccount, HoldsTheMap
  <2>7. LiquidityComesLast'
      BY <1>2, Assigned DEF FromKeyedAccount, LiquidityComesLast
  <2> QED BY <2>3, <2>4, <2>5, <2>6, <2>7
<1>3. CASE StartRound
  <2>1. accounts_ctx \in Seq(Account)
      BY DEF accounts_ctx, Account
  <2>2. DOMAIN map' = {}
      BY <1>3 DEF StartRound
  <2> QED BY <1>3, <2>1, <2>2 DEF StartRound, get_accounts_to_update, TypeOK,
          BookAndPoolOfOneHeader, PriceAndPoolPartOnlyAfterFailure, HoldsTheMap, LiquidityComesLast
<1>4. CASE FetchSome
  <2>1. PICK n \in 1 .. Len(to_fetch) :
          LET present == {to_fetch[i] : i \in 1 .. n} \ faults.missing
          IN  /\ map' = [acc \in DOMAIN map \cup present |->
                           IF acc \in present
                           THEN [slot |-> slot, whole |-> acc \notin faults.short]
                           ELSE map[acc]]
              /\ to_fetch' = SubSeq(to_fetch, n + 1, Len(to_fetch))
      BY <1>4 DEF FetchSome
  <2>2. to_fetch' \in Seq(Account)
      BY <2>1 DEF TypeOK
  <2>3. {to_fetch[i] : i \in 1 .. n} \subseteq Account
      BY DEF TypeOK
  <2>4. DOMAIN map' \subseteq Account
      BY <2>1, <2>3 DEF TypeOK
  <2>5. \A acc \in DOMAIN map' : map'[acc] \in [slot : 1 .. MaxSlot, whole : BOOLEAN]
      BY <2>1 DEF TypeOK
  <2>6. TypeOK'
      BY <1>4, <2>2, <2>4, <2>5 DEF FetchSome, TypeOK
  <2> QED BY <1>4, <2>6 DEF FetchSome, BookAndPoolOfOneHeader,
          PriceAndPoolPartOnlyAfterFailure, HoldsTheMap, LiquidityComesLast
<1>5. CASE UpdateSucceeds
  <2>1. Completes(Len(Reads)) /\ own' = After(Len(Reads)) /\ Len(Reads) \in 0 .. Len(Reads)
      BY <1>5 DEF UpdateSucceeds, Reads
  <2>2. own' \in [Field -> 0 .. MaxSlot]
      BY <2>1, AfterType
  <2>3. TypeOK'
      BY <1>5, <2>2 DEF UpdateSucceeds, TypeOK
  <2>4. BookAndPoolOfOneHeader'
      BY <2>1, AfterBookAndPool DEF BookAndPoolOfOneHeader
  <2>5. PriceAndPoolPartOnlyAfterFailure'
      BY <2>1, AfterAll DEF PriceAndPoolPartOnlyAfterFailure
  <2>6. HoldsTheMap'
      BY <1>5, <2>1, AfterHoldsTheMap DEF UpdateSucceeds, HoldsTheMap
  <2>7. LiquidityComesLast'
      BY <2>1, AfterLiquidity DEF LiquidityComesLast
  <2> QED BY <2>3, <2>4, <2>5, <2>6, <2>7
<1>6. CASE UpdateFails
  <2>1. PICK i \in DOMAIN Reads : Completes(i - 1) /\ own' = After(i - 1)
      BY <1>6 DEF UpdateFails
  <2>2. i - 1 \in 0 .. Len(Reads)
      BY <2>1 DEF Reads
  <2>3. own' \in [Field -> 0 .. MaxSlot]
      BY <2>1, <2>2, AfterType
  <2>4. TypeOK'
      BY <1>6, <2>3 DEF UpdateFails, TypeOK
  <2>5. BookAndPoolOfOneHeader'
      BY <2>1, <2>2, AfterBookAndPool DEF BookAndPoolOfOneHeader
  <2>6. PriceAndPoolPartOnlyAfterFailure'
      BY <1>6 DEF UpdateFails, PriceAndPoolPartOnlyAfterFailure
  <2>7. HoldsTheMap'
      BY <1>6 DEF UpdateFails, HoldsTheMap
  <2>8. LiquidityComesLast'
      BY <2>1, <2>2, AfterLiquidity DEF LiquidityComesLast
  <2> QED BY <2>4, <2>5, <2>6, <2>7, <2>8
<1>7. CASE UpdatePanics
    BY <1>7, AdapterAssumption, Assigned DEF UpdatePanics, TypeOK, BookAndPoolOfOneHeader,
       PriceAndPoolPartOnlyAfterFailure, HoldsTheMap, LiquidityComesLast
<1>8. CASE UNCHANGED vars
    BY <1>8 DEF vars, TypeOK, BookAndPoolOfOneHeader, PriceAndPoolPartOnlyAfterFailure,
       HoldsTheMap, LiquidityComesLast
<1> QED BY <1>1, <1>2, <1>3, <1>4, <1>5, <1>6, <1>7, <1>8 DEF Next

LEMMA AlwaysIInv == Spec => []IInv
BY InitIInv, StepIInv, PTL DEF Spec

\* Instance, account map and pending addresses keep their types: whatever of
\* update has run, every copy is of a slot of the chain or of none.
THEOREM TypeCorrect == Spec => []TypeOK
BY AlwaysIInv, PTL DEF IInv

\* However updates stop, order book and pool were built from one header.
THEOREM BookAndPoolHolds == Spec => []BookAndPoolOfOneHeader
BY AlwaysIInv, PTL DEF IInv

\* Limit price and pool differ in age only while the last update has failed or
\* none has succeeded.
THEOREM PriceAndPoolHolds == Spec => []PriceAndPoolPartOnlyAfterFailure
BY AlwaysIInv, PTL DEF IInv

\* An instance with something to quote against knows its currency and its fee.
THEOREM LiquidityComesLastHolds == Spec => []LiquidityComesLast
BY AlwaysIInv, PTL DEF IInv

\* A complete update from accounts of one slot leaves nothing from before.
THEOREM OneFetchHolds == Spec => []OneFetchOneSlot
<1>1. IInv => OneFetchOneSlot
  <2> SUFFICES ASSUME IInv, result = "ok", pc = "idle",
                      \A x, y \in DOMAIN map : map[x].slot = map[y].slot,
                      NEW f \in Field
               PROVE  own[f] = map["lines"].slot
      BY DEF OneFetchOneSlot
  <2>1. "lines" \in Field /\ Source["lines"] = "lines"
      BY DEF Field, Source
  <2>2. Source[f] \in DOMAIN map /\ own[f] = map[Source[f]].slot /\ "lines" \in DOMAIN map
      BY <2>1 DEF IInv, HoldsTheMap
  <2> QED BY <2>2
<1> QED BY <1>1, AlwaysIInv, PTL

-----------------------------------------------------------------------------
\* What the reads of an instance have in common, in whatever order of successes
\* and failures: the header comes before the token states, before the first
\* update there is the header alone, and after a complete one there is all.
ReadsInOrder ==
  /\ own["a_token_state"] # 0 => own["instr_header"] # 0
  /\ result = "never" => own["a_token_state"] = 0
  /\ result = "ok" => \A f \in Field : own[f] # 0

LEMMA OrderPreserved == IInv /\ ReadsInOrder /\ [Next]_vars => ReadsInOrder'
<1> SUFFICES ASSUME IInv, ReadsInOrder, [Next]_vars PROVE ReadsInOrder'
    OBVIOUS
<1>0. /\ "a_token_state" \in Field /\ "instr_header" \in Field
      /\ AssignedAfter["instr_header"] = 1 /\ AssignedAfter["a_token_state"] = 2
      /\ Source["instr_header"] = "instr_header" /\ Reads[1] = "instr_header"
    BY DEF Field, Source, AssignedAfter, Reads
<1>1. CASE Write \/ StartRound \/ FetchSome \/ UNCHANGED vars
    BY <1>1 DEF Write, StartRound, FetchSome, vars, ReadsInOrder
<1>2. CASE FromKeyedAccount
    BY <1>0, <1>2 DEF FromKeyedAccount, ReadsInOrder
<1>3. CASE UpdateSucceeds
  <2>1. Completes(Len(Reads)) /\ own' = After(Len(Reads)) /\ result' = "ok"
      BY <1>3 DEF UpdateSucceeds
  <2>2. ASSUME NEW f \in Field PROVE own'[f] # 0
    <3>1. Source[f] \in DOMAIN map /\ own'[f] = map[Source[f]].slot
        BY <2>1, AfterHoldsTheMap
    <3>2. map[Source[f]].slot \in 1 .. MaxSlot
        BY <3>1 DEF IInv, TypeOK
    <3> QED BY <3>1, <3>2
  <2> QED BY <1>0, <2>1, <2>2 DEF ReadsInOrder
<1>4. CASE UpdateFails
  <2>1. PICK i \in DOMAIN Reads : Completes(i - 1) /\ own' = After(i - 1)
      BY <1>4 DEF UpdateFails
  <2>2. result' = "failed" /\ i \in Nat /\ 1 <= i
      BY <1>4, DOMAIN Reads = 1 .. 7 DEF UpdateFails, Reads
  <2>3. CASE i - 1 = 0
    <3>1. own'["a_token_state"] = own["a_token_state"]
          /\ own'["instr_header"] = own["instr_header"]
        BY <1>0, <2>1, <2>3 DEF After
    <3> QED BY <3>1, <2>2 DEF ReadsInOrder
  <2>4. CASE i - 1 # 0
    <3>1. 1 <= i - 1
        BY <2>2, <2>4
    <3>2. own'["instr_header"] = map["instr_header"].slot
        BY <1>0, <2>1, <3>1 DEF After
    <3>3. "instr_header" \in DOMAIN map
        BY <1>0, <2>1, <2>2, <3>1 DEF Completes, Missing
    <3>4. map["instr_header"].slot \in 1 .. MaxSlot
        BY <3>3 DEF IInv, TypeOK
    <3> QED BY <2>2, <3>2, <3>4 DEF ReadsInOrder
  <2> QED BY <2>3, <2>4
<1>5. CASE UpdatePanics
    BY <1>0, <1>5 DEF UpdatePanics, ReadsInOrder
<1> QED BY <1>1, <1>2, <1>3, <1>4, <1>5 DEF Next

LEMMA AlwaysInOrder == Spec => [](IInv /\ ReadsInOrder)
<1>1. Init => IInv /\ ReadsInOrder
  <2>1. Init => ReadsInOrder
      BY DEF Init, ReadsInOrder, Field, Source
  <2> QED BY <2>1, InitIInv
<1>2. IInv /\ ReadsInOrder /\ [Next]_vars => (IInv /\ ReadsInOrder)'
    BY StepIInv, OrderPreserved
<1> QED BY <1>1, <1>2, PTL DEF Spec

-----------------------------------------------------------------------------
\* An account of the instruction: only a token program may be unread.
MarketName ==
  {"token_transfer_authority", "root", "instr_header", "bids_tree", "asks_tree",
   "bid_orders", "ask_orders", "lines", "maps", "client_infos", "client_infos2",
   "candles_1m", "candles_15m", "candles_day", "community_acc", "a_mint", "b_mint",
   "a_token_state_acc", "b_token_state_acc", "drv_auth", "system_program",
   "associated_token_program"}
TokenName == {"a_program_address", "b_program_address", "a_program_id", "b_program_id"}
Metas == [account : MarketName \cup TokenName \cup ({"wallet"} \X Mint), read_at : Nat]
Sound(m) ==
  m.read_at = 0 => m.account \in {"a_program_id", "b_program_id"} /\ result # "ok"
SoundSeq(s) == s \in Seq(Metas) /\ \A i \in 1 .. Len(s) : Sound(s[i])

LEMMA JoinSound ==
  ASSUME NEW s, SoundSeq(s), NEW t, SoundSeq(t)
  PROVE  /\ SoundSeq(s \o t)
         /\ Len(s \o t) = Len(s) + Len(t) /\ Len(s) \in Nat /\ Len(t) \in Nat
         /\ \A i \in 1 .. Len(s) : (s \o t)[i] = s[i]
         /\ \A i \in 1 .. Len(t) : (s \o t)[Len(s) + i] = t[i]
<1>1. /\ s \o t \in Seq(Metas) /\ Len(s \o t) = Len(s) + Len(t)
      /\ Len(s) \in Nat /\ Len(t) \in Nat
    BY DEF SoundSeq
<1>2. \A i \in 1 .. Len(s) : (s \o t)[i] = s[i]
    BY DEF SoundSeq
<1>3. \A i \in 1 .. Len(t) : (s \o t)[Len(s) + i] = t[i]
    BY DEF SoundSeq
<1>4. ASSUME NEW i \in 1 .. Len(s \o t) PROVE Sound((s \o t)[i])
  <2>1. CASE i <= Len(s)
      BY <1>1, <1>2, <2>1 DEF SoundSeq
  <2>2. CASE ~(i <= Len(s))
    <3>1. i - Len(s) \in 1 .. Len(t) /\ Len(s) + (i - Len(s)) = i
        BY <1>1, <2>2
    <3>2. (s \o t)[i] = t[i - Len(s)]
        BY <3>1, <1>3
    <3> QED BY <3>1, <3>2 DEF SoundSeq
  <2> QED BY <2>1, <2>2
<1> QED BY <1>1, <1>2, <1>3, <1>4 DEF SoundSeq

\* The accounts taken or derived from a header that has been read.
LEMMA OfMarketSound ==
  ASSUME own["instr_header"] \in Nat \ {0}, NEW names \in Seq(MarketName)
  PROVE  SoundSeq(OfMarket(names)) /\ Len(OfMarket(names)) = Len(names)
<1>1. OfMarket(names) = [i \in 1 .. Len(names) |-> Meta(names[i], own["instr_header"])]
    BY DEF OfMarket
<1>2. ASSUME NEW i \in 1 .. Len(names)
      PROVE  /\ Meta(names[i], own["instr_header"]) \in Metas
             /\ Sound(Meta(names[i], own["instr_header"]))
    BY DEF Meta, Metas, MarketName, TokenName, Sound
<1>3. OfMarket(names) \in Seq(Metas) /\ Len(OfMarket(names)) = Len(names)
    BY <1>1, <1>2
<1> QED BY <1>1, <1>2, <1>3 DEF SoundSeq

LEMMA PairSound ==
  ASSUME NEW x \in Metas, Sound(x), NEW y \in Metas, Sound(y)
  PROVE  /\ SoundSeq(<<x, y>>) /\ Len(<<x, y>>) = 2
         /\ <<x, y>>[1] = x /\ <<x, y>>[2] = y
BY DEF SoundSeq

\* A swap that is not refused is one between the two tokens of the market, and
\* an instance that knows both has read the header.
LEMMA KnowsItsTokens ==
  ASSUME IInv, ReadsInOrder, NEW source \in Mint, NEW destination \in Mint,
         swap_side(source, destination) # "refused"
  PROVE  /\ own["a_token_state"] \in Nat \ {0} /\ own["b_token_state"] \in Nat \ {0}
         /\ own["instr_header"] \in Nat \ {0} /\ result # "never"
         /\ \/ source = "B" /\ destination = "A"
               /\ swap_side(source, destination) = "Bid" /\ quote_side(source) = "Bid"
            \/ source = "A" /\ destination = "B"
               /\ swap_side(source, destination) = "Ask" /\ quote_side(source) = "Ask"
<1>1. /\ "a_token_state" \in Field /\ "b_token_state" \in Field
      /\ "instr_header" \in Field
    BY DEF Field, Source
<1>2. /\ own["a_token_state"] \in Nat /\ own["b_token_state"] \in Nat
      /\ own["instr_header"] \in Nat
    BY <1>1, AdapterAssumption DEF IInv, TypeOK
<1>3. own["a_token_state"] # 0 /\ own["b_token_state"] # 0
    BY DEF swap_side, a_address, b_address, Mint
<1>4. own["instr_header"] # 0 /\ result # "never"
    BY <1>3 DEF ReadsInOrder
<1>5. a_address = "A" /\ b_address = "B"
    BY <1>3 DEF a_address, b_address
<1>6. \/ source = "B" /\ destination = "A"
      \/ source = "A" /\ destination = "B"
    BY <1>5 DEF swap_side
<1> QED BY <1>2, <1>3, <1>4, <1>5, <1>6 DEF swap_side, quote_side

\* The account list: sound in every place, and the wallets behind the 21
\* accounts that come before them.
LEMMA MetasSound ==
  ASSUME IInv, ReadsInOrder, NEW source \in Mint, NEW destination \in Mint,
         swap_side(source, destination) # "refused"
  PROVE  /\ SoundSeq(account_metas(source, destination))
         /\ account_metas(source, destination)[22] = wallet("A")
         /\ account_metas(source, destination)[23] = wallet("B")
<1> DEFINE
     s1 == OfMarket(<<"token_transfer_authority", "root", "instr_header", "bids_tree",
                 "asks_tree", "bid_orders", "ask_orders", "lines", "maps",
                 "client_infos", "client_infos2", "candles_1m", "candles_15m",
                 "candles_day", "community_acc">>)
     s2 == <<Meta("a_program_address", own.a_token_state),
             Meta("b_program_address", own.b_token_state)>>
     s3 == OfMarket(<<"a_mint", "b_mint", "a_token_state_acc", "b_token_state_acc">>)
     s4 == <<wallet("A"), wallet("B")>>
     s5 == OfMarket(<<"drv_auth", "system_program">>)
     s6 == <<Meta("a_program_id", own.a_program_id), Meta("b_program_id", own.b_program_id)>>
     s7 == OfMarket(<<"associated_token_program">>)
<1>1. account_metas(source, destination) = s1 \o s2 \o s3 \o s4 \o s5 \o s6 \o s7
    BY KnowsItsTokens DEF account_metas
<1>2. SoundSeq(s1) /\ Len(s1) = 15
  <2> DEFINE names == <<"token_transfer_authority", "root", "instr_header", "bids_tree",
                 "asks_tree", "bid_orders", "ask_orders", "lines", "maps",
                 "client_infos", "client_infos2", "candles_1m", "candles_15m",
                 "candles_day", "community_acc">>
  <2>1. names \in Seq(MarketName) /\ Len(names) = 15
      BY DEF MarketName
  <2> HIDE DEF names
  <2>2. SoundSeq(OfMarket(names)) /\ Len(OfMarket(names)) = 15
      BY <2>1, KnowsItsTokens, OfMarketSound
  <2> QED BY <2>2 DEF names
<1>3. SoundSeq(s2) /\ Len(s2) = 2
  <2>1. /\ Meta("a_program_address", own.a_token_state) \in Metas
        /\ Sound(Meta("a_program_address", own.a_token_state))
        /\ Meta("b_program_address", own.b_token_state) \in Metas
        /\ Sound(Meta("b_program_address", own.b_token_state))
      BY KnowsItsTokens DEF Meta, Metas, MarketName, TokenName, Sound
  <2> QED BY <2>1, PairSound
<1>4. SoundSeq(s3) /\ Len(s3) = 4
    BY KnowsItsTokens, OfMarketSound,
       <<"a_mint", "b_mint", "a_token_state_acc", "b_token_state_acc">> \in Seq(MarketName)
       DEF MarketName
<1>5. SoundSeq(s4) /\ Len(s4) = 2 /\ s4[1] = wallet("A") /\ s4[2] = wallet("B")
  <2>1. ASSUME NEW m \in Mint PROVE wallet(m) \in Metas /\ Sound(wallet(m))
    <3>1. slot \in Nat \ {0}
        BY AdapterAssumption DEF IInv, TypeOK
    <3> QED BY <3>1 DEF wallet, Meta, Metas, Sound
  <2>2. "A" \in Mint /\ "B" \in Mint
      BY DEF Mint
  <2> QED BY <2>1, <2>2, PairSound
<1>6. SoundSeq(s5)
    BY KnowsItsTokens, OfMarketSound, <<"drv_auth", "system_program">> \in Seq(MarketName)
       DEF MarketName
<1>7. SoundSeq(s6)
  <2>1. /\ own["a_program_id"] \in Nat /\ own["b_program_id"] \in Nat
        /\ result = "ok" => own["a_program_id"] # 0 /\ own["b_program_id"] # 0
    <3>1. "a_program_id" \in Field /\ "b_program_id" \in Field
        BY DEF Field, Source
    <3> QED BY <3>1, AdapterAssumption DEF IInv, TypeOK, ReadsInOrder
  <2>2. /\ Meta("a_program_id", own.a_program_id) \in Metas
        /\ Sound(Meta("a_program_id", own.a_program_id))
        /\ Meta("b_program_id", own.b_program_id) \in Metas
        /\ Sound(Meta("b_program_id", own.b_program_id))
      BY <2>1 DEF Meta, Metas, MarketName, TokenName, Sound
  <2> QED BY <2>2, PairSound
<1>8. SoundSeq(s7)
    BY KnowsItsTokens, OfMarketSound, <<"associated_token_program">> \in Seq(MarketName)
       DEF MarketName
<1> HIDE DEF s1, s2, s3, s4, s5, s6, s7
<1>9. SoundSeq(s1 \o s2) /\ Len(s1 \o s2) = 17
  <2>1. SoundSeq(s1 \o s2) /\ Len(s1 \o s2) = Len(s1) + Len(s2)
      BY <1>2, <1>3, JoinSound
  <2> QED BY <2>1, <1>2, <1>3
<1>10. SoundSeq(s1 \o s2 \o s3) /\ Len(s1 \o s2 \o s3) = 21
  <2>1. /\ SoundSeq(s1 \o s2 \o s3)
        /\ Len(s1 \o s2 \o s3) = Len(s1 \o s2) + Len(s3)
      BY <1>4, <1>9, JoinSound
  <2> QED BY <2>1, <1>4, <1>9
<1> DEFINE g == s1 \o s2 \o s3
           h == s1 \o s2 \o s3 \o s4
<1>11. SoundSeq(g) /\ Len(g) = 21 /\ h = g \o s4
    BY <1>10
<1> HIDE DEF g, h
<1>12. h[22] = wallet("A") /\ h[23] = wallet("B") /\ SoundSeq(h) /\ Len(h) = 23
  <2>1. /\ SoundSeq(h) /\ Len(h) = Len(g) + Len(s4)
        /\ \A i \in 1 .. Len(s4) : h[Len(g) + i] = s4[i]
    <3>1. SoundSeq(g) /\ SoundSeq(s4)
        BY <1>5, <1>11
    <3>2. /\ SoundSeq(g \o s4) /\ Len(g \o s4) = Len(g) + Len(s4)
          /\ \A i \in 1 .. Len(s4) : (g \o s4)[Len(g) + i] = s4[i]
        BY <3>1, JoinSound
    <3> QED BY <3>2, <1>11
  <2>2. 1 \in 1 .. Len(s4) /\ 2 \in 1 .. Len(s4)
      BY <1>5
  <2>3. h[Len(g) + 1] = s4[1] /\ h[Len(g) + 2] = s4[2]
      BY <2>1, <2>2
  <2>4. Len(g) + 1 = 22 /\ Len(g) + 2 = 23 /\ Len(g) + Len(s4) = 23
      BY <1>5, <1>11
  <2> QED BY <1>5, <2>1, <2>3, <2>4
<1>13. ASSUME NEW s, SoundSeq(s), NEW n \in Nat, Len(s) = 23 + n,
              s[22] = wallet("A"), s[23] = wallet("B"), NEW t, SoundSeq(t)
       PROVE  /\ SoundSeq(s \o t)
              /\ Len(t) \in Nat /\ Len(s \o t) = 23 + (n + Len(t))
              /\ (s \o t)[22] = wallet("A") /\ (s \o t)[23] = wallet("B")
  <2>1. /\ SoundSeq(s \o t) /\ Len(s \o t) = Len(s) + Len(t) /\ Len(t) \in Nat
        /\ \A i \in 1 .. Len(s) : (s \o t)[i] = s[i]
      BY <1>13, JoinSound
  <2>2. 22 \in 1 .. Len(s) /\ 23 \in 1 .. Len(s)
      BY <1>13
  <2>3. (s \o t)[22] = s[22] /\ (s \o t)[23] = s[23]
      BY <2>1, <2>2
  <2>4. Len(s) + Len(t) = 23 + (n + Len(t))
      BY <1>13, <2>1
  <2> QED BY <1>13, <2>1, <2>3, <2>4
<1>14. /\ SoundSeq(h \o s5) /\ Len(s5) \in Nat /\ Len(h \o s5) = 23 + (0 + Len(s5))
       /\ (h \o s5)[22] = wallet("A") /\ (h \o s5)[23] = wallet("B")
  <2>1. 0 \in Nat /\ Len(h) = 23 + 0
      BY <1>12
  <2> QED BY <1>6, <1>12, <1>13, <2>1
<1>15. /\ SoundSeq(h \o s5 \o s6) /\ 0 + Len(s5) + Len(s6) \in Nat
       /\ Len(h \o s5 \o s6) = 23 + (0 + Len(s5) + Len(s6))
       /\ (h \o s5 \o s6)[22] = wallet("A") /\ (h \o s5 \o s6)[23] = wallet("B")
  <2>1. 0 + Len(s5) \in Nat
      BY <1>14
  <2>2. /\ SoundSeq(h \o s5 \o s6) /\ Len(s6) \in Nat
        /\ Len(h \o s5 \o s6) = 23 + ((0 + Len(s5)) + Len(s6))
        /\ (h \o s5 \o s6)[22] = wallet("A") /\ (h \o s5 \o s6)[23] = wallet("B")
      BY <1>7, <1>13, <1>14, <2>1
  <2> QED BY <2>1, <2>2
<1>16. /\ SoundSeq(h \o s5 \o s6 \o s7)
       /\ (h \o s5 \o s6 \o s7)[22] = wallet("A") /\ (h \o s5 \o s6 \o s7)[23] = wallet("B")
    BY <1>8, <1>13, <1>15
<1> QED BY <1>1, <1>16 DEF h

\* Whatever updates failed, an instruction that can be built goes the way its
\* quote went, names both vaults, and has the wallets in their places.
THEOREM SwapMatchesQuoteHolds == Spec => []SwapMatchesQuote
<1>1. IInv /\ ReadsInOrder => SwapMatchesQuote
  <2> SUFFICES ASSUME IInv, ReadsInOrder, NEW source \in Mint, NEW destination \in Mint,
                      swap_side(source, destination) # "refused"
               PROVE  LET metas == account_metas(source, destination)
                          data  == from_swap(swap_side(source, destination), 1)
                      IN  /\ swap_side(source, destination) = quote_side(source)
                          /\ data.input_crncy = (quote_side(source) = "Bid")
                          /\ data.instr_id # 0
                          /\ \A i \in DOMAIN metas :
                               metas[i].read_at = 0 =>
                                 /\ metas[i].account \in {"a_program_id", "b_program_id"}
                                 /\ result = "failed"
                          /\ metas[22] = wallet("A") /\ metas[23] = wallet("B")
      BY DEF SwapMatchesQuote
  <2> DEFINE metas == account_metas(source, destination)
             data  == from_swap(swap_side(source, destination), 1)
  <2>1. swap_side(source, destination) = quote_side(source)
      BY KnowsItsTokens
  <2>2. data.input_crncy = (quote_side(source) = "Bid") /\ data.instr_id # 0
      BY <2>1, KnowsItsTokens DEF from_swap
  <2>3. SoundSeq(metas) /\ metas[22] = wallet("A") /\ metas[23] = wallet("B")
      BY MetasSound
  <2> HIDE DEF metas
  <2>4. ASSUME NEW i \in DOMAIN metas, metas[i].read_at = 0
        PROVE  metas[i].account \in {"a_program_id", "b_program_id"} /\ result = "failed"
    <3>1. i \in 1 .. Len(metas)
        BY <2>3, <2>4 DEF SoundSeq
    <3>2. Sound(metas[i])
        BY <2>3, <3>1 DEF SoundSeq
    <3>3. result # "never" /\ result \in {"never", "ok", "failed"}
        BY KnowsItsTokens DEF IInv, TypeOK
    <3> QED BY <2>4, <3>2, <3>3 DEF Sound
  <2> QED BY <2>1, <2>2, <2>3, <2>4 DEF metas
<1> QED BY <1>1, AlwaysInOrder, PTL
=============================================================================
