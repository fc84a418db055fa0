------------------------------ MODULE Adapter -------------------------------
(***************************************************************************)
(* The adapter between an aggregator and the on-chain accounts of a market *)
(* (titan-deriverse/src/lib.rs).  The aggregator builds an instance from   *)
(* the instrument account, then again and again fetches the accounts the   *)
(* instance asks for and hands them to update, which replaces the          *)
(* instance's copies one by one and stops at the first that is missing.    *)
(*                                                                         *)
(* Contents are abstracted to the slot they were read at; slot 0 stands    *)
(* for the zeroed and default values of from_keyed_account.  The chain and *)
(* the aggregator are not part of the repository: they are modelled by     *)
(* what the Amm trait lets the one see of the other.                       *)
(***************************************************************************)
EXTENDS Naturals, Sequences, SequencesExt

CONSTANTS
  MaxSlot,  \* bound on the slots of the chain
  Faults    \* which accounts may be missing, or cut short, at one time

\* ContextAccounts, as From<ContextAccounts> for Vec<Pubkey> lists them.
accounts_ctx == <<"instr_header", "a_token_state_acc", "b_token_state_acc",
                  "community_acc", "lines", "a_mint", "b_mint">>

Account == {"instr_header", "a_token_state_acc", "b_token_state_acc",
            "community_acc", "lines", "a_mint", "b_mint"}

ASSUME AdapterAssumption ==
  /\ MaxSlot \in Nat \ {0}
  /\ \A f \in Faults : f.missing \subseteq Account /\ f.short \subseteq Account

\* What the instance keeps, and the account each field is read from: book is
\* the part of order_book that comes from the header.
Source == [instr_header |-> "instr_header", a_token_state |-> "a_token_state_acc",
           b_token_state |-> "b_token_state_acc", fee_rate_factor |-> "community_acc",
           lines |-> "lines", book |-> "instr_header", amm |-> "instr_header",
           a_program_id |-> "a_mint", b_program_id |-> "b_mint"]
Field == DOMAIN Source

VARIABLES
  slot,      \* the slot of the chain
  faults,    \* the accounts missing or short at this slot
  pc,        \* the aggregator: "none" (it has no instance), "idle", "fetching"
  own,       \* the slot each field of the instance was read at
  map,       \* the account map being fetched: slot and length of each account
  to_fetch,  \* the addresses still to fetch
  result     \* of the last update: "never", "ok" or "failed"

vars == <<slot, faults, pc, own, map, to_fetch, result>>

TypeOK ==
  /\ slot \in 1 .. MaxSlot
  /\ faults \in Faults
  /\ pc \in {"none", "idle", "fetching"}
  /\ own \in [Field -> 0 .. MaxSlot]
  /\ DOMAIN map \subseteq Account
  /\ \A acc \in DOMAIN map : map[acc] \in [slot : 1 .. MaxSlot, whole : BOOLEAN]
  /\ to_fetch \in Seq(Account)
  /\ result \in {"never", "ok", "failed"}

Init ==
  /\ slot = 1
  /\ faults \in Faults
  /\ pc = "none"
  /\ own = [f \in Field |-> 0]
  /\ map = <<>>
  /\ to_fetch = <<>>
  /\ result = "never"

-----------------------------------------------------------------------------
\* The on-chain program writes the accounts, and some come or go.
Write ==
  /\ slot < MaxSlot
  /\ slot' = slot + 1
  /\ faults' \in Faults
  /\ UNCHANGED <<pc, own, map, to_fetch, result>>

\* from_keyed_account: only the header is known.
FromKeyedAccount ==
  /\ pc = "none"
  /\ "instr_header" \notin faults.missing \cup faults.short
  /\ pc' = "idle"
  /\ own' = [f \in Field |-> IF f = "instr_header" THEN slot ELSE 0]
  /\ result' = "never"
  /\ UNCHANGED <<slot, faults, map, to_fetch>>

\* Mutation: the community account, whose address is derived apart from the
\* market's, is not asked for.
get_accounts_to_updateOfMarket == Remove(accounts_ctx, "community_acc")

\* Mutation: the root account of the swap is asked for as well.
get_accounts_to_updateOfSwap == <<"root">> \o accounts_ctx

get_accounts_to_update == accounts_ctx

StartRound ==
  /\ pc = "idle"
  /\ pc' = "fetching"
  /\ to_fetch' = get_accounts_to_update
  /\ map' = <<>>
  /\ UNCHANGED <<slot, faults, own, result>>

\* The next accounts of the list are fetched, all at one slot.
FetchSome ==
  /\ pc = "fetching"
  /\ \E n \in 1 .. Len(to_fetch) :
       LET present == {to_fetch[i] : i \in 1 .. n} \ faults.missing
       IN  /\ map' = [acc \in DOMAIN map \cup present |->
                        IF acc \in present
                        THEN [slot |-> slot, whole |-> acc \notin faults.short]
                        ELSE map[acc]]
           /\ to_fetch' = SubSeq(to_fetch, n + 1, Len(to_fetch))
  /\ UNCHANGED <<slot, faults, pc, own, result>>

-----------------------------------------------------------------------------
\* The accounts in the order update reads them, and the read after which each
\* field is assigned.
Reads == <<"instr_header", "a_token_state_acc", "b_token_state_acc",
           "community_acc", "lines", "a_mint", "b_mint">>

\* Mutation: book and pool are rebuilt as soon as the header is there.
AssignedAfterPoolFirst ==
  [instr_header |-> 1, a_token_state |-> 2, b_token_state |-> 3,
   fee_rate_factor |-> 4, lines |-> 5, book |-> 1, amm |-> 1,
   a_program_id |-> 6, b_program_id |-> 7]

\* Mutation: the pool is rebuilt last.
AssignedAfterPoolLast ==
  [instr_header |-> 1, a_token_state |-> 2, b_token_state |-> 3,
   fee_rate_factor |-> 4, lines |-> 5, book |-> 5, amm |-> 7,
   a_program_id |-> 6, b_program_id |-> 7]

AssignedAfter ==
  [instr_header |-> 1, a_token_state |-> 2, b_token_state |-> 3,
   fee_rate_factor |-> 4, lines |-> 5, book |-> 5, amm |-> 5,
   a_program_id |-> 6, b_program_id |-> 7]

\* `?` on a missing account returns.  from_account takes a slice of the size of
\* its type, which panics on a short account, and OrderBook::new casts the data
\* of the lines account behind its header to slots, which panics unless it is a
\* whole number of them: a lines account counts as short when it is cut inside a
\* slot, and one cut inside its header is an empty book.  Of a mint only the
\* owner is read.
Missing(i) == Reads[i] \notin DOMAIN map
Panics(i)  == ~Missing(i) /\ i <= 5 /\ ~map[Reads[i]].whole
Completes(n) == \A i \in 1 .. n : ~Missing(i) /\ ~Panics(i)

\* Mutation: book and pool are rebuilt from the header that is being replaced.
AfterOldHeader(n) ==
  [f \in Field |-> IF AssignedAfter[f] > n THEN own[f]
                  ELSE IF f \in {"book", "amm"} THEN own.instr_header
                  ELSE map[Source[f]].slot]

\* The instance after the first n reads.
After(n) ==
  [f \in Field |-> IF AssignedAfter[f] <= n THEN map[Source[f]].slot ELSE own[f]]

UpdateSucceeds ==
  /\ pc = "fetching"
  /\ to_fetch = <<>>
  /\ Completes(Len(Reads))
  /\ own' = After(Len(Reads))
  /\ result' = "ok"
  /\ pc' = "idle"
  /\ UNCHANGED <<slot, faults, map, to_fetch>>

UpdateFails ==
  /\ pc = "fetching"
  /\ to_fetch = <<>>
  /\ \E i \in DOMAIN Reads : Completes(i - 1) /\ Missing(i) /\ own' = After(i - 1)
  /\ result' = "failed"
  /\ pc' = "idle"
  /\ UNCHANGED <<slot, faults, map, to_fetch>>

\* A panic unwinds through the aggregator, which loses the instance.
UpdatePanics ==
  /\ pc = "fetching"
  /\ to_fetch = <<>>
  /\ \E i \in DOMAIN Reads : Completes(i - 1) /\ Panics(i)
  /\ own' = [f \in Field |-> 0]
  /\ result' = "never"
  /\ pc' = "none"
  /\ UNCHANGED <<slot, faults, map, to_fetch>>

Next ==
  \/ Write
  \/ FromKeyedAccount
  \/ StartRound
  \/ FetchSome
  \/ UpdateSucceeds
  \/ UpdateFails
  \/ UpdatePanics

\* The aggregator keeps polling; the chain writes when it likes.
Spec == Init /\ [][Next]_vars
        /\ WF_vars(FromKeyedAccount) /\ WF_vars(StartRound) /\ WF_vars(FetchSome)
        /\ WF_vars(UpdateSucceeds \/ UpdateFails \/ UpdatePanics)

-----------------------------------------------------------------------------
\* The two tokens of the market; a token state that was never read is zeroed.
Mint == {"A", "B", "Other"}
a_address == IF own.a_token_state = 0 THEN "Zeroed" ELSE "A"
b_address == IF own.b_token_state = 0 THEN "Zeroed" ELSE "B"

get_reserve_mints == <<a_address, b_address>>

\* `buy` in quote, for the input mint of the QuoteParams.
quote_side(input_mint) == IF b_address = input_mint THEN "Bid" ELSE "Ask"

\* Mutation: the two mints of the swap are swapped.
swap_sideSwapped(source_mint, destination_mint) ==
  IF a_address = source_mint /\ b_address = destination_mint THEN "Bid"
  ELSE IF b_address = source_mint /\ a_address = destination_mint THEN "Ask"
  ELSE "refused"

\* The side of the swap, for the mints of the SwapParams.
swap_side(source_mint, destination_mint) ==
  IF b_address = source_mint /\ a_address = destination_mint THEN "Bid"
  ELSE IF b_address = destination_mint /\ a_address = source_mint THEN "Ask"
  ELSE "refused"

\* The instruction data built from the Swap that goes with the account list.
from_swap(side, in_amount) ==
  [input_crncy |-> side = "Bid", instr_id |-> own.instr_header,
   price |-> 0, amount |-> in_amount]

\* Accounts of the instruction: an address and the slot of the copy it was
\* taken or derived from.  wallet(m) is the trader's account for the mint m.
Meta(name, read_at) == [account |-> name, read_at |-> read_at]
OfMarket(names) == [i \in DOMAIN names |-> Meta(names[i], own.instr_header)]
wallet(mint) == Meta(<<"wallet", mint>>, slot)

account_metas(source_mint, destination_mint) ==
  LET buys == swap_side(source_mint, destination_mint) = "Bid"
  IN  OfMarket(<<"token_transfer_authority", "root", "instr_header", "bids_tree",
                 "asks_tree", "bid_orders", "ask_orders", "lines", "maps",
                 "client_infos", "client_infos2", "candles_1m", "candles_15m",
                 "candles_day", "community_acc">>)
      \o <<Meta("a_program_address", own.a_token_state),
           Meta("b_program_address", own.b_token_state)>>
      \o OfMarket(<<"a_mint", "b_mint", "a_token_state_acc", "b_token_state_acc">>)
      \o <<wallet(IF buys THEN destination_mint ELSE source_mint),
           wallet(IF buys THEN source_mint ELSE destination_mint)>>
      \o OfMarket(<<"drv_auth", "system_program">>)
      \o <<Meta("a_program_id", own.a_program_id), Meta("b_program_id", own.b_program_id)>>
      \o OfMarket(<<"associated_token_program">>)

-----------------------------------------------------------------------------
\* The book and the pool that quote trades against always come from one
\* header, however many updates stopped half way: one of the two is never
\* replaced without the other.
BookAndPoolOfOneHeader == own.book = own.amm

\* quote takes the limit price from the header and trades against the pool.
\* Header and pool are of different slots only between a failed update and
\* the next one that succeeds, or before the first.
PriceAndPoolPartOnlyAfterFailure ==
  own.instr_header # own.amm => result # "ok"

\* An instance that has anything to quote against knows which mint is the
\* currency, and the fee: wherever the first updates stopped, no quote goes the
\* wrong way or is free of fees, because update fills book and pool last.
LiquidityComesLast ==
  own.amm # 0 =>
    \A f \in {"instr_header", "a_token_state", "b_token_state", "fee_rate_factor"} :
      own[f] # 0

\* When the last update succeeded and its accounts were all fetched at one
\* slot, then all the instance knows is of that slot: no field, and nothing
\* built from several fields, is left from before.
OneFetchOneSlot ==
  result = "ok" /\ pc = "idle" /\ (\A x, y \in DOMAIN map : map[x].slot = map[y].slot) =>
    \A f \in Field : own[f] = map["lines"].slot

\* Whenever a swap instruction can be built, in whatever state failed updates
\* left the instance, accounts and data go the way the quote for the same mints
\* went, both token vaults are named, the wallets are in the places of their
\* tokens, and a token program is left unread only where no update since the
\* instance was made has succeeded.
SwapMatchesQuote ==
  \A source, destination \in Mint :
    swap_side(source, destination) # "refused" =>
      LET metas == account_metas(source, destination)
          data  == from_swap(swap_side(source, destination), 1)
      IN  /\ swap_side(source, destination) = quote_side(source)
          /\ data.input_crncy = (quote_side(source) = "Bid") /\ data.instr_id # 0
          /\ \A i \in DOMAIN metas :
               metas[i].read_at = 0 =>
                 /\ metas[i].account \in {"a_program_id", "b_program_id"}
                 /\ result = "failed"
          /\ metas[22] = wallet("A") /\ metas[23] = wallet("B")

\* Failures and panics leave nothing that keeps the adapter from catching up:
\* when the chain has become quiet and its accounts are there, the instance
\* ends with a copy of the chain: in particular update reads no account that
\* get_accounts_to_update leaves out.
CatchesUp ==
  <>[](faults.missing = {} /\ faults.short = {}) => <>[](\A f \in Field : own[f] = slot)

\* jupiter-amm-interface/src/lib.rs says of requires_update_for_reserve_mints,
\* which the adapter leaves FALSE, "Indicates whether `update` needs to be
\* called before `get_reserve_mints`": the mints are known without update.
ReserveMintsNeedNoUpdate == pc # "none" => get_reserve_mints = <<"A", "B">>
=============================================================================
