----------------------------- MODULE CustomSdk ------------------------------
(***************************************************************************)
(* The instruction builders of titan-deriverse/src/custom_sdk: build reads *)
(* accounts through RPC, one call after the other, and create_instruction  *)
(* makes an instruction of what was read.  Several builders, also for one  *)
(* signer, run while the chain executes what they have built.              *)
(*                                                                         *)
(* RPC and chain are external.  A call may fail for reasons of its own;    *)
(* get_account also fails for an account that does not exist.  The first   *)
(* deposit of a signer creates its client accounts, and a lookup table at  *)
(* an address made of a slot that must be recent; every instruction of a   *)
(* signer without client accounts that does not create them is rejected.   *)
(***************************************************************************)
EXTENDS Addresses

CONSTANTS
  Builder,
  Market,   \* pairs of mints with an instrument
  TokenId,  \* the id in the token state of a mint
  MaxSlot,  \* bound on the slots of the chain
  Recent    \* how old the slot of a lookup table may be

ASSUME SdkAssumption ==
  /\ MaxSlot \in Nat /\ Recent \in Nat
  /\ Market \subseteq Mint \X Mint /\ TokenId \in [Mint -> Id]

VARIABLES
  slot,         \* the slot of the chain
  clients,      \* the signers that have client accounts
  job,          \* what each builder builds: fixed
  reads,        \* how many of its RPC calls have been answered
  pc,           \* "building", "built", or the outcome
  client_account_exists, lut_slot,  \* fields of DepositContext
  instruction   \* the accounts create_instruction returned

vars == <<slot, clients, job, reads, pc, client_account_exists, lut_slot, instruction>>

Job == [kind : {"deposit"}, signer : Signer, mints : Mint \X {<<>>}]
  \cup [kind : {"order"}, signer : Signer, mints : Market]

\* The RPC calls of build, in order.
Calls == [deposit |-> <<"mint", "token_state", "slot", "client_primary">>,
          order   |-> <<"a_token_state", "b_token_state", "instr_header">>]
CallsOf(b) == Calls[job[b].kind]
Call(b)    == CallsOf(b)[reads[b] + 1]

Init ==
  /\ slot = 1
  /\ clients = {}
  /\ job \in [Builder -> Job]
  /\ reads = [b \in Builder |-> 0]
  /\ pc = [b \in Builder |-> "building"]
  /\ client_account_exists = [b \in Builder |-> FALSE]
  /\ lut_slot = [b \in Builder |-> 0]
  /\ instruction = [b \in Builder |-> {}]

-----------------------------------------------------------------------------
\* A call is answered; build goes on with the next, or is done.
Answered(b) ==
  /\ pc[b] = "building"
  /\ reads' = [reads EXCEPT ![b] = @ + 1]
  /\ pc' = [pc EXCEPT ![b] = IF reads[b] + 1 = Len(CallsOf(b)) THEN "built" ELSE @]
  /\ UNCHANGED <<slot, clients, job, instruction>>

ReadAccount(b) ==
  /\ Answered(b)
  /\ Call(b) \notin {"slot", "client_primary"}
  /\ UNCHANGED <<client_account_exists, lut_slot>>

ReadSlot(b) ==
  /\ Answered(b)
  /\ Call(b) = "slot"
  /\ lut_slot' = [lut_slot EXCEPT ![b] = slot]
  /\ UNCHANGED client_account_exists

\* rpc.get_account(..).is_ok() of an account that may not exist.
ReadClient(b) ==
  /\ Answered(b)
  /\ Call(b) = "client_primary"
  /\ client_account_exists' =
       [client_account_exists EXCEPT ![b] = job[b].signer \in clients]
  /\ UNCHANGED lut_slot

\* A failed call ends build with its error.
ReadFails(b) ==
  /\ pc[b] = "building"
  /\ Call(b) # "client_primary"
  /\ pc' = [pc EXCEPT ![b] = "failed"]
  /\ UNCHANGED <<slot, clients, job, reads, client_account_exists, lut_slot, instruction>>

\* Mutation: an error is taken for an account that exists.
ReadClientFailsOpen(b) ==
  /\ Answered(b)
  /\ Call(b) = "client_primary"
  /\ client_account_exists' = [client_account_exists EXCEPT ![b] = TRUE]
  /\ UNCHANGED lut_slot

\* But an error where is_ok asks for the client is taken for a missing account.
ReadClientFails(b) ==
  /\ Answered(b)
  /\ Call(b) = "client_primary"
  /\ client_account_exists' = [client_account_exists EXCEPT ![b] = FALSE]
  /\ UNCHANGED lut_slot

-----------------------------------------------------------------------------
\* What the program needs, besides, to create a client.
CreationAccounts(signer, slot_read) ==
  {ClientCommunity(signer), Other(<<"lookup_table", signer, slot_read>>, TRUE),
   Other(<<"lookup_table_program">>, FALSE)}

Deposit(signer, mint, exists, slot_read) ==
  {Other(<<"signer", signer>>, TRUE), Other(<<"client_ata", signer, mint>>, TRUE),
   Other(<<"token_vault", mint>>, TRUE), Other(<<"token_mint", mint>>, FALSE),
   Acc("ROOT", ~exists), TokenState(mint), ClientPrimary(signer),
   Other(<<"system_program">>, FALSE), Other(<<"token_program", mint>>, FALSE)}
  \cup (IF exists THEN {} ELSE CreationAccounts(signer, slot_read))

SpotAccounts ==
  {"INSTR", "SPOT_BIDS_TREE", "SPOT_ASKS_TREE", "SPOT_BID_ORDERS", "SPOT_ASK_ORDERS",
   "SPOT_LINES", "SPOT_CLIENT_INFOS", "SPOT_CLIENT_INFOS2", "SPOT_1M_CANDLES",
   "SPOT_15M_CANDLES", "SPOT_DAY_CANDLES"}

Order(signer, a, b) ==
  {Other(<<"signer", signer>>, FALSE), Acc("ROOT", FALSE),
   ClientPrimary(signer), ClientCommunity(signer)}
  \cup {Spot(type, TokenId[a], TokenId[b]) : type \in SpotAccounts}
  \cup {Other(<<"maps", a, b>>, TRUE), Acc("COMMUNITY", FALSE),
        Other(<<"system_program">>, FALSE)}

create_instruction(b) ==
  /\ pc[b] = "built"
  /\ pc' = [pc EXCEPT ![b] = "sent"]
  /\ \/ /\ job[b].kind = "deposit"
        /\ instruction' = [instruction EXCEPT ![b] =
             Deposit(job[b].signer, job[b].mints[1], client_account_exists[b], lut_slot[b])]
     \/ /\ job[b].kind = "order"
        /\ instruction' = [instruction EXCEPT ![b] =
             Order(job[b].signer, job[b].mints[1], job[b].mints[2])]
  /\ UNCHANGED <<slot, clients, job, reads, client_account_exists, lut_slot>>

\* What the chain needs to make a client, in the way it needs it.
Creates(b) ==
  CreationAccounts(job[b].signer, lut_slot[b]) \cup {Acc("ROOT", TRUE)} \subseteq instruction[b]

\* The chain executes an instruction, once.
Execute(b) ==
  /\ pc[b] = "sent"
  /\ LET new == job[b].signer \notin clients
         outcome == CASE new /\ ~Creates(b) -> "no_client"
                      [] new /\ Creates(b) /\ slot - lut_slot[b] > Recent -> "stale_slot"
                      [] OTHER -> "landed"
     IN  /\ pc' = [pc EXCEPT ![b] = outcome]
         /\ clients' = clients \cup (IF outcome = "landed" THEN {job[b].signer} ELSE {})
  /\ UNCHANGED <<slot, job, reads, client_account_exists, lut_slot, instruction>>

Tick ==
  /\ slot < MaxSlot
  /\ slot' = slot + 1
  /\ UNCHANGED <<clients, job, reads, pc, client_account_exists, lut_slot, instruction>>

Next ==
  \/ Tick
  \/ \E b \in Builder :
       \/ ReadAccount(b) \/ ReadSlot(b) \/ ReadClient(b)
       \/ ReadFails(b) \/ ReadClientFails(b)
       \/ create_instruction(b) \/ Execute(b)

Spec == Init /\ [][Next]_vars

-----------------------------------------------------------------------------
\* The deposit builder asks once whether the client exists and omits what
\* creates it if so.  Whatever calls fail, and whichever other deposits of
\* the signer land between the question and the execution, no deposit reaches
\* the chain without accounts it needs there.
DepositNeverLacksAccounts ==
  \A b \in Builder : job[b].kind = "deposit" => pc[b] # "no_client"

\* Whatever helper derived them, for whatever markets, mints and signers, two
\* accounts of the instructions share an address only if they are the same
\* account, or token states of two mints that differ in nothing but their last
\* four bytes.  Seeds are hashed without their lengths and tags may coincide:
\* only the lengths of the encodings, and DRVS_AUTH being nobody's key, keep
\* accounts apart.
AddressesApart ==
  \A b, c \in Builder : \A x \in instruction[b], y \in instruction[c] :
    x.address = y.address =>
      x.address = <<>> \/ x.of = y.of \/ SameTokenSeed(x.of, y.of)
=============================================================================
