----------------------------- MODULE Addresses ------------------------------
(***************************************************************************)
(* The program addresses of titan-deriverse/src/helper.rs.  Keys and seeds *)
(* are sequences of 32-bit words: a key has eight.  find_program_address   *)
(* is external: it hashes its seeds one after the other, without their     *)
(* lengths, and stands here for the words it hashes (the hash is taken to  *)
(* be free of collisions, and never to give the key of a signer).          *)
(***************************************************************************)
EXTENDS Integers, Sequences

CONSTANTS
  VERSION,
  Tag,         \* the tags of account types: words
  Id,          \* the ids of tokens: words
  Mint, Signer,
  DRVS_AUTH    \* the key get_drv_auth returns

AccountType ==
  {"ROOT", "COMMUNITY", "CLIENT_PRIMARY", "CLIENT_COMMUNITY", "INSTR",
   "SPOT_BIDS_TREE", "SPOT_ASKS_TREE", "SPOT_BID_ORDERS", "SPOT_ASK_ORDERS",
   "SPOT_LINES", "SPOT_CLIENT_INFOS", "SPOT_CLIENT_INFOS2", "SPOT_1M_CANDLES",
   "SPOT_15M_CANDLES", "SPOT_DAY_CANDLES"}

ASSUME AddressAssumption ==
  /\ VERSION \in Nat /\ Tag \in [AccountType -> Nat] /\ Id \subseteq Nat
  /\ Tag["CLIENT_PRIMARY"] # Tag["CLIENT_COMMUNITY"]
  /\ \A k \in Mint \cup Signer \cup {DRVS_AUTH} : k \in Seq(Nat) /\ Len(k) = 8
  /\ DRVS_AUTH \notin Signer

-----------------------------------------------------------------------------
\* Mutation: the second id is written over the first.
get_seed_bytes_by_idOverwritten(version, tag, id, id2) == <<version, tag, id2, 0>>

get_seed_bytes_by_id(version, tag, id, id2) == <<version, tag, id, id2>>

\* 28 of the 32 bytes of the mint, then the version.
get_token_seed_bytes(version, mint) ==
  [i \in 1..8 |-> IF i <= 7 THEN mint[i] ELSE version]

get_seed_bytes(version, tag) == <<version, tag>>

find_program_address(seed, key) == seed \o key

new_spot_acc(tag, asset_token_id, crncy_token_id) ==
  find_program_address(
    get_seed_bytes_by_id(VERSION, tag, asset_token_id, crncy_token_id), DRVS_AUTH)

new_token_acc(mint) ==
  find_program_address(get_token_seed_bytes(VERSION, mint), DRVS_AUTH)

new_acc(tag) == find_program_address(get_seed_bytes(VERSION, tag), DRVS_AUTH)

new_client_primary_acc(signer) ==
  find_program_address(get_seed_bytes(VERSION, Tag["CLIENT_PRIMARY"]), signer)

new_client_community_acc(signer) ==
  find_program_address(get_seed_bytes(VERSION, Tag["CLIENT_COMMUNITY"]), signer)

-----------------------------------------------------------------------------
\* Accounts as they stand in an instruction.  `of` tells what account is meant;
\* `address` is what a helper derived for it, and empty where the address comes
\* from elsewhere.
Meta(of, address, is_writable) ==
  [of |-> of, address |-> address, is_writable |-> is_writable]
Other(of, is_writable) == Meta(of, <<>>, is_writable)

Spot(type, a, b)    == Meta(<<"spot", Tag[type], a, b>>, new_spot_acc(Tag[type], a, b), TRUE)
TokenState(mint)    == Meta(<<"token", mint>>, new_token_acc(mint), FALSE)
Acc(type, writable) == Meta(<<"acc", Tag[type]>>, new_acc(Tag[type]), writable)
ClientPrimary(s)    == Meta(<<"primary", s>>, new_client_primary_acc(s), TRUE)
ClientCommunity(s)  == Meta(<<"community", s>>, new_client_community_acc(s), TRUE)

SameTokenSeed(r, s) ==
  \E m, n \in Mint : /\ r = <<"token", m>>
                     /\ s = <<"token", n>>
                     /\ \A i \in 1..7 : m[i] = n[i]
=============================================================================
