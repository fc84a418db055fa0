----------------------------- MODULE MCCustomSdk -----------------------------
(***************************************************************************)
(* Two builders for one signer or for two.  The tags of ROOT and of        *)
(* CLIENT_PRIMARY coincide, as do ids and tags; mints differ in the first  *)
(* word, in the last, or begin with what reads as another seed.            *)
(***************************************************************************)
EXTENDS CustomSdk

MCTag == [t \in AccountType |->
  CASE t \in {"ROOT", "CLIENT_PRIMARY"} -> 1
    [] t \in {"COMMUNITY", "CLIENT_COMMUNITY", "INSTR"} -> 2
    [] t = "SPOT_LINES" -> 3
    [] t = "SPOT_BIDS_TREE" -> 4   [] t = "SPOT_ASKS_TREE" -> 5
    [] t = "SPOT_BID_ORDERS" -> 6  [] t = "SPOT_ASK_ORDERS" -> 7
    [] t = "SPOT_CLIENT_INFOS" -> 8  [] t = "SPOT_CLIENT_INFOS2" -> 10
    [] t = "SPOT_1M_CANDLES" -> 11 [] t = "SPOT_15M_CANDLES" -> 12
    [] OTHER -> 13]

MCDrvsAuth == <<9, 9, 9, 9, 9, 9, 9, 9>>
MCSigner   == {<<1, 2, 9, 9, 9, 9, 9, 9>>, <<9, 9, 9, 9, 9, 9, 1, 2>>}

X  == <<1, 2, 3, 2, 9, 9, 9, 9>>
X2 == <<1, 2, 3, 2, 9, 9, 9, 1>>
Y  == <<2, 2, 3, 2, 9, 9, 9, 9>>
Z  == <<9, 9, 9, 9, 9, 9, 9, 9>>

MCMint    == {X, X2, Y, Z}
MCMarket  == {<<X, Y>>, <<Y, X>>, <<Z, Y>>}
MCTokenId == [m \in MCMint |-> CASE m = Y -> 2 [] m = Z -> 3 [] OTHER -> 1]
=============================================================================
