-------------------------- MODULE CustomSdkProofs ---------------------------
(***************************************************************************)
(* Proofs about CustomSdk, for every number of builders, tags, ids, mints, *)
(* signers and slots: no deposit lacks accounts it needs, and the derived  *)
(* addresses are apart.  For the second, what is hashed is told apart by   *)
(* its length and, for equal lengths, word by word.                        *)
(***************************************************************************)
EXTENDS CustomSdk, SequenceTheorems, TLAPS

\* A deposit that is on its way to the chain creates the client, unless the
\* builder has seen that the client exists.
SentCreates ==
  \A b \in Builder :
    job[b].kind = "deposit" /\ pc[b] = "sent" /\ ~client_account_exists[b] => Creates(b)

\* A client that was seen still exists.
SeenExists ==
  \A b \in Builder : client_account_exists[b] => job[b].signer \in clients

\* The inductive invariant of the deposits.
IInv ==
  /\ DOMAIN pc = Builder
  /\ DOMAIN instruction = Builder
  /\ client_account_exists \in [Builder -> BOOLEAN]
  /\ SeenExists
  /\ SentCreates
  /\ DepositNeverLacksAccounts

-----------------------------------------------------------------------------
LEMMA InitIInv == Init => IInv
BY DEF Init, IInv, SeenExists, SentCreates, DepositNeverLacksAccounts

\* While build goes on, nothing is on its way that was not before.
LEMMA BuildPreserves ==
  ASSUME IInv, NEW b \in Builder, pc[b] = "building",
         UNCHANGED <<clients, job, instruction>>,
         DOMAIN pc' = Builder, pc'[b] \notin {"sent", "no_client"},
         \A c \in Builder \ {b} :
           /\ pc'[c] = pc[c] /\ lut_slot'[c] = lut_slot[c]
           /\ client_account_exists'[c] = client_account_exists[c],
         client_account_exists' \in [Builder -> BOOLEAN],
         client_account_exists'[b] => job[b].signer \in clients
  PROVE  IInv'
<1>1. SeenExists'
  BY DEF IInv, SeenExists
<1>2. SentCreates'
  BY DEF IInv, SentCreates, Creates
<1>3. DepositNeverLacksAccounts'
  BY DEF IInv, DepositNeverLacksAccounts
<1> QED
  BY <1>1, <1>2, <1>3 DEF IInv

LEMMA AnsweredFacts ==
  ASSUME IInv, NEW b \in Builder, Answered(b)
  PROVE  /\ pc[b] = "building"
         /\ UNCHANGED <<clients, job, instruction>>
         /\ DOMAIN pc' = Builder
         /\ pc'[b] \in {"building", "built"}
         /\ \A c \in Builder \ {b} : pc'[c] = pc[c]
BY DEF IInv, Answered

\* What create_instruction makes of a deposit for a client that was not there
\* holds what creates it.
LEMMA CreatePreserves ==
  ASSUME IInv, NEW b \in Builder, create_instruction(b)
  PROVE  IInv'
<1>1. /\ UNCHANGED <<clients, job, client_account_exists, lut_slot>>
      /\ DOMAIN pc' = Builder /\ pc'[b] = "sent"
      /\ DOMAIN instruction' = Builder
      /\ \A c \in Builder \ {b} : pc'[c] = pc[c] /\ instruction'[c] = instruction[c]
  BY DEF IInv, create_instruction
<1>2. ASSUME job[b].kind = "deposit", ~client_account_exists[b]
      PROVE  Creates(b)'
  <2>1. instruction'[b] = Deposit(job[b].signer, job[b].mints[1], FALSE, lut_slot[b])
    BY <1>2 DEF IInv, create_instruction
  <2>2. CreationAccounts(job[b].signer, lut_slot[b]) \cup {Acc("ROOT", TRUE)}
          \subseteq instruction'[b]
    BY <2>1 DEF Deposit
  <2> QED
    BY <1>1, <2>2 DEF Creates, CreationAccounts
<1>3. SentCreates'
  BY <1>1, <1>2 DEF IInv, SentCreates, Creates
<1>4. SeenExists' /\ DepositNeverLacksAccounts'
  BY <1>1 DEF IInv, SeenExists, DepositNeverLacksAccounts
<1> QED
  BY <1>1, <1>3, <1>4 DEF IInv

\* The chain rejects a deposit for want of its client only if the client is
\* new and is not created; clients stay.
LEMMA ExecutePreserves ==
  ASSUME IInv, NEW b \in Builder, Execute(b)
  PROVE  IInv'
<1>1. /\ UNCHANGED <<job, client_account_exists, lut_slot, instruction>>
      /\ clients \subseteq clients'
      /\ DOMAIN pc' = Builder
      /\ \A c \in Builder \ {b} : pc'[c] = pc[c]
  BY DEF IInv, Execute
<1>2. pc'[b] \in {"no_client", "stale_slot", "landed"}
  BY DEF IInv, Execute
<1>3. ASSUME job[b].kind = "deposit" PROVE pc'[b] # "no_client"
  <2>1. job[b].signer \in clients \/ Creates(b)
    BY <1>3 DEF IInv, SeenExists, SentCreates, Execute
  <2> QED
    BY <2>1 DEF IInv, Execute
<1>4. SeenExists'
  BY <1>1 DEF IInv, SeenExists
<1>5. SentCreates'
  BY <1>1, <1>2 DEF IInv, SentCreates, Creates
<1>6. DepositNeverLacksAccounts'
  BY <1>1, <1>3 DEF IInv, DepositNeverLacksAccounts
<1> QED
  BY <1>1, <1>4, <1>5, <1>6 DEF IInv

LEMMA StepIInv == IInv /\ [Next]_vars => IInv'
<1> SUFFICES ASSUME IInv, [Next]_vars PROVE IInv'
  OBVIOUS
<1>1. CASE Tick
  BY <1>1 DEF Tick, IInv, SeenExists, SentCreates, Creates, DepositNeverLacksAccounts
<1>2. ASSUME NEW b \in Builder, ReadAccount(b) PROVE IInv'
  BY <1>2, AnsweredFacts, BuildPreserves DEF ReadAccount, IInv, SeenExists
<1>3. ASSUME NEW b \in Builder, ReadSlot(b) PROVE IInv'
  <2>1. \A c \in Builder \ {b} : lut_slot'[c] = lut_slot[c]
    BY <1>3 DEF ReadSlot
  <2> QED
    BY <1>3, <2>1, AnsweredFacts, BuildPreserves DEF ReadSlot, IInv, SeenExists
<1>4. ASSUME NEW b \in Builder, ReadClient(b) PROVE IInv'
  <2>1. /\ client_account_exists' \in [Builder -> BOOLEAN]
        /\ client_account_exists'[b] = (job[b].signer \in clients)
        /\ \A c \in Builder \ {b} : client_account_exists'[c] = client_account_exists[c]
    BY <1>4 DEF ReadClient, IInv
  <2>2. client_account_exists'[b] => job[b].signer \in clients
    BY <2>1
  <2>3. Answered(b) /\ UNCHANGED lut_slot
    BY <1>4 DEF ReadClient
  <2> QED
    BY <2>1, <2>2, <2>3, AnsweredFacts, BuildPreserves
<1>5. ASSUME NEW b \in Builder, ReadFails(b) PROVE IInv'
  <2>1. /\ pc[b] = "building" /\ pc'[b] = "failed" /\ DOMAIN pc' = Builder
        /\ \A c \in Builder \ {b} : pc'[c] = pc[c]
    BY <1>5 DEF ReadFails, IInv
  <2> QED
    BY <1>5, <2>1, BuildPreserves DEF ReadFails, IInv, SeenExists
<1>6. ASSUME NEW b \in Builder, ReadClientFails(b) PROVE IInv'
  <2>1. /\ client_account_exists' \in [Builder -> BOOLEAN]
        /\ ~client_account_exists'[b]
        /\ \A c \in Builder \ {b} : client_account_exists'[c] = client_account_exists[c]
    BY <1>6 DEF ReadClientFails, IInv
  <2> QED
    BY <1>6, <2>1, AnsweredFacts, BuildPreserves DEF ReadClientFails
<1>7. CASE UNCHANGED vars
  BY <1>7 DEF vars, IInv, SeenExists, SentCreates, Creates, DepositNeverLacksAccounts
<1> QED
  BY <1>1, <1>2, <1>3, <1>4, <1>5, <1>6, <1>7, CreatePreserves, ExecutePreserves DEF Next

-----------------------------------------------------------------------------
\* However many builders and calls there are, and whatever lands between the
\* question for the client and the execution, no deposit lacks accounts it
\* needs.
THEOREM DepositNeverLacksAccountsHolds == Spec => []DepositNeverLacksAccounts
<1>1. IInv => DepositNeverLacksAccounts
  BY DEF IInv
<1> QED
  BY <1>1, InitIInv, StepIInv, PTL DEF Spec

-----------------------------------------------------------------------------
\* The ways in which an account of an instruction has got its address.
IsOther(d) == d.address = <<>>
IsSpot(d) == \E tag, a, b \in Nat :
  d.of = <<"spot", tag, a, b>> /\ d.address = new_spot_acc(tag, a, b)
IsToken(d) == \E m \in Mint : d.of = <<"token", m>> /\ d.address = new_token_acc(m)
IsAcc(d) == \E tag \in Nat : d.of = <<"acc", tag>> /\ d.address = new_acc(tag)
IsPrimary(d) == \E s \in Signer :
  d.of = <<"primary", s>> /\ d.address = new_client_primary_acc(s)
IsCommunity(d) == \E s \in Signer :
  d.of = <<"community", s>> /\ d.address = new_client_community_acc(s)

\* Accounts of the program and of its clients whose seed is a tag alone.
IsShort(d) == IsAcc(d) \/ IsPrimary(d) \/ IsCommunity(d)

FromHelper(d) == IsOther(d) \/ IsSpot(d) \/ IsToken(d) \/ IsShort(d)

\* The inductive invariant of the addresses: jobs are of the kinds there are,
\* and every account of an instruction is named for what its address was
\* derived from.
Named ==
  /\ job \in [Builder -> Job]
  /\ client_account_exists \in [Builder -> BOOLEAN]
  /\ DOMAIN instruction = Builder
  /\ \A b \in Builder : \A d \in instruction[b] : FromHelper(d)

-----------------------------------------------------------------------------
\* Equal concatenations whose second parts are keys have equal parts.
LEMMA SplitAtKey ==
  ASSUME NEW s \in Seq(Nat), NEW t \in Seq(Nat), NEW k \in Seq(Nat), NEW l \in Seq(Nat),
         Len(k) = 8, Len(l) = 8, s \o k = t \o l
  PROVE  s = t /\ k = l
<1>1. /\ Len(s \o k) = Len(s) + Len(k)
      /\ \A i \in 1..(Len(s) + Len(k)) :
           (s \o k)[i] = IF i <= Len(s) THEN s[i] ELSE k[i - Len(s)]
  BY ConcatProperties
<1>2. /\ Len(t \o l) = Len(t) + Len(l)
      /\ \A i \in 1..(Len(t) + Len(l)) :
           (t \o l)[i] = IF i <= Len(t) THEN t[i] ELSE l[i - Len(t)]
  BY ConcatProperties
<1>3. Len(s) \in Nat /\ Len(t) \in Nat
  BY LenProperties
<1>4. Len(s) = Len(t)
  BY <1>1, <1>2, <1>3
<1>5. ASSUME NEW i \in 1..Len(s)
      PROVE  s[i] = t[i]
  <2>1. i \in 1..(Len(s) + 8) /\ i <= Len(s)
    BY <1>3
  <2>2. QED
    BY <2>1, <1>1, <1>2, <1>4
<1>6. ASSUME NEW i \in 1..8
      PROVE  k[i] = l[i]
  <2>1. /\ Len(s) + i \in 1..(Len(s) + 8)
        /\ ~(Len(s) + i <= Len(s))
        /\ (Len(s) + i) - Len(s) = i
    BY <1>3
  <2>2. QED
    BY <2>1, <1>1, <1>2, <1>4
<1>7. s = t
  BY <1>4, <1>5, SeqEqual
<1>8. k = l
  BY <1>6, SeqEqual
<1>9. QED
  BY <1>7, <1>8

LEMMA SameKey ==
  ASSUME NEW s \in Seq(Nat), NEW k \in Seq(Nat), NEW l \in Seq(Nat),
         Len(k) = 8, Len(l) = 8, s \o k = s \o l
  PROVE  k = l
BY SplitAtKey

LEMMA WordsHashed ==
  ASSUME NEW s \in Seq(Nat), NEW k \in Seq(Nat), NEW n \in Nat,
         Len(s) = n, Len(k) = 8
  PROVE  Len(s \o k) = n + 8
<1>1. Len(s \o k) = Len(s) + Len(k)
  BY ConcatProperties
<1>2. QED
  BY <1>1

\* What the token helper hashes of a mint has eight words.
LEMMA TokenSeed ==
  ASSUME NEW m \in Mint
  PROVE  /\ get_token_seed_bytes(VERSION, m) \in Seq(Nat)
         /\ Len(get_token_seed_bytes(VERSION, m)) = 8
<1>1. m \in Seq(Nat) /\ Len(m) = 8 /\ VERSION \in Nat
  BY AddressAssumption
<1>2. \A i \in 1..8 : m[i] \in Nat
  BY <1>1, ElementOfSeq
<1>3. QED
  BY <1>1, <1>2 DEF get_token_seed_bytes

\* Equal token seeds come of equal first words.
LEMMA TokenSeedsEqual ==
  ASSUME NEW m \in Mint, NEW n \in Mint,
         get_token_seed_bytes(VERSION, m) = get_token_seed_bytes(VERSION, n)
  PROVE  \A i \in 1..7 : m[i] = n[i]
<1>1. ASSUME NEW i \in 1..7
      PROVE  /\ get_token_seed_bytes(VERSION, m)[i] = m[i]
             /\ get_token_seed_bytes(VERSION, n)[i] = n[i]
  BY DEF get_token_seed_bytes
<1>2. QED
  BY <1>1

\* The seeds other than a token's, with their lengths.
LEMMA Seeds ==
  ASSUME NEW tag \in Nat, NEW a \in Nat, NEW b \in Nat
  PROVE  /\ get_seed_bytes_by_id(VERSION, tag, a, b) \in Seq(Nat)
         /\ Len(get_seed_bytes_by_id(VERSION, tag, a, b)) = 4
         /\ get_seed_bytes(VERSION, tag) \in Seq(Nat)
         /\ Len(get_seed_bytes(VERSION, tag)) = 2
BY AddressAssumption DEF get_seed_bytes_by_id, get_seed_bytes

-----------------------------------------------------------------------------
\* Keys are sequences of eight words.
LEMMA Keys ==
  /\ DRVS_AUTH \in Seq(Nat) /\ Len(DRVS_AUTH) = 8
  /\ \A s \in Signer : s \in Seq(Nat) /\ Len(s) = 8 /\ s # DRVS_AUTH
BY AddressAssumption

\* Two addresses of the program's own accounts.
LEMMA SpotsApart ==
  ASSUME NEW x, NEW y, IsSpot(x), IsSpot(y), x.address = y.address
  PROVE  x.of = y.of
<1>1. PICK tag \in Nat, a \in Nat, b \in Nat :
        x.of = <<"spot", tag, a, b>> /\ x.address = new_spot_acc(tag, a, b)
  BY DEF IsSpot
<1>2. PICK tag2 \in Nat, a2 \in Nat, b2 \in Nat :
        y.of = <<"spot", tag2, a2, b2>> /\ y.address = new_spot_acc(tag2, a2, b2)
  BY DEF IsSpot
<1>3. /\ get_seed_bytes_by_id(VERSION, tag, a, b) \in Seq(Nat)
      /\ get_seed_bytes_by_id(VERSION, tag2, a2, b2) \in Seq(Nat)
  BY Seeds, AddressAssumption
<1>4. get_seed_bytes_by_id(VERSION, tag, a, b) \o DRVS_AUTH
        = get_seed_bytes_by_id(VERSION, tag2, a2, b2) \o DRVS_AUTH
  BY <1>1, <1>2 DEF new_spot_acc, find_program_address
<1>5. get_seed_bytes_by_id(VERSION, tag, a, b) = get_seed_bytes_by_id(VERSION, tag2, a2, b2)
  BY <1>3, <1>4, Keys, SplitAtKey
<1>6. tag = tag2 /\ a = a2 /\ b = b2
  BY <1>5 DEF get_seed_bytes_by_id
<1>7. QED
  BY <1>1, <1>2, <1>6

LEMMA TokensApart ==
  ASSUME NEW x, NEW y, IsToken(x), IsToken(y), x.address = y.address
  PROVE  SameTokenSeed(x.of, y.of)
<1>1. PICK m \in Mint : x.of = <<"token", m>> /\ x.address = new_token_acc(m)
  BY DEF IsToken
<1>2. PICK n \in Mint : y.of = <<"token", n>> /\ y.address = new_token_acc(n)
  BY DEF IsToken
<1>3. get_token_seed_bytes(VERSION, m) \o DRVS_AUTH
        = get_token_seed_bytes(VERSION, n) \o DRVS_AUTH
  BY <1>1, <1>2 DEF new_token_acc, find_program_address
<1>4. get_token_seed_bytes(VERSION, m) = get_token_seed_bytes(VERSION, n)
  BY <1>3, TokenSeed, Keys, SplitAtKey
<1>5. \A i \in 1..7 : m[i] = n[i]
  BY <1>4, TokenSeedsEqual
<1>6. QED
  BY <1>1, <1>2, <1>5 DEF SameTokenSeed

\* Equal short addresses have equal tags and keys.
LEMMA ShortSeedsEqual ==
  ASSUME NEW t \in Nat, NEW u \in Nat, NEW k \in Signer \cup {DRVS_AUTH},
         NEW l \in Signer \cup {DRVS_AUTH},
         find_program_address(get_seed_bytes(VERSION, t), k)
           = find_program_address(get_seed_bytes(VERSION, u), l)
  PROVE  t = u /\ k = l
<1>1. get_seed_bytes(VERSION, t) \in Seq(Nat) /\ get_seed_bytes(VERSION, u) \in Seq(Nat)
  BY Seeds
<1>2. k \in Seq(Nat) /\ Len(k) = 8 /\ l \in Seq(Nat) /\ Len(l) = 8
  BY Keys
<1>3. get_seed_bytes(VERSION, t) \o k = get_seed_bytes(VERSION, u) \o l
  BY DEF find_program_address
<1>4. get_seed_bytes(VERSION, t) = get_seed_bytes(VERSION, u)
  BY <1>1, <1>2, <1>3, SplitAtKey, Zenon
<1>5. k = l
  <2>1. get_seed_bytes(VERSION, t) \o k = get_seed_bytes(VERSION, t) \o l
    BY <1>3, <1>4
  <2>2. QED
    BY <1>1, <1>2, <2>1, SameKey
<1>6. QED
  BY <1>4, <1>5 DEF get_seed_bytes

\* A short address, with its tag and its key, tells what was asked.
LEMMA ShortForm ==
  ASSUME NEW d, IsShort(d)
  PROVE  \E t \in Nat, k \in Signer \cup {DRVS_AUTH} :
           /\ d.address = find_program_address(get_seed_bytes(VERSION, t), k)
           /\ k = DRVS_AUTH => d.of = <<"acc", t>>
           /\ k # DRVS_AUTH /\ t = Tag["CLIENT_PRIMARY"] => d.of = <<"primary", k>>
           /\ k # DRVS_AUTH /\ t # Tag["CLIENT_PRIMARY"] => d.of = <<"community", k>>
<1>1. CASE IsAcc(d)
  BY <1>1, AddressAssumption DEF IsAcc, new_acc
<1>2. CASE IsPrimary(d)
  <2>1. PICK s \in Signer : d.of = <<"primary", s>> /\ d.address = new_client_primary_acc(s)
    BY <1>2 DEF IsPrimary
  <2>2. Tag["CLIENT_PRIMARY"] \in Nat /\ s # DRVS_AUTH
    BY AddressAssumption DEF AccountType
  <2>3. QED
    BY <2>1, <2>2 DEF new_client_primary_acc
<1>3. CASE IsCommunity(d)
  <2>1. PICK s \in Signer :
          d.of = <<"community", s>> /\ d.address = new_client_community_acc(s)
    BY <1>3 DEF IsCommunity
  <2>2. Tag["CLIENT_COMMUNITY"] \in Nat /\ s # DRVS_AUTH /\ Tag["CLIENT_COMMUNITY"] # Tag["CLIENT_PRIMARY"]
    BY AddressAssumption DEF AccountType
  <2>3. QED
    BY <2>1, <2>2 DEF new_client_community_acc
<1>4. QED
  BY <1>1, <1>2, <1>3 DEF IsShort

LEMMA ShortsApart ==
  ASSUME NEW x, NEW y, IsShort(x), IsShort(y), x.address = y.address
  PROVE  x.of = y.of
<1>1. PICK t \in Nat, k \in Signer \cup {DRVS_AUTH} :
        /\ x.address = find_program_address(get_seed_bytes(VERSION, t), k)
        /\ k = DRVS_AUTH => x.of = <<"acc", t>>
        /\ k # DRVS_AUTH /\ t = Tag["CLIENT_PRIMARY"] => x.of = <<"primary", k>>
        /\ k # DRVS_AUTH /\ t # Tag["CLIENT_PRIMARY"] => x.of = <<"community", k>>
  BY ShortForm
<1>2. PICK u \in Nat, l \in Signer \cup {DRVS_AUTH} :
        /\ y.address = find_program_address(get_seed_bytes(VERSION, u), l)
        /\ l = DRVS_AUTH => y.of = <<"acc", u>>
        /\ l # DRVS_AUTH /\ u = Tag["CLIENT_PRIMARY"] => y.of = <<"primary", l>>
        /\ l # DRVS_AUTH /\ u # Tag["CLIENT_PRIMARY"] => y.of = <<"community", l>>
  BY ShortForm
<1>3. find_program_address(get_seed_bytes(VERSION, t), k)
        = find_program_address(get_seed_bytes(VERSION, u), l)
  BY <1>1, <1>2
<1>4. t = u /\ k = l
  BY <1>3, ShortSeedsEqual
<1>5. QED
  BY <1>1, <1>2, <1>4

\* What is hashed for a spot account, a token account and the others has
\* twelve, sixteen and ten words.
LEMMA Lengths ==
  ASSUME NEW d
  PROVE  /\ IsSpot(d) => Len(d.address) = 12
         /\ IsToken(d) => Len(d.address) = 16
         /\ IsShort(d) => Len(d.address) = 10
<1>1. ASSUME IsSpot(d) PROVE Len(d.address) = 12
  <2>1. PICK tag \in Nat, a \in Nat, b \in Nat :
          d.address = get_seed_bytes_by_id(VERSION, tag, a, b) \o DRVS_AUTH
    BY <1>1 DEF IsSpot, new_spot_acc, find_program_address
  <2>2. /\ get_seed_bytes_by_id(VERSION, tag, a, b) \in Seq(Nat)
        /\ Len(get_seed_bytes_by_id(VERSION, tag, a, b)) = 4
    BY Seeds, AddressAssumption
  <2>3. Len(get_seed_bytes_by_id(VERSION, tag, a, b) \o DRVS_AUTH) = 4 + 8
    BY <2>2, Keys, WordsHashed, Zenon
  <2>4. QED
    BY <2>1, <2>3
<1>2. ASSUME IsToken(d) PROVE Len(d.address) = 16
  <2>1. PICK m \in Mint : d.address = get_token_seed_bytes(VERSION, m) \o DRVS_AUTH
    BY <1>2 DEF IsToken, new_token_acc, find_program_address
  <2>2. Len(get_token_seed_bytes(VERSION, m) \o DRVS_AUTH) = 8 + 8
    <3>1. /\ get_token_seed_bytes(VERSION, m) \in Seq(Nat)
          /\ Len(get_token_seed_bytes(VERSION, m)) = 8
          /\ 8 \in Nat
      BY TokenSeed
    <3>2. QED
      BY <3>1, Keys, WordsHashed, Zenon
  <2>3. QED
    BY <2>1, <2>2
<1>3. ASSUME IsShort(d) PROVE Len(d.address) = 10
  <2>1. PICK t \in Nat, k \in Signer \cup {DRVS_AUTH} :
          d.address = get_seed_bytes(VERSION, t) \o k
    BY <1>3, ShortForm DEF find_program_address
  <2>2. get_seed_bytes(VERSION, t) \in Seq(Nat) /\ Len(get_seed_bytes(VERSION, t)) = 2
    BY Seeds
  <2>3. k \in Seq(Nat) /\ Len(k) = 8
    BY Keys
  <2>4. Len(get_seed_bytes(VERSION, t) \o k) = 2 + 8
    BY <2>2, <2>3, WordsHashed, Zenon
  <2>5. QED
    BY <2>1, <2>4
<1>4. QED
  BY <1>1, <1>2, <1>3

-----------------------------------------------------------------------------
\* Every account the builders name in an instruction is of one of the forms.
LEMMA DepositFromHelper ==
  ASSUME NEW s \in Signer, NEW m \in Mint, NEW e \in BOOLEAN, NEW l,
         NEW d \in Deposit(s, m, e, l)
  PROVE  FromHelper(d)
<1>1. Tag["ROOT"] \in Nat
  BY AddressAssumption DEF AccountType
<1>2. ASSUME NEW of, NEW w PROVE FromHelper(Other(of, w))
  BY DEF FromHelper, IsOther, Other, Meta
<1>3. ASSUME NEW w PROVE FromHelper(Acc("ROOT", w))
  BY <1>1 DEF FromHelper, IsShort, IsAcc, Acc, Meta
<1>4. FromHelper(TokenState(m))
  BY DEF FromHelper, IsToken, TokenState, Meta
<1>5. FromHelper(ClientPrimary(s)) /\ FromHelper(ClientCommunity(s))
  BY DEF FromHelper, IsShort, IsPrimary, IsCommunity, ClientPrimary, ClientCommunity, Meta
<1>6. QED
  BY <1>2, <1>3, <1>4, <1>5 DEF Deposit, CreationAccounts

LEMMA OrderFromHelper ==
  ASSUME NEW s \in Signer, NEW m \in Mint, NEW n \in Mint, NEW d \in Order(s, m, n)
  PROVE  FromHelper(d)
<1>1. /\ Tag["ROOT"] \in Nat /\ Tag["COMMUNITY"] \in Nat
      /\ \A type \in SpotAccounts : Tag[type] \in Nat
      /\ TokenId[m] \in Nat /\ TokenId[n] \in Nat
  BY AddressAssumption, SdkAssumption DEF AccountType, SpotAccounts
<1>2. ASSUME NEW of, NEW w PROVE FromHelper(Other(of, w))
  BY DEF FromHelper, IsOther, Other, Meta
<1>3. ASSUME NEW w PROVE FromHelper(Acc("ROOT", w)) /\ FromHelper(Acc("COMMUNITY", w))
  BY <1>1 DEF FromHelper, IsShort, IsAcc, Acc, Meta
<1>4. FromHelper(ClientPrimary(s)) /\ FromHelper(ClientCommunity(s))
  BY DEF FromHelper, IsShort, IsPrimary, IsCommunity, ClientPrimary, ClientCommunity, Meta
<1>5. ASSUME NEW type \in SpotAccounts PROVE FromHelper(Spot(type, TokenId[m], TokenId[n]))
  BY <1>1 DEF FromHelper, IsSpot, Spot, Meta
<1>6. QED
  BY <1>2, <1>3, <1>4, <1>5 DEF Order

\* Steps that leave the instructions alone keep the invariant.
LEMMA NoInstruction ==
  ASSUME Named, UNCHANGED <<job, instruction>>,
         client_account_exists' \in [Builder -> BOOLEAN]
  PROVE  Named'
BY DEF Named, FromHelper, IsOther, IsSpot, IsToken, IsShort, IsAcc, IsPrimary, IsCommunity

LEMMA CreateNamed ==
  ASSUME Named, NEW b \in Builder, create_instruction(b)
  PROVE  Named'
<1>1. /\ UNCHANGED <<job, client_account_exists>>
      /\ DOMAIN instruction' = Builder
      /\ \A c \in Builder \ {b} : instruction'[c] = instruction[c]
  BY DEF create_instruction, Named
<1>2. job[b] \in Job /\ client_account_exists[b] \in BOOLEAN
  BY DEF Named
<1>3. ASSUME NEW d \in instruction'[b]
      PROVE  FromHelper(d)
  <2>1. CASE job[b].kind = "deposit"
    <3>1. d \in Deposit(job[b].signer, job[b].mints[1], client_account_exists[b], lut_slot[b])
      BY <2>1, <1>3 DEF create_instruction, Named
    <3>2. job[b].signer \in Signer /\ job[b].mints[1] \in Mint
      BY <2>1, <1>2 DEF Job
    <3>3. QED
      BY <1>2, <3>1, <3>2, DepositFromHelper
  <2>2. CASE job[b].kind = "order"
    <3>1. d \in Order(job[b].signer, job[b].mints[1], job[b].mints[2])
      BY <2>2, <1>3 DEF create_instruction, Named
    <3>2. job[b].signer \in Signer /\ job[b].mints[1] \in Mint /\ job[b].mints[2] \in Mint
      BY <2>2, <1>2, SdkAssumption DEF Job
    <3>3. QED
      BY <3>1, <3>2, OrderFromHelper
  <2>3. QED
    BY <2>1, <2>2 DEF create_instruction
<1>4. QED
  BY <1>1, <1>3 DEF Named, FromHelper, IsOther, IsSpot, IsToken, IsShort, IsAcc,
                    IsPrimary, IsCommunity

LEMMA NamedPreserved == Named /\ [Next]_vars => Named'
<1> SUFFICES ASSUME Named, [Next]_vars
             PROVE  Named'
  OBVIOUS
<1>1. CASE Tick
  BY <1>1, NoInstruction DEF Tick, Named
<1>2. ASSUME NEW b \in Builder, ReadAccount(b)
      PROVE  Named'
  BY <1>2, NoInstruction DEF ReadAccount, Answered, Named
<1>3. ASSUME NEW b \in Builder, ReadSlot(b)
      PROVE  Named'
  BY <1>3, NoInstruction DEF ReadSlot, Answered, Named
<1>4. ASSUME NEW b \in Builder, ReadClient(b)
      PROVE  Named'
  <2>1. client_account_exists' \in [Builder -> BOOLEAN]
    BY <1>4 DEF ReadClient, Named
  <2>2. QED
    BY <1>4, <2>1, NoInstruction DEF ReadClient, Answered
<1>5. ASSUME NEW b \in Builder, ReadFails(b)
      PROVE  Named'
  BY <1>5, NoInstruction DEF ReadFails, Named
<1>6. ASSUME NEW b \in Builder, ReadClientFails(b)
      PROVE  Named'
  <2>1. client_account_exists' \in [Builder -> BOOLEAN]
    BY <1>6 DEF ReadClientFails, Named
  <2>2. QED
    BY <1>6, <2>1, NoInstruction DEF ReadClientFails, Answered
<1>7. ASSUME NEW b \in Builder, Execute(b)
      PROVE  Named'
  BY <1>7, NoInstruction DEF Execute, Named
<1>8. CASE UNCHANGED vars
  BY <1>8, NoInstruction DEF vars, Named
<1>9. QED
  BY <1>1, <1>2, <1>3, <1>4, <1>5, <1>6, <1>7, <1>8, CreateNamed DEF Next

\* Accounts of the forms of Named are apart.
LEMMA NamedApart == Named => AddressesApart
<1> SUFFICES ASSUME Named, NEW b \in Builder, NEW c \in Builder,
                    NEW x \in instruction[b], NEW y \in instruction[c],
                    x.address = y.address, x.address # <<>>
             PROVE  x.of = y.of \/ SameTokenSeed(x.of, y.of)
  BY DEF AddressesApart
<1>1. /\ IsSpot(x) \/ IsToken(x) \/ IsShort(x)
      /\ IsSpot(y) \/ IsToken(y) \/ IsShort(y)
  BY DEF Named, FromHelper, IsOther
<1>2. \/ IsSpot(x) /\ IsSpot(y)
      \/ IsToken(x) /\ IsToken(y)
      \/ IsShort(x) /\ IsShort(y)
  <2>1. /\ IsSpot(x) => Len(x.address) = 12
        /\ IsToken(x) => Len(x.address) = 16
        /\ IsShort(x) => Len(x.address) = 10
    BY Lengths
  <2>2. /\ IsSpot(y) => Len(x.address) = 12
        /\ IsToken(y) => Len(x.address) = 16
        /\ IsShort(y) => Len(x.address) = 10
    BY Lengths
  <2>3. /\ ~(IsSpot(x) /\ IsToken(y)) /\ ~(IsSpot(x) /\ IsShort(y))
        /\ ~(IsToken(x) /\ IsSpot(y)) /\ ~(IsToken(x) /\ IsShort(y))
        /\ ~(IsShort(x) /\ IsSpot(y)) /\ ~(IsShort(x) /\ IsToken(y))
    <3>1. 12 # 16 /\ 12 # 10 /\ 16 # 10
      OBVIOUS
    <3>2. QED
      BY <2>1, <2>2, <3>1, Zenon
  <2>4. QED
    BY <1>1, <2>3, Zenon
<1>3. QED
  BY <1>2, SpotsApart, TokensApart, ShortsApart

\* Whatever the tags, ids, mints and signers, helper.rs gives two accounts of
\* the builders' instructions one address only if they are token states of
\* mints alike in 28 bytes.
THEOREM AddressesApartHolds == Spec => []AddressesApart
<1>1. Init => Named
  BY DEF Init, Named
<1>2. QED
  BY <1>1, NamedPreserved, NamedApart, PTL DEF Spec
=============================================================================
