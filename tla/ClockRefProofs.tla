--------------------------- MODULE ClockRefProofs ---------------------------
(***************************************************************************)
(* Proofs about ClockRef: for any number of threads, any clocks and any    *)
(* delay of the stores, updates that do not race leave a whole clock, and  *)
(* no field goes back.                                                     *)
(***************************************************************************)
EXTENDS ClockRef, SequenceTheorems, TLAPS

Types ==
  /\ chain \in Nat
  /\ held \in [Thread -> SUBSET Nat]
  /\ given \in [Thread -> Nat]
  /\ fields \in [Field -> Nat]
  /\ stores \in [Thread -> [Field -> Seq(Nat)]]
  /\ raced \in BOOLEAN

\* A thread has only newer clocks in hand than it gave last.
HeldIsNewer == \A t \in Thread : \A c \in held[t] : given[t] < c

\* Only one thread has stores under way, and none gave a newer clock.
OneUpdates ==
  \A t, u \in Thread :
    UnderWay(t) => /\ t # u => ~UnderWay(u)
                   /\ given[u] <= given[t]

\* Stores under way are in order, up to the clock given last.
InOrder(s) == \A i, j \in 1 .. Len(s) : i <= j => s[i] <= s[j]

Coming(t, f) ==
  stores[t][f] # <<>> =>
    /\ fields[f] <= stores[t][f][1]
    /\ stores[t][f][Len(stores[t][f])] = given[t]
    /\ InOrder(stores[t][f])

\* A field for which no store is under way holds the newest clock given.
Landed(f) ==
  (\A t \in Thread : stores[t][f] = <<>>) =>
    /\ \A t \in Thread : given[t] <= fields[f]
    /\ fields[f] = 0 \/ \E t \in Thread : given[t] = fields[f]

\* Also after a race no clock is seen, or on its way, that no thread gave.
Given ==
  /\ \A f \in Field : fields[f] = 0 \/ \E t \in Thread : fields[f] <= given[t]
  /\ \A t \in Thread, f \in Field :
       \A i \in 1 .. Len(stores[t][f]) : stores[t][f][i] <= given[t]

Calm ==
  /\ OneUpdates
  /\ \A t \in Thread, f \in Field : Coming(t, f)
  /\ \A f \in Field : Landed(f)

\* The inductive invariant.
IInv == Types /\ HeldIsNewer /\ Given /\ (~raced => Calm)

-----------------------------------------------------------------------------
LEMMA InitIInv == Init => IInv
<1> SUFFICES ASSUME Init PROVE IInv
  OBVIOUS
<1>1. Types /\ HeldIsNewer
  <2>1. [f \in Field |-> <<>>] \in [Field -> Seq(Nat)]
    OBVIOUS
  <2>2. stores \in [Thread -> [Field -> Seq(Nat)]]
    BY <2>1 DEF Init
  <2> QED
    BY <2>2 DEF Init, Types, HeldIsNewer
<1>2. \A t \in Thread, f \in Field : stores[t][f] = <<>>
  BY DEF Init
<1>3. Calm
  BY <1>2 DEF Init, Calm, OneUpdates, UnderWay, Coming, Landed
<1>4. Given
  BY <1>2 DEF Init, Given
<1> QED
  BY <1>1, <1>3, <1>4 DEF IInv

\* A clock is appended to stores in order, behind older ones.
LEMMA AppendInOrder ==
  ASSUME NEW s \in Seq(Nat), NEW c \in Nat, InOrder(s),
         s # <<>> => s[Len(s)] <= c
  PROVE  /\ Append(s, c) \in Seq(Nat) /\ Append(s, c) # <<>>
         /\ Append(s, c)[Len(Append(s, c))] = c
         /\ s # <<>> => Append(s, c)[1] = s[1]
         /\ s = <<>> => Append(s, c)[1] = c
         /\ InOrder(Append(s, c))
<1>1. /\ Append(s, c) \in Seq(Nat) /\ Len(Append(s, c)) = Len(s) + 1
      /\ \A i \in 1 .. Len(s) : Append(s, c)[i] = s[i]
      /\ Append(s, c)[Len(s) + 1] = c
      /\ Len(s) \in Nat /\ (s # <<>> => Len(s) >= 1) /\ (s = <<>> => Len(s) = 0)
  OBVIOUS
<1>2. \A i \in 1 .. Len(s) : s[i] \in Nat /\ s[i] <= c
  BY <1>1 DEF InOrder
<1>3. InOrder(Append(s, c))
  BY <1>1, <1>2 DEF InOrder
<1> QED
  BY <1>1, <1>3

\* The first of the stores is taken away.
LEMMA TailInOrder ==
  ASSUME NEW s \in Seq(Nat), s # <<>>, InOrder(s)
  PROVE  /\ Head(s) = s[1] /\ s[1] \in Nat /\ Tail(s) \in Seq(Nat)
         /\ Tail(s) = <<>> => s[Len(s)] = s[1]
         /\ Tail(s) # <<>> => /\ s[1] <= Tail(s)[1]
                              /\ Tail(s)[Len(Tail(s))] = s[Len(s)]
         /\ InOrder(Tail(s))
<1>1. /\ Tail(s) \in Seq(Nat) /\ Len(Tail(s)) = Len(s) - 1 /\ Len(s) \in Nat /\ Len(s) >= 1
      /\ \A i \in 1 .. Len(s) - 1 : Tail(s)[i] = s[i + 1]
      /\ Head(s) = s[1] /\ s[1] \in Nat
      /\ (Tail(s) = <<>> <=> Len(s) = 1)
  <2>1. Len(s) \in Nat /\ Len(s) >= 1
    OBVIOUS
  <2>2. /\ Tail(s) \in Seq(Nat) /\ Len(Tail(s)) = Len(s) - 1
        /\ \A i \in 1 .. Len(s) - 1 : Tail(s)[i] = s[i + 1]
    BY <2>1
  <2>3. Head(s) = s[1] /\ s[1] \in Nat
    BY <2>1
  <2>4. Tail(s) = <<>> <=> Len(s) = 1
    <3>1. Tail(s) = <<>> <=> Len(Tail(s)) = 0
      BY <2>2, EmptySeq, Zenon
    <3>2. Len(Tail(s)) = 0 <=> Len(s) = 1
      BY <2>1, <2>2
    <3> QED
      BY <3>1, <3>2, Zenon
  <2> QED
    BY <2>1, <2>2, <2>3, <2>4
<1>2. InOrder(Tail(s))
  BY <1>1 DEF InOrder
<1>3. Tail(s) # <<>> => /\ s[1] <= Tail(s)[1]
                        /\ Tail(s)[Len(Tail(s))] = s[Len(s)]
  BY <1>1 DEF InOrder
<1> QED
  BY <1>1, <1>2, <1>3

\* And the same of an upper bound.
LEMMA AppendBounded ==
  ASSUME NEW s \in Seq(Nat), NEW b \in Nat, NEW c \in Nat, b <= c,
         \A i \in 1 .. Len(s) : s[i] <= b
  PROVE  \A i \in 1 .. Len(Append(s, c)) : Append(s, c)[i] <= c
<1>1. /\ Len(Append(s, c)) = Len(s) + 1 /\ Len(s) \in Nat
      /\ \A i \in 1 .. Len(s) : Append(s, c)[i] = s[i]
      /\ \A i \in 1 .. Len(s) : s[i] \in Nat
      /\ Append(s, c)[Len(s) + 1] = c
  OBVIOUS
<1> QED
  BY <1>1

LEMMA TailBounded ==
  ASSUME NEW s \in Seq(Nat), s # <<>>, NEW b \in Nat, \A i \in 1 .. Len(s) : s[i] <= b
  PROVE  Head(s) <= b /\ \A i \in 1 .. Len(Tail(s)) : Tail(s)[i] <= b
<1>1. Len(s) \in Nat /\ Len(s) >= 1
  OBVIOUS
<1>2. /\ Len(Tail(s)) = Len(s) - 1 /\ Head(s) = s[1]
      /\ \A i \in 1 .. Len(s) - 1 : Tail(s)[i] = s[i + 1]
  BY <1>1
<1> QED
  BY <1>1, <1>2

-----------------------------------------------------------------------------
\* Steps that neither give a clock nor land a store.
LEMMA QuietStep ==
  ASSUME IInv, UNCHANGED <<given, fields, stores, raced>>,
         chain' \in Nat, held' \in [Thread -> SUBSET Nat], HeldIsNewer'
  PROVE  IInv'
<1>1. Types'
  BY DEF IInv, Types
<1>2. Calm => Calm'
  BY DEF Calm, OneUpdates, UnderWay, Coming, Landed
<1>3. Given'
  BY DEF IInv, Given
<1> QED
  BY <1>1, <1>2, <1>3 DEF IInv

LEMMA ReadClockStep ==
  ASSUME IInv, NEW t \in Thread, ReadClock(t)
  PROVE  IInv'
<1>1. chain' \in Nat /\ held' \in [Thread -> SUBSET Nat]
  BY DEF IInv, Types, ReadClock
<1>2. HeldIsNewer'
  BY DEF IInv, Types, HeldIsNewer, ReadClock
<1> QED
  BY <1>1, <1>2, QuietStep DEF ReadClock

\* An update that has the clock to itself gives the newest clock, while no other
\* thread has stores under way.
LEMMA UpdateStep ==
  ASSUME IInv, NEW t \in Thread, update(t)
  PROVE  IInv'
<1>1. PICK clock \in held[t] :
        /\ held' = [held EXCEPT ![t] = {}]
        /\ given' = [given EXCEPT ![t] = clock]
        /\ stores' = [stores EXCEPT ![t] = update_stores(t, clock)]
        /\ raced' = (~HasItself(t, clock) \/ (raced /\ UnderWay(t)))
        /\ UNCHANGED <<chain, fields>>
  BY DEF update
<1>2. clock \in Nat /\ given[t] \in Nat /\ given[t] < clock
  BY DEF IInv, Types, HeldIsNewer
<1>3. /\ \A f \in Field : stores'[t][f] = Append(stores[t][f], clock)
      /\ \A u \in Thread \ {t} : stores'[u] = stores[u] /\ given'[u] = given[u]
      /\ given'[t] = clock
  BY <1>1 DEF IInv, Types, update_stores
<1>4. \A u \in Thread, f \in Field : stores[u][f] \in Seq(Nat)
  BY DEF IInv, Types
<1>5. Types'
  <2>1. update_stores(t, clock) \in [Field -> Seq(Nat)]
    BY <1>2, <1>4 DEF update_stores
  <2> QED
    BY <1>1, <1>2, <2>1 DEF IInv, Types
<1>6. HeldIsNewer'
  BY <1>1 DEF IInv, Types, HeldIsNewer
<1>7. Given'
  <2>1. fields' = fields /\ Given /\ \A u \in Thread : given[u] \in Nat /\ given'[u] \in Nat
    BY <1>1, <1>5 DEF IInv, Types
  <2>2. \A u \in Thread : given[u] <= given'[u]
    BY <1>2, <1>3, <2>1
  <2>3. ASSUME NEW f \in Field PROVE fields'[f] = 0 \/ \E u \in Thread : fields'[f] <= given'[u]
    <3>1. CASE fields[f] = 0
      BY <2>1, <3>1
    <3>2. CASE fields[f] # 0
      <4>1. PICK u \in Thread : fields[f] <= given[u]
        BY <2>1, <3>2 DEF Given
      <4>2. fields[f] \in Nat
        BY DEF IInv, Types
      <4> QED
        BY <2>1, <2>2, <4>1, <4>2
    <3> QED
      BY <3>1, <3>2
  <2>4. ASSUME NEW u \in Thread, NEW f \in Field, NEW i \in 1 .. Len(stores'[u][f])
        PROVE  stores'[u][f][i] <= given'[u]
    <3>1. CASE u = t
      <4>1. /\ stores[t][f] \in Seq(Nat) /\ given'[u] = clock
            /\ stores'[u][f] = Append(stores[t][f], clock)
        BY <1>3, <1>4, <3>1
      <4>2. \A j \in 1 .. Len(stores[t][f]) : stores[t][f][j] <= given[t]
        BY <2>1 DEF Given
      <4> QED
        BY <1>2, <4>1, <4>2, AppendBounded
    <3>2. CASE u # t
      BY <1>3, <2>1, <3>2 DEF Given
    <3> QED
      BY <3>1, <3>2
  <2> QED
    BY <2>3, <2>4 DEF Given
<1>8. ASSUME ~raced' PROVE Calm'
  <2>1. /\ raced => ~UnderWay(t)
        /\ ~raced => Calm
        /\ \A u \in Thread \ {t} : ~UnderWay(u) /\ given[u] <= clock
    BY <1>1, <1>8 DEF IInv, HasItself
  <2>2. \A u \in Thread : given[u] \in Nat /\ given[u] <= clock
    <3>1. \A u \in Thread : given[u] \in Nat
      BY DEF IInv, Types
    <3>2. ASSUME NEW u \in Thread \ {t} PROVE given[u] <= clock
      BY <2>1
    <3>3. given[t] <= clock
      BY <1>2
    <3> QED
      BY <3>1, <3>2, <3>3
  <2>3. \A u \in Thread \ {t}, f \in Field : stores[u][f] = <<>> /\ stores'[u][f] = <<>>
    BY <1>3, <2>1 DEF UnderWay
  <2>4. ASSUME NEW f \in Field
        PROVE  /\ stores'[t][f] # <<>>
               /\ Coming(t, f)'
    <3> DEFINE s == Append(stores[t][f], clock)
    <3>1. fields[f] \in Nat /\ stores[t][f] \in Seq(Nat) /\ fields'[f] = fields[f]
      BY <1>1, <1>4 DEF IInv, Types
    <3>2. CASE stores[t][f] = <<>>
      <4>1. fields[f] <= clock
        <5>1. fields[f] = 0 \/ \E u \in Thread : fields[f] <= given[u]
          BY DEF IInv, Given
        <5> QED
          BY <1>2, <2>2, <3>1, <5>1
      <4>2. InOrder(stores[t][f])
        BY <3>2 DEF InOrder
      <4>3. /\ s # <<>> /\ s[1] = clock
            /\ s[Len(s)] = clock /\ InOrder(s)
        BY <1>2, <3>1, <3>2, <4>2, AppendInOrder
      <4> QED
        BY <1>3, <3>1, <4>1, <4>3 DEF Coming
    <3>3. CASE stores[t][f] # <<>>
      <4>1. /\ fields[f] <= stores[t][f][1]
            /\ stores[t][f][Len(stores[t][f])] = given[t]
            /\ InOrder(stores[t][f])
        BY <2>1, <3>3 DEF Calm, Coming, UnderWay
      <4>2. stores[t][f][Len(stores[t][f])] <= clock
        BY <1>2, <4>1
      <4>3. /\ s # <<>> /\ s[1] = stores[t][f][1]
            /\ s[Len(s)] = clock /\ InOrder(s)
        BY <1>2, <3>1, <3>3, <4>1, <4>2, AppendInOrder
      <4> QED
        BY <1>3, <3>1, <4>1, <4>3 DEF Coming
    <3> QED
      BY <3>2, <3>3
  <2>5. OneUpdates'
    <3>1. \A u \in Thread : given'[u] <= given'[t]
      BY <1>2, <1>3, <2>2
    <3>2. \A u \in Thread \ {t} : ~UnderWay(u)'
      BY <2>3 DEF UnderWay
    <3> QED
      BY <3>1, <3>2 DEF OneUpdates
  <2>6. \A u \in Thread, f \in Field : Coming(u, f)'
    BY <2>3, <2>4 DEF Coming
  <2>7. \A f \in Field : Landed(f)'
    BY <2>4 DEF Landed
  <2> QED
    BY <2>5, <2>6, <2>7 DEF Calm
<1> QED
  BY <1>5, <1>6, <1>7, <1>8 DEF IInv

\* A store of the one thread that updates lands on its field.
LEMMA VisibleStep ==
  ASSUME IInv, NEW t \in Thread, NEW f \in Field, Visible(t, f)
  PROVE  IInv' /\ (~raced => fields[f] <= fields'[f])
<1> DEFINE s == stores[t][f]
<1>1. /\ s # <<>> /\ s \in Seq(Nat) /\ fields[f] \in Nat
      /\ UNCHANGED <<chain, held, given, raced>>
  BY DEF Visible, IInv, Types
<1>2. /\ fields' = [fields EXCEPT ![f] = Head(s)]
      /\ fields'[f] = Head(s)
      /\ \A g \in Field \ {f} : fields'[g] = fields[g]
  BY DEF Visible, IInv, Types
<1>3. /\ stores'[t][f] = Tail(s)
      /\ \A u \in Thread, g \in Field :
           u # t \/ g # f => stores'[u][g] = stores[u][g]
  BY DEF Visible, IInv, Types
<1>4. Head(s) \in Nat /\ Tail(s) \in Seq(Nat)
  BY <1>1
<1>5. Types'
  <2>1. stores' = [stores EXCEPT ![t][f] = Tail(s)]
    BY DEF Visible
  <2>2. stores' \in [Thread -> [Field -> Seq(Nat)]]
    BY <1>4, <2>1 DEF IInv, Types
  <2> QED
    BY <1>1, <1>2, <1>4, <2>2 DEF IInv, Types
<1>6. HeldIsNewer'
  BY <1>1 DEF IInv, HeldIsNewer
<1>7. Given'
  <2>1. /\ given' = given /\ given[t] \in Nat /\ Given
        /\ \A i \in 1 .. Len(s) : s[i] <= given[t]
    BY <1>1 DEF IInv, Types, Given
  <2>2. Head(s) <= given[t] /\ \A i \in 1 .. Len(Tail(s)) : Tail(s)[i] <= given[t]
    BY <1>1, <2>1, TailBounded
  <2>3. \A g \in Field : fields'[g] = 0 \/ \E u \in Thread : fields'[g] <= given'[u]
    BY <1>2, <2>1, <2>2 DEF Given
  <2>4. ASSUME NEW u \in Thread, NEW g \in Field, NEW i \in 1 .. Len(stores'[u][g])
        PROVE  stores'[u][g][i] <= given'[u]
    <3>1. CASE u = t /\ g = f
      BY <1>3, <2>1, <2>2, <3>1
    <3>2. CASE u # t \/ g # f
      BY <1>3, <2>1, <3>2 DEF Given
    <3> QED
      BY <3>1, <3>2
  <2> QED
    BY <2>3, <2>4 DEF Given
<1>8. ASSUME ~raced
      PROVE  Calm' /\ fields[f] <= fields'[f]
  <2>1. Calm
    BY <1>8 DEF IInv
  <2>2. /\ fields[f] <= s[1] /\ s[Len(s)] = given[t] /\ InOrder(s)
    BY <1>1, <2>1 DEF Calm, Coming
  <2>3. /\ Head(s) = s[1] /\ (Tail(s) = <<>> => s[Len(s)] = s[1])
        /\ Tail(s) # <<>> => s[1] <= Tail(s)[1] /\ Tail(s)[Len(Tail(s))] = s[Len(s)]
        /\ InOrder(Tail(s))
    BY <1>1, <2>2, TailInOrder
  <2>4. UnderWay(t)
    BY <1>1 DEF UnderWay
  <2>5. /\ \A u \in Thread \ {t} : ~UnderWay(u)
        /\ \A u \in Thread : given[u] <= given[t]
    BY <2>1, <2>4 DEF Calm, OneUpdates
  <2>6. \A u \in Thread \ {t}, g \in Field : stores[u][g] = <<>> /\ stores'[u][g] = <<>>
    BY <1>3, <2>5 DEF UnderWay
  <2>7. OneUpdates'
    <3>1. \A u \in Thread \ {t} : ~UnderWay(u)'
      BY <2>6 DEF UnderWay
    <3> QED
      BY <1>1, <2>5, <3>1 DEF OneUpdates
  <2>8. ASSUME NEW u \in Thread, NEW g \in Field
        PROVE  Coming(u, g)'
    <3>1. CASE u = t /\ g = f
      BY <1>1, <1>2, <1>3, <2>2, <2>3, <3>1 DEF Coming
    <3>2. CASE u = t /\ g # f
      <4>1. /\ stores'[u][g] = stores[u][g] /\ fields'[g] = fields[g]
            /\ given' = given /\ Coming(u, g)
        BY <1>1, <1>2, <1>3, <2>1, <3>2 DEF Calm
      <4> QED
        BY <4>1 DEF Coming
    <3>3. CASE u # t
      BY <2>6, <3>3 DEF Coming
    <3> QED
      BY <3>1, <3>2, <3>3
  <2>9. ASSUME NEW g \in Field
        PROVE  Landed(g)'
    <3>1. CASE g = f
      <4> SUFFICES ASSUME stores'[t][f] = <<>>
                   PROVE  /\ \A u \in Thread : given'[u] <= fields'[f]
                          /\ given'[t] = fields'[f]
        BY <3>1 DEF Landed
      <4>1. Tail(s) = <<>>
        BY <1>3
      <4> QED
        BY <1>1, <1>2, <2>2, <2>3, <2>5, <4>1
    <3>2. CASE g # f
      <4>1. /\ \A u \in Thread : stores'[u][g] = stores[u][g]
            /\ fields'[g] = fields[g] /\ given' = given /\ Landed(g)
        BY <1>1, <1>2, <1>3, <2>1, <3>2 DEF Calm
      <4> QED
        BY <4>1 DEF Landed
    <3> QED
      BY <3>1, <3>2
  <2> QED
    BY <1>2, <2>2, <2>3, <2>7, <2>8, <2>9 DEF Calm
<1> QED
  BY <1>1, <1>5, <1>6, <1>7, <1>8 DEF IInv

LEMMA StepIInv == IInv /\ [Next]_vars => IInv'
<1> SUFFICES ASSUME IInv, [Next]_vars PROVE IInv'
  OBVIOUS
<1>1. CASE Tick
  BY <1>1, QuietStep DEF Tick, IInv, Types, HeldIsNewer
<1>2. CASE UNCHANGED vars
  BY <1>2, QuietStep DEF vars, IInv, Types, HeldIsNewer
<1> QED
  BY <1>1, <1>2, ReadClockStep, UpdateStep, VisibleStep DEF Next

LEMMA AlwaysIInv == Spec => []IInv
BY InitIInv, StepIInv, PTL DEF Spec

-----------------------------------------------------------------------------
\* Whatever the number of threads and the delay of their stores: when updates
\* have not raced and their stores have landed, the five fields are one clock,
\* the newest that was given.
THEOREM WholeUnlessRacedHolds == Spec => []WholeUnlessRaced
<1>1. IInv => WholeUnlessRaced
  BY DEF IInv, WholeUnlessRaced, Quiet, UnderWay, Calm, Landed
<1> QED
  BY <1>1, AlwaysIInv, PTL

\* And no reader ever sees one of the fields go back.
THEOREM NeverTurnsBackHolds == Spec => NeverTurnsBackUnlessRaced
<1>1. IInv /\ [Next]_vars => [~raced => \A f \in Field : fields'[f] >= fields[f]]_vars
  <2> SUFFICES ASSUME IInv, Next, ~raced, NEW g \in Field
               PROVE  fields'[g] >= fields[g]
    OBVIOUS
  <2>1. fields[g] \in Nat
    BY DEF IInv, Types
  <2>2. ASSUME NEW t \in Thread, NEW f \in Field, Visible(t, f)
        PROVE  fields'[g] >= fields[g]
    <3>1. f # g => fields'[g] = fields[g]
      BY <2>2 DEF Visible, IInv, Types
    <3>2. IInv' /\ fields[f] <= fields'[f]
      BY <2>2, VisibleStep
    <3>3. fields'[g] \in Nat
      BY <3>2 DEF IInv, Types
    <3> QED
      BY <2>1, <3>1, <3>2, <3>3
  <2>3. CASE fields' = fields
    BY <2>1, <2>3
  <2> QED
    BY <2>2, <2>3 DEF Next, Tick, ReadClock, update
<1> QED
  BY <1>1, AlwaysIInv, PTL DEF Spec, NeverTurnsBackUnlessRaced
=============================================================================
