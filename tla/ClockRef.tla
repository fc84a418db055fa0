------------------------------ MODULE ClockRef ------------------------------
(***************************************************************************)
(* ClockRef of the Amm interface (src/jupiter-amm-interface/src/lib.rs):   *)
(* five atomics that all clones share, stored one by one with Relaxed      *)
(* ordering by update and loaded by whoever holds a clone.  Relaxed keeps  *)
(* the stores of one thread to one atomic in order and orders nothing      *)
(* else: a store is visible to the others at any later moment.             *)
(*                                                                         *)
(* A clock is abstracted to its number.  Where the clocks come from and    *)
(* who reads them is not part of the repository: threads take the newest   *)
(* clock of the chain.                                                     *)
(***************************************************************************)
EXTENDS Naturals, Sequences

CONSTANTS
  Thread,         \* the threads that call update on clones of one ClockRef
  MaxClock        \* bound on the clocks of the chain

ASSUME ClockAssumption == MaxClock \in Nat

Field == {"epoch", "slot", "unix_timestamp", "epoch_start_timestamp",
          "leader_schedule_epoch"}
Clock == 0 .. MaxClock

VARIABLES
  chain,   \* the newest clock
  held,    \* the clocks each thread has read and not yet given to update
  given,   \* the last clock each thread gave to update
  fields,  \* the five atomics, as the clock each was stored from
  stores,  \* of each thread and atomic, the stores not yet visible, in order
  raced    \* whether two threads had stores under way at one time, or one
           \* gave an older clock than another had, and no update had the
           \* clock to itself since

vars == <<chain, held, given, fields, stores, raced>>

TypeOK ==
  /\ chain \in Clock
  /\ held \in [Thread -> SUBSET Clock] /\ given \in [Thread -> Clock]
  /\ fields \in [Field -> Clock]
  /\ stores \in [Thread -> [Field -> Seq(Clock)]]
  /\ raced \in BOOLEAN

\* From<Clock>: the atomics are made of one clock.
Init ==
  /\ chain = 0
  /\ held = [t \in Thread |-> {}]
  /\ given = [t \in Thread |-> 0]
  /\ fields = [f \in Field |-> 0]
  /\ stores = [t \in Thread |-> [f \in Field |-> <<>>]]
  /\ raced = FALSE

UnderWay(t) == \E f \in Field : stores[t][f] # <<>>

Tick ==
  /\ chain < MaxClock
  /\ chain' = chain + 1
  /\ UNCHANGED <<held, given, fields, stores, raced>>

\* A thread reads the clock of the chain.
ReadClock(t) ==
  /\ held[t] = {} /\ given[t] < chain
  /\ held' = [held EXCEPT ![t] = {chain}]
  /\ UNCHANGED <<chain, given, fields, stores, raced>>

\* Mutations: the slot is counted within its epoch, of two; one store is missing.
update_storesInEpoch(t, clock) ==
  [f \in Field |-> Append(stores[t][f],
                         IF f = "slot" THEN clock % 2 ELSE clock)]

update_storesFour(t, clock) ==
  [f \in Field |-> IF f = "leader_schedule_epoch" THEN stores[t][f]
                   ELSE Append(stores[t][f], clock)]

\* The five stores of ClockRef::update.
update_stores(t, clock) == [f \in Field |-> Append(stores[t][f], clock)]

\* No other thread has stores under way, or gave a newer clock.
HasItself(t, clock) == \A u \in Thread \ {t} : ~UnderWay(u) /\ given[u] <= clock

update(t) ==
  \E clock \in held[t] :
    /\ held' = [held EXCEPT ![t] = {}]
    /\ given' = [given EXCEPT ![t] = clock]
    /\ stores' = [stores EXCEPT ![t] = update_stores(t, clock)]
    /\ raced' = (~HasItself(t, clock) \/ (raced /\ UnderWay(t)))
    /\ UNCHANGED <<chain, fields>>

\* A store becomes visible to the readers.
Visible(t, f) ==
  /\ stores[t][f] # <<>>
  /\ fields' = [fields EXCEPT ![f] = Head(stores[t][f])]
  /\ stores' = [stores EXCEPT ![t][f] = Tail(@)]
  /\ UNCHANGED <<chain, held, given, raced>>

Next ==
  \/ Tick
  \/ \E t \in Thread : ReadClock(t) \/ update(t)
  \/ \E t \in Thread, f \in Field : Visible(t, f)

\* The threads keep polling the clock, and a store becomes visible in finite
\* time; the chain need not go on.
Fairness ==
  /\ \A t \in Thread : WF_vars(ReadClock(t) \/ update(t))
  /\ \A t \in Thread, f \in Field : WF_vars(Visible(t, f))

Spec == Init /\ [][Next]_vars /\ Fairness

-----------------------------------------------------------------------------
Quiet == \A t \in Thread : ~UnderWay(t)

\* Once its stores have landed the clock is whole, and it is the newest that
\* was given to update.  After a race five fields of two clocks may stay, but no
\* longer than until an update has the clock to itself: it leaves nothing of them.
WholeUnlessRaced ==
  Quiet /\ ~raced =>
    \A f \in Field : /\ \A t \in Thread : given[t] <= fields[f]
                     /\ fields[f] = 0 \/ \E t \in Thread : given[t] = fields[f]

\* No reader sees a field go back to an older clock but after a race, also when
\* an update puts an end to what a race has left.
NeverTurnsBackUnlessRaced ==
  [][~raced => \A f \in Field : fields'[f] >= fields[f]]_vars

\* When the chain has stopped the clock ends with the clock of the chain in all
\* five fields, unless the last updates raced.
ReachesTheChain == <>[](raced \/ \A f \in Field : fields[f] = chain)
=============================================================================
