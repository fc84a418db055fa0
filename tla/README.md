# Verification of the Deriverse adapter

`titan-deriverse` lets the Titan aggregator trade on Deriverse, an exchange on
Solana whose markets combine an order book with a constant-product pool. The
crate runs off chain. It copies the accounts of one market, computes what a
trade would yield (`quote`), and builds the instruction that makes the trade.
This directory holds TLA+ models of it, TLC configurations that check them on
small instances, and proofs for every value of the constants.

Paths below are relative to `src/titan-deriverse/src/` unless they say otherwise.

## Inventory

| part | code | state | operations |
|---|---|---|---|
| pool arithmetic | `amm.rs` | `k`, `a_tokens`, `b_tokens`, `df` | price, quantity and sum on the curve, in three roundings |
| order book | `lines_linked_list.rs` | copied slots, two begin indexes, one count | `new`, `begin`, `cross`, `LinesIter::next` |
| quote | `lib.rs:232-711`, `instrument.rs` | locals of one call, a clone of the pool | walk over lines and pool, selling or buying |
| adapter | `lib.rs:113-230`, `947-956` | header, token states, fee, book, pool, token programs | `from_keyed_account`, `update`, `is_active`, `get_reserve_mints`, `clone_amm` |
| swap instruction | `lib.rs:713-945`, `959-972` | none | direction, account metas, `from_swap` |
| addresses | `helper.rs` | none | seeds and program addresses |
| interface | `src/jupiter-amm-interface/` | `ClockRef`: five atomics | the `Amm` trait, conversions |
| custom SDK | `custom_sdk/` | a context of accounts read through RPC | `build`, `create_instruction`, of deposits and orders |
| RPC tests | `tests.rs` | none | a driver against a node |

How they interact. The aggregator calls `get_accounts_to_update`, fetches the
accounts, and calls `update`, which replaces the copies field by field and
rebuilds book and pool. `quote` takes `&self`: it clones the pool, takes an
iterator over one side of the book, and in each iteration trades against the
pool, against the line, or against both. Nothing that `quote` computes is
kept. The on-chain program writes the accounts meanwhile, so that header, lines
and token accounts of one `update` may be of different slots.

Beside it stand two parts with state of their own. A `ClockRef` is shared by all
its clones: whoever polls the chain calls `update`, and whoever holds a clone may
load its fields. The builders of `custom_sdk` ask a node for accounts, one call after the
other, and make an instruction of what they read, which is executed later.

What is hard here. There are no locks and no messages; the difficulty is

- in `quote`, a loop of ten branches in each direction, that moves from pool to
  line by comparing the price the pool *would* have after a trade. Quantity,
  price and sum come from a truncated root, a truncated quotient and an integer
  quotient, and nothing but arithmetic keeps a leg within what remains and
  within the limit price;
- in the iterator, which has one count for two sides, and links that may have
  been read while they were rewritten;
- between entry test, iterator and branches, which read the book through three
  different functions and must see the same lines;
- in `update`, which may stop half way, and in what callers may ask before it
  has run;
- in `ClockRef`, whose five stores are not one;
- in the builders, where the answer to "does the client exist?" is used long
  after it was given, and where an error counts as "no";
- in the addresses, whose seeds are hashed without their lengths.

What makes each part correct:

- *sell*: it sells at most the amount; at the limit price or better; each leg
  pays its fee once; the pool is left on its curve and above the limit; pool and
  lines are taken in the order that pays most;
- *buy*: the same with currency for quantity; what is reported as paid is at
  most what was offered;
- *iterator*: each line of the side once, best first, and an end, whatever the
  links are; `begin` and the iterator agree;
- *adapter*: after `update` all fields are of one account map; book and pool are
  never of two headers; failed updates are caught up with; the direction of
  `quote` is that of the swap instruction; a market that can be quoted is active;
- *`ClockRef`*: no field goes back, and the five end as one clock, the newest,
  unless updates race;
- *builders*: no deposit reaches the chain without accounts it needs there;
- *addresses*: accounts that differ have addresses that differ.

`PROJECT.json` lists every hazard at its line, with the properties that cover it.

## Modules

| module | models |
|---|---|
| `AmmMath` | `amm.rs`, operator for function |
| `Quote` | what both directions of `quote` share: `Market` (the inputs), `limit_price`, `Enters`, `Settle` (the assignments of one iteration), `Return` |
| `QuoteSell`, `QuoteBuy` | the loop over the bids, the loop over the asks: one action for each branch |
| `LinesIter` | `OrderBook::new`, `begin` and `LinesIter`: one action for each way out of `next` |
| `Adapter` | `from_keyed_account`, `update`, `get_accounts_to_update`, `get_reserve_mints`, direction and accounts of the swap, with the aggregator and the chain around them |
| `BookWalk` | what a quote on a book adds to `Quote`: the call of `next` at the head of each iteration, and `cross` over the book |
| `BookQuote` | `quote` as a whole: `QuoteSell` over the bids, `QuoteBuy` over the asks, `LinesIter` under both |
| `SellPromise` | what a sell quote promises; `QuoteSell` implements it |
| `ClockRef` | `ClockRef::update` and `From<Clock>`, with stores that land later |
| `Addresses` | `helper.rs`: seeds and derived addresses |
| `CustomSdk` | `DepositContext` and `NewSpotOrderContext`, the node and the chain around them |
| `LineWalk` | what the loop expects of an iterator; `LinesIter` implements it |
| `AmmMathProofs` | lemmas about roots, quotients, fees, and the pool a taker sells to or buys from |
| `QuoteSellProofs`, `QuoteBuyProofs` | the theorems about `QuoteSell`, with its promise, and `QuoteBuy` |
| `BookQuoteProofs` | the theorems about `BookQuote`: the other three put together |
| `AdapterProofs` | the theorems about `Adapter` |
| `LinesIterProofs` | the theorems about `LinesIter` |
| `ClockRefProofs` | the theorems about `ClockRef` |
| `CustomSdkProofs` | the theorems about deposits and addresses in `CustomSdk` |
| `MCFloats` | one outcome of `f64` for the runs |
| other `MC...` | small markets, books and chains |

An operator whose comment calls it a *mutation* is a plausible bug: a second
form of the definition next to it, used nowhere. Put in the place of that
definition it must break the property `PROJECT.json` pairs it with, which shows
that the property says something about the code.

### Pool and quote

State and code. `market` is the adapter's state and the `QuoteParams`, fixed
during the call; `remaining` is `remaining_qty` or `remaining_sum`, `filled` is
`sum` or `qty`; `total_fees` and `amm` are the locals of these names; `taken`
counts what the iterator yielded; `pc` says where the call is: before the loop,
in it, after its `break`, and returned with a quote or an error. An iteration
is one action, because `quote` is synchronous and nothing else touches its
locals. Actions are named after the branches: `...ToPool`/`FromPool` (no line
is left), `...LastLine`, `...Unreachable`, `...PoolThenLine`, `...CoverLine`,
`...PoolAndStop`. The two `cover_line` tests at the end of an iteration are
both modelled: that of a buy reads a price from before the leg and can hold,
that of a sell repeats a test that has just failed.

A leg is a quantity and a sum; `NoLeg` stands for the branches that test
`traded_qty == 0 || traded_mints == 0`. Any checked operation that fails makes
the whole call fail, so its place within the iteration does not matter, and
`Settle` gathers them in `fails` and `Fits`.

Numbers. Quantities are integers of width `I64Max`; the conversions saturate or
wrap where the code's do. An `f64` expression of the code is a chain of
conversions (`self.k as f64` of an `i128` is one, and rounds), products, a
quotient, perhaps a root, and a truncation. It stands for the exact truncated
quotient or root of a numerator that may be off by its relative error: `Blurred`
is that numerator, `Grain(n)` the most by which it differs from `n`, `Precision`
the reciprocal of the error. No chain has more than six roundings of one part in
2^53, which is less than one part in 2^49, the `Precision` of the code. Which
numerator comes out is left open (`Rounded`, a constant): the theorems hold for every
choice, so for the one the hardware makes. `trade_sum` multiplies by `rdf`, a
rounded `1 / df`; a product that `df` divides may then come out one unit low, whatever its
size (`SumNumerator`). Division by zero gives what the code
gets: infinity or NaN and their conversions, or a failed call for the integer
division. The fee rate is `fee / FeeDen`. `amount` is at most `i64::MAX`; the
cast of a larger `u64` is not modelled.

### Order book

`LinesIter` is one iterator between two calls of `next`. `Accounts` are pairs
of a header and slots; slots are in an arbitrary order and each has a link,
an `sref` and the line it holds. `ladder` records the lines the on-chain
program means each side to hold; only the refinement mapping reads it.
`Linked` says that header and slots are of one moment: some chain of slots holds the
ladder, with links from each slot to the next, and the header begins and counts it.
It is what the proofs assume and what the accounts of the runs are checked to
satisfy. `LineWalk` hands out the lines of a ladder one by one; `WalksTheLadder` says
that the iterator implements it, liveness included. Fairness: weak fairness of
`Next`, because the loop of `quote` is synchronous and calls `next` until it
returns `None`.

### Quote on the book

`QuoteSell` and `QuoteBuy` take the lines of their side as given. `BookQuote`
is the same call with the iterator in it. `market.lines` is what has been yielded
so far; `InitWalk` makes the iterator, `EnterBook` tests `cross_book` on the line
`begin` returns, `CallsNext` says when the loop calls `next` (`NextLine`,
`NoNextLine`, `NextPanics` are its outcomes), and `AfterNext` is the branch of the
same iteration. The branches themselves are those of `QuoteSell` and `QuoteBuy`,
not copies of them.

`ImplementsSell` and `ImplementsBuy` substitute the ladder the on-chain program
means for `market.lines`: where header and slots are of one moment, each step of
`BookQuote` is a step of `QuoteSell` (or `QuoteBuy`) over that ladder, or a
stutter. So whatever is checked or proved of these holds of the quote as it is
computed. Where header and slots are of different moments
there is no ladder to refine; `SellKeepsWithin`, `BuyKeepsWithin` and
`QuoteReturns` say what is left. The routing properties are not: lines come in
any order then, and such a book may be quoted below what its pool alone pays.
Fairness: weak fairness of `Next`, because `quote` waits for
nothing.

### What a sell promises

`SellPromise` has no pool, no line and no loop: a request, one answer to it, and
what an answer that is not an error must satisfy (`WithinRequest`): something is
sold, at most the amount, for the limit price less one unit a line, with a fee
of at most the rate and something left of the proceeds. `KeepsPromise` maps
`QuoteSell` to it: the loop stutters and `ReturnSell` answers.

### Adapter

What an account holds is abstracted to the slot it was read at: `own` gives,
for each field of `Deriverse`, the slot of its copy, 0 being the zeroed and
default values of `from_keyed_account`. `book` is the part of `order_book` that
`OrderBook::new` takes from the header, `lines` the part it takes from the lines
account. `update` is one call without a callback in it, hence one action, but
one for each way to end: `UpdateSucceeds`, `UpdateFails` at the first account
the map lacks (`?`), with what has been assigned so far kept, and
`UpdatePanics` at the first account cut short: `from_account` takes a slice of the
size of its type, and `OrderBook::new` casts what the lines account holds behind its
header, which panics unless it is a whole number of slots. `Reads` is the order
of the accounts, `AssignedAfter` the read after which each field is assigned;
book and pool follow the fifth, although they come from the first.

The aggregator is not part of the repository. It is what the `Amm` trait lets it
be: it fetches the accounts `get_accounts_to_update` names in any number of
requests, each at the slot of its moment (`FetchSome`), while the chain goes on
(`Write`) and accounts come and go; a panic costs it the instance. Fairness: the
aggregator keeps polling (weak fairness of its own actions and of the outcome of
`update`); the chain need not write. `CHECK_DEADLOCK` is off because the chain
has a last slot and the header may be missing there for good.

`account_metas` gives each account of the instruction its place and the copy it
comes from: 0 marks an address taken from something that was never read.
`from_swap` is the data of the instruction. The adapter is not composed with
the quote: `Market` is any combination of header, lines and pool, and so includes
every mixture an instance can hold.

### ClockRef

`update` puts its five stores into `stores`, a queue for each thread and
atomic; `Visible` lands the head of one. That is what `Relaxed` allows: the
stores of one thread to one atomic land in order, and nothing else is ordered.
`raced` records that two threads had stores under way together, or that one gave
a clock older than another's. It is taken back when an update finds nothing under way
and no newer clock given (`HasItself`): its five stores overwrite whatever a race has
left. Fairness: a store lands in finite time, and the
threads keep polling; the chain may stop.

### Addresses and custom SDK

A key has eight words of 32 bits; a seed has four, two or eight words. The hash
is external and free of collisions, so a derived address is the words hashed,
one seed after the other without lengths. `DRVS_AUTH`, a program address
itself, is nobody's key; everything else may coincide: tags with tags, ids with
tags, the words of a mint with other seeds.

`CustomSdk` takes `build` apart into its RPC calls (`Calls`), each an action,
because other builders and the chain go on between them. A call fails and ends
`build` (`ReadFails`), except the one whose `is_ok` decides whether the client
exists (`ReadClientFails`). `create_instruction` is pure, hence one action.
`Execute` is the chain, which this repository does not hold: it creates a client
if the accounts for that are there and `lut_slot` is recent, and rejects an
instruction that has no client. The accounts of an instruction are a set; their
order is fixed by the list literals of the code and no property reads it.

## Runs

| run | shows | bounds |
|---|---|---|
| `quote_sell` | the nine invariants of a sell, what it leaves at a line, and its promise | books of up to two bids at 9, 14 and 17 with quantities 1 and 4; pools priced below, at and above the limit of 14, and none; amounts 0 to 12; fee 0 and 1/4; with and without a last price; trades of hundreds of units against large pools, some with a price below `dec_factor`; amounts at `I64Max`, a line beyond `MaxSum`, exact-out |
| `quote_buy` | the six properties of a buy | the same on the ask side, with a pool small enough for its reserve to be emptied, and one with `dec_factor` 800 |
| `quote_buy_filled` | finding: a filled offer costs more than the offer | as `quote_buy` |
| `quote_buy_outcome` | finding: a negative trade is quoted | as `quote_buy` |
| `lines_iter` | every line once, in order; `begin` agrees | up to three bids and two asks in every order in five slots; both ends of chain the code knows; freed slots with links |
| `book_quote` | quotes on a book are quotes on its ladder; on any book they end, within budget and limit | ladders of up to three lines a side in two placements, with both ends of chain; four pools; headers with the slots of other moments, among them an account of two slots |
| `quote_sell_active` | finding: a quoted market is reported inactive | as `quote_sell` |
| `adapter` | what an instance mixes after failed updates, that it catches up, that a swap goes the way of its quote | three slots; at each, all accounts whole, or any one missing or short; every split of the seven accounts into requests |
| `adapter_mints` | finding: no reserve mints before the first update | as `adapter` |
| `lines_iter_torn` | the walk ends, within the count | any begin, any links over three slots and one index out of bounds, cycles included; no slot at all |
| `clock_ref` | whole, monotonic and up to date unless raced | two threads, clocks 0 to 2 |
| `custom_sdk` | deposits never lack accounts; addresses are apart | two builders for one of two signers each, four mints, three markets, four slots, a lookup table good for one slot |

Why the bounds are enough. An iteration either goes on with an untouched pool
(`CoverLine`) or ends the walk, so two lines give a first iteration, one after
a covered line, and the end of the book; a third repeats the second. Prices are
on both sides of the limit and of each other, quantities on both sides of the
amounts, so that every branch and both outcomes of its inner tests occur. Small
pools make roundings large relative to the trade, which is the hard case for
the bounds that allow one unit; in the large ones truncations are small and what
counts is the order of pool and lines. `I64Max` is 3999 and `MaxSum` 2000, so that overflow
is within reach. `Precision` is 8192: it resolves the quantities and prices of most markets, as
that of the code does, and not their products and squares, so that the roundings of `f64`
are within reach too. `MCFloats` puts every numerator from there on
at one end of what they allow, roots and quotients of one numerator at opposite ends. The
ordinary markets stay mostly below it, where `f64` is exact, the large ones are beyond.
The proofs hold for every width, precision and rounding. Two slots are the least with a link;
five give chains of both sides with a freed slot among them. Three slots let an
instance hold copies of two slots from before a round and read a third in it;
one faulty account at a time reaches every point at which `update` can stop.
In `book_quote` the third line of a ladder is what makes an iterator that follows
its own index, or a wrong begin, differ from one that does not. A race needs two
threads and two clocks. Two builders are the least with one in the gap of the
other; the mints are alike but for their first word, alike but for their last,
and one of them is all the words of `DRVS_AUTH`.

Deadlock is not checked where the system stops: a `quote` returns, an iterator
is dropped, and the chains of `Adapter`, `ClockRef` and `CustomSdk` have a last
slot or clock.

Properties a reader may want in words:

- `NeverOversells`, `OverspendsByLessThanOneUnit`: what was traded is within the
  amount. A buy can overdraw its budget: `get_amm_qty` rounds up a quantity
  whose price in the other direction was rounded down. It never overdraws more
  than one unit of the asset costs.
- `SoldAtLimitOrBetter`, `BoughtAtLimitOrBetter`: the slippage bound as a whole,
  not leg by leg, up to what `f64` may be off (`Grain`) at the worth of what was
  traded, or, of a buy, of what the lines gave (`OnLines`). The slack is one unit of currency for each line of a sell
  (`trade_sum` truncates); for a buy it is two units of the asset, one unit of
  currency, and one price tick for each unit bought, because the price of the pool
  is truncated before it is compared with the limit.
- `PoolStaysAboveLimit`, `PoolStaysBelowLimit`, `PoolOnCurve`: the pool left
  behind, by cross-multiplication and not by the operators that moved it. The
  two limits have the slack that `f64` may be off at the square of the curve,
  `k * df`: with reserves of 2^40 - 1 and 2^40 + 1 and the limit at `df`, the code's
  root is 2^40, one more than the exact one, and it sells one unit below the limit.
- `RoutingBeatsPoolAlone`, `TakenLinesBeatThePool`, `StopsOnlyWherePoolEnds`:
  the route. A sell is never quoted below what the pool alone pays for the
  quantity sold, up to a unit of currency for each leg, a unit of the asset at the
  price of the pool and a tick for each unit sold; it never leaves the pool ahead of
  a line it took before its last; and it stops early only in front of a pool that
  is used up.
- `LeavesAtMostTheLine`: the second `cover_line` test of a sell (`lib.rs:667`) reads
  the price the first one has just refused, so the line the pool stops in front of is
  never taken. What the taker loses by that is bounded: if the line is within
  the limit, no more is left unsold than the line alone could have taken, because the
  pool serves all the rest.
- `EveryLegPaysItsFee`: the fee rate is applied once to everything traded (`Moved`, of
  a buy, counts a leg of negative currency as what it gives back).
- `BookAndPoolOfOneHeader`, `PriceAndPoolPartOnlyAfterFailure`: `quote` takes
  its limit price from the header and trades against book and pool. Book and pool
  always agree; header and pool part company only after an update that failed,
  and a caller that goes on quoting then compares a new price with an old pool.
- `LiquidityComesLast`: an instance that has a pool or a book to quote against
  has read both token states and the fee, wherever its first updates stopped. It
  is what keeps a buy from being quoted as a sell.
- `OneFetchOneSlot`, `CatchesUp`: an update from one slot leaves nothing from
  before; no history of failures and panics keeps the instance from holding the
  market once the chain is quiet and whole.
- `SwapMatchesQuote`: whenever an instruction can be built, its side is that of
  the quote, both vaults are named and the wallets are in their tokens' places.
  The two token programs are exempt: after an update that failed at a mint,
  that token's program is still the system program (`lib.rs:163-164`, `222`).
- `DepositNeverLacksAccounts`: whatever deposits of the same signer land between
  the question and the execution, and whatever calls fail, no deposit reaches
  the chain without the accounts it needs there. It may reach it with too many.
- `AddressesApart`: two accounts of any instructions share an address only if
  they are one account, or token states of mints alike in 28 of 32 bytes.
- `WholeUnlessRaced`, `NeverTurnsBackUnlessRaced`, `ReachesTheChain`: what the
  field-wise stores of `ClockRef` still guarantee. Two updates that race may
  leave fields of two clocks, until the next one that has the clock to itself:
  from then on the fields are whole again, and that update turns none of them back.

Four findings have runs of their own.

1. *A filled offer costs more than the offer* (`lib.rs:268`, `480`, `482`). The
   budget is `amount / (1 + fee)`; the amount paid is reported as `amount -
   remaining_sum + total_fees`, although the fee has been taken out of the
   budget already. `src/README.md` presents a trade of 10 tokens as a quote for
   that amount.
2. *A negative trade is quoted* (`amm.rs:130-134`). The minus sign of
   `get_reversed_amm_sum` applies after `.max(0)`: the result is never positive.
   Where a pool is cheaper than the next line the leg against it is lost; where
   it is dearer than the limit a negative quantity is bought for a negative sum,
   and the casts to `u64` make a huge amount of it.
3. *A quoted market is reported inactive* (`lib.rs:955`). `is_active` asks for a
   line on the book; a market that has only its pool is quoted all the same, as
   `tests.rs:518` does. The interface calls `is_active` the "shortcut to
   establish if the AMM can be used for trading".
4. *No reserve mints before the first update* (`lib.rs:185`). `get_reserve_mints`
   reads the token states, which are zeroed until `update` has run, while
   `requires_update_for_reserve_mints` is left `false`.

## Proofs

`QuoteSellProofs` proves, for all `Markets`, `I64Max`, `MaxSum`, `FeeDen`, `Precision`
and `Rounded` that satisfy `WidthAssumption`, `PrecisionAssumption` and
`MarketsAssumption` (a cap on sums within the width; a positive precision; pools built by
`DeriverseAmm::new` with reserves and prices in `0 .. I64Max`; a positive fee unit):

    Resolved /\ Spec => []TypeOK               Resolved /\ Spec => []NeverOversells
    Resolved /\ Spec => []PoolStaysAboveLimit  Resolved /\ Spec => []PoolOnCurve
    Resolved /\ Spec => []SoldAtLimitOrBetter  Resolved /\ Spec => []EveryLegPaysItsFee
    Resolved /\ Spec => KeepsPromise
    Resolved /\ PriceResolved /\ Spec => []StopsOnlyWherePoolEnds
    Resolved /\ FineLadder /\ Spec => []TakenLinesBeatThePool
    Resolved /\ LinesResolved /\ Spec => LeavesAtMostTheLine
    RouteResolved /\ Ladder /\ Spec => []RoutingBeatsPoolAlone

`Ladder` says that the lines come best price first and that no price is `I64Max`,
where the price of the pool saturates. The other hypotheses bound sizes against
`Precision`. `Resolved`: the asset reserve and the amount together are below it, for
the code below 2^49 units. Beyond that the root and the quotient of one
curve may disagree by more than a unit, so that the pool leg of a branch may exceed what
remains; nothing is claimed there. `PriceResolved` and `LinesResolved`: twice the limit
price, or the price of each line, is below it (`FineLadder` is `LinesResolved` and
`Ladder`). `RouteResolved` is `Resolved` with a bit to spare.

The argument. `IInv` adds to these that the clone is the market's own pool for
as long as the walk goes on (`PoolUntouched`), that trading keeps `k` and `df`
(`CurveKept`), that proceeds are not negative, and that the fees so far are at
most the rate of the proceeds so far (`FeeBound`). `PoolUntouched` is what makes
it inductive: the lemmas about the curve need `k = a_tokens * b_tokens`, which
is true of a fresh pool and no longer true after a truncated leg; the loop ends
after its first leg against the pool, so one never meets a used pool. Each
branch is shown to trade *sound* legs (`SoundPoolLeg`, `SoundLineLeg`), and
`TradePreserves` shows once that sound legs keep the invariant.

Where a walk stops is a matter of how its last leg was sized (`Sized`): down to a
price, or all that remains. A leg that was traded leaves the pool with nothing above
a price it reached (`Emptied`); a leg that was not leaves the pool alone, and the
pool refuses less, too (`Refused`). `StopsOnlyWherePoolEnds` follows because that
price is not above the floor. `TakenLinesBeatThePool` needs `LinesAhead` besides:
in the loop, the last line taken is at least the price of the pool after all that
remains. Both rest on two monotonicities of the curve (`SellQtyAntitone`,
`SellNothingForLess`).

`RoutingBeatsPoolAlone` compares the walk with the whole curve, so it needs what was
earned on the way and not only where the walk stops. `Proceeds` says that, in the
loop, the lines taken have fetched the price of the last of them, up to a unit of
currency each; since lines come best first, that is also any lower price
(`TakenWorth`). A last leg against the pool ends with all that remains, or where one
unit more would be sold below the price `px` it was sized for (`LegEnds`, by
`PoolLeftAt`); a line taken before is not behind the pool (`BehindLine`, from
`LinesAhead`). What follows on the curve is then worth at most `px` a unit
(`SlopeBelow`, `SlopeAt`), because the curve is concave; and a unit more, with its
truncations, never takes more out of the pool than the first would (`UnitConcave`). `RouteWorth` adds up: lines at `px` or better, the curve down to
`px`, and the rest of the quantity at `px` against what the pool alone would pay for
it. `StopWorth` applies it to each way a walk ends; `RoutedPreserved` is the induction.

`LeavesAtMostTheLine` is about one branch, `...PoolAndStop`: the line was refused
because the pool would stay above it after all but the line's quantity, and then
selling down to the line takes at least that much (`SellReaches`, the converse of
`SellStopsShort`), which a pool with two reserves does not refuse (`PoolTakesTheRest`).

`KeepsPromise` follows from the same `IInv`: on return it gives `WithinRequest`, and
no other step changes what the promise sees.

The arithmetic is in `AmmMathProofs`: `BlurredBounds` and `GrainBound` (all that is known of
`f64`), `GrainOfSquare` and `GrainOfPrice` (what it is off by at the square of a
resolved quantity, or at a resolved price, is less than the next one), `IsqrtRoot` (the root
exists and is unique enough), `SellStopsShort` (if selling all that remains would push the
pool below a price, selling down to that price takes no more than remains: the
root and the quotient agree), `SellKeepsPrice` and `SellAllKeepsPrice` (the
pool stays at or above the price, up to the error), `SellSum` (it pays out of its reserve and
stays on its curve), `SellPaysPrice` (every unit is paid at least that price).

`QuoteBuyProofs` proves, for the same constants,

    Room /\ Spec => []TypeOK                      Room /\ Spec => []PoolOnCurve
    Room /\ Spec => []OverspendsByLessThanOneUnit  Room /\ Spec => []PoolStaysBelowLimit
    Room /\ Spec => []EveryLegPaysItsFee
    Room /\ Spec => [](filled < I64Max => BoughtAtLimitOrBetter)

`Room` keeps the casts of a buy from wrapping: twice the sum of currency reserve and
amount is at most `I64Max`, and the limit price is below it. It also keeps to what
`f64` resolves: four times that sum, the limit price and `dec_factor` are below
`Precision`, for the code reserves and amounts up to 2^47. A quantity that saturates at
`I64Max` is left out of the price bound: it is not worth what was paid. `BuyInv` is
the inductive invariant. `Walking` says what holds while the walk goes on: the pool
is the market's, only whole lines have been bought, within the budget, at the limit,
each with its fee. `SoundPool`, `SoundLine` and `SoundLegs` say what the legs of a
last iteration give, and again one lemma, `TradePreserves`, carries the invariant over
any of them. A leg of negative currency (finding 2) is one of the cases; `BuyBack`
and `NoBuyBack` bound it, `FeeOnRefund` its fee.

`AdapterProofs` proves, for every `MaxSlot` and every `Faults` that satisfy
`AdapterAssumption` (a first slot; faults are sets of accounts), `TypeOK`,
`BookAndPoolOfOneHeader`, `PriceAndPoolPartOnlyAfterFailure`,
`LiquidityComesLast`, `OneFetchOneSlot` and `SwapMatchesQuote`. Book and pool are inductive because one read assigns both
(`Assigned`). `OneFetchOneSlot` needs `HoldsTheMap`: from the end of a complete
update to the next round the instance holds what the map holds, because every
field is assigned after the read of its account (`ReadBeforeAssigned`).
`SwapMatchesQuote` needs `ReadsInOrder`: whoever knows a token has read the header,
and a complete update leaves nothing unread. A swap that is not refused is between
two known tokens (`KnowsItsTokens`); `MetasSound` then goes through the account
list, part by part (`JoinSound`), and finds the wallets in place.

`LinesIterProofs` proves `TypeOK` and `YieldsWithinCount` for all `Accounts`,
whatever their links: the lines yielded and the count that remains add up to
`total_lines_count`, and only a yield moves one, and it moves both. Over accounts that
are `Linked` it proves more:

    Linked(acc) /\ Spec => []FirstYieldIsBegin
    Linked(acc) /\ Spec => Walk!Safety
    Linked(acc) /\ Spec => [](pc # "panicked" /\ (pc = "ended" => LinesYielded = acc.ladder[side]))

The second is the safety part of `WalksTheLadder`: no line is missed, repeated or out
of order. The third says that the walk neither stops short nor leaves the slots. The
invariant `LinkInv` goes along the chain: the slots yielded are its first, the
iterator is at the next one or has met its end, and the count, the larger of the two
sides, is never used up before the chain is (`CountCovers`).

`BookQuoteProofs` puts the three together, for every `Books` and `WellFormed` that
satisfy `BooksAssumption` (typed accounts; those of `WellFormed` are `Linked`):

    HasRoom /\ Spec => []BookTypeOK
    (side = "Bid" => Resolved) /\ Spec => []SellKeepsWithin
    (side = "Bid" => Resolved) /\ Spec
      => [](side = "Bid" /\ pc = "quoted" => SellP!Promise!WithinRequest(...))
    (side = "Ask" => Room) /\ Spec => [](filled < I64Max => BuyKeepsWithin)
    Spec => ImplementsSell
    Spec => ImplementsBuy
    side = "Bid" /\ OneMoment /\ LadderP!RouteResolved /\ LadderP!Ladder /\ Spec
      => []OnBids!RoutingBeatsPoolAlone

`HasRoom` is `Resolved` of a sell and `Room` of a buy. The first four hold of torn books too; the third is the promise of a sell for whatever
lines the iterator handed out. They reuse the invariants of the other modules
by `INSTANCE`: the iterator's, and those of sell and buy with the lines yielded so far
for the lines of the market (`BookInv`). These invariants have to survive a line that arrives
in the middle of a call (`LineArrives`, proved in each of the two modules), which they
do because they speak of the lines taken, never of those to come.

The two refinements use `MomentInv`: over a book of one moment the lines given are a
prefix of the ladder, and all of it once the iterator has returned `None`. So a branch
that finds a line, or finds none, finds what `QuoteSell` finds in the ladder (`SeesLadder`), and
the test for entry, which goes by `begin` and `cross`, is the one on the head of the ladder
(`CrossOfLadder`). Each branch is then the same branch over the ladder, a call of `next`
a stutter, and a theorem about `QuoteSell` is one about `quote` itself: the last line above is
the route theorem carried through.

`ClockRefProofs` proves `WholeUnlessRaced` and `NeverTurnsBackUnlessRaced` for any
number of threads and any clocks. The invariant says that, as long as no updates
have raced, one thread has stores under way, those to one atomic are in order and
end at the clock given last (`Coming`), and an atomic without stores under way holds
the newest clock (`Landed`). No clock given is newer than that of the chain (`Given`), and
an update that has the clock to itself restores all of it, whatever a race has left.

`CustomSdkProofs` proves `DepositNeverLacksAccounts` for any number of builders and
any slots: a client that was seen exists (`SeenExists`), clients are never removed, and
what is sent without creation accounts was built on such an answer (`SentCreates`).

It also proves `AddressesApart` for every `Tag`, `Id`, `Mint`, `Signer` and
`Market` that satisfy the assumptions (keys of eight words; `DRVS_AUTH` nobody's
key; two tags that differ). The invariant says that each account of an
instruction came from a helper, or has no derived address. The argument is about
lengths: the words hashed are 12, 16 or 10 (`Lengths`), so that only accounts of
one form can meet; within a form they split at the last eight words
(`SplitAtKey`), the key, and what is left are the seeds.

Every invariant the runs check, every action property and the safety part of every
refinement is proved, for the sizes the hypotheses name; `BoughtAtLimitOrBetter` where the
quantity has not saturated. The runs go beyond `Room`: amounts at `I64Max` are model-checked.

Only model-checked: liveness, which is out of the prover's reach as `ENABLED` is. That is
`WalkEnds`, `QuoteReturns`, `CatchesUp`, `ReachesTheChain` and the fairness part of
`WalksTheLadder`. Induction over data is out of reach too, but nothing here needs it:
the chain of slots is a function, and what would be an induction along it is an
induction over the steps of the iterator. The models have no recursive operator.

## Not modelled

- `clone_amm`, a deep copy; the signer and writable flags of the swap's accounts.
- `quote` does not look at `output_mint`, and neither does its model.
- Amounts of 2^63 and more, which the casts of `lib.rs:268` and `485` make
  negative: amounts of the model are in `0 .. I64Max`.
- The byte layout of accounts. `drv_models` is not part of the repository; its
  types appear with the fields the code reads.
- The interface crate but for `ClockRef`: traits, labels, JSON and UI-account
  conversions, without state.
- `LinesIterMut` and `iter_mut_from`: no caller.
- The data of the instructions of `custom_sdk` (amounts, prices, decimals).
- The RPC tests: a driver against a node.

## Plan

Done: pool arithmetic; both directions of `quote`, over given lines and over the
book; the iterator; the promise of a sell; the adapter; `ClockRef`; addresses
and builders; and the proofs of all their invariants and refinements, liveness apart.
In order of importance, next:

1. Less than `Room` and `Resolved` for the proofs: which casts wrap, what a root and a
   quotient that disagree can cost, and what is left then.
2. A promise for buys, as far as the findings allow one.
3. An abstract adapter (a market of one slot, or none) implemented by `Adapter`
   while fetches are of one slot.
4. Amounts of 2^63 and more, with a width of their own.
