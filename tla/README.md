# lob-latency-lab in TLA+

A verification project for the limit order book in this repository: models of
its matching engine, of the readers that replay market data into it and of the
two validators that judge market data, the TLC runs that check them on small
instances, and proofs, checked by TLAPS, that the engine implements an abstract
order book, that no quantity is lost in it, that its snapshots show what rests in
it, and that what its readers report and what its two validators conclude is
true, for every set of ids, prices and quantities, every depth and every length
of input.

Paths below are those of the repository (`OrderBook.cpp` is `src/OrderBook.cpp`
in it). `PROJECT.json` has the list of runs, theorems and hazards, and says for
every definition which lines of the code it stands for.

## The system

| Component | Code | State | Operations | Interacts with | Modelled by |
|---|---|---|---|---|---|
| Order book core | `OrderBook.{hpp,cpp}`, `Order.hpp` | slot pool, free list, a doubly-linked FIFO list per price level, two price-ordered maps, an index id -> slot | `add_order`, `cancel_order`, `reduce_order`, `best_bid`, `best_ask`, `order_count`, `snapshot` | called by everything else | `OrderBook`, `PriceTimeBook`, `OrderBookRefinement`, `OrderBookLedger`; `OrderBookProofs`, `RefinementProofs`, `LedgerProofs`, `SumProofs` |
| CSV market-data replay | `MarketDataReplay.cpp:547-602` | `ReplaySummary` | one `ADD` or `CANCEL` per line | `add_order`, `cancel_order` on the caller's book | `CsvReplay`; `LedgerProofs` |
| LOBSTER message replay | `MarketDataReplay.cpp:239-328, 604-623` | `LobsterSummary` | one message of seven types per row | `add_order`, `reduce_order`, `cancel_order` | `LobsterReplay`; `ReplayProofs` |
| LOBSTER order-book row parser | `MarketDataReplay.cpp:41-58, 625-763` | the row under construction, two sentinel flags | one level per iteration | called by both validators | `LobsterBookRow`; `RowProofs` |
| LOBSTER transition validator | `MarketDataReplay.cpp:330-496, 852-891` | the previous row, `LobsterTransitionSummary` | judge one row against the row before it and its message | the two parsers; no book | `TransitionJudgement`, `TransitionValidation`, `TransitionMeaning`, `PairedFeed`; `TransitionProofs` |
| LOBSTER replay validator | `MarketDataReplay.cpp:498-543, 765-850` | `LobsterValidationSummary` | apply a message, compare the book with a row | message replay, row parser, `snapshot` | `ReplayValidation`, `PairedFeed`; `FeedProofs` |
| Field parsing | `MarketDataReplay.cpp:29-39, 60-227` | none | text to number | all readers | its results and its exception are inputs of the models |
| Command-line programs | `main.cpp`, `lob_lobster_*.cpp` | none of their own | call one function, print its summary | all readers | the exit status of the two validators (`exit_status`); the rest is I/O |
| Benchmarks, Tests, Build and scripts | `benchmarks/`, `tests/`, `scripts/` | none of their own | | | not modelled: load and timing around one call |

The program is single-threaded and keeps nothing on disk. What makes it hard is
not concurrency but long sequences of legal calls over data structures that
must agree with each other, and loops that change what they walk over:

- **Slots are reused.** `allocate_slot` takes the last released slot. An index,
  a list or a level end that still names it names the wrong order.
- **`add_order` releases what it stands on.** It unlinks and frees the order
  under its cursor and goes on with a `next` saved before, and it erases the
  level it holds a reference to.
- **Order is only in the threading.** Time priority exists as the order of a
  list through reused slots, and has to survive fills, cancels, reductions.
- **Redundant structures.** The id index, the lists, the counts, the maps and
  the free list say the same thing five times; `cancel_order` and `snapshot`
  trust different ones.
- **Replays stop in the middle.** A malformed row throws: the rows before it
  stay applied, and the summary is lost. The replay validator has applied the
  message of a row that does not parse.
- **Feeds are incomplete.** Orders rest before the first row, and rows are lost
  between two others. The replay validator carries the effect along in its book;
  the transition validator should not.
- **Partial information.** The transition validator sees a bounded number of
  levels and must neither accuse a sound transition nor excuse an impossible
  one.
- **Boundaries.** Quantities of exactly zero, a field count that wraps in
  `size_t`, sentinels, a full row.

What makes each component correct: for the core, that the structures agree, the
book never crosses, matching follows price and then time, no quantity is lost,
calls return, and views show what rests; for the replays, that the summary says
what happened to the book; for the parser, that it accepts ladders and only
ladders; for the transition validator, that each classification means what the
report says; for both validators, that they accuse no feed that lacks nothing.
`PROJECT.json` lists the hazards line by line, with the properties that watch
each of them; those with none have a note.

## Modules

Every definition that an "as" in `PROJECT.json` names is introduced by a
comment that starts with "Bug:". It is not part of the model. It is a plausible
defect of the definition after it, kept to show that a property would notice.

### `OrderBook`

Variables are the members of the class (`pool`, `free_slots`, `levels`,
`order_location`), the locals of a running `add_order` (`order`, `remaining`,
`trades`, `level_it`, `current`, and `pc` for where it stands) and two history
variables (`arrival`, `clock`) that number orders as they come to rest. Slot i
of the code is slot i + 1 here and `kInvalid` is 0. The code writes each
operation twice, once per side; here the side is a parameter, so most
definitions stand for two blocks of lines.

| Action | Code |
|---|---|
| `AddOrder`, `RejectOrder` | entry of `add_order` and its two early returns |
| `MatchLevel` | one test of the outer loop that succeeds, up to the inner loop |
| `FillPart`, `FillWhole` | one iteration of the inner loop, whether the resting order survives or leaves |
| `EndLevel` | end of the inner loop, erasing an empty level |
| `RestRemainder`, `ReturnFilled` | end of the outer loop: `allocate_slot`, `append_to_level`, index; return |
| `CancelOrder`, `CancelMissing` | `cancel_order` true and false |
| `ReduceOrder`, `ReduceToNothing`, `ReduceRefused` | the outcomes of `reduce_order` |

No other call can start while `pc` is not "idle", as in the code. One action
per iteration lets the invariants be stated, and fail, inside a call, where
the structures are at their most fragile. Sums of quantities
(`RestingQuantity`, `TradedIn`) are folds of the community modules over finite
sets, so that they can be proved about.

Not in the model: timestamps (copied into trades and never compared), the width
of `Quantity` (see "What is not modelled"), and running out of memory.

### `PriceTimeBook` and `OrderBookRefinement`

`PriceTimeBook` is what an order book promises: a set of resting orders with
arrival numbers, with no pool, list, map or index. `OrderBookRefinement` reads
the structures of `OrderBook` as that set; `MatchLevel` and `EndLevel` become
stuttering. `ImplementsPriceTimeBook` says that every behaviour of the one is a
behaviour of the other, with the same trades in the same order.

### `OrderBookLedger`

`OrderBook` with four history variables that add up, over whole histories, what
was accepted, traded and withdrawn, and the most orders that ever rested.

### `CsvReplay` and `LobsterReplay`

Both extend `OrderBook` and drive it: a reader takes a row when the book is
idle, the book takes its own steps, and the summary is written where the code
writes it (before the call for `events_processed`, after it for the others).
The file is any sequence of rows, and `Throw` stands for every row that does
not parse, has an unknown type or lacks a direction. `CsvReplay` keeps two
history variables, `submitted` and `cancelled`, for what the book accepted and
what was cancelled. Both functions take a book in any state. The models start
with an empty one, which is what every caller in the repository passes;
`TotalsAgree` and the last part of `SummaryAccounted` (no more orders rest than
were submitted) are true of that only. A book that was used before is in
`ReplayValidation`.

### `LobsterBookRow`

`parse_lobster_book_row` as a scan: `CheckLine` compares the number of fields,
`ReadLevel` takes four of them, `RefuseLevel` is any of the exceptions in the
loop. A field is an integer or `NotAnInteger`, which is none
(`NotAnIntegerAssumption`). The field count is computed modulo `SizeMax + 1`, as
`size_t` does.

### `TransitionJudgement`, `TransitionValidation` and `TransitionMeaning`

`TransitionJudgement` has no variables: it is what the validator says of one
message between two rows. `Judge` dispatches on the message's type to the three
`validate_*_transition` functions, which are operators that return a judgement
(classification, comparisons made, counters to increment). `Comparison` stands
for `compare_transition_side` and all it records.

`TransitionValidation` reads the two files: `CheckTransition` is one iteration
of `validate_lobster_transitions`, and `Counted` adds a judgement to the
summary. `exit_status` is what `lob_lobster_transition_validate` returns. The
refusal of depth 0 (lines 855-857), which reads nothing, is not an action here:
`DepthAssumption` says that the depth is above 0. `FirstPlace` says where a
transition is wrong first, in terms of what the message predicts for the row
(`Predicted`) rather than of the comparisons made; `FirstMismatchKept` asks that
`first_mismatch` name that place.

`TransitionMeaning` says what the classifications claim, and does so in other
terms than the code: a row shows the best levels of a whole book that may go on
out of sight, a message changes that book, and a transition is explained when
some book shows both rows. A row is a ladder of at most `depth` levels on each
side, which is what the row parser returns (`RowsAssumption`), and what the
files mention may be in a book (`BooksAssumption`).

### `ReplayValidation`

`validate_lobster_replay`, which extends `LobsterReplay`: a pair of lines is
read and its message applied (`ReadPair`, and `ApplySubmission` for the steps of
an `add_order`); then its row, kept in `pending`, is compared with a snapshot of
the book (`CompareRow`), or is a `BadLine` that does not parse (`ThrowOnRow`).
`ThrowOnMessage` is a message that does not parse and a file that ends before
the other. The caller's book comes as it is: `CallerUses` may have added orders
to it and cancelled them again, and `Start` refuses it when any is left. A book
that was used and is empty again has slots to use again, and is taken.
`compare_lobster_side` counts as `compare_transition_side` does, and shares its
`Comparison`. The summary of the replay, a member of the summary in the code, is
`summary` here and the other members are `validation`. `exit_status` is what
`lob_lobster_validate` returns. `ValidationSpec` reads any two files: any
messages, each with any row or with a line that is none, whether they have to do
with each other or not (`ReadFiles`).

### `PairedFeed`

The environment both validators are made for: an exchange with a `market` of
orders that do not cross, in which orders are submitted, reduced, deleted and
executed, in sizes above zero. For what happens in it the feed has a message and
a row, which may be illegible (`FeedPair`). The faults of the feed are that
orders rest before its first row, whose submissions it does not have
(`FeedInit`), and that a pair of lines is lost from both files (`LosePair`).
`gaps` keeps the rows before which something was lost; the market and the faults
are external, and no step of the validators looks at them.

Both validators read the same lines. The replay validator is `ReplayValidation`,
with `ReadPair` for the pair that is written; every behaviour of `FeedSpec` is
one of `ValidationSpec`. The transition validator takes its step on the same
pair (`TransitionStep`): `ReadBaseline` and `CheckTransition` are the loop of
`validate_lobster_transitions` with its `previous` row and its classification,
made by `Judge` of `TransitionJudgement`. Its summary is in
`TransitionValidation` only.

Here the properties are about the whole of market, messages, book and rows:
`MirrorsExchange` says that the book is the part of the market that the feed has
told of; `NoFalseAlarm`, that a mismatch has a loss before it and a complete
feed ends with exit status 0; `TransitionsAccepted`, that the other validator,
on the same feed, is wrong about no row but the one right after a loss. The last
is false of a validator that judges against any row but the one before (line
888).

## Runs

| Run | Configuration | Instance | States | What it shows |
|---|---|---|---|---|
| `order_book` | `MCOrderBook.cfg` | 3 ids, 2 prices, quantities 0..2, 4 arrivals | 193,457 | all invariants of the book, `PriceTimePriority`, `PlaceKept` |
| `order_book_live` | `MCOrderBookLive.cfg` | 3 ids, 2 prices, quantities 0..2, 3 arrivals, no symmetry | 75,601 | `CallReturns` |
| `refinement` | `MCRefinement.cfg` | 4 ids, 2 prices, quantities 1..2, 4 arrivals | 332,219 | `ImplementsPriceTimeBook` |
| `ledger` | `MCOrderBookLedger.cfg` | 3 ids, 2 prices, quantities 1..2, 4 arrivals | 1,362,783 | `QuantityConserved`, `PoolIsHighWaterMark` |
| `csv_replay` | `MCCsvReplay.cfg` | 5 lines, 3 ids, 2 prices | 112,989 | `TotalsAgree` |
| `lobster_replay` | `MCLobsterReplay.cfg` | 5 rows, types 1 to 8, 3 ids, 2 prices | 579,051 | `SummaryAccounted`, `SuccessCounted` |
| `new_order_rests` | `MCNewOrder.cfg` | as above | | violates `NewOrderRests` |
| `book_row` | `MCLobsterBookRow.cfg` | depths 0..5, lines of up to 3 levels | 199,258 | `TypeOK`, `ReadsInsideLine`, `RowExact` |
| `transitions` | `MCTransition.cfg` | depth 2, one transition between any two of 72 rows | 217,896 | `MatchingExplained`, `MismatchUnexplained`, `UnverifiablePossible`, `FirstMismatchKept` |
| `transition_stream` | `MCTransitionStream.cfg` | depth 1, files of 4 rows | 355,266 | `SummaryConsistent`, `FirstMismatchKept`, `MismatchUnexplained` |
| `tail_refill` | `MCTailRefill.cfg` | as `transitions` | | violates `UnverifiableConsistent` |
| `paired_feed` | `MCPairedFeed.cfg` | 3 rows, depths 0..2, 3 ids, 2 prices, up to 2 earlier orders or 1 loss, types 1 to 5, a book used for up to 1 order | 632,151 | `MirrorsExchange`, `NoFalseAlarm`, `ValidationConsistent`, `VerdictExact`, `FirstRowKept`, `TransitionsAccepted` |

Every property of a passing run has a mutant in `PROJECT.json`: a defect of the
modelled code under which the same run finds it violated.

### Why the bounds are enough

- *Ids, arrivals.* Three ids and four arrivals give lists of up to three
  orders, hence a head, a middle and a tail, a reused id, and a slot that is
  released and used again for another price or side. `refinement` has four ids,
  so that one order can sweep three others.
- *Prices, quantities.* Two prices are a best level and one behind it, and
  orders that cross none, one or both. Quantities 0..2 give refusals, partial
  fills, exact fills and sweeps. No property looks at the size of a number.
- *Replays.* Five rows can fill a list, consume part of it and come back to an
  order that is gone. `MaxArrivals` and `MaxRows` are bounds of the
  model only: they stand in a guard that lets a new call in, and never stop a
  call that runs.
- *Parser.* Fields are at, next to and away from each value the code tests
  for: below zero, zero, both sentinels, equal and unequal prices, not an
  integer. `SizeMax` is 15, so that depths 4 and 5 are past the quarter where
  four times the depth wraps. Levels are judged by the one before and a flag:
  lines of three levels cover what a second level can leave behind.
- *Validator.* Depth 2 has a short and a full row, a first and a last visible
  level, and prices before, between and behind them. `transitions` has
  one transition between any two of its rows, which have up to two levels on one
  side and at most one on the other; its submissions and deletions are at every
  price, on either side and in two sizes, and its other reductions, which take the
  branches of a deletion, at one. `transition_stream` has files of four rows, for
  what carries over from one transition to the next: the baseline, the counters
  and the mismatch that is kept.
- *Feed.* Three rows are a submission, a change of it and what comes after, or
  the row before a loss, the one it spoils and the one after that. Two earlier
  orders can stand before, behind or on the level of a later one, and a loss can
  be of any message. A behaviour has earlier orders or a loss (`MaxGaps` is 1, and
  earlier orders count as a loss before row 1); both together are not checked,
  for the size of that instance. Depth 1 shows less than the market has and depth 2 all
  of it; depth 0 is refused. The caller may have had one order in the book before
  (`UsedOrders`, `MaxUsed`), under any id, and have cancelled it, which leaves a
  slot to use again; four arrivals are that one and three of the feed. Of the
  types that change no visible book the messages have type 5 only; 6 and 7 leave
  the book alone as it does, and are in the messages of `lobster_replay` and
  `transition_stream`.

Deadlock is checked in the runs of the book: some call can always be made. The
replays, the parser and the validator come to an end, and their configurations
say `CHECK_DEADLOCK FALSE`.

### Fairness

Only `order_book_live` assumes any: weak fairness of `CallStep`, the steps of a
running `add_order`. Nothing in it waits, so a call that was entered is
executed. Nothing is assumed of callers.

### What the two violated properties say

- `UnverifiableConsistent`: `results/lobster_transition_validation.md:40-41`
  says of unverifiable transitions that "all observable known levels are
  consistent". When the last visible level of a full side is taken away and the
  next row is full again, the validator compares the levels before it and
  accepts anything in the last place (`MarketDataReplay.cpp:482-485`), even the
  level that was taken away, unchanged. `UnverifiablePossible`, in the passing
  run, says that this is the only case.
- `NewOrderRests`: `README.md:148` says that a type 1 message adds a resting
  order. `apply_lobster_message` calls `add_order`, which matches it first, and
  drops the trades. A sound LOBSTER file has no crossing submission; an unsound
  or incomplete one changes the book in a way no counter shows.

## Proofs

Every theorem is about the modules the runs check, with their constants left
open: the named assumptions in those modules are the only ones, and TLC evaluates
each of them in some run. Sets of ids, prices, messages and rows may be infinite,
and the bounds (`MaxArrivals`, `MaxRows`, ...) any number, so behaviours of any
length are covered.

### The book

`OrderBookProofs`, `RefinementProofs` and `LedgerProofs` hold for every `Ids` and
every `Prices` and `Quantities` that are sets of integers.

| Theorem | States |
|---|---|
| `TypeCorrect` | `Spec => []TypeOK`: every index the code keeps is in the pool or `kInvalid`, and the level being swept is still in its map |
| `NoSlotLost` | `Spec => []SlotsAccounted` |
| `ListsSound` | `Spec => []LevelsThreaded` |
| `NoResidue` | `Spec => []NothingExhausted` |
| `NeverCrossed` | `Spec => []NotCrossed` |
| `CursorNeverStale` | `Spec => []SweepAtHead` |
| `Invariant` | `Spec => []BookInv`, the conjunction of the six |
| `TradesByPriceThenTime` | `Spec => PriceTimePriority` |
| `PlaceInQueueKept` | `Spec => PlaceKept` |
| `SweepAccounts` | `Spec => []SweepAccounted`: trades and remainder make up the incoming order, in the middle of a sweep too |
| `SnapshotsAreExact` | `Spec => []SnapshotExact` |
| `BookImplementsPriceTimeBook` | `Spec => ImplementsPriceTimeBook` |
| `NoQuantityLost` | `LedgerSpec => []QuantityConserved` |
| `PoolNeverOutgrows` | `LedgerSpec => []PoolIsHighWaterMark` |

`TypeOK` is inductive alone and is proved first (`TypeInit`, `TypeNext`, one
lemma per action). None of the other parts is inductive without the others, and
`BookInv` is their conjunction. `RestRemainder` tests the
first opposite level alone, as the code does, and keeps `NotCrossed` because that
level is the best one and no other crosses when it does not (`NoneCrosses`); that
the sweep stays at the best level
(`SweepAtHead`) needs sound lists, because the cursor moves to the `next` of a
head; lists stay sound on append because the slot that `allocate_slot` returns
is in no list (`SlotsAccounted`); and counts stay right because each located
slot is on one level. The lemmas follow that cut: `UnlinkThreaded` (removing
any slot from any list keeps all lists sound) serves `FillWhole`, `CancelOrder`
and `ReduceToNothing`, `RestThreaded` serves `RestRemainder`, and
`EndLevelThreaded` the erasure of an empty level.

`PriceTimePriority` follows from `BookInv`: the cursor is at the head of the
best level, and the head of a sound list is its oldest order (`HeadIsOldest`),
because `Ahead` makes arrival numbers grow along the list, so that the oldest
order of a level can have none before it.

The refinement takes one lemma per action of the code. It needs two facts more
than `BookInv` (`RefinementInv`): arrival numbers are distinct, so that "the first
by price and time" is one order, and no trades are left over between two calls.
The head of the best level is then the abstract book's `First` order, a fill is
one abstract fill, and `MatchLevel` and `EndLevel` change nothing abstract.

`SnapshotsAreExact` has two parts. The rows come in map order: a finite set of
prices has a sequence that lists each once, with `i - 1` better ones ahead of
the `i`-th (`OrderExists`, `InMapOrderIs`), so the operator that chooses such a
sequence has one to choose. And a row's sum is that of all the orders at its
price: `snapshot` adds up what it meets between the head of a level and
`kInvalid`, while the property adds up the index. The walk is a function of
slots that is defined through the next slot; it exists because `next` leads from
each slot to one that came to rest later (`NextComesNext`, `WalkExists`), and from
a slot on it adds up the orders of the level that are not ahead of it
(`WalkedIs`). `ViewInv` has what this needs beside `BookInv`: arrival numbers are
distinct, and a slot that is free leads nowhere.

Sums are the subject of `SumProofs`. `SumFunctionOnSet` is a fold that takes the
elements of a set in an order of its own; `SumWith` shows that the order does not
matter. The library states induction for a predicate that is a parameter, which
cannot be given to the provers, so these lemmas argue from the size of a smallest
counterexample (`LeastNatural`). With them `LedgerProofs` says, by step, how much
quantity enters, trades, leaves and rests (`FillFlow`, `RestingArrived`,
`CancelFlow`, `ReduceFlow`), and `QuantityConserved` is inductive together with
`BookInv` and the fact that nothing remains of a call that has returned.
`PoolIsHighWaterMark` is inductive with `BookInv`, because a slot is made only
when every other one is in use.

### What drives it

| Theorem | States |
|---|---|
| `ReplayProofs.ReplayKeepsBookSound` | `ReplaySpec => []BookInv` |
| `ReplayProofs.SummaryAdds` | `ReplaySpec => []SummaryAccounted` |
| `ReplayProofs.SuccessesAreReal` | `ReplaySpec => SuccessCounted` |
| `LedgerProofs.SummaryTotalsAgree` | `ReplaySpec => []TotalsAgree`, of the CSV replay |
| `FeedProofs.ValidationKeepsBookSound` | `ValidationSpec => []BookInv` |
| `FeedProofs.FirstMismatchReported` | `ValidationSpec => FirstRowKept` |
| `FeedProofs.VerdictsAreExact` | `ValidationSpec => VerdictExact` |
| `FeedProofs.ValidationAgrees` | `ValidationSpec => []ValidationConsistent` |
| `FeedProofs.FeedIsValidation` | `FeedSpec => ValidationSpec` |
| `FeedProofs.FeedMirrorsExchange` | `FeedSpec => []MirrorsExchange` |
| `FeedProofs.NoAlarmIsFalse` | `FeedSpec => []NoFalseAlarm` |
| `RowProofs.NeverReadsPastLine` | `Spec => []ReadsInsideLine`, for every depth, line and `SizeMax` |
| `RowProofs.RowTypeCorrect` | `Spec => []TypeOK` |
| `RowProofs.RowIsLadder` | a row that is returned is a ladder on both sides, with at most one level per level asked for |
| `RowProofs.RowIsWhatTheLineSays` | `Spec => []RowExact` |

An exception or an illegible row never leaves a book that a later caller could
not use: every step of a replay is a step of `Next` or leaves the book alone
(`ReplayIsCall`, `ValidationIsCall`), so the inductive invariant of the book
carries over. That argument needs `MessagesAssumption`, which says that a message
names ids, prices and quantities of the model.

`SummaryAdds` rests on `ReplayInv`, which adds to the property that the counters
are integers and that the book is finite: `order_count` is a cardinality, and only
the end of a submission puts an id into the index (`NoOrderAdded`,
`OneOrderAdded`). `SuccessesAreReal` compares `order_count` and the quantity at
rest before and after a reduction. `SummaryTotalsAgree` is the ledger's argument
with the summary as the ledger, and counts the line whose `add_order` runs.

The four theorems about `ValidationSpec` are about any two files, and
`FeedIsValidation` hands them to the feed. Three share the inductive invariant
`ValidatorInv`: `ViewInv`, with

- `LineInv`: the line that waits is a row, or is one that does not parse;
- `FirstInv`: a first mismatch is there exactly when `mismatching_rows` is not 0;
- `CountInv`: the counters are natural numbers and `ValidationConsistent` holds.

A view of a side is the only one of its depth (`ViewsAreSame`), because the number
of better prices tells two prices apart (`SamePlace`), and a snapshot is one
(`SideExact`). So the comparison of a row with the snapshot finds no difference
exactly when the row is a view of the book (`SideCompared`, `RowVerdict`), which is
`VerdictsAreExact`; what it counts is zero exactly then, which keeps `CountInv`;
and when it finds one, the smallest place it counts is the first difference
(`MismatchPlaced`), which is `FirstMismatchReported`.

`FeedMirrorsExchange` is by `FeedInv`. The market does not cross (`MarketInv`),
and while nothing was lost after the first row the book is the seen part of the
market (`Follows`), or lacks exactly the submission that runs. A submission that
does not cross the market does not cross its seen part, so `add_order` goes
straight to `RestRemainder`.

`NoAlarmIsFalse` is by `VerdictInv`: `FeedInv` and `ViewInv`, with `RowsInv` (the
row that waits is the one the exchange shows of its market as it is, and the
market is finite: `FeedInit` says so of the earlier orders) and `AlarmInv` (a feed
that lacks nothing has told of the whole market, and whatever is missing is
missing before a row that was compared or is the next). A book that mirrors the
whole market sums up the same orders as the exchange does (`MirrorShows`), so as
long as nothing is missing its rows agree.

`NeverReadsPastLine` needs that a depth of at most `SizeMax \div 4` makes four
times the depth at most `SizeMax`, so that the remainder is the number itself.
The invariant for `RowIsLadder` says that the levels read so far are strictly
ordered; without it the comparison with the last level alone would say nothing
of the ones before. `RowIsWhatTheLineSays` adds (`TellInv`) that what was read
is what the line says so far: the levels are the line's, up to the first
sentinel of a side, and a line that was refused has no row to tell of.

### What the transition validator concludes

`TransitionProofs` holds for every depth above 0, every set of rows and messages,
and every set of books that what the files mention may be in.

| Theorem | States |
|---|---|
| `SummaryIsConsistent` | `Spec => []SummaryConsistent` |
| `FirstMismatchStays` | `Spec => FirstMismatchKept` |
| `MismatchesAreReal` | `Spec => MismatchUnexplained`: no book at all, whatever it hides, is behind a transition that is called a mismatch |
| `MatchesAreExplained` | `Spec => MatchingExplained`: some book is behind every transition that is called matching |
| `UnverifiablesArePossible` | `Spec => UnverifiablePossible` |

`SummaryIsConsistent` is by `SummaryInv`: each judgement adds one to one
classification and bounded amounts to the counters of levels (`JudgeSound`), and
`Counted` keeps the sums.

The others need that the row kept from before is a ladder of at most `depth`
levels and the last row read (`RowsAssumption`, `JudgingInv`). For
`FirstMismatchStays`, the place that `FirstOf` takes is that of the first
comparison that does not agree (`FirstIsTaken`); a comparison names the first
difference of what it compares (`ComparisonPlaces`), also when the row is cut to
the levels that are known (`CutDiffers`); and on each branch what is compared is
what the message predicts (`SubmissionNamesPlace`, `InSightNamesPlace`,
`OutOfSightNamesPlace`, `HiddenNamesPlace`). The other three say
what each branch of the `validate_*_transition` functions means for whole books:

- what a row shows of a book is determined by the book (`OneLadderShows`), so
  the validator may compare the next row with the one ladder it expects;
- if a ladder shows the best levels of a book, then the ladder with a level
  added to or opened, made smaller or taken out shows the best levels of the
  changed book (`SubmittedShows`, `RequantifiedShows`, `RemovedShows`; a change
  out of sight shows nothing, `HiddenShows`).

A mismatch is real because every book that explains the transition leads, by
these, to the branch that accepts it. The converse needs a witness: the levels
in sight alone (`BookOf`), or these and one behind them (`Behind`) when the
message is about a price out of sight. `UnverifiablePossible` leaves out the
removal of the last visible level, where it is false (see
`UnverifiableConsistent` above).

### Model-checked only

- `TransitionsAccepted`. That the market is a book which explains each transition
  needs the lemmas of `TransitionProofs`, which are about a constant depth, in
  `PairedFeed`, where the depth is an argument of a call.
- `CallReturns`, a liveness property, which is out of the prover's reach.

## What is not modelled

- *Text.* Parsing of single fields, and the wording of exceptions and reasons.
  A row is what parsing yields, or an exception.
- *Widths.* `Quantity` is an `int64_t`; sums in `snapshot`, in the summaries
  and in a submission to a visible level (`MarketDataReplay.cpp:433`) may
  overflow. Quantities here are unbounded. The one width that decides control
  flow, `size_t` in the row parser, is modelled.
- *Memory.* `bad_alloc` between the three allocations at the end of `add_order`.
- *Time.* Latency, which is what the benchmarks measure.
- *Levels in a report.* The expected and the actual level that are copied into
  the two kinds of `first_mismatch`; its row, side and place are modelled.
- *A line that is lost from one file only.* From there on every message is
  compared with the row of another, mismatches are reported as they come, and
  the exception at the end of the shorter file takes the summary with it
  (`MarketDataReplay.cpp:797-808`). The code claims nothing of those rows, so
  there is no property to state; the exception itself is `ThrowOnMessage`.

## Plan

Done: the core with its refinement, ledger and proofs; both replays and both
validators with the feed they are made for; the row parser. Of the properties
the runs check, the ones that no theorem states are in "Model-checked only".

Next theorem: `TransitionsAccepted`, from `MismatchesAreReal`. The lemmas about
judgements go to a module with constants only, which both `TransitionProofs` and
`FeedProofs` can use; the market, by price, is then a book that explains the
transition between two of its rows.

Next module: a throwing allocation at the end of `add_order`
(`OrderBook.cpp:110-114`), as a variant of the book, with what the invariants
still hold of a book that was left by `bad_alloc`.
