# A verification project for futures-position-simulator-go

The repository is a Go library (`futsim`) that simulates the account of a client on the Chinese futures exchanges: the
positions lot by lot, the account, the live orders and what they freeze, fees, margin, and the evening settlement. Its
operations are ordinary calls on one `Simulator`; nothing in it runs concurrently. Around the library stand reference data,
a replay engine that publishes reports, contract lifecycle events, read-only views, and `cmd/oracle`, a tool that measures
the rules on simulated accounts of live counters: that one talks to a counter which acts by itself, over a session whose
library calls back on a thread of its own.

This directory holds TLA+ modules of the library and of the oracle, TLC configurations that check them on small instances,
and TLAPS proofs.

    tlc -workers 2 -config Account.cfg MCAccount      one run (PROJECT.json lists all)
    tlapm AccountProofs.tla                           one module of proofs

## 1. The system

| Component | State | Operations | What makes it correct |
|---|---|---|---|
| position (`position/`) | two sides of lots: opening day and price, volume, basis, settled or not | Open, Close with an offset and an order, Settle, Restore | lots stay in the order of days; day-by-day and trade-by-trade profit differ by what was settled |
| account (`account/`) | previous balance, flows, profits, fees, margin, frozen money | Deposit ... Settle, Check, State, Restore | money is conserved; the account is what its parts say; it can be restored |
| order book (`order/freeze.go`, `sequence.go`) | live orders with sequence numbers, high-water mark | Insert, Remove, Reinsert, RestoreBook | time priority survives undone fills and restarts |
| order validation (`order/order.go`) | none | eight checks of a request | the first failing check decides the refusal |
| fee and quota (`fee/`, `quota.go`) | per side and day: lots opened, charged at the today rate, of those explicit | commission, bookQuota | intraday and settlement fees stay together; the quota is not overdrawn |
| margin (`margin/`) | none | Compute over legs | larger side per group |
| profit (`pnl/`) | none | Mark, CloseProfit, PositionProfit, FloatProfit | two bases agree in the end |
| facade (root package) | account, positions, prices, book, quotas, a broken flag | Mark, ApplyTrade, PlaceAccepted, Place, Submit, Cancel, Fill, Advance, Settle, State, Restore | the parts agree with each other after every call, refused ones included |
| matching, bars (`match/`, `advance.go`) | none | a fill at the order's price; the guards of a bar | only valid orders trade; a bar of another session moves nothing |
| lifecycle (`lifecycle/`, `lifecycle.go`) | rules bound to a day, schedule | SettleWithRules | nothing is held too long; the morning can be restored |
| replay (`replay/`) | archive, report, temporary and target file | Run, Compare, publish | an event is kept whole or not at all, and so is the file |
| reference data (`refdata/`) | instruments, rates, calendar | lookups, sync | days are mapped to sessions correctly |
| views, conformance (`view/`, `conformance/`) | none | projections, comparison with recordings | fields agree |
| oracle's session (`cmd/oracle/ctp/`) | handshake, query batch, book of orders, closed or not | connect, query, insert, cancel, close, reconnect | a login is earned stage by stage; rows belong to the query; one session at a time; Close wakes whoever waits |
| oracle's experiments (`cmd/oracle/`, `probe/`) | the script, the last order, what is deferred | 55 scripts of orders, waits, cancels and clean-ups | history is not closed by accident; no order is left behind; every script ends |

The parts interact by calls. The facade is the only writer of the others: a trade clones the position, closes lots in the
clone, has margin and profit computed over all positions, swaps positions and prices in, and then tells the account in five
steps (`trade.go commit`). A fill takes the order off the book, returns its frozen money, and then is a trade; if the trade
is refused the order is put back at its old sequence number and its money frozen again, and if that fails the simulator is
`broken` for good. The evening values everything at the settlement price, settles the account, rolls the lots and values
the rolled lots again for the next day. `State` exports everything and `Restore` recomputes and checks it.

The oracle's session is shared by its caller, the thread of the counter's library, another goroutine that may close it,
and timers; they meet under a few locks. Its experiments run in one goroutine, but the counter they send orders to accepts,
trades, refuses and cancels in its own time, and what they know of it is late.

Hard behaviours: a sequence of legal calls that reaches a state another call refuses (quotas, overdrawn accounts); several
orders and outside trades competing for the same lots; refusal half-way through an operation; two decisions taken at
different times that must agree (what an order froze and what its fill takes; what a request was validated as and what was
placed); rounding in two places; archive and restart between any two calls; kills and losses of power while a report is
published; late, repeated and broken-off answers; an order that times out and is accepted after the script looked for it.
PROJECT.json lists them with their lines under `hazards`.

## 2. The modules

Each component has its state and operations in one module. Operators that several modules need are in `*Ops` modules (or
`Lots`, `Fee`, `Margin`) without variables, so that the facade composes the same definitions the component is checked with.

| Module | Models | Notes |
|---|---|---|
| `Lots` | `position/lot.go`, closing orders, `position/restore.go`, `pnl` | consumption of lots along a walk over the sequence, by recursive functions |
| `Position` | `position/position.go` of one instrument | actions `Open`, `Close`, `Settle`; history variable `gap`: profit already settled into the account |
| `PositionProofs` | theorems of `Position` | |
| `AccountOps`, `Account` | `account/` | one action per method; history variable `ledger`: what was booked |
| `AccountProofs` | theorems of `Account` | |
| `BookOps`, `OrderBook` | `order/freeze.go`, `order/sequence.go` | `FillFails` is Remove and Reinsert; `Reload` is State and Restore |
| `OrderQueue` | the book as a client sees it | abstract specification: a queue that ids join at the end and leave anywhere |
| `OrderBookProofs` | theorems of `OrderBook` | its invariants, and that it implements `OrderQueue` |
| `Fee` | `fee/`, `commission`, `chargeUndated`, `sameAsWholeTrade`, `todayTierLots` | money in units of which `Cent` make one cent |
| `Quota` | the quota and fees of one side over days | history variable `day`: the day's fees as charged and as settled |
| `QuotaProofs` | theorems of `Quota` | |
| `Margin` | `margin/margin.go Compute` | |
| `SimulatorOps` | the facade's operations as functions of a simulator value | |
| `Simulator` | the facade over days | history variable `cash` |
| `FacadeProofs` | lemmas about `SimulatorOps`, without variables | lots, sums over instruments and orders, fees, margins, accounts, orders, archives, and what each operation makes of a sound simulator |
| `SimulatorProofs` | theorems of `Simulator` | extends `FacadeProofs` |
| `Validation` | `order/order.go`, price limits of `refdata/refdata.go` | a fact is a value or `Missing`; a check that cannot be made is `Unchecked` |
| `Calendar` | `refdata/calendar.go`, night coverage, first open | a question the declarations do not answer is `Unknown`, which is not `Outside` |
| `Lifecycle` | `lifecycle/rules.go` | rules of one day from a base and a schedule |
| `Trading` | `submit.go`, `place.go`, `match`, `advance.go`, `lifecycle.go` | composes `SimulatorOps`, `Validation`, `Calendar`, `Lifecycle`: a client over days with changing rules |
| `Risk` | `risk/policy.go` | |
| `Replay` | `replay/engine.go`, `report`, `diff.go`, `cmd/replay` | composes `Trading`, `Risk`, `Publish`: a script of events, committed one by one |
| `Publish` | `replay/persist.go` | each call may fail; another process, kills, losses of power |
| `Publication` | what a reader of the report's name sees | abstract specification of `Publish` |
| `ReplayProofs` | theorems of `Trading`, `Calendar`, `Publish` and `Replay` | an instance of `FacadeProofs` under the rules of the day |
| `Handshake`, `QueryBatch`, `Valve` | `cmd/oracle/ctp/handshake.go`, `query_batch.go`, `cmd/oracle/safety` | one operator per region held under the lock; no variables |
| `Session` | the CTP client, its caller, its library, a goroutine that closes it, and the front | a step is a region under a lock or a native call |
| `SessionProofs` | theorems of `Session` | |
| `Counter` | the counter as an experiment sees it | lots by leg, orders; external, modelled by how the code uses it |
| `Runner` | how a script is carried out | instructions that fail, what follows a failure, deferred ones; the late picture |
| `Probe` | `cmd/oracle/probe`: 26 scripts against the KQ counter | an instruction is an action, a script a sequence of instructions |
| `Commands` | `cmd/oracle/*.go`: 29 scripts against a CTP counter | sweeping, cancelling and confirming, closing today's lots, flattening |
| `Experiments` | any script in any world | the properties, and the fairness |
| `MC*` | model values, starting states and inputs of the runs | |

Correspondence of the facade. `sim` is the Go struct: `acc`, `positions` (per instrument and side a sequence of lots),
`prices` (0 for a missing price), `book`, `quotas`, `broken`. An operation is written as what it requires (`CanTrade`,
`CanPlace`, `CanSettle`: the conjunction of the code's refusals) and the simulator it leaves (`Traded`, `Placed`,
`Settled`). `Commit` and `Settled` set `broken` when one of their account steps refuses: `Committed` and `AccountSettles` are the
steps put to the account, in the evening the margin twice, the settlement between them and the check. A refused call that changes
nothing is a stutter and has no action. `FillRefused` has one, since it does change something in between: `PutBack` inserts
the order at its number and freezes its money again or breaks the simulator.

Correspondence of the trading client. `Trading` holds the day's rules and the simulator. `Submit` is validation, the
rewriting of the offset and a trade; `Place` validates and freezes, `Fill` releases the order and trades without
validating again. `Advance` marks by the close of a bar that lies in one session of the day and within the limits. `SettleWithRules`
is the settlement under the old rules, the change, and the check that the morning can be restored, in one step or not at
all.

Correspondence of the replay. The state of `Trading` is the archive of the run. An event is applied to a copy (`After`),
kept when everything about it succeeds (`Keep`), and else ends the run (`FailAt`). The report is a record; a reader's
validation and comparison are operators over it.

Correspondence of the session. `c` is the client, `setup` the lock of set-up, which is a variable because the library may
call back while it is held; `caller` is where the caller's goroutine is and its local variables, `closer` the same of the
goroutine that calls Close, `front` what the counter holds and has still to deliver. `truth` is a history variable.

Correspondence of the experiments. `todo` is the rest of the script, `at` the phase inside an instruction, `later` the
deferred functions, `out` whether the script has failed and which orders its operator was told of. A wait has two ends: what
it waits for, and its time limit, which may come whenever the wait lasts. A query is answered by the counter or fails. A
conversion, a file, a quote or a verdict is `Try`: it succeeds or fails and changes nothing here.

Definitions marked *Faulty variant* are used by no other definition (`CloseProfitByTrade` is also the history variable's
reckoning). They state a plausible mistake in the definition that
follows them, and PROJECT.json `mutants` says which property notices it.

## 3. The runs

### Fairness

The library and the replay are called and never act by themselves, so no fairness is assumed of them. The oracle waits for a
counter, and its two liveness properties are about that:

- `Session`: `WF_vars(CallerStep)` and `WF_vars(CloserStep)`. Goroutines are scheduled and native calls return. Nothing is
  assumed of the front, of the library's thread or of timers: `CloseWakesEverybody` holds with a counter that never answers
  and deadlines that never come.
- `Experiments`: `WF_vars(RunnerStep)`. The script's goroutine is scheduled, and each of its waits has a time limit
  (`time.After`, a deadline in the loop), whose passing is one of the ends of the wait. Nothing is assumed of the counter.

Deadlock is not checked where the system may stop: a broken simulator refuses every call (`usable`), a run of the replay and
a script end, and a session may wait for a front that is silent.

### What each run shows

| Run | Shows | Bounds |
|---|---|---|
| `position` | lots stay restorable; yesterday-first is FIFO; the two bases agree | archives of one lot; 2 prices, 2 volumes, 3 lots a side, days 2 to 3: lots of three generations on a side |
| `account` | conservation, restorability, what a settlement does | amounts 0 to 2, profits +-1, one cent of tolerance, 2 trades a day, 2 days |
| `account_overdrawn` | *violated*: a losing settlement leaves what Restore refuses | as above |
| `order_book` | numbers, restorability, refinement of `OrderQueue` | 3 ids and the empty one, 2 orders, 6 numbers: the counter runs out |
| `quota` | fees and quotas over a day's opens and closes | 3 lots, two units to the cent, tariffs with half cents |
| `simulator` | the whole facade, one instrument with quota and two closing rates | 2 orders, 2 trades a day, 2 lots a side, 2 days, a rich and a poor account |
| `simulator_overcharged` | *violated*: quotas that Restore refuses | as `simulator` |
| `simulator_mark_pre` | *violated*: profit lost in the evening | as `simulator`, `Mark = MarkPreSettlement` |
| `trading` | validation, orders, bars and evenings with daily rules together | three accounts (rewritten close-todays; today and history told apart; margin on the larger side of two contracts), 2 orders, 2 trades a day, 2 lots, three trading days of 8 clocks with a break, a night over midnight and a night that is not declared |
| `replay` | the report, its comparison, its publication | scripts of up to 3 events out of 19, good and bad; every call of the publication may fail, be cut by a kill or a loss of power |
| `oracle_session` | one client, or a fetch with a reconnection | 2 attempts of 3, 2 rows, 2 calls, 2 copies of an answer, 2 trading days, a valve that lets one lot through |
| `oracle_experiments` | every script against every counter | accounts with none, one or two lots of today and history, long or short; plain closes with either meaning; 3 of 6 rounds of sweeping, 3 of 5 of closing; one second try; two cells, points or cases of a loop, three asks of rejectCode |

Why the bounds are enough. Two lots on a side make today and history lots coexist, and trades enough for an open, an
undated close and an explicit close to meet; two orders compete for two lots. The second day has orders over lots that were
rolled. Two adjacent prices and two units to the cent produce every kind of rounding (up, down, exact half). The poor
account is one whose refused fill can no longer be paid for. The calendar has a bar over a break, one from a day into the
next and one over midnight. Three events let one that fails follow one that is kept and one that settles. Two attempts are
one failed connection and one more; two rows and two calls let rows of an answer that came late fall into the next query.
In the experiments the loops are alike from round to round: what matters is a round after one that failed, and the two
empty answers in a row a sweep asks for, which three rounds can give or fail to give. `ctpPairs` and `ctpExtRounding` are
defined and left out of the run: they send what `ctpReject` and `ctpExtMulti` send.

The properties worth knowing:

- `LotsForEveryOrder`: after any sequence of placements, cancellations, fills and outside trades, each live closing order
  would still find its lots if it filled first. It fails if a trade is allowed to eat frozen lots, or if an order freezes
  under the offset as written instead of as it will be traded.
- `EquityIsTradeProfit`: the balance, built day by day from bases and settlements, equals the cash of a client who had
  booked everything trade by trade plus what open lots have earned since they were opened.
- `RestoredUnlessOvercharged`: everything reachable can be saved and restored, apart from the two exceptions it names; the
  exceptions are the findings below. Since `Restore` recomputes what is frozen, the margin and the profit, it says as well
  that what the account caches is what the positions and orders add up to.
- `BrokenOnlyWhenFundsShort`: the only way to break a simulator is a refused fill whose order can no longer be paid for
  (after losses or withdrawals); the code documents that outcome. No account step of a trade, a quote or an evening refuses:
  an evening that carries the day's fees over (the property's mutant) fails at its last step, the check.
- `NumbersNeverReissued`, `ImplementsQueue`: time priority through undone fills and restarts.
- `MoneyConserved`, `SettleIsHarmless`: the account over days.
- `WithinACentPerTrade`: fees charged intraday and at settlement; true while the per-lot part of a rate is a whole number of
  cents (see section 5).
- `ValidOrdersTrade`, `SubmitIsPlaceThenFill`, `RestingOrdersStayValid`: what the eight checks let through trades without a
  refusal, at once or later; an order that rests becomes invalid only by time, money or the position limit.
- `WithholdingNeverHelps`: a fact that is missing never turns a refusal into an acceptance.
- `BarsInSession`, `DayBeginsAtFirstOpen`: the two ends of a bar are enough to know that all of it is in one session; the
  day's first opening is the first instant the calendar gives to the day.
- `NothingHeldTooLong`: nothing is carried into a day on which it may not be held. `OnlyMoneyStopsTheEvening`: the change of
  the day restores what it starts from and what it leaves, and would keep the client in the old day if either were refused;
  after any history, at any settlement price and under any next rules it is refused only where the account ends overdrawn or
  a quota is overcharged. The state an overdrawn evening would leave is reached in the run `trading` (without that exception
  the property is violated); overcharged quotas are reached in `simulator_overcharged`.
- `ClosingFreesMargin`: margin on the larger side never rises by a close.
- `ReportsReadBack`: a report that is published is one `ReadReport` accepts, except one whose last account is overdrawn or
  overcharged (findings 1 and 2 reach the reader through the report).
- `DifferenceIsTheFirst`, `DepositIsLeast`: comparison finds the first frame where two runs part; the deposit a risk report
  asks for is the least to the cent.
- `ZeroMeansPublished`, `KeepsPromise`: exit code 0 only with a whole report under its name and the temporary name gone;
  a reader never sees part of a report, through failing calls, kills and losses of power.
- `SuccessIsEarned`, `RowsAreOwn`, `InsertTellsOwn`: what the caller takes for a login, for the rows of a query, for the
  status of an order was said by this front of this very thing, in time, in whatever order answers come. The day a client has
  is the day its own login was answered with, though the login of the attempt before may have been answered with another.
- `OneSessionAtATime`, `RefusedIsFinal`: reconnections overlap with nothing and never follow a refusal.
- `HistoryIsSafe`: no script takes lots carried over from earlier days but those whose subject is closing them, though
  closes are refused, late and half done. Three scripts are named as an exception (observation 10).
- `NothingLeftStanding`: at the end of a script no order stands that nobody is told of and nobody takes back, although an
  order may be accepted after it has been given up. One script is named as an exception (observation 2).
- `EndsFlat`: a script that must leave nothing behind and reports no failure has left nothing.
- `CloseWakesEverybody`, `EveryScriptEnds`: the liveness properties above.

### Findings

1. **Overcharged quota** (`simulator_overcharged`). With a history lot and a lot opened today, an undated close pays the
   today rate and takes the history lot; an explicit close of today's lot is then charged too. The counters read opened 1,
   charged 2. `State` exports them; `Restore` refuses them (`state.go:197`), although `docs/design.md:1504` promises that
   `Restore` puts back what `State` exported.
2. **Overdrawn account** (`account_overdrawn`). A settlement may leave the static balance below zero; `account.State` can
   then not be restored, contrary to the comment on `State` (`account/state.go:10`).
3. **Settlement under `MarkPreSettlement`** (`simulator_mark_pre`). `Settle` replaces only the last price by the settlement
   price and values positions by `Choices.Mark`. With `pnl.MarkPreSettlement`, which `Choices.validate` accepts, positions
   are settled at the old price and rebased to the new one: the profit between them is never booked. `settle.go:47` and
   `docs/design.md:432` say the evening does not depend on `Choices.Mark`. The presets use `MarkLast`.

### Observations

Read in the code while its experiments were modelled, without a run of their own. The oracle is a measuring tool, and most of
them cost a measurement and not money.

1. `probe/exp_settle.go:80`: `latestBaselineBefore` fills a baseline without the lots of today, so the branch for positions
   that did not roll is never taken.
2. `probe/exp_frozen.go:99`: when the dump fails, `expFrozen` returns with its resting order standing.
3. `probe/exp_reject.go`: the reject experiments read the open lots at their end at once, without waiting for the picture.
4. `probe/experiments.go:364`: `expFlattenAll` succeeds when the picture has no positions yet; what was waited for is the
   trading day only (`probe/runner.go:569`).
5. `probe/exp_position_date_type.go:118` takes an order that is not finished for one that was accepted.
6. `probe/runner.go:250`: `dump` reads the account, the positions, the trades and the orders in snapshots of their own.
7. The cancel of the close-today probe in `expCloseOrder` is not confirmed; `closeProfitSign` flattens again after a flatten
   that timed out; the reject scripts ignore errors of their cancels.
8. `main.go:1301`: `runCTPHold` closes with a sell although `-short` has opened a short position.
9. `slice.go:712`: `flattenLongToday` may read a position that lags behind an opening trade as closed.
10. `reject.go:82` (and `pairs`, `priority`): a close of history is sent to an account that is said to hold none, and is not
    looked at; with history in it the lot may be sold.

## 4. The proofs

`AccountProofs` proves, for every tolerance, set of amounts, set of archives and number of days, type correctness,
`CheckHolds` (the account's own check, which no run lists because the theorem covers it), `MoneyConserved`, `OnlyOverdrawnIsRefused` and the action property `SettleIsHarmless`. The inductive invariant
adds one fact the properties do not state, that the company's margin is never below the exchange's (`Sound`); without it
`OnlyOverdrawnIsRefused` is not inductive, and without `Check` in it the settlement's tolerance cannot be carried from the
day's fees to its end. There is one lemma per operation (it keeps an account sound, and moves the booked amount by so
much), and the step theorem cites them by action.

`OrderBookProofs` proves type correctness, `NumbersSound`, `NeverStuck` and `NumbersNeverReissued` for every set of ids and
orders, every archive and every limit of the counter. The inductive invariant is `TypeOK /\ NumbersSound`; the lemmas say
that a book's archive is restorable and restoring it gives the book back, and that taking an order off and putting it back
at its number is the identity. `BookIsQueue` is the refinement of `OrderQueue`, step by step. `OrderedIDs` gives an id the
place that counts the live orders numbered up to its own, so the lemmas count: numbers differ and are finitely many, hence
the places are exactly 1 to the length (`PlacesTaken`) and a sequence of the book's ids in rising numbers is `OrderedIDs`
(`OrderIs`). An accepted order joins at the end because its number is above all others, one that leaves moves those behind
it up by one, a failed fill and a reload stutter.

`QuotaProofs` proves three properties of a day's closes for every tariff, price, volume and number of trades.
`TodayRateOnlyForTodaysLots` follows from one inductive fact, `QInv`: the lots undated closes paid the today rate for are
those the counters call charged and not explicit, and they are within the lots opened. The code's refusal where the two
readings of the quota differ (`TodayTierKnown`) is what preserves it. `SplittingAClose` (which only the theorem states) follows from the same invariant by
arithmetic on the counters. `WithinACentPerTrade` needs no more of the quota than that a close charges a part of its lots;
it rests on `RoundingsAreNear` (with the other lemmas on fees in `FacadeProofs`): rounding a whole fee, and rounding its proportional part before adding whole cents, come to
within a cent. Under truncation that is because both are multiples of a cent less than two cents apart. A close split over
two rates obeys it because `SameAsWhole` accepts only what equals the whole trade's roundings. The theorem has one
hypothesis, `WholeCents`: every per-lot rate is a whole number of cents. Without it a truncated fee and its settlement can be
almost one and a half cents apart.

`ReplayProofs` proves that publishing implements `Publication` (`KeepsPromise`) for runs of any length, through the
non-temporal facts that the initial states map to initial states and every call, kill and loss of power to a change of the
promised file or to nothing. The inductive invariant says how far the content has come at each call: from the close on it is
whole and on the disk, and the report's name is ours only then. Without it a loss of power after the link could leave part
of a report. The same holds of a replay that publishes (`ReplayKeepsPromise`), of whatever account, script and rules, and a
replay that reports 0 has published (`ZeroOnlyWhenPublished`). `DifferenceFound` and `LeastDeposit` say of a comparison and of
a risk report, for every pair of runs and every account, what their properties say on the run's examples.

`PositionProofs` proves `SidesRestorable`, `ProfitsAgree` and `OldestFirstIsHistoryFirst` for every archive, price, volume and
number of days and lots. A close is a recursion over the sequence of lots, twice: it walks the lots in the order of its
offset and takes from each. What such a recursion computes is stated as a run (`IsRun`: a first value and a value for each
step), and the only induction of the module is the lemma `UpTo`, an instance of the library's well-founded induction for one
set of numbers; everything else is arithmetic of steps. The lemmas, which are in `FacadeProofs`, say that sums over lots are additive (`Sums*`, `Total*`),
that picking lots by a set of places keeps their order and hits each place once (`Picked*`), that taking volume changes
nothing of a lot but its volume (`ConsumeFaithful`), and that what is taken and what is left have the profit of what was
there. The inductive invariant is that the sides hold lots, that they are restorable (history before today, no empty lot,
days and bases in range) and that `gap` is the drift of the lots still held: volume times the distance from open price
to basis, summed. `TwoBasesAgree` alone is not inductive: it speaks of a price, and a close changes the sum by what the
lots taken have drifted, which only the lots know. `YesterdayFirstIsFIFO` follows from restorability: with history first in
the sequence the two walks are the same. The same lemmas say what a close leaves of each kind of lot (`ClosedByOffset`): its
volume less in the lots its offset names, nothing less in the others.

`SimulatorProofs` proves four theorems. `BooksAgreeWithTrades`: for any instruments, tariffs, prices, archives and number of days, whichever
commits fail, the balance of a usable simulator is the cash of a client who booked trade by trade plus what the held
lots have earned since they were opened (`EquityIsTradeProfit`). The property is one equation over the whole facade that says
nothing of its parts, so it is not inductive. The invariant `Books` says how the parts agree: the account's position
profit is the sum of what the positions tell at their marks, and the money booked is `cash` plus the drift of the lots
still held (`Balanced`); the types that the operations need go with it (`SimTyped`). A close then moves the same amount from
the drift of the lots into the booked money (from `ConsumeFaithful`: the pieces taken and what is left have drifted as
far as the lots had), and an evening books the position profit and adds the same to the drift. The rest is arithmetic of sums
over a finite set of sides or orders. The library folds a function over a set by recursion; the lemmas `Sum*` show that the
sums exist and what one changed or removed term does to them, by induction over the sizes of the subsets with `UpTo` again.
This theorem has one hypothesis, `MarkBasis = "Last"`: profits are measured from the last price. Measured from the
previous settlement, the evening leaves profit out and the property is false: the finding of the run `simulator_mark_pre`.

`OrdersFindTheirLots` states `LotsForEveryOrder`: filled now, a live order finds its lots and leaves what all others have
frozen. The invariant `Covering` puts two facts beside `Books`. Each order has frozen what its offset names (`OrderLots`), and
on each side what the live orders have frozen, summed, is held, of today's lots and of history apart (`FrozenFits`). The
second is kept because a placement and a trade are held to what others leave free, an order that leaves the book releases
exactly its own part (`FrozenWithout`, `FrozenWith`), a refused fill puts the same part back, and no evening comes while an
order lives. From the two it follows that the division of an undated close into history and today's lots, made when
it is filled, finds enough of both, though the sides may have changed since it was made for the freeze. The
hypothesis is `OrdersMeanSomething`: no archive holds an undated close of an instrument whose lots are kept apart, while
the choice gives such a close no meaning, nor a close of an instrument it holds no lots of. The library writes neither, as
`FreezeOf` and `PlaceAccepted` refuse the orders (`submit.go`, `place.go`). `Restore` would take both: it recomputes the
frozen lots of dated orders only (`checkOrderFreeze`), and compares what is frozen with the positions of the archive, not with
the orders (`state.go:267`, `HeldFits`), though its comment says that the condition is the one of a placement. TLC evaluates
the hypothesis on the starts of the runs (`StartsMeanSomething` in `MCSimulator`).

`OnlyShortFundsBreak` states `BrokenOnlyWhenFundsShort` for every instrument, tariff, archive and number of days. A simulator
breaks when the account refuses what a change that is made already implies, so the theorem is that the account never
does, with one exception. The invariant `Paying` puts beside `Books` that the account passes its own check with the company's margin not
below the exchange's, that orders carry different numbers that were given out, and that the amounts they froze are not
negative (`Funded`). In the evening the settlement is a step among others (`SettledPasses`, `EveningSettles`): the margins before
and after it are those of `Valued` positions and in order, and the fees it replaces are within the tolerance the check
allows, hence the check passes. `Funded` is kept because the margins told are in order (`HeldMarginFair`: lot by lot, summed over a side, over a group by
its larger side or both, and over the groups), and because a charge is within a cent of what the settlement
will take for it. What fees and each call do to a sound account are lemmas of `FacadeProofs`, as everything is that does not
speak of the actions. An order put back after a refused fill finds its number free, as the others kept theirs, so only
the funds can be missing. The hypothesis is `FeesInCents`, for the reason `WholeCents` has in `QuotaProofs`; TLC evaluates it too.

`ArchivesAreTrue` states `RestoredUnlessOvercharged`: `Restore` recomputes most of what an archive says and refuses it when one amount
differs, so the theorem is that the simulator, which only ever adds and takes away, is always where the
recomputation comes out. The invariant `Archiving` adds `Archivable` to those before it. The two margins are those of the positions at
the prices (`Told`). The amounts frozen are the sums over the book: one order less or more moves both by the same
(`TotalWithout`, `TotalWith`). Each order is as `FreezeOf` would freeze it now: only the previous settlement price is read again, and that stays
for the day once it is given (`SameRestorable`). The undated close, whose fee depended on the quota of the moment, is compared with
all the ways its lots could have been charged, one of which it was (`PlacedRestorable`). And a side's undated charges, and its lots of today, are
within what it opened (`SideQuota`), which is all of the quotas' check that survives explicit close-todays. The archived
book is in order from `Funded`, the lots from `Covered`, the position profit from `Balanced`. No fee needs to be in whole cents here: a
simulator that is broken gives no archive out. The hypothesis is `OrdersMeanSomething` again.

Of the trading client `ReplayProofs` proves `BarsStayInSession`: two instants of one session that the calendar gives to one trading day have
nothing but that session between them, whether it crosses midnight or not. It has one hypothesis, `KindsApart`: the day and
night sessions of a product do not overlap. The code compares sessions of the same kind only (`refdata/calendar.go:122`),
although its comment (`calendar.go:87`) says that no instant lies in two sessions; the declarations of the run satisfy it.
`FirstOpenIsFirst` is `DayBeginsAtFirstOpen` for every calendar, with nights over midnight and days off. `NothingCarriedTooFar`
is `NothingHeldTooLong`, as an action property of the specification: what the evening asks of the lots of the day holds of
those of the morning, which are of the same instruments with the same volumes (`SameInstruments`). `WithholdingIsSafe` is `WithholdingNeverHelps` for every order and every set of facts withheld: a
check that can be made with fewer facts is made with all of them and says the same.

The facade under rules that change. `Trading` and `Replay` reach the facade as `S(rules)`: which contracts there are to trade, their
margins and their terms depend on the day. The prover cannot cite theorems of an instance whose parameter is a state, and
the lemmas of `FacadeProofs` are about constants. `ReplayProofs` therefore takes `O`, the instance of `FacadeProofs` whose contracts are those of
`rules`, and proves operator by operator that `S(rules)` and `O` are the same expression (the lemmas `Same*`). Inside
a day all of `FacadeProofs` is then at hand (`FacadeRules`: rules in force satisfy what it asks of its constants). From
one day to the next the rules in the instance change under the simulator. What is carried over is stated without the old
rules: what `SettleWithRules` leaves can be restored under the new rules (it checks that), the archive can be read as one of
the new day (`EveningReadable`), and whatever is readable, typed and restorable is sound (`MorningIsSound`, from
`RestoredReady`: Restore recomputes all of what soundness says). `MorningIsSound` is proved for any rules that are in force, so it holds of
the rules after the step as well as before.

`ClientsWorkSoundly` is the invariant: the simulator a client can use is `Sound` under the rules of its day, which is the conjunction of
the invariants `SimulatorProofs` needs (typed, balanced, covered, funded, archivable). `ReplaysWorkSoundly` is the same for every event of
every script, where it is never broken either: an event is dropped when it breaks its copy. On it rest:

- `SubmittingIsPlacingAndFilling` (`SubmitIsPlaceThenFill`). Placing and filling at once puts an order in and takes the same one out; what is
  left of it, the number and the release of what it froze, is shown field by field.
- `ValidOrdersBecomeTrades` (`ValidOrdersTrade`). The checks count lots with the live orders in mind, the freeze divides them, the trade
  walks them: three readings of the same side. `FrozenFits` and `OrderLots` are what makes them agree. Two hypotheses come in, one
  of which is that margin rules of one group agree (`BasesAgree`), since a valuation refuses a group under two.
- `OrdersStayValid` (`RestingOrdersStayValid`). The inductive fact `StillFit` says which checks an order in the book passes whatever
  its age: those of price, tick, limits and volume. They depend on the rules and the previous settlement price, which a day
  does not change, and no evening comes while an order lives. The check of lots follows from `Covered`, with the order's own part
  given back (`ReleasedClosable`). The checks of session, money and position limit are not claimed: they may fail later.
- `ClosesFreeMargin` (`ClosingFreesMargin`). A trade after which no side holds more is a close (an opening makes its side larger). A
  close leaves each of an instrument's lots with no more volume than it had, hence lighter by every weight that does not fall with the
  volume (`Lighter`, `Weights`). Both margins of every lot are such weights, so both margins of both sides of each group do not
  grow, nor does the larger of them, nor the sum over the groups; that the side is decided by the company's figure and the
  exchange's goes with it needs the two to be in order.
- `ReportedDepositIsLeast` (`DepositIsLeast`). Every risk a report holds is an assessment of a sound account (`RisksAssessed`), and `LeastDeposit`
  is the arithmetic: the deposit is the largest of what three thresholds ask for, rounded up to a cent.
- `ReportsAreReadBack` (`ReportsReadBack`). The invariant `ToldWell` says that each frame but the last was restored, by the event after
  it; that a frame that can be restored passes all other checks; and that the report as read so far leads to the day, the
  simulator and the rules of the run (`StandsAt`). A frame more does not change what is read of those before (`SamePrefix`). The new
  frame passes because of what its event does to day, rules and numbers (`AfterIs`), and a settlement's statement adds up
  since its profit is what is missing to the sum (`StatementAddsUp`). The exception of the last frame is the property's own.

The hypotheses of these theorems are `StartsMean` (no archive to start from holds an undated close of an instrument whose lots are
kept apart, or a close without lots, as for `OrdersFindTheirLots`), `StartsRest` (resting orders of an archive pass the checks of `StillFit`: an archive is made by
the library, which placed them), `BasesAgree`, and `NothingIsApart` (the value that stands for a missing part of a report is no number and
has no day). TLC evaluates the first three on the inputs of the runs (`MCTrading`); the last is about a model value.

`SessionProofs` proves the five safety properties of `Session` for any number of attempts, days, rows, calls, copies and orders.
`OneSessionAtATime`: the open session is that of the client in use, and a client is replaced only after its release. What
makes this inductive is who closes: in a fetch only the caller does, and it is past Close only when the release is done.
`SuccessIsEarned` says that the day a client has was earned, which no single step shows. The invariant `Earned` says that a
collector that is complete without an error was granted the stage it is at and at the login holds the day that was said, that
the caller keeps that day until it is published, that the stages below the caller's are granted,
and that the front says nothing to a client that has not begun or has been released, so that
every answer meets the collector of the client it was meant for. `InsertTellsOwn` needs `Orderly`: references are used once and
lie above the old one, and each status in the book or in the feed was told of its order. `RowsAreOwn` needs `Batched`: questions
have numbers of their own, and the rows a batch has together with the rows the front still has to say are the rows owed.
`RefusedIsFinal` needs `Denied`: whoever was refused, or has an unanswered request at a door, is stuck at that door or has
failed there with an error that is not tried again. For each invariant the steps that do not touch it are one lemma over raw
fields (`NoOrder`, `NoRows`, `Elsewhere`), and every other action has its own.

Assumptions are the named `ASSUME`s on constants in the modules: signs and types of inputs (`ArchivesOfLots`: archives are
sequences of lots; `DaysAssumption`, `TermsAssumption`: days are numbers and terms are positive; `CentAssumption`;
`InstrumentsFinite`; `StartsTyped`: what the facade starts from has the types the code's decoder gives an archive;
`ChoicesAssumption`, `AccountsAssumption`, `InputsAssumption`, `EventsAssumption` of `Trading` and `Replay`: the counter's choices
are among those the code has, rules have types and bind on the first day, archives to start from can be read, requests and
events carry what the decoders let through), and in `Session` that no error is the value that stands for no error. TLC evaluates them in every run.

Only model-checked: `OnlyMoneyStopsTheEvening`, which speaks of the state an evening would leave under other rules than those
of the state it starts from, so that neither `S(rules)` nor `S(next)` alone has the lemmas for it; `HistoryIsSafe`, `NothingLeftStanding` and `EndsFlat` of the experiments, whose scripts are finite data that the prover would only
unfold, and liveness (`CloseWakesEverybody`, `EveryScriptEnds`), which is out of its reach.

## 5. What is left out

- Money is an integer number of small units, so decimal places beyond them do not exist. The contract multiplier is folded
  into the proportional rate. A per-lot rate with a fraction of a cent, together with truncation, can make the two fees of
  a trade differ by more than a cent; the tariffs of the runs have whole cents, as every rate in the repository's data.
- One hedge flag (speculation). Offsets for forced closing and the exercise of options, which the facade refuses.
- After a failed commit the code leaves the account half-written; the model marks the simulator broken and keeps the value
  before it. No operation works on a broken simulator and `State` refuses to export it, so nothing observes the difference.
- The refusals that undo a call in `place.go` (lines 33, 88, 108 and 134), which put back what was just taken off or freeze what
  was just released, cannot happen on the value they are called on; they are one guard with the call (`CanPlace`, `CanRelease`).
- An archive that lists a flat position and one that leaves it out are the same value here; `state.go:267` would compare the
  former with closes of its instrument.
- Calls for another trading day than the account's are refused by `usable`; the models' calls are for the current day.
- Bars mark positions only: the code does not match orders against bars yet. The position limit is a number per contract.
- The format of schedules, bundles, reports and archives on disk: they are records here, and what their readers check is
  modelled.
- The code's answer to a refused request (counter error codes, `ctperr`), views, conformance with recordings, the import of
  reference data and the statement checker: tables, projections and conversions without state.
- The comparison of reports leaves out the digest of a payload, the failure's text and the evidence: data that nothing here tells
  apart.
- The session: sanitising, whitelists, and the loading of the libraries. Orders are known by their references and take no
  request number. A login answered with an order reference that cannot be read ends as one with such a day does. The one row
  a query asks for is any row, so `UniqueError` has no filter. A lost connection is seen by the handshake only, as
  in the code.
- The KQ session: the socket, the login and the merging of difference packets. Experiments see a picture of lots and one of
  the last order, which arrive late and independently.
- The experiments: prices, rates, the verdicts on measurements, files, and the checks of registration and of trading
  windows before the first order; of the nine orders of `rejectPriority` four: three of its four single violations, of which two differ in
  price only, and one of the five pairs; variants that only choose another price, as `ctp-slices -firstrest`. Orders have one or
  two lots and trade whole.

## 6. Plan

In this order; what is done is marked.

1. [x] `Lots`, `Position`; `AccountOps`, `Account`; `BookOps`, `OrderBook` refining `OrderQueue`.
2. [x] `Fee`, `Quota`, `Margin`; the facade `SimulatorOps`, `Simulator` composing all of them.
3. [x] `AccountProofs`, `OrderBookProofs`, `QuotaProofs`.
4. [x] `Validation`, `Calendar`, `Lifecycle`, and `Trading` composing them with the facade.
5. [x] `Risk`, `Replay`, `Publish` refining `Publication`, `ReplayProofs`.
6. [x] The CTP session: `Handshake`, `QueryBatch`, `Valve`, `Session`, `SessionProofs`.
7. [x] The experiments: `Counter`, `Runner`, `Probe`, `Commands`, `Experiments`.
8. [ ] The KQ session: difference packets merged into a snapshot while readers wait for a condition.
9. [x] `PositionProofs`, the calendar in `ReplayProofs`, own rows and final refusals in `SessionProofs`; the balance, the lots of
   orders, what breaks a simulator and what can be restored of it in `SimulatorProofs`.
10. [x] The facade without variables in `FacadeProofs`; the trading client and the replay over it: orders that pass, rest and trade,
    margins freed by closes, the deposit asked for, the report read back. `BookIsQueue`.
