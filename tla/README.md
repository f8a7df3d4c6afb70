# firstbid: a verification development

firstbid is a market maker for timed "Up or Down" windows on an on-chain order
book, with a dashboard that shows what it did.  This directory holds TLA+ models
of its Go core (`core/internal`), of what the dashboard computes
(`core/cmd/dashboard`) and of the web front end (`web/src`), the TLC configurations that check them on small instances,
and TLAPS proofs of what holds for every instance.

Paths below are relative to the repository's source tree; `engine.go`,
`budget.go`, `quote.go` are in `core/internal/maker`, `ledger.go` in
`core/internal/ledger`, `page.tsx` files in `web/src/app`, other `.tsx` files in
`web/src/components`, `api.ts` in `web/src/lib`, the others named in
`core/internal/venue` unless said otherwise.

## 1. Inventory

| part | state | operations | what makes it correct |
|---|---|---|---|
| engine (`engine.go`) | maps under `mu` (`running`, `marketAsset`, `inventory`, `restingUp/Dn`), the `intents` channel, one goroutine per window, one executor, one reconcile goroutine, one settle goroutine per expired window | `supervise/discover`, `marketLoop`, `cancelResting`, `emit*`, `execute/handle`, `record`, `reconcile*`, `settle`, `reap`, `restoreInventory` | every intent is answered; one order per side; exposure of an asset within its cap although many windows decide at once; memory, ledger and chain agree through lost receipts and crashes |
| take budget (`budget.go`) | takes, notional, last take, per loop | `Allow`, `Record`, `ExposureAllows` | how far one window can be crossed, in number, money and time |
| pricing (`quote.go`) | none | `Compute`, `ShouldTake` | quotes never cross themselves, inventory moves quotes the right way, a take clears every floor |
| ledger (`ledger.go`) | SQLite tables of windows, quotes, fills, settlements, exposure | `UpsertWindow`, `RecordFill`, `HasFill`, `KnownMarket`, `OpenPositions`, `Settle`, read models | a fill once, with our side; positions of unsettled windows can be rebuilt |
| trader (`trader.go`) | none but a semaphore; the nonce is asked for each time | `send`, `waitReceipt`, `PlaceTracked`, `Cancel`, `EnsureApproval`, `SnapPrice`, `SnapQty` | an outcome that is not seen is not assumed; prices and sizes on the pool's grid |
| venue reads (`client.go`, `indexer.go`, `page.go`, `unclaimed.go`, `calib.go`) | none | book touch, own orders, fills, paging, claims | paging misses nothing and repeats nothing |
| price feed (`pricefeed.go`) | a sorted series per asset | `Spots`, `CandlesM1`, `PricePoints`, `BuildSpotSeries`, `SpotSeries.At` | an answer for time t uses no later tick |
| fair value (`core/internal/model`) | fitted calibration map | `FairValue`, `FitIsotonic`, `Map.Apply`, `EdgeFloor` | monotone, stays within (0,1), falls back where it has no data |
| dashboard (`core/cmd/dashboard`) | none | `live`, `pnl`, `traces`, `trace`, `health`, `risk`, `coverage`, `chain`, `calibration` | profit splits exactly; a fill is valued in the terms of its side |
| field page (`page.tsx`, `api.ts`, `Disagreement.tsx`, `Probability.tsx`) | the last list, its error, the countdown's base | poll every 10 s, rank, choose a headline, draw the bar | the headline is undecided; the clock is honest; the gap drawn is the gap there is |
| ledger, system, coverage pages (`ledger/`, `system/`, `coverage/page.tsx`) | the last answer and error of each read, the cadence filter | poll every 15 or 20 s, filter, sum | headline and rows agree; an outage is not silence; polls that overlap converge |
| trace page (`trace/page.tsx`, `DecisionTrace.tsx`) | the list, the selected window, its trace, the scrub position | select, abort and read again, scrub | one window's trace never stands under another's name; the replay never shows what had not happened |
| evidence page (`evidence/page.tsx`) | one answer or its error | read once | settles |
| research commands (`core/cmd/backtest`, `surface`, `volscale`, `calibrate`, ...) | none | replay and statistics | no window on both sides of a train/test split |
| one-shot commands, SDK probe (`executor`) | none | prints, one order by hand | - |

How they interact.  `supervise` lists windows every few seconds and starts a
`marketLoop` for each new one.  A loop reads its own inventory, the book (RPC)
and the price feed, and asks for writes by sending an `Intent` with a buffered
reply channel on `intents`; it waits for the reply or for the end of its
context.  The one `execute` goroutine handles intents one at a time: it checks
the asset's exposure over *all* windows, submits the transaction, waits for the
receipt, and books what the receipt shows in memory and in the ledger.
`reconcile` sweeps the indexer for executions that never appeared in a receipt
of ours (somebody else's transaction hit our resting order) and books them as
well.  When a window's deadline passes its loop starts a settle goroutine and
reaps the window from the maps.  After a crash `restoreInventory` rebuilds
positions from the ledger.

The dashboard is another process.  It reads the ledger the engine writes, and the
venue, and answers each request from what it finds at that moment.  A page asks
when it is mounted, some pages ask again on a timer whether or not the last
answer is in, and every answer replaces a piece of the page's state when it
arrives.  Links are plain anchors, so going to another page throws all of it
away.

What is hard here: three kinds of goroutines write the same maps between RPCs
of other goroutines; what the pool holds, what memory believes and what the
ledger says are three copies updated at different moments; a receipt may be
given up on although its transaction landed; a loop may stop waiting while its
intent is still in the queue; the process may die between two of the writes
that book one fill.  On the pages: answers overtake each other, a selection
changes while a read is out, three reads of one page fail and recover
separately, a position in one window's list outlives the selection of another.
`PROJECT.json` lists these hazards line by line with the
properties that watch them.

## 2. Modules

| module | contents |
|---|---|
| `TakeBudget` | the budget of one window together with the order in flight, the chain's own count of crossings, lost replies, takes mined late and restarted loops |
| `MCTakeBudget` | an instance for TLC |
| `TakeBudgetProofs` | theorems about `TakeBudget` |
| `Engine` | the concurrent core: venue, ledger, maps, loops, queue, executor, sweep, crash and restart |
| `Calls` | the abstract specification of the intents channel and the executor: synchronous calls served in turn |
| `EngineProperties` | what the engine promises, and how it maps to `Calls` |
| `MCEngine` | instances for TLC |
| `DataTheorems` | what the models compute from sets and lists, for all of them: sums, sorted and filtered lists, lines through the places of a curve |
| `EngineProofs` | theorems about `Engine`: control state, the reply protocol, the refinement of `Calls`, one order per side |
| `LedgerProofs` | theorems about `Engine`'s ledger and what rests on it: memory, reservations, the caps |
| `ExposureRow`, `MCExposureRow` | the exposure row, refreshed by three kinds of goroutine; an instance |
| `ExposureProofs` | what can make that row wrong, and that nothing else can |
| `WindowLife` | one window after the other from discovery to settlement, across restarts, each failure on its own |
| `WindowProperties`, `MCWindowLife` | what the engine promises about a window's life; instances |
| `WindowProofs` | theorems about `WindowLife` |
| `Reads` | how a page reads the dashboard: requests, polls, answers, errors |
| `ReadModels` | what the dashboard computes from a ledger |
| `Pages` | what the ledger, system, coverage and evidence pages show of what they have read |
| `Traces` | the trace page: selection, aborted reads, replay |
| `Lists` | sorting and filtering a list, by what they return |
| `FieldView` | the field page's pure parts: ranking, headline, bar, number |
| `Field` | the field page over time: its poll and its countdown |
| `Tab` | the pages, the user and the server together |
| `TabProperties`, `MCTab` | what the front end promises; instances |
| `WebProofs` | theorems about `Tab` and the pure parts of the pages |
| `Pricing` | `Compute`, `ShouldTake`, the isotonic fit, the replay series |
| `Algorithms`, `MCAlgorithms` | the pure parts with their reference definitions; inputs |
| `AlgorithmProofs` | theorems about the quote, the take, the replay series, the bar, the ranking, the headline, the attribution and the isotonic fit |

`Reads` is extended by `Pages` (with `ReadModels`), `Pages` by `Traces`, that and
`FieldView` by `Field`, and `Field` by `Tab`, which adds the steps of the user and
the server: one specification, a module per part of it.

### TakeBudget

`takes`, `notional`, `last` are the fields of `TakeBudget`; `stage` and `cost`
describe the order in flight (`marketLoop` waits for its reply before it does
anything else, so there is at most one); `crossed`, `paid`, `lastCross` are what
really happened to the window, which the code never sees directly.  `Submit`
is the branch `Allow(...)` guards, `Cross` the pool's match, `Acknowledge` the
reply that leads to `Record`, `Reject` a reply without an order, `LoseReply` a
crossing whose reply carries nothing because the receipt timed out or the
context ended.  `Abandon` is the end of that wait before the take is mined: the
loop goes on, and the take is in `late` until it crosses the book after all
(`CrossLate`) or reverts (`RevertLate`), whatever the loop does by then.
Transactions are mined in the order they were sent, so a take in flight waits for
those in `late`.  `Restart` is a new loop for the same window, which makes a new
budget; the order of the loop before may never have been sent or be in `late`.  Times are seconds, money the smallest unit of collateral.

### Engine

| variable | in the code |
|---|---|
| `phase`, `book`, `fills`, `placed` | the pool: whether the window still trades, our open orders, every execution against our address, how many placements landed |
| `mempool` | our transactions whose receipt wait has ended and that are not mined yet, by nonce |
| `known`, `rows`, `settled` | the ledger: `UpsertWindow`, `RecordFill`, settlement |
| `running`, `tracked`, `inv`, `resting` | `running`, `marketAsset`, `inventory`, `restingUp/restingDn` |
| `pc`, `plan`, `pull` | where a loop is, the sides it still wants to quote, the orders it still has to cancel |
| `queue` | the `intents` channel; `live` says that the sender still waits on `Done` |
| `ex` | where `handle` is and what it has read: intent, first half of the baseline, execution |
| `rc` | the fill the sweep has in hand |

One step is one critical section of `mu`, one channel operation, one ledger
statement, or one answer of the chain.  These are the points at which another
goroutine can come in between; code between two of them is one step.  So
`exposureBaseline`, which takes the lock twice, is two steps (`Dequeue`,
`GuardExposure`); booking a receipt is `TakeReceipt` (memory) then `RecordFill`
(ledger), while the sweep does it the other way round, `IngestRow`, then
`IngestTrack`, `IngestInventory` and `IngestRelease`, each of which takes the lock; a tick reads its inventory in `Tick` and acts
on it after the RPC, in `DecideTake`, `DecideQuote` or `TickEnds`.

A wait for a receipt can end in three ways that tell the engine the same
nothing: the transaction was mined and we did not see it (`ReceiptTimesOut`), it
is still pending (`SendAbandoned`, then `LateMined` at any later time, possibly
after newer intents were handled or the process restarted), or it failed
(`SendFails`).  An order that was mined late carries `late`, because it is the
only one that can rest beside another of its side.

Prices are abstracted: a decision is the set of sides quoted or the side taken,
any of which the inventory gates allow.  What an instance's environment may do
is its constant `Env`.

Assumptions of the model:
- the trader is present (`Trader # nil`), that is, not a dry run;
- ledger statements succeed (the code logs a failure and goes on);
- transactions are mined in the order they were sent: each takes the nonce
  after everything pending (`PendingNonceAt`), so none lands while an earlier
  one is in `mempool`;
- a take's receipt is one execution, at one quantity;
- a take never matches an order of ours: the venue reverts it
  (`docs/SDK-FEEDBACK.md`), which is `SendFails`;
- a graceful stop is a crash: the context's end makes whatever is in flight fail,
  and memory is lost;
- the sweep sees every fill: its look-back of 30 minutes (`engine.go:1153`) and
  the query's limit of 500 rows (`indexer.go:123`) are not modelled, since an
  instance has no clock and few fills;
- a post-only order rests whole or is refused, and an immediate-or-cancel
  order leaves nothing on the book;
- `Params.Size` is at least one lot, so the grid does not round it to zero; a price
  may snap to zero, or the queue be full, and the side is dropped (`QuoteSide`'s second
  disjunct, `engine.go:587`, 601-604);
- orders expire with their window, because `expireNsFor` bounds their expiry.

### Calls

What `marketLoop` relies on when it writes `if id := e.emit(...); id != nil`: a call
that returns.  A caller asks for one thing and waits; calls are dealt with one at a
time, in the order they were made; a call puts at most one order on the venue; the
caller goes on with the answer to its own call, or when its time is up.
`EngineProperties` maps `Engine` to it:

| in `Calls` | in `Engine` |
|---|---|
| `asked` | what a loop waits for: `Awaited(m)` while its `pc` is a waiting one |
| `line` | the intent in the executor's hands, if any, and then the queue |
| `acted` | the executor waits for a receipt or has it |
| `landed`, `owed` | `placed`, and how many transactions are in `mempool` |
| `over` | windows past their expiry |

`Ask` is a send on `intents` (`PullOne`, `QuoteSide`, `DecideTake`), `Act` is
`SendLands`, `Return` every end of `handle` (`Cancel`, a refusal, a failed or abandoned
send, the receipt or the end of the wait for it), `Late` is `LateMined`, `TimeUp` is
`WindowExpires`, `GiveUp` is `ContextDone`, `Die` is `CrashRestart`.  Taking an intent
from the queue, the exposure check that lets it pass, what a receipt does to memory and
ledger before the reply, the sweep, ageing and counterparties are hidden.  What could
break this in the code: a reply before the order is placed, a lost receipt answered by
sending again, a reply channel shared by two intents.

### ExposureRow

One asset.  The executor (`Book`, then the row, then `RecordFill`), the sweep
(`Ingest`, `AddInventory`, then the row) and each window's loop (`Reap`, then the
row) change an inventory and then refresh the row in two steps, `ReadExposure`
under the engine's lock and `WriteRow` or `WriteFails` after it.  `Restart` rebuilds
positions and rewrites the row only if some unsettled window has a fill, as
`restoreInventory` does.  `fresh`, `current` and `excuses` are history variables.

### WindowLife

`Engine` has the orders, the prices and the cap, and assumes that ledger statements
succeed.  `WindowLife` has none of the former, and each thing that can fail does so
on its own.

| variable | in the code |
|---|---|
| `phase`, `unseen` | the market (trading, over, or the oracle's answer); executions the indexer reports and the sweep has not ingested |
| `loop`, `watch`, `found` | the window's goroutines: `marketLoop` before and after its set-up, `settle` before the answer, after it, and with the winner read |
| `inv`, `tracked` | `inv` and the keys of `marketAsset` |
| `order`, `job`, `sweep` | what the executor has in hand, before and after the receipt is booked in memory, and the fill the sweep has in hand |
| `row`, `booked` | the window's row in the ledger, the sum of its fills there |

An execution is one contract of Up; the sweep also finds those a receipt has shown
(finding 1), and those whose receipt was given up or lost in a restart.  `Faults`
says what may fail: a set-up call, the upsert of the row, the write of a fill, the
write of the settlement, the wait for the answer.  A failed read of the venue that
is tried again is no step at all, and one after which `settle` starts over is
`ReadWinner`'s second disjunct.  `excuses` is a history variable: what happened to a
window that can leave it unsettled or its position unknown.  The properties say that
there is nothing else, and the code has each of these: a loop or a watcher that did
not survive a restart ("not watched", until the next loop), a wait of ten minutes
that ended ("timeout"), a settlement, a row or a fill the ledger refused ("not recorded",
"no row", "fill not recorded"), a set-up that failed after a restart ("position
forgotten"), a sweep after `reap` ("late fill").

### The web front end

| variable | in the code |
|---|---|
| `page` | the document the tab has loaded |
| `inflight` | `fetch` calls whose promise has not settled, and settled ones whose `then` has not run |
| `data`, `bad` | the `useState` pairs of a page: what it read last, its errors |
| `world`, `down` | what the dashboard would answer now, and which of its reads fail |
| `cadence` | the ledger page's filter |
| `sel`, `idx`, `crashed` | the trace page's selection, `DecisionTrace`'s scrub position, a render that threw |
| `now`, `base` | the server's clock, `useCountdown`'s base |

`Serve` is the moment the handler reads, `TakeIn` the moment the promise's callback
runs; anything may happen between them, and answers may be taken in in any
order.  Which reads clear an error on success (`live` and `risk`), which swallow
their failures (`chain`) and which keep an error until the page is loaded again
(the others) is in `ClearsError` and `Silent`.  `Select` is the selector's
`onChange` with the effect it causes: abort, clear, read.  `TakeTrace` mounts
`DecisionTrace` at the outcome; if the orders are null, rendering throws and React
unmounts the page.

The unit of time of the field page is its poll interval.  An answer carries its
age so that the countdown can be compared with the window's own clock; `Tick`
moves the server's clock, the countdown and the poll together.  Windows open and
close at fixed moments, so the server's list is a function of the clock.  The
countdown's effect depends on a number, the headline's whole seconds left
(`core/cmd/dashboard/main.go:200`), and not on the headline: `Restart` of `Field` sets
a new base only when the number is another one (`page.tsx:365-368`).  One window shows
another number at another moment, because its expiry is fixed and an answer the page
can hold is less than a cycle old (`ExpiryAssumption`); two windows may show the same,
and then the base stays.  `base.own` is a history variable that says so.

Prices and probabilities are thousandths; the bar's axis is in twentieths of a
thousandth, so that its padding of 0.35 and its centre are exact; `Pricing` uses
hundred-thousandths.  Rounding of floating point is not modelled.

A ledger page's rows are named by their place in the server's list and its sums
range over a set of places (`TotalOf`, `Sum`, `InCadence`): integer sums have no
order.

`Array.prototype.sort` is stable, so what it returns is determined: the k-th place of
a sorted list is the one with k - 1 places ahead of it, by the comparator or, where that
does not tell them apart, by the old order (`Lists`).  The comparators of the pages are
total preorders, which the proofs show (`FractionsOrder`); sorting by them is a
permutation.  The ranking compares fractions by cross-multiplying.

Drawing is abstracted to what is drawn: which rows, which totals, which sentence,
which of the error, the placeholder and the table, which part of the path, which
executions, where the ends of a bar are.  The detail-level toggle, colours,
formatting and the charts of the evidence page are left out.

`newSpotSeries` sorts with an unstable sort and keeps the last observation of a
timestamp, so of a close and the next open at one time either may stay: `At` is
the set of possible answers.

## 3. Runs

| run | question | instance | result |
|---|---|---|---|
| `take_budget` | how far can one window be crossed when replies are late or lost, takes are mined late and its loop restarts? | two takes, notional 4, costs 1 and 3, cooldown 2 of 6 seconds, two loops | pass |
| `engine_restart` | do memory, ledger and pool stay consistent, and are intents served in turn, as calls are (`Calls`), through partial fills in either role, lost receipts, transactions mined late, expiry, settlement and a crash at any point? | one window, orders of two contracts, two placements, late transactions, one crash | pass |
| `engine_takes` | can windows that decide at once take an asset past its cap? | three windows, two of one asset, cap 1 | pass |
| `engine_quotes` | can the orders resting in several windows reach past the cap if one whole side fills? | two windows, cap 1, three placements, orders ageing, set-up failing | pass |
| `engine_answers` | are two loops served in turn, is every loop answered, every pull finished, every window reaped, every fill recorded? | two windows, a queue of one, receipts timing out, fairness | pass |
| `engine_double_count` | is an execution in the ledger once, as the comment on `reconcile` says? | one window, one take | violated |
| `engine_late_release` | does a reservation cover whatever rests? | one window, fills, two placements | violated |
| `window_life` | is a window settled as the oracle answered, its position the ledger's, and is it closed in the end? | one window, two restarts, fills up to two at a placement, every fault, fairness | pass |
| `web_tab` | can a page show one window's data under another's name, a headline its rows contradict, a wrong clock, an outage as silence, or nothing for ever? | all six pages, two overlapping requests of a polled endpoint, answers up to two intervals late, a ledger that grows, fairness | pass |
| `trace_null` | can every listed window be replayed? | a ledger with a window whose only fill the sweep found | violated |
| `exposure_row` | once all writers are through, is the row the exposure? | two windows, positions of one contract | violated |
| `algorithms` | do the pure parts agree with their reference definitions? | enumerated inputs, see below | pass |

What the properties of `web_tab` say: a displayed trace is the selected window's
(`TraceIsTheSelected`) and opens at its settlement (`TraceOpensAtSettlement`);
scrubbing forward only adds executions, none before its time, and ends at the
costs the server attributes (`ReplayIsCausal`); the ledger page's headline is the
sum of the rows below it (`HeadlineMatchesRows`) and its sentence is true of the
numbers (`ReadingIsTrue`); the countdown is ahead of the window's clock by no more than
the answer's delay, and behind it only where another window became the headline with the
number the countdown was set to (`CountdownHonest`); the field page and
the risk section recover from an outage (`PagesRecover`), an outage that lasts is
shown (`OutageShows`), no page is left with its placeholder (`EveryPageSettles`)
and what stays open comes to show what the server says (`EventuallyCurrent`).

What those of `window_life` say: whatever fails or is retried, a settled row is the
oracle's answer (`SettledAsResolved`); an ended window with a row that nobody works
for is settled, unless one of three excuses holds (`UnsettledForAReason`); a quoting
loop's position is the sum of the ledger's fills whenever executor and sweep are through
with the window, unless one of three others does (`KnowsItsPosition`); and a window
that is quoted comes to be settled and out of the exposure (`EveryWindowCloses`).

What those of `algorithms` say: the headline is the soonest undecided window if
there is one and each window is shown once (`HeadlineIsUndecided`); a gap that is
drawn is drawn at its true length, on a slice inside the axis, and only if the
market is outside the printed range (`GapDrawnInFull`); ranking and bar measure
disagreement separately and agree (`RankingAgreesWithBar`); profit is edge plus
selection and a reconciled fill has no edge (`AttributionIsExact`); quotes lean
against the position, and quotes and takes of the mirrored belief are mirrored
(`QuoteShedsInventory`); pooling yields the max-min means of the bins, the closed
form of the isotonic regression (`FitIsIsotonic`); a series answers at t what it
would have answered had it been built at t (`NoLookAhead`).

Each property of a passing run has a mutant: a `Bug...` operator next to the
definition it changes, which makes TLC find the property violated on the same
instance.

**Bounds.**  `MaxOrders` bounds placements that land, `MaxCrashes` crashes,
`MaxClock`, `MaxCrossed`, `MaxLives` the budget's time, crossings and loops.  An order
of size two can fill in two parts, and two placements are enough for an order
and its replacement, for a bid and an ask, and for an order placed before and
one after the crash.  Two windows on one asset are enough for every race on the
sum over windows, a third on another asset shows that the sum is taken per
asset, and a queue of one with two loops is always full when the other needs
it.  A cap equal to one order's size makes the second order the one that must
be refused.

Of a tab: `Overlap` bounds the requests of one endpoint that are out at once, two
for the polled lists and the selected trace, since with two one can overtake the
other and a third adds no other order of two; one for the rest.  `MaxDelay` bounds
an answer's age in poll intervals.  The handler of `live` works for up to 45 s, so
two answers under way are ordinary.  The cycle of live windows is twelve intervals:
a 60 s and a 120 s cadence, the short one closing ten seconds before the long one, with
the headline changing from one to the other when a window decides, at two successive
moments with the same 50 s left, and one moment without any window.  The ledger has a window with a
resting order, a take and a fill of each, a voided one, one that lost and one that
has not settled; `trace_null` has one without orders.  A window's life needs two restarts: one that
restores a position and a second that finds what the first life after it left; two
fills tell a receipt from a sweep of the same window.  Windows of `WindowLife` share only the executor's
and the sweep's hands, so one is checked and the theorems are about any number.
`MaxEvents` only bounds the enumeration of
scrub positions.  `MaxPos` of the exposure row bounds positions; one contract
either way on two windows gives sums that differ.  `Algorithms` takes every list of
three live windows from a set that has one-sided books, unmodelled rows, gaps at,
inside and outside the noise and rows at both ends of the axis; every pair of
fills of either side, with and without a model value, in a window won, lost or
voided; beliefs at the certainty bounds and positions at and around the cap, with
touches on every side of them; all sequences of four to nine outcomes (`Samples`) in
bins of two (`MinBin`): two to four bins, the last of two or three outcomes; and all pairs of candles with absent ends.

**What runs leave out and why.**  `engine_takes` and `engine_quotes` have no
ledger: with a sweep every take is counted twice (see findings), which can only
be stated once.  `engine_takes` allows no receipt to time out: a take that
nobody saw is missing from the exposure until the sweep, so the cap can be
passed by it.  `engine_restart` has no set-up failures, for the reason given
under observations.  Only `engine_restart` mines transactions late: in the
other instances a late order would be one the cap was never asked about a
second time, as a take nobody saw is.

`web_tab` has no window without orders, which would end a behaviour early
(finding 3).  What one read of the dashboard returns is consistent in itself: the
selector's list and the traces come from one ledger.

**Fairness of the pages** (`Spec` of `Tab`).  Timers of a mounted page fire; every
handler answers or fails (they carry timeouts or read one SQLite file); a promise
that settled has its callback run.  Weak fairness is per endpoint and request
slot, since one answer taken in must not stand for another.  The user, changes of
the data, outages and their end are not forced.

**Fairness of the engine** (`FairSpec`).  The executor and the sweep are goroutines that
block only on their own input, so they are weakly fair; so are a loop's own
straight-line steps, the supervisor's ticker and the select on the context's
end.  A blocking send on a Go channel waits in a FIFO queue of senders: a slot
that becomes free goes to the longest waiting sender.  The model
has no order of senders, and says the same with strong fairness of `PullOne`;
with weak fairness only, TLC shows another loop winning every free slot.
Nothing forces the venue to act, an order to fill, a window to expire or a loop
to prefer any decision.  `SetupFails`, `SendFails` and `Settle` are not forced,
and set-up is assumed to end, since its calls carry the window's deadline.

**Fairness of `WindowLife`** (`FairSpec`).  Here windows do expire and the oracle does
answer, since the question is what the engine makes of it.  Loops past their
deadline, set-up, the executor, the started half of a sweep and the watcher's steps
go on.  `Timeout` is strongly fair where it may happen: a watcher that starts over
again and again, because the winner cannot be read, waits infinitely often, and after
ten minutes its context is done.  Discovery, placement, restarts and the sweep's next fill are
not forced.

## 4. Findings

1. *A take is booked twice.*  The indexer query returns the fills in which we
   were maker **or taker** (`indexer.go:117-127`); the sweep skips only keys
   `idx:...` that it wrote itself, while a take's receipt has been booked under
   `rcpt:...` (`engine.go:886-892`).  The comment at `engine.go:1128-1135` speaks of
   fills "that never appeared in one of our own receipts" and says that "restarts
   and repeated scans cannot double-count".  They cannot, but a receipt and a scan
   do.  Run `engine_double_count`.
2. *The sweep releases a newer order's reservation.*  `engine.go:1221` clears the
   side whose order filled, also when that order has been replaced meanwhile or
   has filled only in part.  `engine.go:56-60` says the maps track the resting
   order of each side.  Run `engine_late_release`.
3. *A window without orders unmounts the trace page.*  If the sweep found a
   window's only fills, no order row exists, `GetTrace` leaves `t.Orders` nil
   (`ledger.go:719-728`), the JSON says `null`, and `buildEvents` maps over it
   (`DecisionTrace.tsx:115`).  The list offers such a window, since it asks only for
   a fill, and selects it at once if it is the newest.  `DecisionTrace.tsx:141-142`
   says that reconciled fills "appear here even though no order of ours produced
   a receipt for them".  Run `trace_null`.
4. *An old exposure can stay in the row.*  `persistExposure` reads under the lock
   and writes without it (`engine.go:1038-1039`); a reap that read before a fill
   was booked may write after it.  `engine.go:1030-1033` says the dashboard shows
   "the same number this engine is actually enforcing".  Run `exposure_row`; the
   theorem `RowRightUnlessExcused` says that nothing but this, a failed write or a
   restart can make the row wrong.

Observations made with the models that are no findings of a run: no text of the
repository claims the contrary, they are consequences of design, or a passing run
names them as an excuse of its properties:
- a take is checked against realised exposure alone (`engine.go:988-991`), because it fills
  at once; orders already resting on the same side may fill after it and the asset is
  past the cap without any further decision.  With resting orders in its instance
  `engine_takes` fails;
- `marketLoop` defers `reap` before its set-up (`engine.go:293-308`): when the book
  parameters or the approval fail once after a restart, the position `restoreInventory`
  put back is gone and the next discovery quotes the window as flat, which the
  comment at `engine.go:1044-1045` excludes.  This is the excuse "position forgotten";
- the sweep does not ask whether the window still has a loop (`engine.go:1210-1211`): a
  fill it finds after `reap`, which a fill in the last 45 seconds usually is, counts
  against the asset's cap as long as the process runs, although the comment at
  `engine.go:266-267` says that "exposure state dies with the window".  This is the excuse
  "late fill";
- a window that ended while the process was down is never settled, stays among
  the restored positions and counts for the asset after every restart
  (`engine.go:1061-1064`), which is the excuse "not watched";
- a receipt booked after `reap` leaves an entry in `inv` without an asset; it does
  not count, but it is never removed;
- settlement is written once; if the statement fails, nobody tries again
  (`engine.go:1120-1124`);
- reaping a window that offset another raises the asset's net exposure
  with no trade;
- a new loop for the same window starts with a fresh take budget, and a take
  whose reply was lost is in no budget; `DamageBounded` says by how
  much at most this multiplies what one window can cost;
- the row keeps the previous process's exposure after a restart without open
  positions (`engine.go:1057-1059`);
- the ledger, coverage, health, evidence and trace reads keep their error until the
  page is loaded again, whatever succeeds afterwards; one failed trace hides the
  selector for good;
- failures of the chain read are swallowed: the section says it is loading, or
  shows old numbers;
- polls overlap, and an older answer may replace a newer one until the next
  poll; an older success may also replace a newer failure, although the failure's
  text says that nothing is shown "rather than something stale" (`page.tsx:289`);
- the countdown is set anew when the seconds left are another number, not when the
  headline is another window (`page.tsx:365-368`): the numbers are whole seconds, and a
  headline that takes over with the old one's number inherits its base.  The field page
  then shows less time than is left, by up to what the old base had run, until an answer
  brings another number.  `CountdownHonest` holds but for this, which its instance reaches;
- with a cadence selected, an older answer without that cadence leaves an empty
  table under a sentence about its edge (`ledger/page.tsx:56-57`, 212);
- an edge of exactly zero, which reconciled fills have, is told as "We were not
  buying below fair value ... Negative edge means ..." (`ledger/page.tsx:212-215`);
- the risk and health sections say that nothing has been recorded while they are
  still loading and when the dashboard has no ledger;
- a model value of exactly 0 counts as no model for the number and the bar, while
  the text beside them still states the gap (`page.tsx:73`, 93);
- when no window is undecided the headline falls back to one that is decided,
  although the comment says it must not be (`api.ts:257-258`);
- a reconciled fill is placed on the replay at the time of the sweep, not of the
  execution (`created_at`), and a decision that rested and filled later is told as
  one that "rested and did not fill" (`DecisionTrace.tsx:356`).

## 5. Proofs

`TakeBudgetProofs`, from `ParamsAssumption` only:
- `TypeCorrect`: `Spec => []TypeOK`.
- `DamageIsBounded`: `Spec => []DamageBounded`.  The property is not inductive: it
  says nothing of the order in flight.  The invariant `IInv` adds that the budget
  never exceeds its limits even with the order in flight counted, and that what
  was really crossed is at most what this loop recorded plus the order in
  flight, the full budgets of earlier loops and what was lost.  A take mined late
  counts as lost from then on, since no reply of it will be recorded.
  `OneMoreBudget` is the arithmetic of a restart.
- `CrossingsAreApart`: `Spec => CrossingsApart`.  The invariant relates three
  times: the crossing happened no later than its recording, and an order
  in flight was submitted a cooldown after the last recorded take.

`EngineProofs`, from `EngineAssumption` only, so for any set of windows, any
queue capacity, any exposure limits, with or without ledger, and every move of
the environment, crashes included:
- `ControlTyped`: loops, plans, cancel lists, queue, executor and book are well
  formed and the queue never exceeds its capacity.
- `RepliesReachTheirLoop`: `Spec => []ReplyProtocol`.  The inductive invariant is
  `VenueTypeOK /\ ControlTypeOK /\ ReplyProtocol`; the typing is needed because
  the protocol's argument is about positions in the queue.  The lemmas
  `QueuedAfterSend` and `QueuedAfterReceive` say what a send and a receive do to
  the positions holding a window's intents; `QuietStep`, `SendStep`, `DequeueStep`,
  `CancelStep`, `HandlingStep`, `ReplyStep` and `ContextDoneStep` each treat the
  actions that do the same to the protocol.
- `EngineServesCalls`: `Spec => ServedInTurn`, the refinement of `Calls`, from the same
  invariant and `PlacingInv`: only placements stay in the executor's hands, since a
  cancel is answered as it is taken.  `SendAsks`,
  `ReplyReturns`, `CancelReturns` and `ContextGivesUp` treat the actions that send,
  answer and give up; `AnswerReaches` says that a reply ends the wait of the loop the
  intent belongs to and of no other, which is where the reply protocol is needed;
  `StepsUnseen` says what makes a step a stutter, `StepServes` puts them together.

`LedgerProofs`, from `EngineAssumption` only:
- `LedgerIsTrue`: `Spec => []LedgerTellsTheTruth`.  The invariant `TruthInv` adds
  that executions are numbered in the order they happen, so that the number a
  receipt carries names one (`OneMoreExecution`), that the indexer's record of an
  execution (who took, and in which direction) gives our side back
  (`FillsSided`), and that what the executor remembers of a receipt between
  booking it in memory and in the ledger is an execution of the intent in its
  hands (`ExecutorSaw`).  `TruthIsKept` says that further executions, late ones
  included, leave true rows true.
- `RecordsTyped`: `Spec => []RecordTypeOK`, the part of `TypeOK` about executions,
  rows, reservations and the sweep, on top of `TruthInv`.
- `EngineTyped`: `Spec => []TypeOK`.  What is left are `inv` and `ex.base`, which are
  rebuilt as sums over the ledger and over windows; `NumbersInv` says that they are
  integers and that there are finitely many rows.

`DataTheorems` is what much of the rest stands on.  The sums of the community modules are
recursive functions that take a set's elements in the order of a `CHOOSE`, and the
library's induction theorems take a predicate as a parameter, which no installed
prover can instantiate.  So each fact is proved from a least counterexample:
`LeastSubset` (the well-foundedness of strict inclusion on the subsets of a
finite set, with `WFMin`) yields a smallest subset on which it fails, and the recursion
takes one element out of that.  `SumUnfolds` is the recursion, `SumTakesOut` says
that any element may be taken out, and the others follow: a sum after one value has
changed, over a part of the set, of two functions added, bounded by another set's, of
the same terms under other names, of differences.  `CountingUp` and `CountingDown` are
induction up to or down from a number, with a set in the place of the predicate.  Of
lists: that a strict total order of the places, given as the sets of places ahead of
each, lists every place once and in order (`InOrderLists`: how many are ahead is
an injection into the numbers below the length, so it is onto), that a filter keeps
the order (`KeptInOrder`), and that a stable sort by a fraction is such an order
(`FractionsOrder`).

In the following theorems of `EngineProofs` and `LedgerProofs` the hypotheses are
about the environment and hold in the instance whose run checks the property; each
names what breaks it.
- `OrdersDoNotPileUp`: while no cancel fails (`"cancelFail" \notin Env`),
  `OneOrderPerSide`.  A cancel that fails leaves its order resting while the loop
  goes on to quote: the next order joins it.  The property is about the pool, and it is
  kept by a loop that knows nothing of the pool when it posts.  `BookInv` says what
  makes that sound: an order on the pool is one the loop is about to cancel, or
  its side is no longer in the plan and no order for it is on its way, or it was
  mined late.  `LiveInv` and `PlanInv` are about the intents in the queue: those of a
  trading window are all still waited for, and a side on its way has left the plan.
- `MemoryIsTheLedger`: unless a set-up can fail in a second life of the process
  (`"setupFail" \notin Env \/ MaxCrashes = 0`), `MemoryMatchesLedger`.  With both,
  `reap` forgets a restored position (see the observations).  `MemoryInv` states the
  equation also during a booking, where memory is ahead of the ledger by the receipt in
  hand or behind it by the fill in hand (`Agrees`), and for windows without a loop
  that still trade; it needs that nothing is recorded of windows the ledger does not know
  (`KnownInv`), that only windows that are over are settled (`SettledInv`), and that a
  receipt's row is not there already (`FreshInv`), since a row written twice is one row.
- `ReservationsCoverTheBook`: while no cancel fails, every receipt is seen, there is no
  restart, and nothing trades where a sweep could see it, `ReservationCoversBook`.  With
  ledger and fills it is false, which is finding 2.  `CoverInv` says that every
  order's side is reserved and its window past its set-up; it uses `BookInv`, since a
  cancel clears a side and not an order.
- `TakesStayWithinCap`: `ExposureWithinCap`, where receipts are the only bookings and
  no position is reaped, missed or late (`TakeAssumption`).  The sweep would
  book a take a second time (finding 1), expiry drops positions from the sum (see the
  observations), a receipt that was given up or comes late is in nobody's sum.
  `TakeInv` says that memory with the execution whose receipt is awaited is the
  chain's position, window by window (`PositionsInv`), that a window with a position has
  a loop that counts it, and that the number the executor decides from is the chain's
  exposure until the order is sent (`CheckedInv`).
- `QuotesStayWithinCap`: `QuotesWithinCap`, while nothing has filled, no cancel fails and
  every receipt is seen (`QuoteAssumption`).  `RoomInv` counts, per asset and side,
  what is reserved and the one order the guard has let through whose reservation is not
  made yet; the book is within that by `CoverInv`, order by order
  (`SumIsCovered`).

`ExposureProofs`, from no assumption about the windows:
- `RowRightUnlessExcused`: `Spec => []RowWrongOnlyIfOvertaken`.  The invariant says
  that a writer in `fresh` holds the exposure as it is, that `current` implies the
  row is the exposure, and that without an excuse a writer is on its way whenever the
  row is not.  The sum over windows stays an opaque term: no step needs its value.

`WebProofs`, from `TabAssumption` (every listed window has a trace, and a trace read
by an id is that window's), `TracesAssumption` (a trace's orders and fills are lists with
integer times, prices and quantities, and its attribution is that of its fills:
only settled windows are listed, and one process reads fills and attribution from one
ledger) and what is named below:
- `TraceIsSelected`: `Spec => []TraceIsTheSelected`.  The invariant `SelInv` is
  about the reads under way: every one of a trace is of the selected window, and
  its answer, if it is in, is a trace of that window.  An abort is what keeps it.
- `TabTyped`: `Spec => []TabTypeOK`.  That every request has a slot of its own needs
  only that a poll takes a free one (`SlotsInv`); that the scrub position lies on the
  trace shown needs `SelInv`, since it is set for a trace and outlives its
  selection (`ReplayInv`).
- `TraceOpensAtItsEnd`: `Spec => TraceOpensAtSettlement`, an action property, from both
  invariants: only the answer to a read of a trace puts one on the page, and the page shows
  no error then.
- `CountdownIsHonest`: `Spec => []CountdownHonest`.  `ClockInv` says that the countdown
  runs from the number of the headline of the answer on the page, which is older than the
  countdown by no more than `MaxDelay`, no younger while one window has been the headline
  (`base.own`), and no older than `MaxDelay` and the number of polls that are out: a poll
  that finds no free slot is not sent, and the answer on the page may then age.  From
  `FieldAssumption` and `ExpiryAssumption`, which leaves two windows with one number
  free.
- `HeadlineIsTheSum` and `SentenceIsTrue`: `HeadlineMatchesRows` and `ReadingIsTrue`, from
  `ProfitAssumption` (a profit's totals are what the server's `Sum` makes of its rows, and
  each row's net is edge plus selection, which `ProfitSplitsExactly` proves of
  `Attribution`).  `ProfitInv` says that whatever the page shows is a profit the server
  computed.  That filtering by cadence sums the rows shown is `TotalsAreSums`.
- `ReplayIsInOrder`: `Spec => []ReplayIsCausal`.  `ReplayInv` says that a trace on the page
  can be drawn and is well formed.  `Timeline` states a list in the order of its
  times; orders and executions are two of them, and `SinceIs` says that what
  the replay shows at a position is a prefix of the executions (`DownwardClosed`:
  filtering by a time keeps whatever is before what it keeps).  A later position shows a
  longer prefix (`PrefixOfLonger`), and the end shows all of them, whose cost is the
  attribution's because sorting only renames the terms of the sum (`SumRenamed`).
- `ReadingIsSound` and `NumberStaysBetween`: the sentence and the animated number, for
  all values of their arguments.

`AlgorithmProofs`, from `BeliefsAssumption` (a belief's parts are integers, its
uncertainty not negative), `CandlesAssumption` (a candle has an integer start and
two prices), `RowsAssumption` (prices and probabilities lie between 0 and 1),
`ClocksAssumption` (the seconds left of a row are an integer), `FillsAssumption` (a fill
found by reconciliation is priced at its fair value) and `SamplesAssumption` (a bin
has two or more outcomes and a fit two or more bins' worth: `FitIsotonic` raises
the one and refuses less than the other):
- `SeriesIsCausal`: `Spec => []NoLookAhead`.  `ObservationsOf` says what a series is made
  of, `SameObservations` that up to a time it is the same built from all candles or
  from what was known of them by then, `AnswersAgree` that an answer looks no further.
- `QuoteIsSymmetric`: `Spec => []QuoteShedsInventory`.  `InUnitFacts` and `InUnitOrder`
  say that clamping to the unit interval keeps order and mirror image, `SkewedFacts` and
  `SidesMirror` carry that to a quote's middle and sides, `QuoteMirrors` and `TakeMirrors`
  to the answers.
- `GapIsDrawnInFull`: `Spec => []GapDrawnInFull`.  `SliceHoldsTheMarks` says that the slice
  of the axis is inside it, wide enough and reaches the outermost marks or the ends of
  the axis, for any integer marks; both ends of a gap that is drawn lie between marks, so
  neither is cut off (`BarIsFaithful`).
- `ProfitSplitsExactly`: `Spec => []AttributionIsExact`.  `AttributionAdds` proves it for any
  number of fills, from `SumsAdd`.
- `RankingIsFaithful`: `Spec => []RankingAgreesWithBar`, from `DrawnRankFirst`, which is
  about a list of any length.  `TensionIs` gives the ranking's measure as a fraction with a
  positive denominator, `RankingIs` says that the ranking lists every row once and none
  below one less tense; the bar draws a gap only where that measure passes a threshold.
- `HeadlineIsStillOpen`: `Spec => []HeadlineIsUndecided`.  `SoonestLeads`, `TensestLeads` and
  `HeroIs` say which row is chosen, `RestIs` that the table is the ranking without it.
- `FitIsTheRegression`: `Spec => []FitIsIsotonic`, and `FitRises`: the fitted frequencies
  never fall.  Plot, bin by bin, the wins so far over the outcomes so far (`Curve`).  A
  block is a chord of that curve, its frequency the slope.  The invariant of the stack
  (`Hull`) is that its blocks cut the bins pushed so far into stretches, that every
  place lies on or above the line of every block, and that the slopes do not fall: the
  lower convex hull of the curve.  `KeptOfStack` says how far a push pops,
  `ChordIsBelow` that the chord of what it popped stays below the curve, block
  by block (`AboveLeftOfBend`, `AboveRightOfBend`), `PushKeepsHull` that the new
  block does not cut off an old place (`AboveSteeperLeft`, `AboveSteeperRight`).
  `FitIsHull` is the induction over the bins.  The max-min formula follows
  (`HullIsRegression`): from its block's start no run is flatter than the block, and from
  any other start some run is no steeper, the one to the block's end.  A fold of
  a list with a `CHOOSE` inside is opened by `PoolSums` (pooled blocks add up) and
  `PushesExist`, `BinsAre` says that the bins are stretches of the outcomes and
  leave none out.
- `PickInv`, the invariant they rest on, says that an input is made of the constants'.

`WindowProofs`, from `NoneAssumption` only, so for any windows, faults and number of
restarts:
- `WindowTyped`, `SettlementIsTheAnswer`, `UnsettledHasAReason`: `LifeInv` adds to the
  types that what a watcher has found is the answer, and that a window past its end
  with neither loop nor watcher has been settled or excused; it is inductive as it stands.
- `LoopsKnowTheirPosition`: `Spec => []KnowsItsPosition`.  `PositionInv` is the equation
  with both halves in it: memory plus the fill the sweep has recorded and not added is the ledger
  plus the fill the executor has added and not recorded.  It also has to say that whatever
  trades has a row, without which a restart restores nothing.  The lemmas `OneMore` and
  `HalfFacts` are the arithmetic of one step, `ExcusesStay` that an excuse is only added to.

Every inductive invariant of a specification was first checked by TLC on the instances above
as an invariant of the run, with the naturals of `ClockInv` cut to an interval.

Only model-checked:
- everything under fairness: liveness and ENABLED are beyond the prover.

Every other property of a passing run is stated by a theorem; those of `Engine` about
the caps, memory, orders and reservations under the hypotheses named there.

## 6. Plan

What is left, most important first.

1. `QuoteLoop`: the prices behind `marketLoop`'s decision to hold or replace a
   quote, and that memory is not trusted after a take.  `Engine` already ends a turn
   with or without a new quote, at any price.
2. `Trader`: approvals, nonces and receipts of one sender among others (the
   one-shot commands use the same key), of which the executor's steps of `Engine`
   are the abstract view.
3. Paging (`page.go`, `unclaimed.go`), `SnapPrice` and `SnapQty`, the chronological
   split by window of the backtest.
4. The theorems about caps, reservations and orders under weaker hypotheses: what each
   excluded fault can cost, as `DamageBounded` says it of lost replies.

Not modelled: flags and wiring of the commands, RPC transport and ABI decoding,
statistics and printing of the research commands (real arithmetic and
formatting), the diffusion formula of the fair value and the interpolation between
knots, the one-shot commands and the SDK probe (one call after the other, once), and
of the front end whatever only draws.
