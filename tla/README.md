# A TLA+ model of the matching engine

This directory holds a formal model of the central limit order book in `src/`:
TLA+ modules translated from the Rust code, TLC configurations that check them
on small instances, and proofs, checked by the TLA+ proof system, of what holds
for every instance. Paths below are relative to the repository's crate
(`engine/mod.rs` is `src/src/engine/mod.rs`).

## 1. The system

One process serves REST and WebSocket clients. All trading state is in one
`Engine` behind one tokio mutex; every handler that changes it locks the mutex,
calls one method, unlocks, and then publishes and persists the new events.

| Component | State | Operations | Talks to |
|---|---|---|---|
| Domain types (`domain/`) | none | field, tick and lot checks, canonical hash, signature | - |
| Order book (`engine/orderbook.rs`) | price levels with FIFO queues per side; every order ever inserted | insert, cancel, remove from queue, best prices, depth | called by engine, matching, replay |
| Matching (`engine/matching.rs`) | none of its own; walks the book and the incoming order | `match_order` | called by the engine |
| Engine (`engine/mod.rs`) | books, markets, order-to-market index | `process_order`, `process_cancel`, `add_market`, `restore_from_events` | all of the below |
| Sequencer (`sequencer/mod.rs`) | next sequence id, event log, idempotency table | `append_event`, `register_accepted`, `idempotency_check`, `resume` | called by engine and admin |
| State store (`db/mod.rs`) | filled amounts, cancelled hashes, nonces (and unused balances) | `apply_fill`, `cancel_order`, `check_and_update_nonce` | called by engine, admin, replay |
| Admin (`ops/admin.rs`) | none | pause, resume, cancel all | engine |
| Replay (`replay/mod.rs`) | none | `replay`: log to books and state store | called at start-up |
| Service (`api/mod.rs`, `api/rest.rs`) | the mutex, the broadcast channel | handlers and their answers, `publish_since`, `persist_since` | engine, Postgres, feed |
| Persistence (`pg/mod.rs`, `main.rs`) | the table `sequenced_events` | append in a transaction, load all; start-up | service |
| Feed (`api/ws.rs`) | subscriptions and a receiver per connection | subscribe with history, live events, lag disconnect | service |
| Risk (`risk/mod.rs`) | submission windows, reference prices | `check`, `update_reference_price` | before and after the engine call |
| Snapshots (`snapshot/mod.rs`) | files | write every minute; load, find latest (never called by `main`) | engine log |
| CLI (`bin/cli.rs`) | none | REST client | REST |

### What is hard, and what makes each part correct

* **The matching loop changes what it iterates over.** It walks copies of the
  price list and of each queue while fills remove makers and levels. Correct:
  the copies stay true, trades happen in price-time priority, it ends.
* **Three records of one fact.** What an order has traded is in the book, in the
  log and in the state store, written at different moments. Correct: they agree,
  nothing is overfilled, every accepted order ends in exactly one place.
* **One counter behind everything.** The sequence id is peeked, embedded in the
  order and then consumed. Correct: no gap, and each event follows the
  acceptance it refers to.
* **Retries.** Clients resubmit. Correct: a key is accepted once, nonces rise, a
  duplicate is told the truth.
* **Persistence is asynchronous and may be dropped.** Handlers persist after the
  mutex is released, each from its own cursor, and skip it on contention or
  error. Correct: rows never contradict the log, and replay restores what ran.
* **Two implementations of the same semantics.** Live processing and replay
  must agree, books, queues and nonces included.
* **Publication is a second critical section.** A handler publishes after it has
  released the mutex, from its own cursor, and gives up when the mutex is taken; a
  handler that panics or is dropped after its call never gets there;
  handlers send concurrently, and a client's history comes from the log while
  its live stream fills. Correct: an event that is published reaches every
  subscriber who was promised it, however history and live stream interleave.
* **Risk checks straddle the engine call.** A submission is counted before it,
  the reference price is written after it, each under the checker's own mutex.
  Correct: the limits hold at their boundaries and whatever the clock does, and
  the reference price follows the trades.
* **What a client is told is derived state.** Depth, trades by page, the answer
  to a resubmission and to a cancellation are computed from different tables.
  Correct: they agree with the event stream that the same client can read, and a
  page or a retry never makes it lose or double something.
* **Snapshots are copied under the mutex and written without it**, in place, into
  a directory that outlives the process. Correct: a whole file is one moment of
  the engine, and the newest one can be recovered from after failed writes,
  crashes and restarts that lost events.

## 2. The modules

| Module | Models | Extends |
|---|---|---|
| `Domain` | `domain/order.rs`, `domain/market.rs` | - |
| `OrderBook` | `engine/orderbook.rs` | `Domain` |
| `Engine` | `engine/mod.rs`, `engine/matching.rs`, `sequencer/mod.rs`, `db/mod.rs`, `ops/admin.rs`, `events/mod.rs` | `OrderBook` |
| `EngineProperties` | what the engine must satisfy | `Engine` |
| `Exchange` | the abstract specification: what the engine promises its clients | `Domain` |
| `EngineRefinement` | the mapping under which `Engine` implements `Exchange` | `EngineProperties` |
| `Rest` | the answers of `api/rest.rs` and the queries of `engine/mod.rs` and `engine/orderbook.rs` behind them | `Engine` |
| `RestProperties` | what a client may conclude from those answers | `EngineProperties`, `Rest` |
| `Replay` | `replay/mod.rs` | `Engine` |
| `Recovery` | `pg/mod.rs`, `persist_since`, start-up, crashes | `Replay` |
| `RecoveryProperties` | what must hold across restarts | `EngineProperties`, `Recovery` |
| `Snapshot` | `snapshot/mod.rs` and the snapshot task of `main.rs`, beside the engine with its crashes | `Recovery` |
| `SnapshotProperties` | what a recovery may rely on in the snapshot directory | `Snapshot` |
| `Feed` | `publish_since` and `from_sequenced` of `api/mod.rs`, `api/ws.rs` | - |
| `FeedProperties` | what the feed must deliver | `Feed` |
| `Risk` | `risk/mod.rs`, and `post_order` around it | - |
| `RiskProperties` | what the risk checks must enforce | `Risk` |
| `MCEngine`, `MCRecovery`, `MCSnapshot`, `MCFeed`, `MCRisk` | the small instances | the properties |
| `SequenceFacts` | lemmas about naturals, sets of a sequence and `FlattenSeq` | - |
| `EngineProofs` | types, overfill, the log's ids, nonces, idempotency; the queues and the matching loop | `EngineProperties` |
| `LogProofs` | the order of the log's events; running sums; amounts, and where every order is | `EngineProofs` |
| `ClientProofs` | what clients see: the answers to resubmissions and cancellations, pages of trades, depth, and the refinement | `LogProofs`, `RestProperties`, `EngineRefinement` |
| `RecoveryProofs` | replay, restarts and snapshots | `LogProofs`, `RecoveryProperties`, `SnapshotProperties` |
| `RestartProofs` | the engine's types, queues, books and table across restarts; the types of the snapshots | `RecoveryProofs` |
| `FeedProofs`, `RiskProofs` | the feed; the risk checker | `FeedProperties`; `RiskProperties` |

### State

`books[m]` is a record of `queues` (for each side, a function from the price
levels that are present to a sequence of order ids, so a level left empty is a
state of the model) and `orders` (every order inserted, open or closed).
`next_seq_id`, `log` and `idempotency` are the sequencer; `filled_amounts`,
`cancelled` and `nonces` the state store. `HashMap` entries that default to zero
are total functions with value 0.

The call in progress is `stage` with its local variables: `taker`, `prices` (the
rest of the price snapshot), `price`, `maker_ids` (the rest of the queue
snapshot), `fills` and `to_cancel`.

`Recovery` adds the table `stored`, the `cursors` of the handlers that have yet
to persist, and two things the code does not hold: how often it crashed, and the
`orphans`, the orders whose matching panicked. `Snapshot` adds the directory
`files` (from the id in a file's name to its content, whole or torn), whether a
`stray` file lies in it, the `copy` being written, and as history the last id
that each later start-up `restored` and the `life` in which a snapshot was taken.

`Rest` has no state: an answer is an operator over the state in which the call
takes the mutex, with the code that a client branches on.

The feed sees of the engine only its `mutex` and its `log`, to which the k-th
call appends the batch `Calls[k]`: one that succeeds all its events, one in a
market of `Bookless` the acceptance before it panics. Each handler has a `pc`, its
`seq_before` and the envelopes `to_send`; as history, `missed` and `abandoned` are
the ids given up by a `try_lock` that failed and by a handler that ended before
its `publish_since`. The broadcast channel is the sequence
`events` of everything sent, of which a receiver at `position` can still read
the last `BROADCAST_CAPACITY`. A connection has a `status`, its `subscriptions`
and, while a subscribe with history is served, the rest of the `history`.

### Actions

A call without a loop is one action, a loop's iteration is an action.

| Action | Code |
|---|---|
| `ProcessOrder` | `process_order` up to the call of `match_order` (steps 1 to 8) |
| `NextLevel`, `MatchMaker`, `EndMatch` | the loops of `match_order` |
| `RecordFill`, `FinishOrder` | steps 10, and 11 to 12 |
| `ProcessCancel`, `CancelByClientId` | `process_cancel`, and the REST handler that looks the id up first |
| `PauseMarket`, `ResumeMarket` | `pause_market`, `resume_market` |
| `CancelAllOrders`, `CancelNext` | `cancel_all_orders` and its loop |
| `Serve`, `ServeUnchanged` | a handler around an engine call: takes its cursor, leaves a pending persistence |
| `PersistSince`, `PersistDropped` | `persist_since`, done or given up; also a handler dropped before it |
| `RestartEmpty`, `RestartRestored`, `RestartFails` | a crash at any moment and the three outcomes of start-up |
| `SnapshotBegins`, `SnapshotWritten`, `SnapshotFails` | one tick of the snapshot task: the copy under the mutex and the creation of the file, the end of the write, its failure |
| `StrayFile` | anyone who puts another `.json` file into the directory |
| `CallStep`, `PersistStep`, `RestartStep` | the actions of `Recovery` beside the snapshot task |
| `BeginCall`, `EndCall` | any REST handler's engine call, taking and releasing the mutex |
| `PanicCall` | a call that panics at `books.get_mut(..).unwrap()`, its acceptance appended |
| `UpdateReference`, `Dropped` of `Feed` | a handler with fills at `rest.rs:342`, between its call and its `publish_since`: it gets the risk checker's mutex, or its client goes away and the server drops it |
| `Lock`, `Unlock` | everyone else who holds the mutex for a moment |
| `Publish`, `PublishSkipped`, `Send` | `publish_since`: the copy, the failed `try_lock`, one turn of its loop |
| `Connect`, `Close`, `Receive`, `Lag` | `ws_handler` and the branches of `handle_socket` |
| `SubscribeLive`, `SubscribeFrom`, `SendHistory`, `GoLive`, `Unsubscribe` | `handle_client_message` and `replay_history` |
| `Check` | `RiskChecker::check` that passes |
| `EngineNoFill`, `EngineFills`, `UpdateReferencePrice`, `Dropped` of `Risk` | the rest of `post_order`, seen from the risk checker, to its end or to where it is dropped |
| `SetClock` | the system's clock, forward or back |

Rejected orders change nothing and are not actions (what they are answered is
`post_order` of `Rest`, with the checks in the code's order, those of the risk
checker first); `Validated`, `IsDuplicate`
and the nonce check are the guard of `ProcessOrder`. A market without a book
makes `books.get_mut(..).unwrap()` panic after the acceptance was logged;
`ProcessOrder` then ends the call there, because a tokio mutex is not poisoned.

### Abstractions

* A hash is the record of the hashed fields (collision free), a signature is
  `"valid"` or `"forged"`, `hex_encode` is an injective constant operator and a
  UUID is a number never drawn before.
* `created_at_ms`, `salt`, the one time in force, accept and execution times,
  `triggered_by` and fees influence nothing and are left out.
* Integers are unbounded; `NoOverfill` is what keeps the only subtraction of the
  core from wrapping. The risk checks saturate at `MAX`, as the code does at the
  greatest `u64`. The sum of a level's remainders wraps at `WORD`, as it does in
  a release build.
* A snapshot's checksum is the record of what is hashed. A crash stops the
  process, not the machine: what `fs::write` has returned from is in the file.
* Copying the events and committing their transaction is one action
  (`PersistSince`): what is appended in between belongs to another handler's
  cursor, and a crash in between is a dropped persistence. A transaction that
  commits after the restarted process has read the table is not modelled.

## 3. What is checked

Each module's faulty operators (marked `Faulty:`) are plausible bugs; each
property of a passing run is violated when the named one replaces its original.

### Run `engine` (passes)

Two traders, one market, eight signed orders: sells at two levels, two of them
in one queue; a buy that sweeps the first level and stops in the second; a buy
that meets its own trader's sells; two orders that share a nonce, one of them a
changed order under a client order id that may be used already; one that
expires when the clock passes; one with a trader id of another key; one forged.
No call starts once the log has seven events (`MaxEvents`), so a sweep, its
fills and its residual fit with cancellations or pauses before and after. Each
signed order may be submitted any number of times, by any schedule of calls.
`WORD` is 5, one more than the largest size, so a level of two orders may or may
not wrap; two levels (`MaxDepth`) and pages of two trades (`MaxTrades`) are less
than what a book and a log of this instance can hold.

| Property | Says |
|---|---|
| `TypeOK` | types |
| `LogGapless` | ids 1, 2, 3, ..., counter one ahead |
| `IdempotencyMatchesLog` | table = acceptances of the log, one per key |
| `NoncesRise` | a trader's accepted nonces rise, so no signed order is accepted twice |
| `EventsFollowAcceptance` | fills follow their taker's acceptance at once; makers and cancelled orders were accepted before |
| `QueuesHoldOpenOrders` | queues = open orders, each once, at its side and price; no empty level |
| `BookNotCrossed` | between calls the best bid is below the best ask |
| `SnapshotsStayFresh` | no maker or level of a queue's or price list's copy is gone when its turn comes |
| `NoOverfill` | filled is at most the size |
| `FillAccounting` | book, log and state store agree on what an order has traded |
| `NoOrderLost` | between calls an accepted order rests, is filled or is cancelled, exactly one of them |
| `PriceTimePriority` | each turn trades with the first order in line, or cancels the taker for its sake |
| `CallsComplete` | a call that has begun ends |
| `ImplementsExchange` | the engine implements `Exchange` (below) |
| `DepthMatchesLog` | the depth served is what the log leaves of the accepted orders, the cancellations of a cancel-all not counted: levels, number of orders, sum of remainders while it fits |
| `PagesMissNothing` | going on after the last `sequence_id` shown misses no trade, and moves on unless one taker's fills alone fill the page |
| `RetryAnswered` | a resubmission to the same market, changed or not, is told the order first accepted, whatever nonces came since, unless the risk checker refuses it, it has expired, its market is paused, or the change is invalid |
| `CancelAnswered` | what the owner is told about a cancellation follows from the log, for an order that its own submission did not close; and both of its ids, and a read, are answered alike |

Fairness: weak fairness of `Continue`, the steps of the call in progress. The
handler that holds the mutex does not await anything inside the engine call, so
the task runs on to the end of it. Nothing is assumed about clients.

**The refinement.** `Exchange` has a list of orders (what was signed, what is
left, where it stands), a list of trades and the halted markets. A submission is
one step and plain arithmetic: of the resting orders that meet it, better price
first and older first, each gives what those before it have left over, and the
line stops at the submitter's own first order. There are no books, queues,
copies, sequence ids or loops, and no cancel-all, which takes no order out of the
market. The engine takes many steps for a submission. `EngineRefinement` shows
the market as it was before the call in progress: the taker is hidden, and what
it has taken is given back to the makers. `FinishOrder`, the call's last step,
then is `Submit`, and every step before it a stutter. Because the trades are read
off the log and the remainders off the books, the property also relates the
two. An order that no book holds was closed by its own matching, and its
remainder is read off the log.

**Answers.** These properties state what the code does where a reader
may expect more. A client pages by the id it sees, that of the taker's
acceptance, while the server compares the id of the `Fill` event: it sees some
trades twice, and cannot page past a taker with more fills than the limit
(`PagesMissNothing` says so). `limit=0` means no limit, and "recent fills" are the
oldest ones. `CancelAnswered` says nothing of an order that its own submission
closed: cancelling that one is answered "not found", which is run
`cancel_closed`. Every submission, a retry too, meets the risk checker before the
engine (`rest.rs:326`), so `post_order` takes the checker's verdict as a parameter,
any of its refusals or "passed"; and after it the expiry and the market's status.
So a retry of an order that was accepted may be refused, and `RetryAnswered` says
when. It says nothing of the status that a duplicate is told, which is wrong at
times (run `duplicate_status`), nor of a retry to another market: the
idempotency key has no market (`sequencer/mod.rs:35`), so an order to a second
market under a used client order id is answered as a duplicate of the first
market's order, although `domain/order.rs:128` says "per trader per market".

A cancel-all logs an `order_cancelled` for each open order and leaves the orders in
the book, where they trade on (`admin.rs:169`, run `admin_cancel`). So for
`NoOrderLost`, `DepthMatchesLog` and `CancelAnswered` an order that only a
cancel-all has cancelled still counts as open: the depth served after one is *not*
what a client computes who takes orders out at every `order_cancelled` of the
event stream, contrary to `admin.rs:11`.

### Run `recovery` (passes)

One market, two sells that share a level and a buy that fills one of them. Four
events, two handlers with a pending persistence, two crashes. Persistence may be
done in any order or dropped; a crash may come at any step, in the middle of a
call included; start-up restores, starts fresh on an empty table, or fails.

| Property | Says |
|---|---|
| `RecoveryTypeOK` | types |
| `LogContiguous` | ids follow one another; after a restart the log may begin later than 1 |
| `RowsAreLogged` | no row contradicts the running log, whatever was dropped before it |
| `StoreMatchesReplay` | replaying the live log gives the live state store |
| `BooksMatchReplay` | and the live queues: the same orders, in the same order, as much filled, except orders the admin cancelled |
| `CrossedOnlyByOrphans` | a bid reaches an ask only if one of the two is an orphan |
| `PauseHolds` | no acceptance after the pause of a paused market; only a restart reopens one without an event |
| `IdempotencyMatchesLog`, `QueuesHoldOpenOrders` | as in `engine`, now across restarts |

An orphan is an order whose acceptance is in the log and whose matching panicked
because a restart had left its market without a book. The next restart rests it
as it finds it, so books do become crossed in this instance: `BookNotCrossed` is
violated here, and `CrossedOnlyByOrphans` says that nothing else does it.

Two crashes let a log that lost its beginning in the first restart be persisted
and restored again. There is no liveness property here: nothing guarantees that
persistence ever succeeds.

`LoadMayFail` is `FALSE` in this run: an error of `load_all_events` resets the
sequence ids, which run `load_failure` shows, and breaks `RowsAreLogged`.

### Run `snapshot` (passes)

One market, a sell of one lot and a buy of two: two events before a call may no
longer start, so a log has an acceptance, a fill and more; one handler with a
pending persistence, one crash, one failed write. A snapshot may be taken
between any two calls, so that calls, a pause, a cancel-all and persistences
happen while it is written, and a crash tears the file. After the restart the
same ids are used for other events, over the files of the life before.

| Property | Says |
|---|---|
| `SnapshotTypeOK` | types; `snapshot_0.json` is never written |
| `WholeSnapshotsLoad` | every whole file replays to the state whose checksum it carries |
| `SnapshotsAgree` | a file is named after its last event; one of this life is a beginning of the running log, and one of an earlier life agrees with it up to what every start-up since has restored |
| `EventsReachSnapshot` | in the end what is logged is in the file that `find_latest_snapshot` names, unless a crash, a stray file or a leftover with a higher id prevents it |

Fairness: a call that has begun and a write that has begun end (weak). The task
waits for the mutex in tokio's queue, which is first come first served, so calls
that come again and again cannot keep it out: `SnapshotBegins` is strongly fair.
The last exception of `EventsReachSnapshot` is real: a restart that lost events
goes on from a lower id, and until it catches up the file with the highest
number is of a history that did not happen. `main` never loads a snapshot, so
nothing is lost by it today.

"Every" matters in `SnapshotsAgree`, though one crash cannot show it: an event
that the first start-up lost and the second restored under the same id is another
event. Two crashes with this instance take TLC five minutes; the theorem
`SpecSnapshotsAgree` is for any number.

### Run `feed` (passes)

Two handlers and one connection; connections share nothing but what they read,
so a second one adds no behaviour. The log begins with a restored acceptance of
one trader's order. One call logs another trader's acceptance with its fill, the
second the cancellation of what is left, the third the acceptance of an order to
a market without a book, and panics: six envelopes, more when two handlers
send some of them twice, over a channel that keeps five. The client is the first
trader and subscribes to its private channel, which the restored acceptance, the
fill and the last acceptance are for; it makes two requests, so it can subscribe
again for the history, or unsubscribe, in between. It may close, connect again
and lag behind at any moment, and readers take the mutex whenever it is free.

An event is given up in three ways, and the properties name them (`GivenUp`): the
`try_lock` of `publish_since` fails; the call panics after it has logged an
acceptance; or the client of a request goes away while its handler, whose call
has filled, waits for the risk checker's mutex, and the server drops the handler.
Either of the latter leaves its events to the next handler with an older cursor,
if there is one: it publishes whatever is behind its own.

| Property | Says |
|---|---|
| `FeedTypeOK` | types |
| `PublishedOrMissed` | an event logged since start-up is sent, about to be sent, or was given up in one of the three ways |
| `SubscriberMissesNothing` | no envelope promised to a subscriber falls between its history and the live stream, or is skipped by a slow receiver |
| `EventsArrive` | in the end it is delivered, unless the client leaves or the event was given up |

Promised is what `from_sequenced` puts on a channel from the client's `from_seq`
on. The documents of the channels promise more, which is run `cancel_channels`.

Fairness: a handler goes on (weak): a call ends or panics, `publish_since` runs to
its end, and one that waits for the risk checker's mutex gets it, because tokio
hands it to those that wait in turn and nobody awaits while holding it. A reader's
critical section ends, too. Nothing makes a handler be dropped, or a client leave.
The receiving branch is strongly fair, because `select!` picks at
random among ready branches. A history goes out because a client reads its
socket or closes it; one that does neither blocks its own task for ever, and
nobody else's.

### Run `risk` (passes)

Two handlers, two traders and two markets, one of them with a size limit of two
lots and a band of half the reference price; two submissions per window of one
millisecond, a clock of three values, three submissions of a trader: enough for
a window to fill, roll over and fill again, and for the clock to be set back in
between. `MAX` is 30, so that the band of the higher price saturates.

| Property | Says |
|---|---|
| `RiskTypeOK` | types |
| `WindowsBounded` | a window never outgrows the limit, wherever the clock goes |
| `RateLimited` | no closed interval of `window_ms` sees more submissions pass than the limit, unless the clock was set back |
| `BandRespected` | an order that passes is in the band in exact arithmetic |
| `ReferenceCurrent` | the reference price is the last fill's once no update is outstanding, unless the last ones raced or their handler was dropped |

Both exceptions of `ReferenceCurrent` are real, and the ghost `disturbed` names the
markets they leave behind until the next fills: two handlers that update the
price in the other order than they traded (`rest.rs:342`), and one that is
dropped while it waits there, leave a price that is not the
"last-traded price" of `risk/mod.rs:125`. After the clock is set back the limit no longer holds by the timestamps: entries
pruned at the later time are not counted again. There is no liveness property:
a check neither waits nor loops.

### Runs that show a disagreement

| Run | Claim of the code's comments | What happens |
|---|---|---|
| `admin_cancel` | "cancelled orders cannot be revived" (`db/mod.rs:32`) | cancel-all leaves the order in the book; it trades later |
| `duplicate_status` | duplicates "return the original result" (`sequencer/mod.rs:15`) | the duplicate of a self-trade cancelled order is told "filled" |
| `restart_gap` | replay restores "exactly where it was" (`replay/mod.rs:3`) | a dropped persistence followed by a successful one leaves a gap; start-up panics |
| `cancel_closed` | "cancelling an already-closed order returns Ok with was_already_closed = true" (`engine/mod.rs:324`) | an order that its own submission closed never enters a book, and its cancellation is answered "not found" |
| `feed_skip` | "the lock is uncontended at this point" (`api/mod.rs:241`) | any reader makes `try_lock` fail; the event is never streamed |
| `cancel_channels` | `book.l3` carries cancellations and `orders` all events of its trader (`api/mod.rs:33,35`, `api/ws.rs:9,11`) | `from_sequenced` sends a cancellation to the channel `cancels` and to no other |
| `load_failure` | next id "never reset" (`sequencer/mod.rs:70`) | a failed load starts again at 1 over existing rows |

`cancel_channels` is the feed with one call, the cancellation of the restored
order, `cancel_closed` the instance of run `engine`.

Not runs of their own, though the models do them all:

* A restart drops the books of markets without open orders
  (`engine/mod.rs:467`), so that `best_prices` returns None for a market that
  exists although `engine/mod.rs:388` says "if market not found", and the next
  order there panics after its acceptance is logged. Runs `recovery` (the orphans)
  and `feed` (`PanicCall`) have what follows from it.
* The idempotency key without a market, said above of answers.
* Overlapping publications send one envelope twice although `api/mod.rs:25` says
  "one envelope per sequenced event" (run `feed`; its properties hold all the
  same).
* What is said above of the pages, the depth after a cancel-all and the reference
  price.

## 4. What is proved

Every theorem is for any sets of signed orders, markets, traders, handlers,
connections and clock values, and for any bounds, under the assumptions on the
constants that the models name:

* `Domain`: signed orders are well typed, tick and lot sizes positive,
  `hex_encode` injective, and `NoOrder` (the value of a local variable outside
  its scope) is not an order.
* `Engine`, `Rest`: clock values and bounds are numbers, word size and page size
  positive.
* `Risk`: limits and prices are numbers up to `MAX`, times and window numbers.
* `Recovery`, `Snapshot`: bounds are numbers. `SpecRowsAreLogged`,
  `SpecSnapshotsAgree` and all of `RestartProofs` also assume `~LoadMayFail`:
  `main` goes on with an empty engine when it could not load the rows, and what
  it logs then and what the rows say are two histories (run `load_failure`). The
  other theorems hold with it too.
* `Feed`: the restored log and the calls' batches are sequences of events of the
  kinds of `events/mod.rs`, a call that panics has logged its acceptance and
  nothing else, the broadcast channel keeps at least one envelope, and
  no handler is named like the mutex's other states.

TLC evaluates each of them on the instances. A row's theorem is
`Spec => []Property` for the property of the same name, or what is said.

| Module | Theorems |
|---|---|
| `EngineProofs` | `SpecEngineInv`, `SpecTypeOK`, `SpecNoOverfill`, `SpecLogGapless`, `SpecNoncesRise`, `SpecIdempotencyMatchesLog`, `SpecQueueInv`, `SpecQueuesHoldOpenOrders`, `SpecBooksUncrossed`, `SpecBookNotCrossed`, `SpecSnapshotsStayFresh`, `SpecPriceTimePriority` (an action property) |
| `LogProofs` | `SpecLogInv`, `SpecEventsFollowAcceptance`, `SpecFillInv`, `SpecFillAccounting`, `SpecPlacesInv`, `SpecNoOrderLost`, `SpecIdsAccepted` |
| `ClientProofs` | `SpecRetryInv`, `SpecRetryAnswered`, `SpecEntryInv`, `SpecCancelAnswered`, `SpecPagesMissNothing`, `SpecDepthMatchesLog`, `SpecCallInv`, `SpecTradesInv`, `SpecTakerTimely`, `SpecImplementsExchange` |
| `RecoveryProofs` | of `RecoverySpec`: `SpecRecoveryInv`, `SpecLogContiguous`, `SpecStoreMatchesReplay`, `SpecRowsAreLogged`, `SpecPauseHolds`; of `SnapshotSpec`: `SpecWholeSnapshotsLoad`, `SpecSnapshotsAgree` |
| `RestartProofs` | of `RecoverySpec`: `SpecRestartInv`, `SpecRecoveryTypeOK`, `SpecCrossedOnlyByOrphans`, `SpecBooksMatchReplay`, and of the engine's own properties in every life `SpecRestartTypeOK`, `SpecRestartNoOverfill`, `SpecRestartIdempotencyMatchesLog`, `SpecRestartQueuesHoldOpenOrders`; of `SnapshotSpec`: `SpecSnapshotTypeOK`, `SnapshotsLeaveEngine` (`SnapshotSpec => RecoverySpec`) |
| `FeedProofs` | `SpecFeedTypes`, `SpecFeedTypeOK`, `SpecFeedInv`, `SpecPublishedOrMissed`, `SpecSubscriberMissesNothing` |
| `RiskProofs` | `SpecRiskTypes`, `SpecRiskTypeOK`, `SpecBandRespected` (an action property), `SpecWindowsBounded`, `SpecRateInv`, `SpecRateLimited`, `SpecReferenceInv`, `SpecReferenceCurrent` |

### The engine

Each invariant builds on those before it, with a lemma per action.

**`EngineInv`: types.** `TypeOK` is not inductive by itself. That
`filled_size_lots` of a maker stays a number and below its size needs the
quantity to fit both sides, hence `NoOverfill` of books and taker; that a `Fill`
names a known market needs every order of a book to be of its market; that
`best_of` finds a level needs the levels bounded (a set of naturals has a
greatest element only then). These are `BooksFit` and `CallFits`; `EngineInv` is
their conjunction with `TypeOK`. The first part of the module has one lemma per
operation of the book.

The ids, nonces and the idempotency table follow from a coarser view of a step,
proved once (`StepInv`): a step either accepts an order, as `ProcessOrder` does,
or leaves nonces and table alone and appends another event or none
(`NoAcceptance`).

**`QueueInv`: the matching loop.** A book by itself is sound (`BooksSound`): its
queues hold exactly its open orders, each once, in the order of their sequence
ids, at their side and price. In the middle of a
submission that is not enough, because the loop goes over copies. `LoopSound`
says what the copies still are: nothing in them is gone, and while the taker wants
lots, what is left of the copied queue is the real queue at that price, the
levels that the taker reaches are exactly those it has yet to walk, and the one
being walked is better than the rest. So when the loop ends nothing is left that
the taker reaches, and the maker whose turn it is
is the first in line. `IdsFresh` says that ids are drawn once, so a rested order
joins the end of its queue.

That no bid reaches an ask (`BooksUncrossed`) is an invariant beside it, relative
to a set of orders that are exempt: an order that is opened crosses none of the
others, whatever the exempt ones do (`UncrossedStep`). From an empty engine the
set is empty, which is `BookNotCrossed`.

**`LogInv`: the order of the events.** `EventsFollowAcceptance` looks backwards
from an event. The invariant adds what is still to be logged: every order of a
book has its acceptance in the log, the taker's acceptance is the last event
before its fills, `to_cancel` are accepted, order ids rise along the log.

**`FillInv` and `PlacesInv`: sums.** What an order has traded is a sum over the
log and over the pending fills. The invariant counts both: the book's
`filled_size_lots` is what is logged plus what is pending, the state store's
amount is what is logged, under a hash that no two acceptances share (by
`NoncesRise`), and zero for a hash that was never accepted. `PlacesInv` adds the
orders that have left: a status tells whether the size is used up, an order on a
book says whether it was cancelled, and one that is nowhere has either traded its
whole size or was cancelled for good, and not both.

**`RetryInv` and `EntryInv`: answers.** A resubmission meets the checks in the
code's order. Of those before the idempotency check only the expiry and the
market's pause can change; an accepted order passes the others for good, and its
key stays in the table. The risk checker's refusals come before all of them and
say nothing of the engine. A cancellation is told "not found" for
an order that no book holds, so the invariant says which those are: an order on a
book had something left when its submission ended (`LogTaken` is what it took
itself) and no self-trade stopped it; every other one was a taker only.

**Pages and depth.** Both need no invariant of their own, but what the lists that
a client is given have to do with the log. `PagesMissNothing` is about two ids:
`get_fills` filters on the id of the `Fill` event, and the page shows the id of
its taker's acceptance, which is smaller. By `LogInv` the events between that
acceptance and the fill are fills of the same taker (`ShownBefore`); so a fill
beyond the page is above the id shown, or is of the taker that was shown last and
comes again. `DepthMatchesLog` relates a level's queue to the places of
the log that accepted its orders, an order of a cancel-all among them: by `EntryInv` these are the same orders
(`OpenRests`, `RestingOpen`), by `QueueInv` the queue has them in the order of the
log, and by `FillInv` each has as much left as the log leaves it. So the sum over
the queue, which is what `l2` computes, is the sum over the log (`LevelRead`),
and the k-th level has k - 1 better prices (`RankOfPrice`).

**The refinement.** `SpecImplementsExchange` says `Spec => ImplementsExchange`:
every step of the engine is, under the mapping, a step of `Exchange` or a stutter
(`ExchangeStep`). `Exchange` says as arithmetic over the line of resting orders
what the engine does fill by fill, and says it of the state before the call. So
the invariant of a call in progress has to keep what the fills made so far, logged
or pending, say of that state.

* `CallInv` (`CallSound`): each fill is with an order of the other side that the
  taker reaches, at that order's price, of another trader; the makers are in line,
  every one but the last used up, and ahead of every order that is still open;
  if the taker was stopped, then by its own trader's order, ahead of all that are
  open; and what the fills took is what the taker has traded. `QueueInv` gives the
  step: the next maker is the first in line (`MatchMakerCall`).
* `TradesInv`: the trades of the log are those before the call and then the
  call's. `IdsAccepted`: an order id is drawn for an acceptance only, so the ids
  number the orders as `Exchange` does. `TakerTimely`: the taker passed its checks
  at the time its call began, and its market is still active.

Every step before the last is a stutter: a fill takes from the maker's book entry
what the mapping gives back (`MatchMakerUnseen`), and recording it moves it from
one list of the call's fills to the other (`RecordFillUnseen`). In the state in
which the call ends (`CallSeen`) the lines of both are compared: the orders that
`Exchange` finds resting are those of the book that are open or among the makers
(`LineRead`), its order of them is the book's (`BeforeRead`), and what is reachable
holds every maker (`ReachableRead`). An order that gave something and those before
it gave all they had, so what `Given` leaves for it is what its fill took; one
that gave nothing finds nothing wanted (`GivenRead`). From there the remainder,
the status, the new orders and the trades agree one by one (`FinishOrderSeen`).
Cancellations, pauses and resumptions are steps of `Exchange` by themselves, with
`PlacesInv` for an order that leaves its book.

### Replay, restarts and snapshots

**Replay as a run of states.** `replayed` is a fold, and what a fold computes is
an induction over the log. Here, too, a function takes the place of the
induction: the states that replay goes through are one, the fold ends in the last
of them (`ReplayRuns`), and two runs over events that begin alike are alike
(`RunsAgree`). So replaying one event more is one `Apply` more (`ReplayOfAppend`),
and `ReplayIsSound` follows along the run: a log that replays without an error
has consecutive ids, and the orders that replay knows are the log's acceptances
as accepted. `BuiltBookKnown` says what the books built from a sorted list hold.

**`RecoveryInv`.** `StoreMatchesReplay` is not inductive. In the middle of a call
it has to hold as well (`StoreHeld`), because the call's events are appended one
at a time and each meets its effect on the store in the same step. That the next
event replays without an error depends on what the call holds: the taker and the
makers of the pending fills, the orders to cancel and every order of a book must
be orders that a replay of the log knows (`CallKnown`, `BooksKnown`). And a
restart must find rows that are a log: each as the engine appended it, finitely
many, no two under one id (`RowsSound`, which `LogSound` hands on at every
persistence). The types of the engine are not needed for it, and no book needs to
be uncrossed, which after a restart they are not.

Between restarts `RowsAreLogged` needs only that logged events stay where they
are (`StepLogs`, `LoggedStays`); at a restart the log is the rows. `PauseHolds`
needs besides that an acceptance finds its market active.

**`RestartInv`: the engine in every life.** After a restart the books are not
what submissions made of them but what `build_books` returns, and `EngineInv`
and `QueueInv` have to hold of those too. A restart reads rows, which are some
end of a log that a crash may have cut off; so the invariant says at every step
what the rows would restore, in five parts.

* `MirrorInv`: an order of a book is mirrored by the same order of the replayed
  log, as much filled and closed whenever the live one is; an order that replay
  leaves open is on its book, in process or an orphan. In the middle of a call
  the log is behind the books, so the replay is of the log with the pending fills
  as rows after it (`Ahead`): recording a fill changes nothing there
  (`FillLogged`), making one fills both copies (`RepFilled`).
* `ClosedInv`: the other way round, an order that replay has closed is closed on
  its book too, or the last that the log says of it is that the admin cancelled
  it. The taker that is being matched is no exception.
* `StoredGood`: if the rows replay without an error, then to orders within their
  size, of which a bid reaches an ask only with an orphan among the two. A
  handler that persists late may leave a gap in the rows, which replay rejects;
  what it does not reject is an end of the log (`RowsAreEnd`), the orders that an
  end of the log replays to are among those of the whole log, and as they are
  there (`EndReplays`), and those are good because the live books are
  (`PersistedRestorable`).
* `KeysInv`: the table holds the record of every acceptance under its key, no key
  and no id is accepted twice. It replaces the nonces of the proof for `Spec`.
* `BooksUncrossed(orphans)`: the lemma about the matching loop, with the orphans
  as what is exempt.

Given these the rows restore (`RowsRestore`), and one lemma each shows that what
`build_book` inserts one by one is a sound book of exactly the open orders
(`BookRebuilt`), that the table and the index come back (`RestoredKeys`,
`ResumedIndex`), and that the engine invariants hold of it (`RestoredEngine`,
`RestoredQueues`, `RestoredMirrors`). That a rebuilt queue is in the order of the
sequence ids is what lets the engine go on as if nothing had happened: from there
on the lemmas about the steps of the engine apply as they are.

`BooksMatchReplay` follows from the same invariant. Between calls nothing is
ahead of the log (`LogAhead`), so by `MirrorInv` and `ClosedInv` the open orders
of a live book and of the one that `build_book` makes are the same but for the
admin's and the orphans; and the queues of both are in the order of the sequence
ids (`QueueOrders`), so they are the same queues (`QueuesAgree`). The property
compares the queues pair by pair (`Precedes`).

**Snapshots.** Every step beside the snapshot task is a step of `Recovery`
(`SnapshotStepRecovers`), so `RecoveryInv` holds there. At the moment of the copy
it says that the log replays to the store, which is what `WholeSnapshotsLoad`
asks of the file for the rest of its life. `SnapshotsAgree` is about a file and a
log that has since lost its end, perhaps more than once. Its invariant
(`SnapshotsHeld`) adds that a start-up leaves the counter above what it restored:
so what is appended later is beyond the claim, and what a start-up brings back
was in the log before it (`RowsAreLogged`), for which the claim held already. The
attempt to prove it with the last start-up's id alone failed, and TLC found the
counterexample with two crashes; so the property names every start-up.

### The risk checker

`RateLimited` looks at all submissions that passed, the checker only at the
window that it has pruned. `RateInv` says that the window is enough: it is the
end of what passed, and what it has lost is too old for every submission that is
yet to come; so two submissions that are as far apart as the limit are more than
a window apart (`Spaced`). All of it while the clock was not set back.
`SpecBandRespected` is about the saturating products and the two divisions of
the code: what passes is within the band in exact arithmetic. `ReferenceInv` says
of the time between a fill and its update that what is outstanding carries the
market's last trade and is, unless the market is `disturbed`, its only update: fills
that come while no other update is outstanding settle it again, and a handler that
is dropped unsettles it.

### The feed

`SubscriberMissesNothing` is silent while a history goes out, because the channel
is added only at the end of it. By then every event that was logged since the
copy must be on its way all the same. `FeedInv` says so: an event that a
subscriber was promised is *coming*: delivered, or in the broadcast channel for
its receiver, or still with its handler (which may wait for the risk checker's
mutex), or given up in one of the three ways; one
that it has asked for is coming or in what is left of the history.

### How sums and filters are proved

The library's induction theorems take an operator, which the installed provers
cannot instantiate. `SequenceFacts` proves what it needs from the least number at
which a claim would fail (`<` on the naturals is well founded), and a sum is the
last of its running sums, which are a function: `TotalByRunningSums` says that
any function that starts with 0 and adds one amount at a time ends in the sum.
Sums over the log, over a shorter list of pending fills and over a log with one
more event are then compared sum by sum. `SelectSeq`, `:>` and `SortSeq` mean nothing to the
provers; where a theorem needed a filter, the models say it with
`FlattenSeq`, where it needed a sort with `InOrder`, and functions are written as such.
What a filter returns is told by the places that it took its elements from
(`Chooses`, `FlattenChosen`): they rise, and are all the places that qualify. A sum
over what was chosen is the sum with zeros for the rest (`TotalOfChosen`).
`InOrderSorts` in `EngineProofs` says what the models' sort does.

### Only model-checked

* Liveness (`CallsComplete`, `EventsReachSnapshot`, `EventsArrive`): it rests on
  fairness, and `ENABLED` is out of the provers' reach.

## 5. Plan

1. Done: the models, with the runs of section 3.
2. Done: the safety properties of the engine, the answers to resubmissions and
   cancellations, the feed and the risk checker as theorems (section 4).
3. Done: replay, restarts and snapshots, and the engine across restarts.
4. Done: the refinement, for any number of markets, traders and orders.
5. A handler's `persist_since` and `publish_since` in one model, so that a lost
   row and a lost envelope are one contention; two markets in one refinement run,
   once the state space allows it (the theorem has no such limit).

## 6. Not modelled

* HTTP and JSON decoding, status codes, the admin key and `list_markets`: they
  touch no trading state.
* The balance ledger of the state store (called by nothing) and fees (read by
  nothing).
* The command line client (`bin/cli.rs`): a stateless REST client that formats
  what it is told and keeps a key file. What it sends is among the signed orders
  of the instances; that its nonce is the clock's milliseconds is one more reason
  for a stale nonce, which `RetryAnswered` has.
* Risk windows and reference prices across a restart: `main.rs:67` makes a fresh
  checker, so a trader's window starts over and the price band is off until the
  first fill. Nothing says that it should be otherwise.
* `verify_replay` and `checksum` as tests of determinism, which the functional
  definition of `replayed` has by construction.
* Benchmarks and migrations.
