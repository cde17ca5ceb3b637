# MarketPulse: a TLA+ model of the market simulator

MarketPulse simulates an exchange: agents and a user submit orders to a matching
engine, a server turns the engine's events into an event log, a portfolio, candles,
anomalies and web-socket streams, and recorded sessions can be replayed.  This
directory holds TLA+ modules translated from that code, TLC configurations that
check them on small instances, and TLAPS proofs of the properties that matter most.

All source paths below are relative to `backend/src/marketpulse/` unless they start
with `frontend/` or `docs/`.

## 1. Inventory

| Component | State | Operations | Talks to |
|---|---|---|---|
| Matching engine, `core/orderbook.py` | order map, per side a sorted dictionary of price levels (FIFO queue, cached total), halt flag, sequence counter | `submit_order`, `cancel_order`, `halt`, `resume` | called by the server and by the agent source; returns event lists |
| Advanced orders, `core/advanced_orders.py` | untriggered synthetic orders, OCO groups, trailing peaks | `register_order`, `register_oco_member`, `cancel_order`, `cancel_oco_group`, `on_order_filled`, `on_trade` | fed every trade by the server, returns orders to submit and cancels |
| Portfolio, `core/portfolio.py` | orders and statuses, cash, positions, realised profit | `validate_order`, `on_order_*`, `on_trade_executed`, `reset`, `get_summary` | fed every event by the server |
| Agents and sources, `sim/*` | pending event queue, live agent orders, clock; one prefetched event per symbol when multiplexed | `next_event`, `inject_market_event` | read by the server's loop |
| Server runner, `api/server.py` | mode, status, speed, engine, tracker, timers, current session | start, stop, pause, resume, start/seek replay, submit/cancel/OCO, scenario, auto-resume, event processing | everything |
| Event store, `storage/event_store.py` | sessions table, events table keyed by (session, seq) | create, update, append, append many, count, stream, get | server, replay source |
| Replay source, `sim/replay_source.py` | chunk buffer, cursor, total | `seek`, `next_event`, `calculate_delay_s` | server replay loop, event store |
| Broadcaster, `api/broadcaster.py` | subscribers and bounded queues, conflated book state, trade batches, pending candles, channel sequence numbers | register, unregister, subscribe, unsubscribe, push, flush | server, web-socket endpoint |
| Web client, `frontend/src/services/wsClient.ts` | socket, status, subscriptions, reconnect timer and back-off | connect, disconnect, subscribe, unsubscribe, socket callbacks | web-socket endpoint |
| Candles, `core/ohlc.py` | current bar per interval, history | `update_trade` | server |
| Anomalies, `core/anomaly.py` | windows, last alert times | `update_trade`, `update_book` | server |
| Clock, `core/clock.py` | simulated time | `advance_by`, `set_time` | sources |
| Scenarios, `core/scenarios.py` | definitions | look-up | server |
| Indicators, event schema, configuration, agents' quoting logic, UI components | numeric or presentational | pure functions | |

What makes each correct:

- *Engine*: never crossed; its four copies of the book agree; price-time priority; FOK
  fills whole or not at all; its events are enough to rebuild the book.
- *Advanced orders, portfolio, server*: every fill of a user order is booked exactly
  once; the trigger book watches exactly the untriggered orders; OCO legs die together;
  an OCO submission happens whole or not at all; an order's status only moves forward;
  nothing kills the event loop.
- *Event store, replay*: the log holds every event once, in order; a seek shows the state
  at its target and nothing older; a replay ends; a live session is not touched by it.
- *Circuit breaker*: a halt with a duration ends; engine, log and replay agree on who is halted.
- *Broadcaster, client*: a client either sees every frame of a channel or knows it did
  not; an application that stays is connected at last, with its channels; what it is told
  of the connection is true.
- *Ledger*: cash plus positions at market value equals initial cash plus profit, up to
  rounding; a position is what its orders executed; cash does not run out.
- *Candles*, *anomalies*: bars tile time and sum up to the trades; alerts of a type keep
  their distance.

What is hard here.  The matching loop is deterministic but long: consistency of four
copies of the book over any sequence of calls is more than a unit test reaches.  The
server is one asyncio process, so handlers run to their next `await`; the hazards are
between handlers: a user order overtaking events that the source has prefetched, a
cancel overtaking a fill that is still pending, a replay task that wakes up after a
seek, a timer of an earlier scenario, the event log keyed by a sequence number that
several engines allocate.  Inside a handler, processing recurses (a trade triggers an
order whose trade triggers another) and stops half way at an exception.  Queues are
bounded and drop the oldest message, the client reconnects by timer and its old socket
may still call back.  The `hazards` list of `PROJECT.json` has each at its line.

## 2. Modules

| Module | Models | |
|---|---|---|
| `ContinuousAuction` | what a continuous double auction promises, without levels, queues or totals | abstract specification |
| `MatchingEngine` | `core/orderbook.py`: `MatchingEngine`, `OrderBook`, `HalfBook`, `PriceLevel` | detailed specification, refines `ContinuousAuction` |
| `MatchingEngineProofs` | invariants and action properties of `MatchingEngine`; it implements `ContinuousAuction` | theorems |
| `OrderManagement` | the order handlers of `api/server.py`, `core/advanced_orders.py`, the order records of `core/portfolio.py`, the event queue of `sim/agent_source.py` and the prefetch of `sim/multiplex_source.py` | composes the four |
| `OrderManagementProofs` | what holds of `OrderManagement` for all requests; the loop's survival | theorems |
| `OrderBookingProofs` | its bookkeeping, when no submission trades at once; EXTENDS the one above | theorems |
| `Sums` | sums over finite sets and sequences: lemmas | used by all theorem modules but `SessionProofs` |
| `Wire` | channels and connections | constants of the next two |
| `Broadcaster` | `api/broadcaster.py` | one operator per method |
| `WebClient` | `frontend/src/services/wsClient.ts` | one operator per method and socket callback |
| `Streaming` | the endpoint `/ws` of `api/server.py`, the network, `frontend/src/App.tsx` as a user of the client | composes `Broadcaster` and `WebClient` |
| `StreamingProofs` | invariants of `Streaming` | theorems |
| `SessionRecords` | what the stored sessions promise to a reader, without a runner | abstract specification |
| `EventStore` | `storage/event_store.py` | one operator per method |
| `ReplaySource` | `sim/replay_source.py` | one operator per method |
| `AgentSources` | `sim/agent_source.py`, `sim/multiplex_source.py` and the engine's counter, as the runner sees them | one operator per method |
| `Session` | `SimulationRunner` of `api/server.py`: sessions, replay, scenarios, timers, restart | composes the three, refines `SessionRecords` |
| `SessionProofs` | invariants and action properties of `Session`, what replays and live sessions show; it implements `SessionRecords` | theorems |
| `Ticks` | rounding and comparisons of integer ticks | used by the next two |
| `Ledger` | cash, positions and profit of `core/portfolio.py` | |
| `LedgerProofs` | cash, positions and the balance of `Ledger` | theorems |
| `Candles` | `core/ohlc.py` | one operator per method |
| `Anomalies` | cool-down and alerts of `core/anomaly.py` | one operator per method |
| `MarketData` | the order in which `_process_event` uses the two, and resets | composes them |
| `MarketDataProofs` | bars and alerts of `MarketData` | theorems |
| `MCMatchingEngine`, `MCOrderManagement`, `MCStreaming`, `MCSession`, `MCLedger`, `MCMarketData` | | TLC instances |

### MatchingEngine

`submit_order` is two nested loops.  The model executes one iteration per step: `pc` is
"level" at the head of the outer loop and "fifo" in the inner one, `taker` is the incoming
order with its `remaining_qty`, `at` the `match_price`.  So no operator is recursive, and
the invariants speak about the middle of a call too.  Every other action waits for
`pc = "idle"`, since nothing awaits inside the engine.

| Code | Action |
|---|---|
| checks at the top of `submit_order` (halted, FOK, no liquidity) | `Reject`, else `Accept` |
| outer loop takes a level; leaves it (`clean_empty_level`, `BookDelta`) | `EnterLevel`, `LeaveLevel` |
| inner loop: trade; each self-trade policy | `Fill`, `StpCancelNewest`, `StpCancelOldest`, `StpDecrement` |
| section 5: remainder rests, is cancelled, nothing left | `Rest`, `Drop`, `Finish` |
| `cancel_order`, `halt`/`resume` | `CancelOrder`, `SetHalted` |

`orders`, `levels`, `queue`, `total` are `_orders_map`, the keys of the two `SortedDict`s,
the FIFO queues and `total_qty`.  `view` and `told` belong to a reader of the returned
events: the depth that `BookDelta`s add up to and the open quantities that order events
and trades add up to.  Left out: sequence numbers, trade ids, counters and time stamps;
the checks for non-positive quantity and price, which the event's constructor has made.

### OrderManagement

A user's order lives in four places: the portfolio's record (`orders`), the trigger book
and OCO maps (`trigBook`, `watch`, `groupOf`, `members`), the engine (`resting`,
`executed`), and, as fills not yet processed, the source's queue (`pending`: its first
element is the event the multiplexer holds prefetched).  A handler runs without an await
but recurses, so the model keeps the call stack as data: `agenda` is the sequence of work
items left, innermost first.  A step pops the head and may push what that code calls.
Handlers (`SubmitOrder`, `SubmitOco`, `CancelOrder`, `Tick`) start only on an empty agenda.
`Raise` is an exception: it drops the agenda, except that the `try` of `submit_oco_orders`
("rollback") cancels the first leg and the loop ("loop") dies, `_run_simulation` catching
only `CancelledError`.

| Code | Steps |
|---|---|
| `submit_user_order`, `submit_oco_orders` | `SubmitStep`, `SecondStep`, `LeaveStep` |
| `cancel_user_order`, `_cancel_oco_companion` | `CancelStep`, `PeersStep` |
| portfolio `on_order_accepted/rejected/canceled`, `on_trade_executed` | `ReportStep`, `Booked` in `LegStep` |
| `_process_event` of a trade | `TradeStep`, `LegStep`, `OnTradeStep`, `ScannedStep`, `CandleStep` |
| `AdvancedOrderManager.on_trade`, `_evaluate_order`, `_activate_order` | `ScanStep` (one order per step), `Ratchet`, `Reached`, `ActivateStep` |
| `_run_simulation`, `next_event`, `_step_simulation` | `Tick` |

The engine is reduced to what it does to user orders: which fills a call finds, among
agents' orders and resting user orders, is nondeterministic (`Fills`), as is what agents
do to resting user orders (`AgentBatches`).  Validation is an attribute of a request
(`valid`), a halted market one of the ways in which the engine may reject a MARKET or
triggered order.  There is one symbol; a single order with a client-chosen
`oco_group_id`, and the portfolio's `reset` (which `Ledger` has), are left out.

### Streaming

Items of a channel are numbered as they are pushed, and a frame carries an interval of
them, so that a loss, a repetition or a disorder is a relation between two intervals.
`flush` takes its lock without competition and nothing else in the broadcaster awaits:
each method is one step.  A connection is one `WebSocket` of the client and one client id
of the server; `ready` is the `readyState` the browser keeps, `ws` is `this.ws`.

| Code | Steps |
|---|---|
| `register_client`, `unregister_client`, `subscribe`, `unsubscribe` | `Accept`, `EndpointEnds`, `Receive` (of the endpoint's reading coroutine) |
| `push_*`, `flush` with `_send_to_subscribers` | `Produce`, `Flush` (`Offered` is the queue that drops its oldest frame) |
| `send_worker`, `onmessage` | `Deliver`: a frame between the queue and the browser counts as queued |
| `connect`, `disconnect`, `subscribe`, `unsubscribe` | `Mount`, `Unmount`, `Choose` |
| `onopen`, `onclose`, `onerror`, `scheduleReconnect` | `Open`, `Closed`, `Reconnect` |

`onerror` and `onclose` act on `this.ws` and on the client's one timer and heartbeat,
whichever socket they come from, and the model does the same: after `disconnect()` the
socket's close callback still comes and schedules a reconnect, and a client that has left is
connected again (no document says what `disconnect()` promises, so no property says the
contrary). `since`, `overrun` and `seen` are history for the properties. There is one
browser client; the server may serve two connections of it at once, the old one not yet
unregistered. Left out: PING and its answer, acknowledgements, back-off delays, the
constructor throwing, `start` and `stop` of the flush loop, and the contents of items.

### Session

Handlers of the runner run to the end without an await that lets another one in; what is
split are the tasks, where they sleep: the live loop, the replay loop with its pacing
delay, and an auto-resume timer per flash crash.  `inflight` is the event the replay loop
has fetched and not yet processed.  The trade tape, candles, anomalies, depth and prices
the runner keeps are all made from the trades and deltas processed since the last
`_reset_terminal_state`: `tape` is that sequence, so the properties can say which events
were processed, in which order and how often, and leave what is made of them to the other
modules.  `late` marks that a seek or a stop came during the pacing delay.

| Code | Action |
|---|---|
| `start`, `_reset_terminal_state`; `stop` | `Begin` in `Start`; `Closed` in `Stop` (and in whatever calls `stop`) |
| `start_replay`, `_fast_forward` | `StartReplay`, `FastForward` |
| `seek_replay`, `pause`, `resume` | `Seek`, `Pause`, `Resume` |
| `_run_replay`, between two sleeps | `ReplayStep` |
| `_run_simulation`, one event | `LiveStep` |
| `submit_user_order`, of an order that rests | `UserOrder` |
| `inject_scenario`, `_auto_resume` | `InjectScenario`, `AutoResume` |
| the process dies, between or inside handlers, and is started again (`lifespan`) | `Crash`, `CrashInStop` |

Every engine has a counter, `next`, from which its own events, the user's, a scenario's,
a timer's and SessionEnded are numbered; the log is a function from number to event, and
`AppendEvent` replaces what has the same number, as `INSERT OR REPLACE` does.  An event
of a scenario is logged by its handler and once more by the loop when it comes out of the
queue.  A request is counted against `MaxCommands`, numbers against `MaxSeq`; `Room` keeps
numbers for the timers asleep and for SessionEnded, so that the bound never stops what
fairness promises.

`Records` maps the runner to `SessionRecords`: a session is new, being recorded (it is the
live one), closed (its row says so) or cut.  The abstract specification knows neither
queues nor counters nor tasks; it says that a log only grows, and only while its session
is recorded, that there is one recorder, and that a closed log ends with SessionEnded.

### Ledger

`Submit` is `validate_order` and `on_order_accepted`, `Execute` the engine's fill and
`on_trade_executed`, `Cancel` and `Reset` their namesakes; `known` are the keys of the
tracker's `orders`, which `reset` empties while the engine still holds the orders
(`resting`).  The environment fills any resting order, in parts, at any price its limit
allows.  The average entry price is an exact fraction in lowest terms (`Ratio`); the
code's float differs from it in its last bits.  `round()` is Python's, a half to the even
number.  `rounded` and `exposed` are history: roundings since the last reset, and whether
two buys were ever open together or one was at the market.

### MarketData

`ProcessTrade` follows `_process_event`: the detector's alerts for the trade, then the
aggregator, which raises on a trade older than the last one, then the detector's alerts
for the book, which a refusal skips.  Agents' trades have ascending time stamps, a user's
trade has 0.  A bar is known by its bucket; `current` holds none or one per interval,
`history` the closed ones in a bounded deque.  Whether a metric exceeds its threshold is
an input.  `Reset` is `_reset_terminal_state`.  `taken` and `alerts` are history.

## 3. Runs

A property is listed in one run, the one where it is hardest to keep; the theorems of
section 5 say which hold for every value of the constants.

| Run | Bounds | Shows |
|---|---|---|
| `engine_plain` | 3 prices, quantities to 2, 4 orders, all times in force, anonymous | type correctness, uncrossed book, depth and order events exact, priority, FOK, refinement of `ContinuousAuction` |
| `engine_stp` | 2 prices, quantities to 3, 3 orders of one participant, all four policies | the copies of the book agree and calls return under self-trade removals |
| `oms_brackets` | 3 orders, quantities to 2, OCO pairs with one triggered leg, one with a refused second leg | groups and members are inverse; fills are booked once; groups die together; a refused pair leaves nothing |
| `oms_watching` | 2 orders among take-profit, trailing sell and buy, resting sell; two events per agent step | the trigger book watches what is untriggered; trailing stops ratchet; every fill reaches the portfolio and the event loop survives |
| `streaming` | 2 channels, 3 items each, queues of 2, 2 sockets, 1 break, 2 changes of subscription | no subscriber without a connection; nothing lost but by a full queue, which the numbers show; nothing twice or out of order; status and heartbeat tell the truth; the client comes back with its channels |
| `session` | 1 symbol, 2 sessions, 3 requests, 1 crash, chunks of 2, seeks to 1 and 3, 9 numbers in the first session and 4 in the second | sessions end closed; a replay shows its log in order, once and to the end; live projections have what the log has; the log tells who is halted; a log that was left stays as it is; a timed halt ends; a replay left alone ends; refinement of `SessionRecords` |
| `ledger` | 1 symbol, prices 1 and 2, a deposit of 3, quantities to 2, 3 orders, 1 reset | the accounting identity up to half a tick per rounding; no overdraft without overlapping or market buys; positions are what the known orders executed |
| `market_data` | intervals 1 and 2, a history of 3, a cool-down of 2, times to 5, 4 trades, 1 reset | types; every bar, filled gaps included, is the summary of its trades, and its mean lies between low and high; bars tile time; alerts of a type are a cool-down apart |
| `engine_fok_stp` | violation | an accepted FOK order is left with a remainder under CANCEL_OLDEST |
| `oms_user_trade` | violation | a user order that trades at once after agents have: an exception in the candle aggregator, further fills never booked |
| `oms_both_fill` | violation | a trade triggers the stop of a pair while the fill of its other leg waits in the queue: both legs fill |
| `session_two_symbols` | violation | with two symbols an event replaces the other symbol's event of the same number in the log |


Why the bounds are enough.  The interesting cases of the engine need two resting orders at
one level and one at another with an incoming order that sweeps both: 4 orders and 3 prices
have it, with quantities that leave a remainder on either side; quantities to 3 give
decrements that leave 1 and 2.  Violations of the OMS properties take two orders of a
group, or one order with a queued fill, and two prices, one on either side of a stop; a
third order lets a pair meet an unrelated order of the same user (its ids, the trigger
book's order, self-trading fills).  `MaxFills` 2 gives an engine call with a fill after
the one that triggers something; `MaxBatch` 2 a queue in which fills wait behind each
other.  In `Streaming`, three items and two channels fill a queue of two frames behind a
frame already seen, which makes a hole; two changes are an unsubscription and a
subscription again; one break and two sockets let the callbacks of an old socket meet a
new one.  In `session`, a second session lets timers, tasks and the replay source of the
first survive wrongly; three requests are a scenario, a start or stop, and a replay or
control; nine numbers let the live loop, a user order, a flash crash with its two copies
and SessionEnded all draw; a chunk of 2 makes a seek find a filled buffer and a replay
refill it.  In `ledger`, three orders open, add to, close and reverse a position, and
prices 1 and 2 with quantities to 2 give the average 3/2 that rounds; the deposit of 3
leaves less than a second order needs.  In `market_data`, four trades in six units of time
leave a gap longer than the history, fall twice into one bar of the longer interval, and
have a late trade between two alerts.  All bounds are constants: `MaxOrders`, `MaxQty`,
`MaxFills`, `MaxBatch`, `MaxItems`, `MaxSockets`, `MaxFailures`, `MaxChanges`,
`MaxSessions`, `MaxSeq`, `MaxCommands`, `MaxCrashes`, `MaxResets`, `MaxTime`, `MaxTrades`.

The passing OMS runs submit only what keeps clear of what section 6 lists: their
triggered legs come one to a pair, first legs never trade on submission, and single
orders rest (`exec = "passive"`) or wait for a trigger.  Likewise `session` keeps to one
symbol, and playback controls to the session they were offered for (`AnyTime` FALSE).

Deadlock is checked in the runs of the engine and of the OMS. In the engine model an idle
engine may always be halted or resumed; in the OMS model the simulation ticks for ever, and
`Next` is never disabled while the loop is alive. The other models may stop, and their runs
do not check deadlock: in `Streaming` everybody may have seen everything, and nobody has to
push, choose or break; in `Session`, `Ledger` and `MarketData` the bounds on numbers,
requests, orders and trades end every behaviour.

## 4. Fairness

- `WF(MatchStep)`: a call that has started is straight-line Python and goes on.
  Nobody has to submit, cancel, halt or resume.
- `WF(Work)`: the same for a handler's work items.
- `SF(Tick)`: asyncio runs ready callbacks in the order they became ready, so a stream of
  requests cannot keep the simulation task, once its sleep is over, from its turn.  `Tick`
  is disabled while a handler runs and enabled after it, hence strong and not weak.

- `Streaming`: weak fairness of `Accept` and `Receive` (the server's coroutines), `Open`
  and `Reconnect` (the browser's tasks and timers), and of the end of a closing handshake.
  None of pushing, flushing, delivering, choosing, leaving or breaking.

- `Session`: weak fairness of `ReplayStep` and of each symbol's `AutoResume`.  Both are
  coroutines in `asyncio.sleep`, which the event loop wakes when the time is over and no
  other task can keep waiting for ever.  Nobody has to request anything, and the live loop
  need not move.

`CallReturns` (the loops of `submit_order` end), `FillsReachPortfolio`, `Resubscribed`,
`CrashHaltEnds` and `ReplayEnds` rest on these.

## 5. Proofs

Assumptions: prices are a finite set of positive integers, `MaxQty` and `MaxOrders` are
positive, the empty string is no participant, policies and times in force are among the
code's.  For `Streaming`, the channels are a finite sequence of strings, each listed once.
For `Session`, the symbols are a finite, non-empty set, and every `MaxSeq` is above 2, since
a session starts with two numbers drawn.  For `Ledger`, prices are positive, deposits natural
numbers and the symbols finitely many; for `MarketData`, intervals, history, cool-down,
prices and quantities are positive.  The bounds are natural numbers.  Nothing else is assumed
of the constants; every run evaluates them.

| Theorem | States |
|---|---|
| `Invariance` | `Spec => []IInv` |
| `TypeCorrect`, `NeverCrossed`, `CopiesAgree`, `DepthIsKnown` | `[]TypeOK`, `[]BookUncrossed`, `[]LevelsMatchOrders`, `[]DepthViewExact` |
| `PriorityTheorem` | `PriceTimePriority`: no step consumes an order out of turn or beyond the limit |
| `EventsTheorem` | without DECREMENT_AND_CANCEL, `[]EventsAccountForOrders` |
| `FillOrKill` | if nobody is identified or CANCEL_OLDEST is not in use, `FokFillsCompletely` |
| `Refinement` | `Spec => Auction!ASpec` (the auction has no fairness) |
| `NoGhosts`, `StatusIsTrue`, `NeverLeftAlone` | `[]NoGhostSubscribers`, `[]StatusTrue`, `[]NeverStranded` of `Streaming`, by `StreamingInvariance` |
| `NothingLost`, `SequenceShowsLoss`, `HandedOnInOrder` | `[]NothingLostWithoutOverrun`, `[]OverrunShowsInSeq`, `ItemsInOrder` of `Streaming`, by `FramesInvariance` |
| `RecordsStayFixed` | for any symbols, if `~AnyTime`: `RecordedLogsFixed` |
| `LogsNeverRewritten`, `SessionsEndClosed` | with one symbol, if `~AnyTime`: `LogNeverRewritten`, `[]SessionsClosed` |
| `Refinement` of `SessionProofs` | with one symbol, if `~AnyTime`: `Spec => Records!RSpec` |
| `ReplaysComplete`, `ReplaysShowTheirLog` | for any symbols, if `~AnyTime`: `[]ReplayComplete`, `[]ReplayShowsPrefix` |
| `LiveSessionsShowTheirLog`, `LogsTellHalts` | with one symbol, if `~AnyTime`: `[]LiveShowsLog`, `[]LogTellsHalts` |
| `NeverOverdrawn`, `PositionsAddUp`, `AccountsBalance` | `[]NoOverdraft`, `[]PositionsFromKnownOrders`, `[]DriftBounded` of `Ledger` |
| `GroupsStayInverse`, `StopsOnlyRatchet` | `[]GroupsInverse`, `TrailingStopRatchets` of `OrderManagement`, for any requests |
| `LoopNeverDies` | `[]LoopSurvives`, if `OneTriggered` |
| `WatchedMeansUntriggered`, `FillsAreBooked`, `SubmissionIsAtomic` | `[]WatchedIffUntriggered`, `[]EveryFillBooked`, `[]OcoSubmissionAtomic`, if `OneTriggered` and `NothingAtOnce` |
| `NoPeerIsLeft` | `[]PeersDieTogether`, if moreover `StopsAtMarket` |
| `TypeCorrect`, `BarsKeepTiling`, `AlertsKeepApart` of `MarketDataProofs` | `[]TypeOK`, `[]BarsTileTime`, `[]AlertsApart` |
| `BarsTellTrades` of `MarketDataProofs` | `[]BarsAreTheTrades` |

None of the four book properties is inductive.  A level that is in the dictionary is
non-empty only because the level being matched is cleaned on the way out, and a remainder
does not cross only because the loop stopped at the best level; both need what the loops
know about themselves.  `IInv` therefore adds `LoopFacts` (while matching, `at` is the best
level and acceptable; ids in the book are older than the incoming one; no order holds more
than its reader believes) and `ViewFollows` (a reader's depth is behind at the level being
matched only).  Cached totals are compared with the cardinality of a set of units, one per
order and unit of quantity, since a sum over a set would need induction; taking a fill
from the front removes a block of units (`SplitCardinality`), and the queue lemmas
(`PopQueue`, `PushQueue`, `DeleteFromQueue`) say what each FIFO operation does to an
oldest-first sequence.  `EventsTheorem` uses `EventFacts` on top of `IInv`.  The
refinement maps the resting orders to a set of records; `FrontIsFirst` shows that the
front of the best level is the order the auction calls first.

`FillOrKill` follows from `FokCovered`: at every step of the call, what an accepted FOK
order still asks for is covered by the sum of the totals of the levels its limit admits
(`Supply`, which is the engine's own `total_liquidity_up_to`).  A fill takes the same from
both sides, and so does DECREMENT_AND_CANCEL; CANCEL_NEWEST leaves nothing to ask for; an
emptied level counts for nothing (`SumTrimmed`).  Only CANCEL_OLDEST takes from the supply
alone, hence the hypothesis `NothingRemoved`; section 6 has the run where it fails.  When
the loop stops with a remainder, the best price is beyond the limit or the side is empty,
so the supply is 0 (`NothingLeft`).

`OrderManagement` is proved in layers, since the recursion of the handlers lets anything
that is in order between handlers be out of order inside one.  `Base` is true of any
requests: the work items are well-formed, what they name exists, the two maps of groups
agree.  `Guarded` adds what keeps exceptions out of the simulation loop, for requests that
are `OneTriggered`, that is, of no pair do both legs wait for a price: of a group one order
at most is watched, so a scan finds in the trigger book whatever it still has to do, and
everything the loop processes carries the agents' time.  `Orderly` says of every work item
on the stack what it still owes: which untriggered orders it is to activate or cancel,
each named once; which stops it has moved and not yet shown; what it carries of a fill not
yet booked.  With that, the quantity an order has executed is what is booked plus what
the items and the queue carry, at every step: a step moves the quantity of the item it
runs to the items it pushes (`TradedContinue`), and an engine call pushes what it trades
(`EngineTraded`).  The sums are those of the community modules; what is needed of them is
in `Sums`.  `Orderly` needs `NothingAtOnce`: single orders and legs rest or wait for a
trigger.  Neither hypothesis is for convenience: without the first the loop dies, without
the second a user's trade raises and its fills are lost (section 6); the passing runs
satisfy both.

`PeersDieTogether` relates three records of an order: what the portfolio says has become
of it, its group, and what rests in the engine.  `Exclusive` adds to `Orderly` that an
ended order does not rest, nor does a grouped one that waited for a price (`Spent`); that a
group keeps all the orders recorded for it until they leave it together, and not before its
second leg is there (`Whole`); and that an order that is over has left its group, and one
that has left rests only while the item that cancels it is on the stack (`Left`).  `Spent`
needs `StopsAtMarket`, that the stops of pairs go to the market when they trigger: one with
a limit of its own may rest when its group is gone and a fill of its peer is still queued
(section 6).  `oms_brackets` has pairs with such stops only.

The client's code never asks which socket a callback comes from, and it is right not to
because of `OneSocket`, the strengthening in `StreamingProofs`: there is never a second
socket whose close callback is still to come, and no reconnect is scheduled while there is
one.  `Attempts` adds that a mounted application's last socket has not ended unless the
timer is set.  The server's half is separate: that `registered`, the endpoints and the two
maps agree is inductive once messages are known to name channels.

What the frames say rests on these two.  `FramesInv` states it for a whole queue and not
only for the frames of the present subscription: in every queue, also of a connection that
is closing or that no longer follows a channel, the frames of a channel are in order and
none straddles the beginning of a subscription (`Good`), since a client may subscribe again
before an old frame has left.  The queue of the open connection comes after what the
application has seen (`GoodAfter`).  That is kept only because there is one open connection
(`OneSocket`): a second one would hand on frames the first has yet to deliver.  A number
that is still the channel's latest must carry its latest item, or the next frame would
follow it with items missing: a flush uses a number exactly if a subscriber is there
(`Advanced`), and who subscribes later counts from there.  `Covered` is the half about
loss: unless a queue was full, each item not yet seen is in a frame.  `FramesForIs` says
that a flush makes one frame for each followed channel with something pending, and
`OfferedIs` that a full queue keeps a suffix.

Of `Session`, `RunnerInv` says that what the runner holds is of one session: the live task,
the timers and the mode agree, and the replay source is never the live session's.  That is
what makes a log fixed once its session is left, and it needs `~AnyTime`: with `pause()` on
a live session it is false.  `Numbered` is about numbers: those of the log and of the queue
are below the counter, no two events in the queue share one, and a queued event whose
number is already in the log is that event.  So whatever draws a number adds an event and
never replaces one, and what a scenario logs twice is the same; several symbols break it,
each counting for itself, hence `SingleSymbol`.  `ClosedInv` carries both to the row of a
session and its SessionEnded; a crash between the two writes leaves an open row and is in
`crashed`.  The refinement uses all of these: each action either grows the live log
(`GoesOn`) or leaves a session closed or cut and may open another (`Ends`).

The two theorems about replays hold for several symbols too.  The log of a replayed session
does not change (`ReplayedLogStays`), and the total of its row, which ends the replay, was set
once: by the last append to a number no event exceeds, or by the stop to a count of at
least the events before SessionEnded (`RowsOK`, kept by each way of writing).  So
a cursor beyond the total is beyond every number, if there are no holes.  For what is
shown, `BufferInv` says what a chunk is: the values at the log's numbers from the cursor
up to some number, in order, or nothing.  Taking one moves the cursor past the number it
was read at (`NextTaken`), also over holes, and a seek forgets the chunk.  `ShownInv` then
has the projections at the log before the cursor without the event held, which is
the last of them; processing it adds the greatest number (`ProcessedOne`).  Lists in the
order of their numbers have lemmas of their own: `Ascending` (there is one such list of a
finite set), `OrderedAppend`, `OrderedFirst`, `OrderedPrefix`.

The two about live sessions are one induction (`LiveInv`), on top of `Numbered`.  Neither is
inductive without `Waits`, which says what the queue still owes the log: no trade or delta
that waits is logged, so the loop shows each once; and a halt or resume that waits is
logged already, or is the copy of a timer's resume, which is logged under the number just
before.  So what the loop logs later never changes what the last mark of the log says
(`TellsAgain`), although by then the engine may have been halted and resumed again.

`NoOverdraft` is strengthened by `Funded`: while nothing was exposed, there is at most one
open buy, it has a limit, and if it is known, the cash covers its remaining quantity at its limit.
A fill takes from both sides of that inequality, and a sale only adds cash.

`DriftBounded` speaks of prices that nobody has traded at, so it is not inductive.  What is
kept is `CostBalance`: valued at their average entry prices, the positions have cost what
left the cash plus the booked profit, up to half a tick per rounding since the last reset.
Average prices are fractions, hence the common denominator in it, which every trade makes
finer.  An addition keeps the balance exactly, since the weighted average is the cost
(`AddedPosition`); a reduction is off by the rounding of its profit, also when it turns the
position round (`ReducedPosition`).  At any price, the rounding of what each open position
would bring comes on top (`PositionOff`).

`AlertsApart` follows from `Spaced` (the last alert's time is the last element of a
spaced sequence), `BarsTileTime` from `IntervalInv`, in which `ChainTo` says that closed
bars lead, one bucket after another, up to the bar in progress, also when a bounded
history drops the oldest of them.

`BarsAreTheTrades` defines each bar from all the trades accepted: a set of places in their
list, with its first and last, the extremes of its prices and two sums.  `BarsTellInv` adds
that the trades are in the order of their time stamps, so a bucket earlier than the last
trade's gains none (`EarlierReference`), the last trade's gains one (`OpeningReference`,
`ExtendedReference`), and the buckets between have none before them but the last trade's
price (`GapReference`).  Without the refusal of late trades the order, and with it every
closed bar, would be wrong.  The mean in its range is `Ranged`, about the exact sums; only
then is it rounded (`RoundWithin`).

Only model-checked is liveness (`CallReturns`, `FillsReachPortfolio`, `Resubscribed`,
`CrashHaltEnds`, `ReplayEnds`), which is out of the prover's reach.

## 6. Findings

Four, each a run of section 3, with the quoted document or test in `PROJECT.json`:

- `session_two_symbols`: the log is keyed by session and number, every symbol's engine
  numbers from 1, and events are written with INSERT OR REPLACE (`storage/event_store.py:252`).
  The default configuration has four symbols, so its logs, and replays, lack events.
- `oms_user_trade`: user orders carry time 0; the aggregator refuses their trades after an
  agent's, in the middle of the event list, and further fills are never booked.
- `oms_both_fill`: what an agent's order trades waits in the source's queue, one event a turn.
  A trade at the stop that comes first triggers the stop; the cancel of the other leg finds
  nothing to cancel in the engine, and nothing checks it (`api/server.py:673`): the stop
  sells too, and then the queued fill is booked.  ADR-017 has one cancel the other.
- `engine_fok_stp`: liquidity counted for a FOK order is then cancelled as a self-trade.


Further properties are stated in the modules, or hold only under the constants of the
passing runs.  They have no run of their own; to see one fail, list it in a copy of the
`.cfg` named, with the change given:

| Property | Run's cfg, changed | What happens |
|---|---|---|
| `EventsAccountForOrders` | `engine_stp`, as it is | DECREMENT_AND_CANCEL reduces both orders and says so in no event (`core/orderbook.py:567`) |
| `LoopSurvives` | `oms_brackets`, `OcoRequests <- TwoStops` | one trade reaches both stops of a pair; the second is deleted after its group has removed it: `KeyError`, and the loop is dead (`core/advanced_orders.py:191`) |
| `PeersDieTogether` | `oms_brackets`, `OcoRequests <- StopLimits` | as in `oms_both_fill`, but the stop has a limit and comes to rest; the group is gone, and the queued fill of the other leg cancels nothing (`core/advanced_orders.py:150`) |
| `AccountingIdentity` | `ledger`, as it is | documented as strictly preserved (`core/portfolio.py:6`), but profit is rounded fill by fill; `DriftBounded` says how far it may be off (`core/portfolio.py:355`) |
| `OcoSubmissionAtomic` | `oms_brackets`, `OcoRequests <- Marketable` | a refused second leg cannot undo what the first has traded (`api/server.py:933`) |
| `SeqTellsEveryLoss` | `streaming`, as it is | items pushed while a channel has no subscriber use up no number, so a reconnect hides the loss (`api/broadcaster.py:177`); also without a break, when the only subscriber leaves and returns |
| `SessionsClosed` | `session`, `AnyTime = TRUE`, `MaxCommands = 4` | a replay, a new live session, `pause()`: the live session is PAUSED, `stop()` no longer closes it (`api/server.py:417`) |
| `ReplayEnds` | `session_two_symbols`, as it is | SessionEnded replaces an event; the stored total exceeds the last number, `has_next` stays true, `next_event` returns None, and the replay polls for ever (`api/server.py:1036`) |

A remark without a run: a MARKET order may carry price 0 or `None`, but only `None` means no
limit to `total_liquidity_up_to`; a FOK MARKET order to buy with 0 would always be refused.
Every caller in the repository passes `None` with FOK, which the model writes as 0.

## 7. Not modelled

- Clocks, indicators, the anomaly detector's statistics and thresholds, and the agents'
  quoting: floating-point or random inputs of what is modelled.
- The event schema, configuration and wire types: fields appear as records where used.
- The user interface: presentational.  SQL, sockets and the browser are external.
- The order in time in which the multiplexer merges symbols: any symbol may come next.
- The replay's pace: a delay of any length, which is also why a replay loop that never
  sleeps (delays of 0, `api/server.py:1053`) is not told apart.
- A replay of a log that holds a user's own trades: `Session`'s user orders rest; the
  fills and exceptions of those that trade are in `OrderManagement` and `MarketData`.
- `set_speed`, `list_sessions`, `stream_events`, the agent source's `reset` and
  `sim/stub_gbm.py`: they change nothing modelled, or the server does not use them.

What could follow: a refinement between `Session` and a reader of several symbols once
their numbers no longer collide.
