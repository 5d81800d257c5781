# TradingCore in TLA+

This directory holds the specifications, model-checking runs and proofs kept
beside TradingCore. They cover two programs that work together:

* **the operator agent** (`clean-agent/`): a FastAPI process in which a person or
  a language model prepares trade tickets, approves them by a phrase and executes
  them, and which sends Telegram alerts. Its state is a SQLite file.
* **Capital Trader** (`capital_trader/`): a FastAPI process that holds the
  connection to the broker Capital.com, places and closes orders, mirrors the
  account in its own database and reconciles the two every five minutes.

The agent reaches the broker only through Capital Trader's HTTP API. Every
definition is translated from the source. `PROJECT.json` maps each one to its
lines, and lists the runs, the mutated forms each property must reject, the
hazards and the theorems.

## Inventory

| Component | State | Operations | Model |
|---|---|---|---|
| Ticket risk gate (`risk.py`) | none | `evaluate_ticket` | `TicketRisk` |
| Ticket life (`execution.py`) | `trade_tickets`, `audit_events` | create, approve, execute, for opening and closing | `TicketExecution`, `TicketContract` |
| Client to Capital Trader (`trader.py`) | worker threads with a request under way | order, close, read-only calls | in `TicketExecution` |
| Notification engine (`notifications.py`) | `notification_rules`, `notification_events` | `evaluate_once` from a watch loop and from the API; create by request, by tool, as presets; disable | `Notifications` |
| Agent API, chat loop, tools (`main.py`, `tools.py`, `llm.py`) | none of its own | at most eight model steps per chat, tools one after the other | the operations on tickets and rules, in their modules |
| Canvas (`canvas.py`) | OAuth states, encrypted token | authorise, refresh, read | not modelled |
| Research backtest (`research.py`) | none | one pure function over real numbers | not modelled |
| Agent memory (`store.py`) | `agent_memories` | rows without a protocol | not modelled |
| Order workflow (`order_workflow_service.py`) | `orders` | `submit_and_place` | `OrderWorkflow` |
| Risk manager (`risk/manager.py`) | counters nobody updates | `can_trade` | in `OrderWorkflow` |
| Close workflow (`position_workflow_service.py`) | `positions` | preview, close | `PositionWorkflow` |
| Reconciliation (`reconciliation_service.py`) | `reconciliation_runs`, `positions`, `orders`, mode | the periodic run | `Reconciliation` |
| Trading mode, startup (`state.py`, `startup_service.py`, `orchestrator.py`) | the mode | start, degrade | `TraderData`, `CapitalTrader` |
| Capital.com account | external | orders, fills, closes, other hands | `TraderData` and the broker's actions |
| Session (`broker/session.py`) | the token, its lock | `ensure_valid` by REST calls and the websocket | `BrokerSession` |
| Websocket (`broker/websocket.py`) | socket, receive loop, heartbeats | connect with backoff, receive, lose, reconnect, give up | `BrokerFeed` |
| Health and runtime status (`runtime_status.py`, `health_service.py`) | flags, age of the last price | mark, report | in `BrokerFeed`: the websocket's and the prices' parts |
| Price pipeline (queue, event bus, candles, signals, Redis bridge) | queue, current candles, last price and signal | put, get, publish, `on_tick`, persist, detect, `XADD` | `PricePipeline` |
| Gold candle store and recorder (`gold_candle_store.py`, `record_gold_candles.py`) | one CSV file, one status file | poll, merge, retain, replace, report; filter and page | `GoldRecorder` |
| Routes, dashboards, proxy, scripts, migrations, browser extension | none | pure I/O | not modelled |

How they interact:

* Agent handlers share one asyncio event loop and one SQLite file. They
  interleave at awaits only. An order goes through a worker thread, which
  `wait_for` or a timeout may abandon while the request goes on.
* Capital Trader's handlers and its reconciliation task share one event loop, the
  trading mode and the database. Each database call commits by itself, so every
  call is a point where another handler, or the end of the process, can come in.
* The account at Capital.com moves by itself: orders fill, positions are closed
  by stops or by hand.
* Every coroutine of Capital Trader that talks to the broker shares one session.
  The websocket's receive loop fills a bounded queue; the streamer empties it into
  the event bus, which starts a task per subscriber and event.
* The gold candle recorder is a process of its own. It polls a route of Capital
  Trader and writes two files, which Capital Trader's routes read at any time.

What is hard, and what makes each part correct:

* **Tickets.** No order without a confirmation; `executed` only with an order at
  the broker; no way back from a settled ticket; no second order from a lost
  answer alone; no order without an audit event; every execution comes to an end.
* **Orders and positions.** `CLOSED` is true and final although the snapshot it
  is decided on is old; what was placed has a row; `SUBMITTED` names an accepted
  order; a row is doubled only by a race; the tables follow the account.
* **Alerts.** Recoveries match alerts, cooldowns are kept, alerts are remembered,
  unless two evaluations worked on the same old rows or one was cut; no failure
  wedges the loop.
* **Market data.** One login at a time; one receive loop and a heartbeat, however
  often the connection is lost; a stream that nobody reads is reported in the end;
  a price is counted once in each timeframe, in its own bucket unless a database
  call let a later one pass; one row per candle; signals in the stream alternate
  but for the failures the code logs; the candle file keeps every last candle it was
  given until that expires, its rows never move to an earlier place under a reader,
  and its status is never ahead of it.

`PROJECT.json` lists every hazard at its line, with the properties that cover it
or the reason why none does.

## The agent: tickets

`TicketRisk` is `evaluate_ticket` rule by rule, over a ticket and a broker
snapshot: the number of positions, or `None` without a list of them, and the parts
(`health`, `positions`, `market`) that are errors. No list counts as no positions, and
an error blocks only if its text is not empty; the text is `str(exc)`, so a call may
fail and neither count nor block, and `errors` holds only the texts that are not empty.
Numbers may be NaN, which Python's JSON reads, and which no comparison of the rules
rejects.
`StoredTicket` is what the SQLite row keeps of a proposal: NaN becomes NULL, which
is "no value" in the optional columns and refused in the size column.
`BrokerOrderPayload` is the request built from a row, by the fields it keeps.

`TicketExecution` is the flow. `status`, `kind` and `request` are the row,
`audit` the outcomes of executions in `audit_events`. An execution is a handler
whose `pc` names the await it is at: `checking` (the snapshot or close preview),
`submitting` (the order request), `reconciling` (the check after a successful
order). One action is the code between two awaits:

| Action | Code |
|---|---|
| `CreateTradeTicket`, `CreateCloseTicket`, `ApproveTicket` | the handlers of the same names |
| `ExecuteTicket` | the checks up to the first await, here the status is read |
| `CheckPasses`, `CheckBlocks` | the snapshot answers or fails; the risk check; the request goes on `wire` |
| `TraderHandles` | Capital Trader deals with a request, whether or not anyone waits |
| `SubmitSucceeds`, `SubmitFails` | the answer, or a timeout, error or refusal |
| `Reconciled` | the check after the order, and the outcome |
| `Crash` | the agent restarts; rows, `wire` and `placed` remain |

The end of an execution is two SQLite writes (`Settle`): both, the first or none
may be stored. `mishaps` bounds restarts and such failures together.
`sent`, `confirmed`, `overlapped` and `cut` are history: they decide nothing.

`TicketContract` is what the flow promises, in four actions. `ImplementsContract`
maps `ordered` to the tickets with an order in `placed`.

What is promised depends on what the code does not do. It does not promise one
order per ticket, nor that a `blocked` ticket has no order: after a timeout the
ticket is blocked although the order may live. `ResubmittedOnlyAfterRaceOrCut`
states exactly when a second request goes out: after two executions that
overlapped, or after one that was cut off once its request was out.
`OrdersWithinRules` is about what a request carries: although NaN passes the gate
twice, no order with it, and none outside the limits, reaches Capital Trader, because
the second check judges the row and not what was asked.

## Capital Trader: orders, positions, reconciliation

`TraderData` holds the columns the workflows decide on, the mode and the account.
An order row is named by its `client_order_id`: a submission, or a deal for the
row `broker:<deal>` that reconciliation imports. Answers carry one or two
identifiers (`dealId`, `dealReference`), kept as different names of one deal,
because the code stores one and looks up the other.

* `OrderWorkflow`: `submit_and_place`: quote and open positions (`ReadPositions`,
  kept in `counted`), gate (`RiskApproves`, `RiskRejects`), row `PENDING`, broker
  call, row `SUBMITTED` or `REJECTED`. `OrderBroker` is Capital.com dealing with the
  request, with or without someone to hear the answer.
* `PositionWorkflow`: the close of a position: local row, preview against a fresh
  snapshot, broker call, row `CLOSED`. `BrokerCloses` is the broker's part.
* `Reconciliation`: one run: the run row, the two snapshots, import and update of
  positions, the read of the `OPEN` rows, closing the missing, matching orders
  (an order without a row is looked up, `LookupOrder`, and then imported,
  `ImportOrder`; `orphan` is the one between), the end of the run row, and failure with degraded mode at any of them. `rpc`
  names the phase; `stopped` is a process whose startup failed at the websocket,
  which serves its API without the loop.
* `CapitalTrader` composes them with a moving account and restarts. `raced` is
  history: deals reconciliation found no row for while the submission had not
  stored its identifier.
* `TradeLedger` is what the three workflows promise together, without calls, runs
  or failures: rows come before deals, identifiers are given once and are of the
  submission's own deal, positions are imported once and closed once, when they are
  gone. It leaves out on purpose what the code does not promise: that a deal has one
  order row, that the row of a placed deal learns its identifier, and any limit.
  `ImplementsLedger` maps `known` to the deal of a stored identifier, whichever of
  the two names it is, and `imported` to the rows named `broker:<deal>`.

## The agent: alerts

`Notifications` is `evaluate_once` as the watch loop and API calls run it, at the
same time. An evaluation reads the enabled rules once (`Begin`) and then works on
those old rows (`held`), fetching each answer of Capital Trader once (`cache`).
`LoopFree` is the event loop: a coroutine not at an await (`fetch`, `send`) keeps
the others out. Recording a message is three SQLite transactions, the event, the
trigger time and the state, and each is a step, so that a failing write or the
end of the process can come between them. A write may be refused (`StoreFails`), or
be committed and raise when the row is read back (`ReadBackFails`): either way the
evaluation drops the rule and goes on with the next. The clock `now` is read when an event
is recorded and compared in `InCooldown`. `raced` and `torn` are history: rules
that two evaluations held at once, and rules an evaluation was cut off from at a
message. Rules come from the dashboard's request, from a chat's tool
or as presets around an open position, which are compared with the enabled rules
that the list returns (`CreatePresets`, `ListLimit`). A `send` without a configured token does not suspend in the
code; the model lets others run there too.

## Capital Trader: from a quote to candles and signals

`PricePipeline` follows one epic from a broker message to the candle table and
the Redis stream.

| Action | Code |
|---|---|
| `Receive` | the receive loop puts a message into `price_queue`; a full one drops its oldest |
| `Stream` | `MarketStreamer` takes the oldest, and publishes `PriceUpdated` if it is a quote |
| `StartHandler` | `_on_price_updated` feeds the timeframes up to the first one that closes a candle |
| `StoreCandle`, `PersistReturns`, `PersistFails` | the row is stored; its answer arrives; the call raises, before or after the row was stored; the handler goes on with the next timeframe |
| `Detect` | `SignalDetector` compares with the last price |
| `RedisAppends`, `BridgeFails` | the `XADD` of a signal |
| `Restart`, `Elapse` | the process; the clock |

Tasks start in the order they were created (`AllStarted`), and a handler is
suspended only where it awaits the database: there the next event's handler may
pass it. `late` is history: the events that an event after them passed while they
waited there, by timeframe (`Behind`). `dropped`,
`overtaken` and `life` are history too, and so are all candles that are no longer
an aggregator's own. A quote without prices has price 0: the detector then divides
by zero on every later quote (`Detect` keeps 0), and is silent until a restart.

## Capital Trader: session, price stream and recorder

* `BrokerSession`: `ensure_valid`. A caller waits for the lock (`waiting`), looks
  at the token only when it has it, logs in (`login`) or goes on (`inside`).
* `BrokerFeed`: `connect()` with its login, dial, subscriptions and backoff
  (`feed`, `attempt`), the receive loop (`loops`), the heartbeats (`beats`), which
  outlive the socket they were started for, and what the status says. A broken
  connection makes the loop raise and connect again; one that the server ends in
  order makes it end without a word (`LoopEnds`).
* `GoldRecorder`: the recorder's poll, merge, temporary file, replacement and
  status file, one step each (`poll`), with failure and death at every one. `prices`
  is what the answer under way brought: any candle may be lacking, because nothing
  was traded in that minute, because `normalize_candle` drops incomplete ones, or
  because a 200 answer held no list and is merged, and reported healthy, as an empty
  one. So the file may have gaps that the status says nothing of, and they may be
  filled later, ahead of rows already read. What is promised is what the merge owes
  to its readers: the last candle of a minute, once merged (`brought`, history), is
  in the file until it expires (`FinalCandlesKept`), also when a healthy status is
  read (`StatusFollowsData`), and rows do not change or move back (`RowsStay`).
  `Filtered` and `Page` are what the routes return.
* `MarketData` composes them: a poll is a REST call that takes the session's
  token like any other, the recorder may stop waiting for it while it goes on, and
  Capital Trader may be started again under both.

## Runs

All runs have `CHECK_DEADLOCK FALSE`: each of these systems may come to rest (all
tickets settled, a quiet account with the loop not started, events or messages at
their bound, the clock at its horizon).

| Run | Instance | Shows |
|---|---|---|
| `tickets` | 2 tickets, 2 handlers, 4 proposals, 1 mishap | types, the two history properties, what orders carry, the refinement |
| `tickets_live` | 1 ticket, 2 handlers, 1 mishap, fair | executions return, and settle their ticket |
| `tickets_stop` | proposals with a stop price | **violated**: a stop given as a price never reaches the broker |
| `tickets_double` | 1 ticket, 2 handlers | **violated**: a request is sent for a ticket no longer approved |
| `sync` | 1 deal, 2 closers, 2 sizes, 2 mishaps, fair | the ledger is kept, a run mirrors its snapshot; `CLOSED` is true; the tables follow the account; runs are settled |
| `orders` | 1 submission, 1 close, 2 deals, 1 mishap | the ledger is kept: rows and identifiers of what was placed; duplicates only from the race |
| `orders_orphans` | 1 submission, 1 deal | **violated**: the workflow's own order is imported as an orphan |
| `orders_limit` | 2 submissions, 2 deals, limit 1 | **violated**: the limit is checked on rows that lag behind |
| `alerts` | 1 rule, 2 evaluations, 4 instants, 4 events | matching, cooldown, memory, late messages |
| `alerts_live` | 2 rules on one answer, 2 evaluations, fair | every evaluation ends |
| `candles` | 4 messages, queue of 2, 2 timeframes, 1 mishap | which candles, rows and signals may be wrong, and only for which reason |
| `feed` | 1 call, 2 attempts, window of 2, 1 mishap, fair | one login, one receiver, a truthful status; a file that keeps every last candle it was given and whose rows stay; a dead feed is noticed, and minutes that the answers go on holding are recorded |

The bounds and why they are enough:

* Two handlers, submissions or evaluations are what a race needs. Two tickets
  show that answers and phrases do not cross; two deals let reconciliation see
  one and not the other.
* One mishap can come at every point, and histories (`cut`, `torn`) turn its
  effects into exemptions; `sync` has two, so that a failed run follows a failed
  close. The inductive invariants are defined with their proofs.
* Risk limits: sizes 5 and 6 around a limit of 5 (tenths of a lot), 4 and 5 open
  positions around a limit of 5; NaN as a size, and as the level of a limit order.
* `sync` has no submissions, `orders` one, with one close and two deals, so that a
  run meets the workflow's own order and a foreign one; two submissions are in
  `orders_limit`. More together is out of TLC's reach. The proved theorems cover
  any number of all of them at once.
* `alerts` has a cooldown of 2 in 4 instants, and room for alert, recovery and a
  second alert; a message more is possible only through a race. `alerts_live`
  has two answers that turn both rules on and the market rule off again.
* `candles` has timeframes of lengths 1 and 2 over three instants, so that a tick
  closes one candle or both, and four messages: one handler waiting, a later one
  that passes it, and a full queue of two. Prices 100 and 102 make signals up and
  down at a threshold of 1 percent, 0 is a quote without prices.
* `feed` has a window of two and a retention of one over three minutes, so that
  minutes can be lacking, brought later, corrected and pruned, one row of the old
  format in the first poll's minute, and one call beside the websocket, so that one
  waits for the lock of the other; `OneLogin` is proved for any number. `Attempts` is
  two: one retry, and giving up.
* Symmetry: tickets, handlers, submissions, deals or evaluations are
  interchangeable in `tickets`, `orders` and `alerts`; no liveness run uses it.

The four violated runs are the findings of `PROJECT.json`, each against a
sentence of the repository's documents quoted there.

## Fairness

* `TicketExecution`: weak fairness for the end of each await of a handler. The
  snapshot has `wait_for` of 3 s, order and close calls the 5 s HTTP timeout.
  Nothing is assumed of Capital Trader.
* `CapitalTrader`: weak fairness of the reconciliation step while the loop exists.
  Each call has a timeout in its HTTP client, database calls are assumed to
  return or raise, and the loop sleeps 300 s. If the startup failed there is no
  loop, and the three liveness properties say so (`Unattended`). Nothing is
  assumed of the account or of users.
* `Notifications`: weak fairness of a coroutine that is not at an await. Awaits
  have HTTP timeouts, and asyncio resumes ready coroutines in turn, so one whose
  await has ended is not passed over for ever although others hold the loop in
  between: strong fairness of `Resume`. That an evaluation ever begins is not
  assumed.
* `MarketData`: Capital.com answers or refuses every login and call, the event loop
  runs what is ready, the recorder polls again after its sleep, and a price grows
  old once nothing is received. Failures are bounded by `MaxMishaps` and
  `Attempts`, so a login that fails for ever is not claimed to end well.

## Proofs

The theorems of `TicketExecutionProofs`, `CapitalTraderProofs`, `LedgerProofs`,
`MarketDataProofs`, `NotificationsProofs`, `AlertProofs` and `PricePipelineProofs`
hold for every value of the constants under the named assumptions of the modules (`TicketAssumption`,
`DataAssumption` and their like: the reserved value is no ticket or deal, names
do not clash, sizes are positive, proposals have the types of the tool).

Tickets. The promises are not inductive: that a second request needs a race or a
cut says nothing about a handler that has passed the check and not sent yet.
`IInv` adds what each waiting handler knows (`HandlersHaveTickets`), that requests
come from confirmed tickets (`RequestsConfirmed`), that a ticket outside the two
histories has one handler, is still approved while it runs and unsent while it is
checked (`ExecutedAlone`), and that requests have a handler or an event
(`RequestsTraced`). One lemma per action gives `Invariance`; `TypeCorrect`,
`NoSecondRequest` and `OrdersTraced` follow. `Refinement` shows that each step is
a step of `TicketContract` or leaves its variables alone. `OrdersObeyRules` rests on
`GatedInv` (a ticket with a request has a row, which the rules hold of and nobody
writes anew), on `RowFields` (no value of a row is NaN) and on `PayloadOfRules`, which
turns the rules into what the payload carries.

Capital Trader. `ClosedIsGone` rests on a snapshot that is older than the local
rows it is compared with. `MirrorInv` says why that is sound: a deal that is
`OPEN` locally and absent from the snapshot is gone, and gone is final, because
the rows are read after the snapshot, and only deals the account has shown are
ever imported. `CloseInv` says what a close knows, `OrderInv` that rows precede
requests and that stored identifiers come from answers. `Invariance` gives
`TypeCorrect`, `ClosedIsTrue`, `PlacedIsStored`, `SubmittedIsTrue`, and with the
step lemmas `ClosedForever`. `RunsEndMarked` and `DuplicatesComeFromRaces` have
small invariants of their own beside `IInv`: `SettledInv` (a run row that its run
has left open was left by a mishap) and `RaceInv`, by which two rows of one deal
that did not race are the same row. A deal is claimed for an import from the moment
its lookup found no row (`Claimed`), because the answer may be stored between this and
the import. `IdAssumption`, that no identifier is the empty one, is what the last needs.

`LedgerProofs` builds on these. `LedgerKept` is the refinement: one lemma per action
says which step of `TradeLedger` it is, or that it leaves the ledger alone. Beside
`IInv` it needs `OnceInv`: a submission whose request is still on its way has placed
nothing, and one whose call has not ended has no identifier yet; and `RaceInv`, by
which an imported row is of a deal of the account. A working order that the broker
cancels is a deal of its own kind, not a position that is gone, or the ledger could
not tell that only what has been a position is ever a row. `LedgerSound` proves of `TradeLedger` what the promises
amount to, and carries it over. `RunMirrorsSnapshot` is about a run and the
closes beside it: `MirroredInv` says at each step of the run what its snapshot and
the tables already agree on. A close ends a row but deletes none, and the rows to
close were read as `OPEN` after the import.

Market data. Session, feed and recorder share almost no state, so each has an
invariant of its own (`SessionInv`, `FeedInv`, `GoldInv`), and every step of the
composition is a step of each or leaves it alone (`PollSteps`, `OtherSteps`).
`FeedInv` counts: the loops and heartbeats that each phase of `connect()` allows.
`GoldInv` says of the file what `FinalCandlesKept` says, and of the draft that it is
what merging made of the file, pruned at some time that has come (`Drafted`): it may
be put in place later, when more has expired. No final candle of the file is of the
answer's own minute or later, so what an answer says of a minute that is over was
said before (`InFileReplaced`).

`ReadersRowsStay` is about the place of a row among those a request asks for, so its
proof counts. A merge leaves a row of the same key for each row that has not expired
(`RowReplaced`), and the rows ahead of one are ahead by their keys alone
(`BeforeByKey`). So each row that was ahead still has one ahead after the merge, one
for each key, and there are no fewer of them (`AheadKept`, by `KeysAmongSmaller`).
There may be more, because a candle that was lacking comes in: that moves a row to
a later page, never to an earlier one.

Alerts. `TypesKept` needs what is true of an evaluation at each of its steps
(`StepInv`): whoever sends or records holds a rule, and whoever stamps a rule has
an event to take the time from. The promises are inductive rule by rule: a step
leaves a rule alone (`Untouched`), or it is the step of the evaluation that has
come to this rule (`Touches`, `Takes`, `Dropped`).

* `RuleInv`: a rule that did not race is held by at most one evaluation, the row
  that one read is what the row still says until it works on it, and an active row
  has an alert without a recovery. It gives `RecoveriesHaveAlerts`.
* `MemoryInv`: the newest alert of a rule that neither raced nor was torn is in the
  row, or is being written there. It gives `AlertsAreRemembered`.
* `Spaced` and `Ordered`: the row's time, or the one about to be written, is that
  of the newest event, and no event is newer than the clock. They give
  `CooldownHolds`.
* `LateInv`: late events, and the evaluations that may still record one, are
  together at most the evaluations. It gives `LateMessagesBounded`.

That an evaluation ends is a liveness property, but its measure is proved
(`NotificationsProofs`): `StepsLeft` counts seven steps for each rule still held,
less those done with the current one. It is at most seven for each row the list may
have, and one (`PassesAreShort`, from `ListIsShort`), and whatever changes an
evaluation under way makes it smaller (`PassesOnlyAdvance`): a failed fetch, send or
write is never tried again in the same pass. What fairness adds in `EvaluationEnds`
is only that a step is taken.

Price pipeline. `IInv` is the types, the lengths that belong together and, for
`HandlerInv`, that what a waiting handler waits for is a closed candle. Seen from
the candles every step is one of four (`Steps`): no frame is fed (`Quiet`), an
event arrives (`Arrives`), the handler of one event feeds some frames (`Feeds`) or
the process ends (`Ends`); fed, a frame begins a candle, rolls over or adds
(`Takes`). The candle lemmas see only these, through the place of an event (`At`):
a step keeps all places (`SamePlaces`) or adds one (`NewPlace`).

* `QueueInv`: the messages in the queue have consecutive numbers up to the last that
  arrived, which gives `QueueKeepsNewest`.
* `Alternating`, `Delivered`, `Overtaking`: signals of one life alternate, the stream
  holds exactly the delivered ones, and a delivered signal before which one is still
  being sent makes that one overtaken. `StreamInOrder` looks at the signal after the
  first of two equal neighbours.
* `TimeInv`, `TickInv`: events are in the order of the clock and handlers start in
  this order; what is in a candle was fed, and the first event gave it its time.
* `RowInv`: closed candles are in the order of their times and before the clock's
  bucket; without an open candle, no event still to be fed is as early as a closed
  one. That is what a restart needs, after which no handler is left, and gives
  `OneRowPerTime`.
* `CountInv` and `OrderInv`: a place per event; an event that a later one passed is
  late. They give `EventsCountedOnce` and `MisplacedWereLate`.

Every invariant and every action property of the passing runs is proved, and both
refinements. Only model-checked: the liveness properties, which need fairness and
`ENABLED`.

## What is left out of the models, and why

* Numbers. Sizes are exact: the rounding of `Numeric(10, 2)` is listed as a hazard.
  Proposals have the types of the tool's definition: texts in place of numbers are
  left out.
* Modes `paper` and `shutdown`, which no code sets; `transition()`,
  `TradingService.submit`, `record_loss` and `reset_daily`, which no code calls.
  The agent's `mode` is stored and shown, and no guard consults it.
* A broker snapshot is complete when it succeeds: the client raises for every
  status but 200 and 201. An answer to an order carries at least one identifier.
* Where a reconciliation run looks up a position row or the one row of an order and
  then writes it, this is one step: only the run creates or resizes position rows, and
  a workflow writes its row no more once the identifier is stored. The import of an
  order without a row is two.
* Texts, warnings, logging, `last_checked_at`, `last_value`, the test message.
* Candles have no prices: which events they hold, in which order, decides open,
  high, low and close. The trade log's copy of a signal is written by a task of the
  same form as the bridge's; nothing publishes order events in this flow.
* Of the health report, the pings of database and Redis, the session's expiry and
  the part of reconciliation are taken to be healthy: that is the case in which a
  dead feed could go unnoticed.
* A deployment without broker credentials, which can make no client, and
  `BrokerWebSocket.close`, which no code calls.

## Not modelled

* **Canvas** reads a study portal and touches nothing of the trading system. Its
  one race, two refreshes of one token, is listed as a hazard.
* **Research backtest**: one pure function over floating-point numbers (averages,
  returns, a Sharpe ratio), which TLC's integers do not hold.
* **Agent memory, read-only tools, pages and dashboards**: rows or views without a
  protocol. The chat loop is sequential and keeps no state between its tools; the
  tools that change tickets and rules are actions of their modules.
* **Routes and proxy of Capital Trader, consumers, scripts, migrations, browser
  extension**: they pass on what the modelled services return.

## Plan

The modules are written, and their safety properties proved. What is left:

1. Sizes in units finer than the two decimals of the tables, so that the rounding
   of `Numeric(10, 2)` can be stated and proved about.
2. Abstract specifications of the notification engine and of the price pipeline,
   with the proved invariants as the steps of their refinements.
