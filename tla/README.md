# quantcore: a verification development

TLA+ models of the execution core of quantcore (Go): the engine that trades a
two-leg pair through a broker that fills, delays, rejects, forgets and kills
orders; the limiter that shares the broker's placement quota between opening
clips and mandatory hedges; the placement loop that keeps one intent from
becoming two orders when answers are lost; and what carries all this: the
connections and their forced reconnect, the market-data and trade streams, and
the monitor of the trading schedule. TLC checks the models on small instances;
TLAPS proves their invariants for every value of their constants.

    tlc -workers 2 -config ExecEngineLive.cfg MCExecEngine
    tlapm OrderAccountProofs.tla    (ExecEngineProofs takes some fifteen minutes,
                                     ExecEngineCapProofs ten, the others one or two)

## The system

| part | state | operations | talks to |
|---|---|---|---|
| **engine** `strategies/execengine/engine*.go` | working clip, accounts of its own orders (`own`), unconfirmed takers (`pending`), `now`, backoff | `OnState`, `PullIfUnwanted`, `OnBook`, `OnFill`, `OnOrderStatus`, `OnTick`, `Reconcile`, `Halt`, `CancelClip` | Maker/Taker (broker), Decider, FillSink, Limiter, recovery machine |
| **order registry** `orderregistry` | per order: placed, folded, seen, credited, final, deferred | the arithmetic of fills, cancel acks and taker settlement | engine only |
| **recovery machine** `recoverymachine` | halted, suspect, unverified, impaired, dead streak, retire queue, hedge debts | flag transitions, queueing, pacing | engine only |
| **quota limiter** `limiter.go` | remaining, resetAt, known, totalSpent, epoch | `Allow`, `Spend` (engine), `Snapshot`, `Set` (refresher) | engine goroutine, `RefreshQuota` goroutine, broker metering |
| **broker adapter** `finambroker` | client-id counter | placements with client-id resolution, cancel/status, reconcile reads, quota polling | Finam API |
| **quote book, hedge manager** | touches and their times; the Decider | touch lookups, `Peek`/`Decide` | engine |
| **trade-id dedup** `dedup.go` | every id seen in the life of the process | `Seen` | runner, ahead of `OnFill` |
| **auth** `trade/finam/auth.go` | token, trading and streaming connection, streak of failures | `NewClient`, the auth monitor with `reconnectTrading`, `GetConn`, `Close` | every RPC |
| **connection** `grpcclient` | ready flag and channel, closed flag and channel | `newClient`, `monitor`, `setReady`, `GetConn`, `Close` | auth |
| **streams** `orderbook.go`, `orderstream.go`, ... | a book, a channel, a count of drops, a subscription | `reconnectLoop`, `streamBook` (resync, heartbeat), `sendKeepNewest`, `runTradeStream` | runners |
| **schedule** `assets.go` | cached sessions, refresh deadline, timer, last report | `monitorMarketOpen`, `attemptFetch`, `nextWake` | runners |
| **brokersim** | orders, accounts, books, quota window, fault table | the broker's half of every call | tests; here the reference for what a broker does |
| **modlog**, metrics | none that matters | output | all |

The engine runs on one goroutine: a handler is not interrupted by another one.
What is concurrent is everything around it. The broker executes an order while
a cancel is under way; the fill stream, the order stream and the unary answers
are three unordered channels that tell the same story; an answer may never
come. The hard behaviours are therefore the orders in which a fill event, a
cancel ack and a status for the same order can arrive, and what a handler does
when one of its several calls fails halfway. The limiter is the one object two
goroutines share: its mutex makes each method atomic and leaves the race
between a poll's answer and the spends it does or does not include.

Underneath, goroutines do run into each other. A readiness gate is two atomics
and a channel that a monitor, any number of callers and a `Close` read and
write in their own order, and only part of that is under a mutex. The auth
monitor may replace the trading connection while callers wait on it and while
the client is being closed. A stream's reader makes room in a channel that its
consumer drains at the same time. The schedule monitor is one goroutine, and
its difficulty is time: two deadlines, a cached window that runs out, and a
call that may hang through the boundary it was meant to learn of.

What makes each part correct:

* **registry**: every executed lot is booked once and paired once, whichever
  of the three channels reports it first, and a dead taker leaves no credit;
* **engine**: the two legs always balance with what is still owed; no order
  whose outcome is unknown loses its owner; the position stays inside the
  Decider's cap; nothing opens on a guess; a halted engine places nothing; the
  account always comes back to the hedge ratio;
* **limiter**: it never believes in budget the broker has not got, so an open
  it grants leaves the hedges their reserve;
* **adapter**: one intent becomes at most one order at the broker, whatever
  round of the retry loop was ambiguous, and what a call reports is true of it;
* **connection**: a closed gate never becomes ready again, `GetConn` tells the
  truth about the time of its call, no waiter is stranded on a channel that
  was replaced;
* **auth**: a reconnect, failed or not, never leaves the client without a
  usable connection, and what it replaced is taken down;
* **streams**: the newest book is never the one to be dropped and books keep
  coming; every own trade arrives and is booked once, through replays, repeats
  and silent streams;
* **schedule**: an outage is not reported as a closed market, the report
  follows the sessions, and the cache heals within a bounded time.

## Modules

| module | models | checked by |
|---|---|---|
| `OrderRegistry` | `OrdAcct` and the lot arithmetic of `OnFill`, `retireOrder`, `finishRetire`, `settleTaker` (no variables) | all runs of the two below |
| `OrderAccount` | one order from placement to its last event: the engine's account beside the broker's order | `OrderAccount` |
| `OrderLedger` | the abstract promise: executed lots are booked once and never taken back | refinement, `OrderAccount` |
| `OrderAccountProofs` | theorems about `OrderAccount` | tlapm |
| `RecoveryMachine` | the recovery machine (no variables) | `ExecEngine*` |
| `ExecProcedures` | the engine's procedures as operators from a state to the set of states they can end in | `ExecEngine*` |
| `ExecEngine` | the engine's handlers, the broker and the streams; composes the three above | `ExecEngine*` |
| `MCExecEngine` | the strategies (`Deciders`) of the instances | `ExecEngine*` |
| `ExecEngineProofs` | theorems about `ExecEngine`, under faults | tlapm |
| `ExecEngineCapProofs` | theorems about `ExecEngine` at a dependable broker: the cap and the Decider's book | tlapm |
| `QuotaLimiter` | the limiter, the engine's placements, the refreshers and the broker's window | `QuotaLimiterBudget` |
| `QuotaLimiterProofs` | theorems about `QuotaLimiter` | tlapm |
| `Placer` | `placeResolved`, concurrent calls, the requests under way and the broker's orders by client id | `Placer` |
| `Placement` | the abstract promise of a placement call | refinement, `Placer` |
| `PlacerProofs` | theorems about `Placer` | tlapm |
| `ReadyGate` | any number of connections: transport, gate, monitor goroutine, `GetConn` and `Close` | `Connection*` |
| `TradingConn` | the client around its gates: `NewClient`, the auth monitor, `reconnectTrading`, `Close` | `Connection*` |
| `TradingConnProofs` | theorems about `ReadyGate` and `TradingConn` | tlapm |
| `Streams` | the broker's side of a subscription, the reader, the channel and the consumer, for books and for own trades | `Streams` |
| `MCStreams` | the books of the instance | `Streams` |
| `StreamsProofs` | theorems about `Streams` | tlapm |
| `MarketSchedule` | `monitorMarketOpen` against a broker that revises its sessions and goes away | `MarketSchedule` |
| `MCMarketSchedule` | the days of the instance | `MarketSchedule` |
| `MarketScheduleProofs` | theorems about `MarketSchedule` | tlapm |

`ExecEngine` and `OrderAccount` share `OrderRegistry`: the arithmetic proved
for one order is the arithmetic every order of the engine model uses. `Placer`
refines what `ExecEngine` takes for granted: a placement call is one step there,
with the outcomes `Placement` allows: placed; refused; in doubt, with or without
an order at the broker; and refused after a doubtful round, which does not
exclude an order either. The `ghost` fault is the order nobody knows of, and
leaves open whether the error claimed a refusal. `TradingConn` extends
`ReadyGate` with the client that owns the gates: each step of the client that
touches a gate is a step of `ReadyGate`. `Streams` is why `ExecEngine` may deliver a fill
event late but counts on each being booked once: `TradesOnce` and
`TradesArrive` are what it assumes under `StreamDelivers`.

### How the state corresponds

`ExecEngine` keeps `own`, `pending`, `clip`, `book` (the lots committed to the
Decider) and `rec` (the recovery machine) under the names of the code. `sink`
is the signed lots handed to the fill sink per leg; a Decider with a lot book
(spread) reports `book` as its position, one without (basis) reports
`sink["A"]`. `decider` is the strategy that drives the engine, one of
`Deciders`: the clip shapes its intents may name, the lots of an opening clip,
the cap it sizes them against. `orders` is the broker's side: size, `exec`
executed, `sent` of those delivered on the fill stream, `live`, and `told` (its
death delivered). An order's id is its index; id 0 is the code's empty id.

A handler makes several broker calls and branches on every answer. Each
procedure is an operator returning the set of its possible final states, one
per combination of answers, so a handler with its trailing calls is one
action. Executions between the calls of one handler are in general not
interleaved: a handler asks about an order at most once, and about an order that
was there before, so such an execution can be moved before the handler or after
it. The exception is `openClip`. When the second leg of a dual clip cannot be
placed it retires the first leg, which it has just placed itself, and hedges
what that order filled in between (`engine_clip.go:427-432`). There the
broker's step belongs to the handler: `UnwindFirstLeg` asks about the order after
any execution (`Meanwhile`).

The broker's misbehaviour is a budget of `MaxFaults` drawn from `FaultKinds`:

| kind | what happens | in the code |
|---|---|---|
| `reject` | a placement is definitively refused and left nothing | `NewDefinitiveReject` |
| `silent` | a call gets no answer; a cancel may or may not have worked, a placement left nothing resting | `MaybeDelivered`, `retireOrder` |
| `ghost` | a placement fails for the engine, in doubt or refused, and the order rests | `placeResolved` giving up, or taking the refusal of a later round for the answer |
| `blind` | a placement succeeds with an empty id | `commitTakerPlacement`, `placeLeg` |
| `async` | a cancel is acknowledged, the order still rests | `PENDING_CANCEL` |
| `kill` | the broker ends an order short of its size | `IsDeadStatus` |
| `dup` | a fill event without a trade id comes twice, so the dedup lets it pass | `TradeDedup.Seen` |

Abstractions. Prices, cash, `Amend` and the quote book: whether the touch
moved, a book is stale, the fill timeout passed, a retry or a poll is due is
chosen freely, so every timing the code could meet is included. The dead
streak saturates at its limit, which is all it is compared with. `PlacedAt`,
`LastProbe` and `DeadSeen` of a taker are one flag, `overdue`.

`ReadyGate` keeps the order of every access the code makes outside its mutex.
`setReady` is two steps, the store of the flag and the change of the channel,
with `lock` held between them; `Close` is four (flag, `closeOnce`,
`setReady(false)`, the transport); `GetConn` is one step per check. A channel
is its generation number (`readyCh`), and `signalled` holds the generations
that were closed. `late` and `up` of a call are history: was the client closed
when it began, and was the gate ready at some instant of it.

`TradingConn` keeps the pointers the code passes around: `cur` is
`grpcClient`, `new` and `old` are the locals of `reconnectTrading`, `target`
the connection `Close` has read. Time is left out: an attempt fails and a
streak reaches the threshold when they like, but never at the first failure,
which in the code only starts the streak. The streaming connection is never
replaced; it is `stream`, dialled, open or closed.

`Streams` takes a book as the set of its price levels, a response as a sequence
of deltas or of trades, and chooses at the start which `kind` of subscription
it is. `newest` of a book and `gap` (was the book before it dropped?) are
history. A sequence of broken and silent streams is a budget, `MaxFaults`.

`MarketSchedule` keeps time relative so that a run never ends: `hour` in the
day, `window` ticks of cached sessions ahead, what is left of `wake` and
`refresh`. `late` counts the ticks for which the report has disagreed with the
cached sessions, `steady` those for which the broker has answered with one
timeline; both are history and bounded properties are stated with them, which
says more than liveness would: not only that the cache heals, but when.

## Runs

| run | instance | shows |
|---|---|---|
| `OrderAccount` | size up to 4 | the six properties of the account |
| `QuotaLimiterBudget` | limit and budget 4, margin 1, window 2, clock to 4, 5 placements, one refresher | `Conservative`, `GrantsKeepReserve` |
| `ExecEngineClips` | lot book; a dual clip of 2 lots, or dual, LegB-solo and taker-only intents of 1 lot with 2 moves | `WithinCap`, `BookMatches`, `SettledTruth`, `OpensOnTruth` |
| `ExecEngineRatio` | ratio 1:2, ladder step 1, solo and taker, 2 of ghost/silent/blind/async/dup/reject, halt | `LedgerBalanced`, `HaltAbsolute` |
| `ExecEngineLive` | dual, 2 of silent/reject/kill, shutdown, fairness | `NothingForgotten`, `LedgerBalanced`, `SettledTruth`, `EventuallyHedged`, `ObligationsMet` |
| `Placer` | 2 concurrent calls, 3 rounds, 2 probes, a stranger's order or none | `AdoptedIsOurs`, `ImplementsPlacement`, `EveryCallReturns` |
| `Connection` | 2 trading connections, 1 caller, the 2 who may close one, 1 loss of the transport | `ClosedStaysDown`, `AnswersTrue`, `ChannelMatchesFlag`, `CurrentLives`, `NobodyStranded`, `LooseEndsTied` |
| `Streams` | 3 books or 3 trades, 2 responses under way, a channel of 2, resync after 2 crossed books, 3 faults | `NewestKept`, `TradesOnce`, `BooksFlow`, `TradesArrive` |
| `MarketSchedule` | a day of 12 ticks with 3 possible timelines, answers of 2 days, safety net 5 to 9, retry 2 or 3, calls of up to 2 | `WalkKeepsTime`, `CacheHeals`, `OutageKeepsView` |
| `ExecEngineLostCancel` | dual, 2 lots, 1 silent | **violated**: `WithinCap` |
| `PlacerRefusal` | 1 call, 2 rounds, 1 probe | **violated**: `RejectedLeavesNothing` |
| `ConnectionLeak` | as `Connection` | **violated**: `NothingLeaks` |

`WithinCap` is about the broker's position with every taker that awaits its
confirmation counted as executed. So the Decider counts it: the sink is credited
when a taker is placed (`engine_hedge.go`, `placeTaker`), and a clip is sized
against that. Without those takers one leg may lag the other for a confirm
window, which is no fault of the sizing.

`OpensOnTruth` is checked at a broker that does what it is told: late and partial
events, cancels of re-pegs and of closes, takers past their window. For one that
leaves cancels unanswered, refuses hedges and kills takers it is a theorem
(`ClipsOpenOnTruth`). TLC agrees on two moves of a LegB-solo strategy:
`ExecEngineLive.cfg` with `Spec`, `DefaultMode = "soloB"`,
`Deciders <- TwoMoves` and `OpensOnTruth` as its property.

The passing runs also check the type invariant of their module where one is
listed in the .cfg.

The bounds. A clip of 2 lots is the smallest that can be partly filled on both
legs by different amounts, which is what the counterpart and completion logic
branches on. `ExecEngineLive` spends its two faults on one clip in every way: a
second leg that is refused or gets no answer beside a first that fills, with the
retire or the hedge failing too. 1 lot is enough where the question is who owns
an order, and for what follows an open: a re-peg or a close. A strategy's `moves` (placements the
engine makes by choice: opens and re-pegs; never hedges) is 2 where the
question is what happens after the first clip and 1 otherwise. Two faults cover
a failure and a failure of its repair. `TakerDeadLimit` is 3 in the code;
`ExecEngineLive` sets it to 2, so that two kills reach the slow re-hedge.
`Placer` has the code's 3 rounds; of its 3 probes 2 are kept, which already has
a first, a last, and one that changes nothing. `PlacerRefusal` needs a first
round and a later one. The limiter's clock spans two
rollovers of a window of 2, so an answer can outlive its window, and 5
placements exceed the budget of one window.

Two connections are one replacement, with the first dial, the redial and their
failures; `Close` and the auth monitor may close the same one. One loss of the
transport takes a gate down and up again, which is what a stale reading of the
monitor and a replaced channel need. More connections, callers, closers and
losses are left to the theorems. A channel of 2 has an oldest book that is not
the newest, and the consumer can empty it while the reader makes room; three
books are what it takes for a missed REMOVE to cross the book, and two crossed
ones (50 in the code) distinguish "not yet" from "resync". Three faults are a
missed delta or a repeat, a silence and a break. The schedule's day has every
kind of boundary (a pause inside the day, an evening session, midnight, a day
off); an answer reaches further than the longest safety net, as in the code
(three days against hours), and the retry is shorter than the safety net and
longer than a tick.

Deadlock is checked in every run of `ExecEngine` and of `QuotaLimiter` and in
`MarketSchedule`. It is off for `OrderAccount` (an order ends), `Placer*` (calls
return and orders end), `Connection` (a closed client has nothing left to do)
and `Streams` (after its last trade and fault an account may be quiet).

Fairness. `ExecEngine`'s `LiveSpec`: the runner's ticker calls `OnTick` for ever and a retry
and a poll come due together again and again; time passes a taker's confirm
window; an order that crosses the book is executed unless it was killed.
`EventuallyHedged` adds that the trade stream delivers or that the fill timeout
fires: either is enough, neither is assumed otherwise. Nothing is assumed of
makers, of the signal, of the books, or of the order stream, which after a
reconnect tells of active orders only and forgets a death. The engine's faults
are finite: with a broker that refuses for ever nothing is promised, as in the
code. `Placer` assumes that an RPC's deadline expires and that the loop runs,
and nothing of the broker. `TradingConn` assumes that goroutines run and that a
dial ends one way or the other (its five seconds), and nothing of the
transport: it need never come up. `Streams` assumes that goroutines run, that
the heartbeat of a silent stream fires and that the market goes on moving;
`TradesArrive` also that no stream of trades, which has no heartbeat, stays
silent for ever. `MarketSchedule` needs none: its timers are part of the
clock's guard, and its properties are bounds.

### What the violated runs show

* `ExecEngineLostCancel`. `engine.go:451-454` promises that at the maker's
  first fill the pair lands at most at the target, "never doubling when both
  legs fill". With no answer to the counterpart's cancel the retire is
  deferred and counts 0, the maker's fill is hedged in full, and when the
  counterpart turns out to have filled, its lots are hedged again: both legs
  end past the target. They end *equal* (`LedgerBalanced`, `EventuallyHedged`
  hold), so the account is hedged and too large.
* `PlacerRefusal`. `placeResolved` takes a non-ambiguous error of any round for
  the fate of the call: "the broker answered: rejected, nothing rests"
  (`finambroker.go:217`, and so `errors.go:27`). The answer is to the last
  request. The first request is taken and its answer lost, the order is not on
  the list yet or no longer, and the retry is refused by something that stands
  ahead of the id check, as an expired token does in the simulator
  (`brokersim/orders.go:37`, the id check is at 70-75): a definitive reject, and an order at
  the broker. Likewise when the first request is still under way and arrives
  after the refusal. What does hold of a refusal is in `Placement`: it is the
  broker's own, and one of the first round leaves nothing.
* `ConnectionLeak`. `Close` "tears down BOTH connections" (`auth.go:301-302`),
  but `reconnectTrading` looks neither at `closed` nor at `stop` before it
  swaps. `Close` reads the old connection, the auth monitor puts the new one in
  its place and closes the old one a second time, then it sees `stop` and ends.
  Nobody closes the new connection; its transport and its monitor goroutine
  live as long as the process. `LooseEndsTied` holds beside it: everything that
  was *replaced* is taken down.

### Other divergences between code and comments

These were found the same way. They are kept here with the setting that shows
them instead of a run; the properties are in their modules.

* A pair that was killed while it filled. `OnOrderStatus` answers a death in
  the clip with `CancelClip`, also when the maker had begun to fill. Its comment
  speaks of an order that dies "WITHOUT filling" (`engine_orders.go:9-11`), and
  `abandonClip` calls the equalise-without-commit treatment the old handling
  that left the Decider's book behind (`engine_clip.go:166-170`). For a
  lot-book Decider the realised pair is not booked. `MCExecEngine` with
  `Deciders <- TwoLots`, `ForceClose = TRUE`, `KeepPartial = FALSE`,
  `LotBook = TRUE`, `FaultKinds = {"kill"}`, `MaxFaults = 1` and the rest as in
  `ExecEngineClips.cfg`: `BookMatches` fails.
* The limiter without its refresher. The fail-safe budget is said never to
  starve a mandatory hedge "even if the refresher is absent or dies"
  (`limiter.go:21-22, 78-80`). The local window starts at the first call after
  the last one ended (`limiter.go:153`), the broker's at the first request it
  meters; out of phase, the local budget refills inside a broker window.
  `QuotaLimiter` with `Pollers = {}`, `MaxNow = 5`, `MaxSpent = 6`:
  `EveryGrantKeepsReserve` fails.
* The stalled walk. The two events of `monitorMarketOpen` are said not to block
  each other, so "a Schedule outage can never stall the local walk"
  (`assets.go:240-249`). The fetch is made on the loop's own goroutine: while it
  hangs, and when it fails until the retry, a boundary goes unnoticed.
  `MarketSchedule.cfg` with `WalkNeverStalls` as the invariant fails;
  `WalkKeepsTime` says by how much.
* The drop counter. "A consumer that sees it rise between two snapshots knows
  the book it now holds does not continue the book it held"
  (`orderbook.go:66-68`). A snapshot carries the count from *before* its own
  send (`orderbook.go:396`), so the rise shows one snapshot late: on one that
  does continue, while the gap itself went unmarked. `MCStreams` with `Spec`,
  `MaxDrops = 3`: `DropsTellGaps` fails. The counter also starts anew with
  every subscription.

Smaller ones, without a model of their own:

* `engine_recovery.go:160-162` says a second divergent pass "trips the
  kill-switch", the code suspends (its own comment below says why).
* `engine_hedge.go:110-111` and `engine_orders.go:66-68` speak of halting where
  the code now defers.
* An engine that is halted while retires are queued never asks about them again
  (`serviceImpaired` returns early; so does `OnOrderStatus`), although
  `retireOrder` promises to re-ask "however long". `ObligationsMet` is
  therefore checked with `MayHalt` off.
* A redial that fails is said to be "left for the next failed auth attempt"
  (`auth.go:465-466`); `handleAuthFailure` starts the streak anew, so the next
  attempt comes a full threshold later (`auth.go:434-436`).
* Every long-lived stream "must" use `GetStreamConn` (`auth.go:283-286`); the
  account stream uses `GetConn`, and a full channel drops its newest update.
* `reconnectLoop` has no end: after `Close` it goes on asking a closed client.
* A `GetConn` that read the pointer just before a swap may answer `ErrClosed`
  though the client is open; the caller's retry finds the new connection.

## What is proved

`OrderAccountProofs`, for an order of any size:

* `AccountInvariant`: `IInv = TypeOK /\ BrokerInv /\ MakerInv /\ TakerInv /\
  OnceInv` is inductive. None of the checked invariants is inductive alone:
  `BrokerInv` relates executed, undelivered and life; `MakerInv` ties
  credited, folded, seen and final (a retired maker's credit is the larger of
  the ack's count and the stream's); `TakerInv` does so for takers; `OnceInv`
  says, of streams that did not repeat, that what was seen is what was
  executed and delivered.
* From it `TypeCorrect`, `CreditMirrorsHedgeHolds`, `StreamExactHolds`,
  `RetireExactHolds`, `TakerExactHolds`.
* `LedgerRefinement`: `Spec => ImplementsLedger`, by cases on the actions,
  each a step of `OrderLedger` or a stutter under `IInv`.

`QuotaLimiterProofs`, for every limit, window, margin, budget, set of burst
sizes and set of refreshers (the budget no larger than the broker's limit,
which `limiter.go` calls conservative by construction):

* `QuotaInvariant`: `IInv` joins `TypeOK` and `Conservative` with `BudgetInv`
  (belief never exceeds the broker's limit), `LegacyInv` (a limiter without a
  budget knows of no window before its first answer), `RolloverInv` (a broker
  window that started this instant and already has a booked placement is one
  the limiter has rolled into) and `AnswerInv` (an answer about the current
  window errs only by placements in flight or booked since its snapshot).
  The last one is the point: a poll's answer is safe not because of when it
  arrives but because of what `Set` subtracts from it and the answers it
  refuses. The legacy limiter (`WindowLimit = 0`) is covered by the theorems
  only; the run is about the fail-safe one.
* From it `QuotaTypeCorrect`, `ConservativeHolds`, `GrantsKeepReserveHolds`.

`PlacerProofs`, for any number of concurrent calls, rounds and probes:

* `PlacerInvariant`: `IInv = TypeOK /\ OneOrderPerCID /\ AdoptionInv /\
  SuccessInv` is inductive for every broker. `OneOrderPerCID` is the pivot: a
  call's orders carry the one id minted for it and the broker keeps ids apart,
  so what a call made is empty or a singleton (`MadeIsOne`, `FreeMeansNone`).
* From it `PlacerTypeCorrect` and `AdoptedIsOursHolds`.
* `RefusalInvariant`: `RInv` adds `FirstRoundInv` and `DenialInv`, again for every
  broker, one that refuses ahead of its id check included. `FirstRoundInv` has to
  speak of the requests under way, not only of the orders: what makes the refusal
  of the first request the whole truth is that the call has no other request
  that could still be taken. `DenialInv`: no call is reported refused that the
  broker refused nothing of.
* `PlacementRefinement`: `Spec => ImplementsPlacement`, from the two.

`TradingConnProofs`, on the gate, for any connections, callers, closers and
losses of the transport:

* `GateInvariant`: `GateInv` joins the types with three parts. `Life` orders a
  connection's life: nobody touches one that is being dialled, and once a
  `Close` has lowered the flag it stays down, because whoever raises it looks
  at `closed` under the mutex that the lowering takes. `Signal` ties flag,
  mutex and channel together, in the middle of a `setReady` too. `CallOK` says
  what a `GetConn` may conclude at each of its points.
* From it `ClosedStaysDownHolds`, `ChannelMatchesFlagHolds` (no channel is
  closed twice, which in Go is a panic) and `AnswersTrueHolds`.

`TradingConnProofs`, for any number of connections, so of reconnects:

* `ConnInvariant`: `ConnInv` adds to `GateInv` where each connection is held
  (`Places`): the one being dialled is nobody else's, the one being closed is
  not current, and until `Close` nobody closes the current one. From it
  `ConnTypeCorrect` and `CurrentLivesHolds`.
* `ClientGateHolds`: the gate's three results hold of the client's connections.
  Each step of the client is a step of each gate's protocol or leaves the gates
  alone (`GateSteps`, by cases), so they need no second proof.

`StreamsProofs`, for any books, trades, capacities and faults:

* `StreamInvariant`: `StreamInv = Flow /\ TypeOK /\ Newest /\ Once`. `Flow` types
  what travels for the kind at hand. `Newest` says where the newest book is:
  with the sender, else at the end of the channel, else with the consumer; it
  is needed because `sendKeepNewest` and the consumer take turns in any order,
  between the attempt to send and the eviction too. `Once` makes the dedup set
  the set of what was booked.
* From it `StreamTypeCorrect`, `NewestKeptHolds`, `TradesOnceHolds`.

`ExecEngineProofs`, for any strategies, clip sizes, hedge ratio, number of
orders, faults and retries:

* `Invariant`: `Inv` is inductive. It has four parts. `Good` relates every
  account to the broker's order (`AcctOK`: counts within the order's size; the
  credit is what is known of the order, or for a taker its whole size until it
  is told otherwise; what was learned of the order's end is true), makes
  `pending` exactly the takers without a final count, queues every deferred
  retire, and keeps the engine impaired while anything is queued. `ClipOK`
  makes each leg of the clip a maker of its size on its side, and says that
  no maker of unknown outcome works outside the clip, nor, once one of them
  fills, beside it. `Caught` says that no fill event on a tracked order is lost,
  and the last part bounds the strategy's moves. None of the
  checked properties is inductive without `AcctOK`: what a late event or a
  late answer adds is the difference between two counts of one order, and the
  lemmas about `OnFill`, `retireOrder`, `tryDeferredRetire` and `settleTaker`
  need it to be what was not credited before.
* From it `TypeCorrect`, `NothingIsForgotten` and, through what a step
  guarantees (`NextStep`), `HaltIsAbsolute`.
* `LedgerIsBalanced`: `TerminalAcksHold => (Spec => []LedgerBalanced)`. `Net` of a
  state is ratio-weighted lots of both legs with what is still owed; each
  procedure's contract says what it adds to `Net` (nothing for `Settles`, the
  lots it hedges for `Hedged`, what the retire credited for `Retired`, ...), and
  for each handler they cancel. For the second leg that cannot be placed
  (`UnwindOutcome`) that means: what the first leg's retire credits is what the
  hedge behind it crosses or owes.

* `SettledIsTrue`: `"dup" \notin FaultKinds => (Spec => []SettledTruth)`, every
  other fault included. `Good` contains `Tallied`: where every order has an
  account, the sink of a leg is the signed sum of the credits of its orders. A
  procedure changes one account and the sink by the same lots (`TallyAmended`)
  or opens one account with the order it places (`TallyTracked`); an order that
  rests without an account leaves a gap that nothing closes, so `Settled` is out
  of reach from there on. `Caught`, a conjunct of `Inv`, says that no fill event
  on a tracked order is lost, which settles a maker whose cancel was
  acknowledged early. A settled account's credit is then its order's
  executions, the two sums agree term by term, and the hedge ratio follows from
  `LedgerIsBalanced`. With `dup` a repeated event of a settled maker is credited
  past its executions, which is what the trade-id dedup is there to prevent.
* `ClipsOpenOnTruth`: `Spec => OpensOnTruth` without `ghost`, `blind`, `dup` and
  `async` (an order nobody accounts for, a lot credited twice, a cancel that is
  acknowledged before the order's last fill: each can leave the ledger false past
  every gate until a reconcile notices it). A broker that rejects, kills, refuses to answer or loses
  answers is covered. Every handler but `OnState` leaves an idle clip idle, so
  the contracts say that too, and what `OnState` opens it opens past its gates:
  the engine is not impaired, so no retire is queued and every maker is final,
  and no overdue taker is unconfirmed. Every account is then credited with its
  order's executions and what it awaits (`Vouched`, by `GatesVouch`), opening
  only adds makers of which nothing has executed (`Adds`), and the three sums
  agree term by term (`SumsPlus`).

`ExecEngineCapProofs` has what the engine guarantees of each leg by itself:

* `CapIsKept`: `Dependable => (Spec => []WithinCap)`, and `BookIsTrue`:
  `Dependable /\ NeverHalts => (Spec => []BookMatches)`. `Dependable` is a broker
  without the faults of `FaultKinds`, and, where the Decider keeps a lot book, no
  kept partial and no shutdown of a strategy inside a clip. Fills in any split,
  events in any delay, re-pegs, closes, confirm timeouts, a limiter's refusal
  and any number of clips remain. The hypotheses are needed: the violated run
  shows a lost cancel answer taking a leg past the cap, and a clip that is
  cancelled (a shutdown, a halt, an opening clip that keeps its partial) hedges
  what its cancels caught without `commitClip`, so a lot book is behind from then
  on and sizes its next clip too large. A Decider that reads the fill ledger
  (`LotBook` off) is not, and needs no hypothesis but the broker's.
* The inductive invariant, on top of `Inv`, is `CapInv`. While the engine runs it
  is `Sized` with `Net = 0`. `Sized` has two parts: `Fits`, that with the clip's
  realised lots taken off and with its whole target added the position stays
  inside the cap, that a lot book holds what was realised before the clip, and
  that nothing is owed; and `Rested`, that each maker at work knows exactly the
  fills the clip counts for its leg. After a halt it is what the clip at the
  halt bounded (`HeldB`): the makers are retired and nothing hedges what they
  still filled.
* The contracts of `ExecEngineProofs` bound both legs together, and two legs that
  drift alike still balance. So each procedure has a second contract for each
  leg alone (`Bought`, `Quits`, `Levels`, `Still`, `Drift`), and a handler keeps
  `Sized` by them. The completion of a clip is the step where they meet: what one
  maker filled past the other is bought on the other leg, no more than the
  target.

The engine's procedures are sets of outcomes, one per combination of answers,
so they cannot be proved about action by action. Each has a lemma with its
contract: for every outcome `t` of the procedure from a `Good` state `s`, a
relation between `s` and `t`, proved from the relations of the procedures it
calls (`Evolve`, `Calm`, `Aside`, `Hedged`, `Settles`, `Retired`, `Quiet`,
`ClipSettled`, `Opened`, `Paired`, `Handled`). The loops (`takerRetry`,
`shrinkTaker`, the poll of pending takers, the two queues) are recursive
functions; `LoopExists` gives the outcomes after each round and `LoopStays` that
the contract survives them, and `SumUnique` makes `SumOnLeg` the sum that the
lemmas about a changed queue or account need. Both rest on first-order induction through a
well-founded order (`Induct`).

`TerminalAcksHold` excludes one combination of faults, `dup` with `kill`: a taker
that a terminal answer settled at less than its size was killed, and a fill
event without a trade id that comes twice then counts lots it never had. The
code credits them and hedges nothing, as its comment at the ceiling of `OnFill`
expects ("the book may be over-hedged (reconcile will confirm)",
`engine.go:378-392`). Either fault without the other is covered.

`MarketScheduleProofs`, for any day, timelines and delays:

* `ScheduleInvariant`: `ScheduleInv` is inductive. `Timer` ties the armed wake to
  the next boundary of the cached window, `OnTime` says for how long a report may
  disagree (the fetch under way, or the retry after it), and `Healing` bounds the
  age of the view plus what is left of `Wait`, the time to the next answer: a
  potential that falls with every tick and that nothing but an outage raises.
* From it `TypeCorrect`, `WalkKeepsTimeHolds` and `CacheHealsHolds`; the last by
  `WindowAssumption`, that an answer reaches further than two safety nets and a
  call. `OutageKeepsViewHolds` follows from an answer with sessions covering the
  instant it arrives (`AnswerCoversNow`, by `ScheduleAssumption`).
* The clock's arithmetic modulo the length of the day is not the provers' own;
  `Quotient`, `DayOver` and `Shift` supply what it takes to move a boundary one
  tick nearer.

The assumptions are `MaxLotsAssumption`, `QuotaAssumption`, `PlacerAssumption`,
`GateAssumption`, `ConnAssumption`, `StreamsAssumption`, `ScheduleAssumption`,
`WindowAssumption` and, for the engine, `DeadLimitAssumption` (the limit of dead
takers is positive), `ModeAssumption` (a clip with two makers only at ratio 1,
which `NewEngine` enforces), `ConfigAssumption` and `DecidersAssumption` (a
strategy has a largest clip); TLC evaluates all of them in the runs. Only
model-checked is liveness (`EventuallyHedged`, `ObligationsMet`,
`EveryCallReturns`, `NobodyStranded`, `LooseEndsTied`, `BooksFlow`,
`TradesArrive`), which is beyond the prover.

## Plan

Done: registry, account, ledger, recovery machine, engine, limiter, placement
loop, gate, client connections, streams, schedule, and the proofs above. What
would come next:

1. In the engine, taker ids the broker reuses, and the two reads of a reconcile
   as two steps.
2. Which single faults `WithinCap` survives: a lost cancel answer breaks it, a
   rejected placement should not.

## Not modelled

* Request building and decimal parsing (`trade/finam/orders.go`), logging,
  metrics, and the simulator's prices, money, tokens and HTTP control (a test
  double). The public tape and the account stream: they drop what does not fit,
  promise nothing, and nothing modelled here depends on them.
* In the auth monitor: when a token expires and how long a sleep is
  (`nextRefreshDelay`, `refreshDelay`), and the token itself, which `GetJWT`
  reads as it was last published. In `monitorMarketOpen`: the end of its
  context.
* In the engine: prices and cash; a taker id the broker reuses
  (`engine_hedge.go:368`); position reads that straddle a fill
  (`ReconcileFromBroker`, which nothing in the repository calls); a fill event
  that contradicts the terminal count upwards by more than the order's size is
  clamped as in the code, but a broker that invents executions is not modelled;
  quota metered after the client gave up on a call.
* In the placement loop: an order of somebody else's with the same id, symbol,
  side and size, which `matchesIntent` cannot tell apart; a broker that forgets
  ids within a day.
* In the streams: volumes, execution prices, and the one-shot reads of book and
  last quote.
* Events and statuses of foreign orders are ignored by the code at the first
  line of each handler and do not appear.
