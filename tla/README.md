# Verification of the Mini Exchange Simulator

TLA+ models of the exchange in `src/exchange`, checked with TLC on small
instances; nearly all of their safety properties are also proved with TLAPS, for all
instances.

## 1. The system

    client --TCP--> gateway --TCP--> risk --TCP--> matching engine
                                                     |        |
                                             ZeroMQ PUB      Kafka topic "trades"
                                                     |        |
                     client ticker <--ZeroMQ-- market data    persistence --> Postgres

Every service is one process with one thread that handles one frame at a time
(`FrameSession` on an `io_context`). Calls from service to service block
(`SyncTcpClient`). Only the ticker of the client, librdkafka and libzmq have
threads of their own.

| Part | State | Operations | What makes it correct |
| --- | --- | --- | --- |
| Order book (`OrderBook`, `PriceLevel`, `Order`) | two maps price -> FIFO list, index id -> (side, price, iterator) | add, cancel, find, forget, shrink | index and lists agree; no empty map entry; no iterator to a freed node |
| Matching engine (`MatchingEngine`) | a book, `nextTradeId_` | submit, cancel, modify | price-time priority, no crossed book, quantity neither lost nor made, every call returns |
| Matching dispatcher | an engine per symbol | new, modify, cancel, book query | the right engine is found; trades are published before the ack |
| Kafka feed (`KafkaTradePublisher`) | the producer's queue | publish | what is acknowledged is not lost; order within a symbol |
| Persistence (`KafkaTradeConsumer`, `PostgresTradeRepository`) | offset of the group, table `trades` | poll, save, commit | at least once, stored once, in order |
| Risk (`RiskChecker`, `Account`, `RiskDispatcher`) | buying power of one account | check and forward | limits hold; reservation matches what is forwarded |
| Gateway (`MessageDispatcher`, `RemoteOrderProcessor`, `InProcessOrderProcessor`) | connection to risk, or engines and account | forward, decode the result | one answer per request, the answer of that request |
| Framing (`Frame`, `FrameSession`, `SyncTcpClient`) | bytes not yet consumed | decode, write a response | frames survive any cutting into chunks |
| Market data (`MarketDataStore`) | last trade per symbol | on trade, republish | never older than what was republished |
| Client | next order id, ticker thread | commands | ids tell orders apart |

Hard to test, and therefore what the properties aim at (all with their lines in
`PROJECT.json`, `hazards`): iterators and index during a sweep; reuse of order
ids, in one symbol and between symbols; quantities that are zero or negative;
the id read from a freed node; trade numbers that start again with the process;
crashes between save and commit; sends that are lost, repeated or overtaken; a
failing hop that takes the services before it down; risk reservations that
outlive their order, modifications that are not checked, products that wrap
around; chunked frames and overlapping writes; a feed that drops and a thread
that must be joined; services that start in an unlucky order.

## 2. Modules

| Module | Models | Run by |
| --- | --- | --- |
| `OrderBook` | the data structure: state and operations, no behaviour of its own | (extended by `MatchingEngine`) |
| `MatchingEngine` | one symbol's engine, the matching loop one iteration per step | `EngineRefinement`, itself |
| `Sweep` | what one request does to a book, in closed form: operators only | (extended by `PriceTimeBook`, `EngineRefinement`, `OrderProcessor`) |
| `PriceTimeBook` | abstract: what an exchange promises, a request being one step | (instantiated by `EngineRefinement`) |
| `EngineRefinement` | how `MatchingEngine` implements `PriceTimeBook`: the refinement mapping | itself |
| `MatchingEngineProofs` | theorems about `MatchingEngine` and `EngineRefinement` | tlapm |
| `SweepProofs` | theorems about `Sweep`, and about sums over finite sets | tlapm |
| `RiskChecker` | the check of a new order and the account: operators | (extended by `OrderProcessor`) |
| `OrderProcessor` | risk check and the engines of all symbols, a request being one step | `ClientOrders`, itself |
| `ClientOrders` | the client processes and their order ids, in front of `OrderProcessor` | `MCClientOrders`, itself |
| `OrderProcessorProofs` | theorems about `OrderProcessor` and `ClientOrders` | tlapm |
| `TradePipeline` | dispatcher -> producer -> topic -> persistence -> table | itself |
| `TradePipelineProofs` | theorems about `TradePipeline` | tlapm |
| `RequestChain` | client -> gateway -> risk -> engine and back, processes that end and start | itself |
| `RequestChainProofs` | theorems about `RequestChain` | tlapm |
| `Messages` | the wire format: bytes, fields, frames | (extended by `FrameStream`) |
| `FrameStream` | one TCP connection as bytes: `SyncTcpClient` and `FrameSession` | `MCFrameStream` |
| `RequestReply` | abstract: a call is served once and returns its reply | (instantiated by `FrameStream`) |
| `FrameStreamProofs` | theorems about `FrameStream`, and about what `Messages` writes and reads | tlapm |
| `MarketFeed` | engine -> ZeroMQ -> market data -> ZeroMQ -> ticker thread | itself |
| `MarketFeedProofs` | theorems about `MarketFeed` | tlapm |
| `Startup` | connection attempts of all processes, in time | itself |
| `StartupProofs` | theorems about `Startup` | tlapm |

The layers meet in the abstract specifications. `MatchingEngine` implements
`PriceTimeBook`, whose steps are those of `Sweep`, and `OrderProcessor` uses `Sweep`
for each symbol; `ClientOrders` adds to each action of `OrderProcessor` the client
that asks for it, and shows that one client's ids are as `OrderProcessor` needs them;
`FrameStream` implements `RequestReply`, which is how `RequestChain` sees a
connection that does not break.

### OrderBook and MatchingEngine

A list node is a number, given out by `push_back` in increasing order; a level's
list is the set of its live nodes in that order, an iterator is a node, and the
end iterator is `NONE`. So "erased", "dangling" and "older" can be said of
nodes. The keys of the two maps are a variable of their own (`levels`), because
in the code a map entry outlives its last order for a while, and could for
longer. `index` has its own copies of side and price, as `OrderLocation` has.

| Code | Model |
| --- | --- |
| `submitOrder`, entry of `matchAgainst` | `SubmitOrder` / `StartMatching` |
| outer loop: condition, `break`, `level.begin()` | `LevelMatches`, `EnterLevel` |
| inner loop, one iteration | `Fill` (`FillAll` erases and forgets, `FillPart` keeps the place) |
| erase or advance at the end of the outer loop | `LeaveLevel` |
| return, `addOrder` of the rest | `RestOrFinish` |
| `cancelOrder` | `CancelOrder` |
| `modifyOrder`, the two branches | `ReplaceOrder` (goes on with the matching loop), `ShrinkOrder` |

Two switches say what the code leaves open. `FreedMemoryIntact` is whether the
read of `resting.id()` after the erase still yields the id: the code has
undefined behaviour there, glibc's release allocator keeps those bytes, a debug
allocator overwrites them. `IdsOfRestingFresh` is whether clients avoid the ids of
resting orders, which nothing enforces. `owed` is a history variable: what each id
last asked for, less the fills reported for it.

Left out: symbols (a book has one), timestamps (nothing reads them when
matching), the `assert` in `applyFill` (absent in release builds), and 64-bit
overflow of quantities, which needs a sum beyond 2^63.

### TradePipeline

Five parties: the handler of the engine process (`HandleOrder`, `Publish` per
trade, `Acknowledge`), its death and restart (`EngineDies`, `EngineStarts`),
librdkafka's sender with the broker (`Send`, `Expire`), the persistence loop
(`PollNothing`, `Poll`, `Save`, `Commit`) and its death and restart. A trade is
symbol and number, which is the key of the table, and the engine process it is
from, which stands for the rest of the row. Librdkafka and the broker are
external: with `ProducerRetries` a message can be appended more than once and
out of order, which is the default behaviour of a producer without
`enable.idempotence`. The table is a sequence since `id BIGSERIAL` numbers rows.

The topic is one partition; trades of a symbol always share one, and trades of
two symbols in different partitions would only be less ordered than here, with
an offset each. Requests that make no trade do not appear.

### RequestChain

Processes, their connections and the frames on them; what an order does in the
book is left to `MatchingEngine`. A caller has at most one request under way
(`pending`), because `sendAndReceive` blocks; a service has a set of frames that
have arrived (`inbox`), from several sessions and in no order between them. Each
frame knows whether its session is still open.

| Code | Model |
| --- | --- |
| console loop of the client: command, answer, QUIT | `Command`, `Return`, `Quit` |
| `sendAndReceive`: write, wait, result | `SendOn`; then `Relay` or `Return` |
| its exception, which nobody catches | `SendOrDie`, `Breaks` (`Dies`) |
| `MessageDispatcher::handle` with `RemoteOrderProcessor` | `GatewayHandles`, `Decoded`, `Relay` |
| `RiskDispatcher::handle` with `checkOrder` | `RiskRefuses`, `RiskForwards`, `Relay` |
| `MatchingDispatcher::handle` | `EngineHandles` |
| `writeResponse` and `readMore` of a session that has ended | `Respond`, `SessionEnds` |
| `main` of each process | `Start` |

`Kill` is a process that ends from outside, at any point. A frame of a caller that
has died may still be handled or be dropped: both happen, depending on whether
the data or the reset is seen first. An answer that has arrived on a connection
that then breaks may be read or not, for the same reason.

Of an order, risk's view is kept: whether price and quantity pass the first two
checks, and what it costs. Orders of negative quantity are left to `RiskChecker`. Malformed
frames and unknown types are left out, no program of the repository sends them;
cancel and modify are one kind, since gateway and risk treat them alike. When a
book query fails because a service behind it is gone, the gateway does not answer
"book query failed" but ends, as with any other request (`Dies`).

### RiskChecker

`Accepted` and `Reserved` are `checkOrder` and `Account::reserve`, on integers of
`Width` bits that wrap around as the compiled product and difference do.
`SoundOrdersOnlyTake` asks in every state what the next order, of any price and
quantity that the integers hold (`AnyOrder`), could do to the account: the console
reads two `int64_t` from a line, and nothing but the upper limit of the quantity and
the lower one of the price is checked on the way.

### OrderProcessor

`InProcessOrderProcessor`, and what `RiskDispatcher` and `MatchingDispatcher` do
together while nothing fails; the two copies of the code agree, and share the
model. `Holding(id)` are the engines that
have an id: the loop over the `unordered_map` stops at any one of them. Ids are
distinct within a symbol (the closed form of `Sweep` needs it) but repeat
between symbols. `paid` and `unchecked` are histories: what trades have cost, and
what modifications, which are not checked, have added to the cost of orders.

### ClientOrders

A client process starts, gives out an id per BUY or SELL, cancels and modifies by
the ids that it has given out, and ends; its orders stay in the books. `AtATime`
processes run at the same time. `owner` and `asker` are histories: who had an order
with an id accepted for a symbol, and who made the last request; the exchange knows
neither. The console lets its user type any id; the model keeps to those that the
process has given out, since a client can mean no other order.

| Code | Model |
| --- | --- |
| `ExchangeClient::nextOrderId` | `TakeId` |
| BUY, SELL | `PlaceOrder`: a refused order has used up its id too |
| CANCEL, MODIFY, BOOK | `CancelOwn`, `ModifyOwn`, `ShowBook` |
| `main`: its start, and its end by QUIT or end of input | `StartClient`, `EndClient` |

With one process, `IdsTellOrdersApart` says that the guard of `AcceptOrder`, no
order under the id in the symbol, excludes nothing.

### Messages and FrameStream

The functions that write and read the messages are one table of field types
(`Layout`) with one writer and one reader. The sizes of bytes and integers are
parameters. Reading is on sets of readers, since a reader that throws is no longer
there. `FrameStream` keeps the bytes: on the way, in both inboxes, and of the
responses that `async_write` has not finished, of which there may be several.
A read gets any number of bytes, a write puts out any number.

| Code | Model |
| --- | --- |
| `sendAndReceive`: write, `read_some` loop, erase and return | `Call`, `ClientRead`, `Return` |
| `readMore` and its handler | `SessionRead`; `Close` is its error |
| `processCompleteFrames`, one turn, with `handle` | `ProcessFrame`, `Handled` |
| `async_write` | `WriteSome` |

`handle` answers with any reply that the request can get. The body length 0, for
which `tryDecodeFrame` reads a type that is not there, is written by nobody.

### MarketFeed

A trade is symbol and place in time. ZeroMQ is external: a PUB socket drops what is
not subscribed to or does not fit, a connection that breaks keeps what has reached
the subscriber and loses the rest, and connections come back by themselves. A
restart of the engine is a broken feed. `thread` and `client` are the program
counters of `TradeTicker::run` and of the TRADES branch in `main`.

### Startup

Ticks of 500 ms; processes are urgent, time passes only when nobody has anything
to do in the present tick, and what falls in one tick happens in any order. The
order of `depends_on` is kept by `Init`: risk starts at 0, gateway and client
later; engine and Postgres listen after any delay.

Risk and gateway make ten attempts and sleep 500 ms after each that fails,
persistence makes ten and sleeps 1000 ms (`persistence/src/main.cpp:31-37`), the client
makes a single one. `DelaysBridged` says which delays these attempts bridge: five
seconds less one sleep for risk, nine seconds for persistence. The documentation
disagrees with the code here: by `architecture.md:541` each of the three, persistence
included, tries "for up to ~5 seconds before giving up". The client is not in that
list, and no property asks it to wait.

## 3. Runs

| Run | Asks | Bounds |
| --- | --- | --- |
| `engine` | invariants of book, index, iterators, quantities; priority; engine implements `PriceTimeBook`; each call returns | 3 ids, 3 nodes, 2 prices, quantities 0, 1, 2: sweeps over two levels and over two orders of one, with partial fills, and a rest |
| `engine_freed_memory` | violation: the index can dangle | 2 orders |
| `client_orders` | with one client, an id is one order, and a change reaches the order that is meant; book replies; BUY orders are covered; which next order could raise the buying power or overdraw it | 2 symbols, 3 ids, 2 prices, 2 quantities, 5 requests; for the last question every order of integers of 4 bits |
| `risk_overflow` | violation: an order raises the buying power | integers of 5 bits |
| `client_ids_restart` | violation: a client cancels the order of an earlier one instead of its own | 2 clients, one after the other, 3 requests |
| `pipeline` | committed keys are stored; the table is the topic without repetitions; the topic reaches the table | 1 symbol, 2 trades per process, 4 records, 1 engine restart, 1 crash of persistence, queue of 2, retries |
| `pipeline_reused_trade_ids` | violation: a trade lost to a reused number | 1 restart |
| `pipeline_lost_reports` | violation: an acknowledged trade never in the topic | 1 trade |
| `chain_requests` | answers belong to their calls and are true, no request handled twice, orders covered, every client gets an answer or an error | 2 clients, 2 requests, 2 kills, any restarts, costs 0 to 2 with buying power 2 |
| `wire` | bytes implement `RequestReply`; writes do not overlap; payloads are read as they were written and refused when cut short; calls return | bytes of 16 values, integers of 2 bytes, every request with acks, rejects and lists of 0 to 2 rows; any cuts, any number of calls |
| `market` | the tape is in order; one writer; stop returns; trades are shown | 2 symbols, 4 trades, queues of 2; any number of broken links and restarts |
| `startup` | which delays the attempts bridge; the start ends | the 10 attempts of the code, delays up to 10 ticks (Postgres 20) |

`MaxNodes` bounds the list nodes ever created, so the calls that can rest an
order; cancels, shrinks and fills are not bounded. Three nodes suffice for a
sweep that empties a level and enters the next, or meets two orders at a level, and
leaves a rest; the theorems of section 4 have no bound.
Symbols are only compared, so they are symmetric. A second symbol in
`pipeline` would only add keys, since nothing there relates two symbols. Two
kills are enough for a service to be gone while its caller is being replaced, and
processes that end by an exception are not counted as kills. Five requests let
three orders rest in two symbols, one be modified into a sweep and another be
cancelled. With one client, ids do not repeat between symbols in `client_orders`;
in the theorems about `OrderProcessor` they may. In `wire` the values are at the borders of their types. The bounds of
`DelaysBridged` are exact: with any of its three limits tightened by one tick TLC
finds a start that breaks it.

`wire`, `startup`, `risk_overflow` and the `client_` runs do not check for
deadlock: the client may close its connection for good, a start is over when everyone
is up or gone, client processes end, and requests are bounded. In `wire` a
call that is stuck violates `CallReturns`.

The violation runs are disagreements between the code and what its comments
say; `PROJECT.json`, `findings`, quotes the lines.

**Fairness.** `WF(Match)`: a call that has begun is run on by its thread; new
requests are not fair, nobody has to send any. `WF(Consume)`: the persistence
loop runs as long as its process does. Crashes, restarts, sends and commits that
succeed are not assumed; `LoggedTradesReachTable` therefore only speaks of
behaviours in which the service is up from some time on. `RequestChain`: a
running process goes on handling what it has, and learns of a broken connection
(the peer's kernel closes it); nobody has to be started again, and no client has
to send anything. `CallsReturn` holds without any timeout because no process
waits for a process that waits for it. `FrameStream`: both ends go on and the
network carries what is written; no call has to be made. `MarketFeed`: the loops
of market data and of the ticker run, and `join` returns when the thread has
ended; links need not come back, and `TradesReachConsole` exempts what they lose.
`Startup`: time passes.

**Mutants.** For each property of a passing run `PROJECT.json` names a changed
definition (a comment "Mutant" marks it in the modules) with which the property
is violated.

## 4. Proofs

By TLAPS, for all values of the constants: any ids, prices, quantities, clients,
queue lengths, delays, and any number of requests, crashes and restarts. Each
inductive invariant was first checked by TLC on the run of its module.

### `MatchingEngineProofs`

All with readable freed memory (`FreedMemoryIntact`; `engine_freed_memory` shows
what happens without), and, but for the last one, for negative quantities too.

- `IndexStaysValid`, `SweepStaysAtTop`, `LevelsAreThoseOfOrders`,
  `BookStaysUncrossed`, `EngineTyped`: the invariants of the `engine` run, also for
  reused ids. None is inductive alone. Removing from a level needs the index to be
  right; that the index stays right needs the removed order's id to be the one that
  is forgotten; that a rest does not cross needs the iterators to be at the top when
  the loop ends, and that needs the map entries to be those of the orders. The
  inductive invariant is their conjunction, with what is known at each `pc`.
- `TradesRespectPriority`: the cursor is at the top of the book when a fill happens.
- `EveryOrderIsReachable`, `OrdersAreAccountedFor`: with `IdsOfRestingFresh` too.
  They need each other: a fill is booked under an id, so ids have to tell resting
  orders apart, and what an id is owed is what its one order has left.
- `EngineIsPriceTimeBook`: `ImplementsPriceTimeBook`, a refinement, with
  `IdsOfRestingFresh` and quantities that are not negative (the closed form counts
  units, and a negative order has none). A request takes effect when its call starts;
  while the loop runs, the mapped book is what `Sweep` predicts for the orders, the
  rest of the incoming order and the trades so far, and every iteration has to leave
  that prediction as it is. The inductive invariant `RefinementInv` joins the two
  above and says that no order, resting or incoming, is negative. A fill is the first
  hit of the predicted sweep (`FilledIsFirst`, from the cursor at the top), so the
  prediction loses its first trade, which the engine has just reported: either the
  resting order is used up and the sweep goes on without it (`SweepGoesOn`), or the
  incoming one is and the sweep ends there (`SweepEnds`). When the loop ends, nothing
  is left to hit (`NothingCrosses`, `NothingHit`) and resting the order is what was
  predicted. Cancels, replacements and shrinks need that the order found through the
  index is the one that the id stands for.

### `SweepProofs` and `OrderProcessorProofs`

`Sweep` gives the effect of a request as sums and ranks over the book, and
`SumFunction` and `Ranked` are defined by recursion and choice. `SweepProofs` first
proves what a sum over a finite set is, by induction over the set of subsets for
which a claim holds (the library's induction theorems take an operator, which the
provers cannot instantiate; a set they can): adding a summand, unions, reindexing by
a bijection, grouping, concatenation, and that `Ranked` numbers a finite, strictly
ordered set from 1.

- `SweepIsExact`: what resting orders give and what is left add up to what was asked
  for, in a book of any size. By induction along price-time priority.
- The sweep one order at a time, for `EngineIsPriceTimeBook`: taking the first hit out
  of the book, or reducing it, shifts the ranks of the others by one and what each of
  them is asked for not at all.
- `ProcessorTyped`.
- `PaymentsAreCovered`: `ExposureCovered`, if no product of an accepted order
  overflows (`ProductsFit`; `risk_overflow` shows what happens otherwise). The
  inductive invariant `Covered` counts an order at a price below 0, which only a
  modification can make, as costing nothing: with the cost as it is, cancelling such
  an order would uncover the others. The step rests on `SweepCost`: what a sweep pays
  and what its book may still cost is at most what book and order might have cost
  before, because a BUY pays at most its limit.
- `BookRepliesAreSound`: `BookReplySound`. Inductive with `BooksShown`: no book is
  crossed, and a reply to BOOK still lists the book as it is. That an uncrossed book
  stays so through a sweep is `OutcomeNotCrossed`: if something of the order is left
  to rest, everything that it crossed is used up. That the levels list every order
  once is a sum regrouped by price (`SumGroups`).
- `SoundOrdersTakeTheirCost`: `SoundOrdersOnlyTake`, without `ProductsFit`, for integers
  of any width and every price and quantity that they hold, so also for an account that
  earlier orders have raised or made negative. A sound BUY has a product between 0 and
  the end of the range, so that wrapping around is the identity for it and for the
  difference. What is left are the BUY of negative quantity and the one whose product
  overflows (`risk_overflow` shows such a one).
- `ClientTyped`, for any number of clients; `OneClientsIdsAreUnique` and
  `OneClientReachesItsOrders`: `IdsTellOrdersApart` and `ChangesReachOwnOrder` if there
  is one client process. Inductive with `OneEach`: an id that was accepted has been given
  out before, for one symbol only, and the ids within a book differ and have an owner. That
  none of this is true of the ids of two clients, even one after the other, is what
  `client_ids_restart` shows.

### `TradePipelineProofs`

- `PipelineTyped`, and `OffsetsFollowStorage`: `CommittedKeysStored`. Inductive with
  `TakenStored`: all records the consumer has taken, but for the one in its hands,
  are stored. It is needed because the commit moves the offset to the position,
  whatever was committed before.
- `TableIsTheTopic`: `TableFollowsLog`. Inductive with `Copied`: the table is what
  some beginning of the topic comes to; after a crash that beginning is longer than
  what the consumer has taken, so the position cannot be its end.
- `CommittedTradesAreStored`: `CommittedTradesStored` if the engine is not
  restarted; then all trades are of one process and a key determines its trade.

### `RequestChainProofs`

- `ChainTyped`, `AnswersAreForTheCall`, `NothingIsHandledTwice`,
  `ClientsAreToldTheTruth`. Inductive invariant `ChainInv`: the session of a frame is
  open only while its caller awaits just this answer (`SessionsMatch`), a request is
  in at most one inbox and not handled if it is (`OneFramePerRequest`), and answers
  on the way are already true (`AnswersTrue`). Without `SessionsMatch` an answer
  could reach a caller that was started again; without `AnswersTrue` nothing would
  tie what is told to what was done several steps before.
- `OrdersAreCovered`: `SpentWithinBuyingPower`. Inductive with `SpentIsReserved`:
  what is spent, what waits in the engine's inbox and what the account has left are
  together within the accounts so far. The cost of an inbox is counted in units,
  pairs of a request and a number, since requests are told apart.

### `FrameStreamProofs`

For bytes of any size, integers of any width, strings, lists and frames of any length
and any chunks. Messages are of the types of their fields and fit a frame: that is
`MessagesTyped`, an `ASSUME` of `FrameStream` that TLC evaluates on the messages of
`wire`.

- `PayloadsAreExact`: `PayloadsExact`. Each reader gets a lemma of one form: from data
  that `Follows` what was written as far as it goes, it returns the value and has moved
  past it (`After`), or returns nothing if the data ends before. `ReadsUInt`,
  `ReadsInt64`, `ReadsString`, `ReadsRecord`, `ReadsList` and `ReadsMessage` build on
  each other, and the last one is at once the round trip and the refusal of a payload
  cut short. At the bottom is `NumberSurvives`: the fold over the bytes that the
  division left is the number; `SignSurvives` adds the cast of negative ones. The
  writers and readers are folds; the provers cannot be given the operator that is
  folded, so `FoldStep` takes it as a tag, `FoldExists` unrolls the fold into the
  sequence of its steps, and the inductions are over that sequence. In the
  specification, a result is a message that was sent or `NONE`.
- `BytesCarryCalls`: `ImplementsRequestReply`, a refinement. The inductive invariant
  `OneFrame` says that the connection is idle, or that what is in the inbox of the
  session and on the way to it are the two parts of the frame of the request, or that
  what is in the inbox of the client, on the way to it and left to write are the three
  parts of the frame of a reply. A call is the abstract step `Ask`, a turn of
  `processCompleteFrames` is `Serve`, a return is `Return`, and everything else
  leaves the abstract state as it is.
- The step rests on `FrameDecodes`: `tryDecodeFrame` finds nothing in a beginning of a
  frame and the whole frame in all of it; that needs the round trip of the length
  prefix (`NumberSurvives`). What the session and the client then read from the
  payload is the message (`MessageSurvives`).
- `RepliesDoNotMix`: `WritesDoNotOverlap`; and `StreamTyped`.

### `MarketFeedProofs`, `StartupProofs`

- `FeedTyped`, `ThreadOnlyInTrades`, `ConsoleInOrder`. Inductive with `InOrder`: each
  of the three sequences that a trade passes is in order, and what is printed is
  older than the tape, which is older than the feed.
- `StartupTyped`, `RetriesBridgeDelays`: `DelaysBridged`. Inductive with `StartupInv`:
  time does not pass the next attempt of anybody who still tries (`OnTime`), nobody
  gives up early (`Persistent`), and each failed attempt dates its callee
  (`CalleeLate`). The bounds of the property are sums of these along the chain.

### Assumptions

Constants as in the `ASSUME`s, which TLC evaluates in every run, and the switches,
`ProductsFit`, a single client process for the last two theorems about `ClientOrders`
and, for the refinement of the book,
`Quantities \subseteq Nat`, as stated in the theorems. Some of the `ASSUME`s
only tell the provers what is true anyway: that 2^(Width-1) is a positive integer
(`RiskConstants`) and that a power is the one before it times the base
(`Powers`), since they know nothing of powers, and that `NONE` is no frame and no
message (`NoneIsNoFrame`, `NoneIsNoMessage`).

### Only model-checked

- The liveness properties `MatchingTerminates`, `LoggedTradesReachTable`,
  `CallsReturn`, `CallReturns`, `StopReturns`, `TradesReachConsole` and
  `StartupSettles`: fairness is out of the prover's reach.

## 5. Known limits

The models keep to positive quantities outside `MatchingEngine` and `RiskChecker`, the
refinement of the engine to quantities from 0, and to distinct resting ids in one
symbol but for those theorems about `MatchingEngine` that do not ask for
`IdsOfRestingFresh`. What happens without that: a negative quantity is refused by
nobody, makes fills negative, and its cost raises the buying power (`Sound` leaves it
out of `SoundOrdersOnlyTake` for that reason); of two resting orders
with one id in one symbol `index_.emplace` keeps the first, and the second can be
neither cancelled nor modified. Ids are counted from 1 by every client process, so
orders of two clients, also of two that run one after the other, do share ids
(`client_ids_restart` has the case of two symbols).
A retried send may be overtaken (`ProducerRetries`), so rows of a symbol need not be in
trade order, though the comment at `KafkaTradePublisher.hpp:13-16` has the order
preserved; `TableFollowsLog` is about the order of the topic, and no run shows the
overtaking. Reservations are never released, an account is new with each risk process,
limits hold for new orders only, and a PUB socket drops trades: the models do all of
this, and their properties exempt it, since nothing in the repository promises more.

## 6. Not modelled

- `CommandParser` and the printing of the console: no state, only text.
- `Logger`, build files, tests.
- `persistence::TradeEventHandler`: only tests use it.
- The byte layout of `MarketDataSnapshot`: it travels whole in a ZeroMQ message;
  `MarketFeed` has its content.
- Malformed frames, unknown message types and broken payloads: the readers refuse
  them (`PayloadsExact`), but no program of the repository sends one.

## 7. What is left

Every invariant of the passing runs and both refinements are proved. The liveness
properties stay with TLC. The model could grow by the byte layout of
`MarketDataSnapshot`; its fields are of kinds that `ReadsScalar` covers.
