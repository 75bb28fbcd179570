# Verification of the SmartX matching backend

TLA+ modules that model the backend in `src/`, TLC configurations that check
them on small instances, and TLAPS proofs of theorems about them. `PROJECT.json`
lists the components, the runs, the source lines each definition models, the
hazards and the theorems.

## 1. The system

One Go process. HTTP handlers submit orders; one goroutine per engine matches
them; a broadcaster collects trades and publishes them over WebSocket; a risk
package keeps futures positions under margin, funding and liquidation.

| Component | State | Operations | Made correct by |
|---|---|---|---|
| Spot order, book, matching: `engine/order.go`, `orderbook.go`, `matching.go` | an order's filled quantity, average price, status, `done`; price levels (list of orders, `Quantity`), totals per side | `Match`, `AddOrder`, `Fill`; `RemoveOrder` and `Cancel` have no caller | fills and trades agree; limits respected; price-time priority; no open order lost; level quantities true |
| Skip list: `engine/skiplist.go` | nodes with forward pointers by level, `Level`, `Size` | `Insert`, `Search`, `Delete`, `Min` | a sorted set of prices, no two of which compare equal; every level threads it |
| Red-black tree, linked queue: same file | tree and list nodes | insert, delete, search; push, pop, remove | not used by the server |
| Spot engine: `engine/matching.go` | `orderCh`, `tradeCh` (buffered), context, counters | `SubmitOrder`, `run`, `processOrder`, `GetTrades`, `Stop` | each accepted order matched once, in turn; refused ones never; trades published in turn or dropped; `Stop` ends everything |
| Shards and router: `engine/shard.go` | one engine per shard, symbol hash | `RouteOrder`, `GetEngine`, `Stop` | a symbol always meets the same engine |
| Futures engine: `engine/futures/` | its own book (map of levels), `positions` | `Match`, `updatePositions`, `SubmitOrder`, `GetTrades`, `GetPositions`, `Stop` | as the spot engine; positions are the sum of a user's trades |
| Risk: `risk/` | positions by user, symbol and side; mark and index price; funding rate | `CalculateLiquidationPrice`, `CheckAndLiquidate`, `SettleFunding`, `CalculateMarkPrice`, `UpdateAllLiquidationPrices` | nobody is liquidated above water; margins and fees add up; a position's profit is booked once |
| WebSocket hub: `ws/hub.go` | clients, their topics, `send` channels, `broadcast` channel | `Run`, `HandleWebSocket`, `readPump`, `writePump`, `handleMessage`, `Publish`, `Stop` | no send on a closed channel; subscribers get what is published, in order or not at all; nobody is stuck after `Stop` |
| HTTP handlers: `api/` | none of their own | decode, validate, submit, encode | only valid orders reach the engines |
| Server: `cmd/server/main.go` | the wiring | broadcaster, simulator, shutdown | shutdown leaves nobody waiting |
| Queue mock, serialization, configuration: `mq/`, `proto/`, `config/` | none shared | | |

How they interact. A handler's goroutine and an engine meet in `orderCh`; the
engine and the broadcaster in `tradeCh`; `Stop` meets all of them in the context
and by closing both channels. An `Order` is shared by the engine, which fills it,
and the handler that submitted it, which encodes it: each access takes the
order's lock, except `ToProto`. The statistics of a book are read without its
lock. The futures handlers, the market simulator and the margin engine share
`Position` pointers; the futures engine keeps positions of its own, which nobody
else sees. The server itself only closes positions and updates prices:
`AddPosition`, `CheckAndLiquidate` and the funding cycle are there for clients of the
package, of which the tests are the only ones.

What is hard. Select statements with several ready cases (a send on a closed
channel among them); a shutdown that closes channels under callers; a full
channel, where trades are dropped; level quantities kept apart from the orders
they count; orders that are done and still listed, or cut out of the slice a loop
runs over; a tolerance of 1e-8 in a comparison that must order prices, by which an order
may join the level of another price; two locks for
the two halves of a trade; a position that is looked up, priced, and closed in three
steps while two other goroutines liquidate and charge it.
Every such place is a hazard in `PROJECT.json`, with the properties that watch it
or the reason why none does yet.

## 2. The modules

| Module | Models | Reads |
|---|---|---|
| `Exchange` | the promise: orders arrive, trade, rest, are over; no levels, lists, loops or statistics | no code: the abstract specification of `OrderBook` |
| `OrderBook` | `order.go`, `orderbook.go` and `processOrder`/`processMarketOrder` of `matching.go` | one process, the engine's goroutine |
| `MatchingEngine` | `SubmitOrder`, `run`, `GetTrades`, `Stop`, around `OrderBook`, which it EXTENDS and whose actions it takes as its own | the callers, the engine, `Stop`, the broadcaster |
| `SkipList` | `SkipList` of `skiplist.go`, pointer by pointer | one operation at a time, under the book's lock |
| `Hub` | `ws/hub.go`: `Run`, `HandleWebSocket`, the pumps, `handleMessage`, `Publish`, `Stop` | `Run`, two goroutines per client, publishers, `Stop` |
| `FuturesEngine` | `engine/futures/futures_engine.go` and `futures_order.go`: `SubmitOrder`, `run`, `processOrder`, `Match`, `AddOrder`, `updatePositions`, `GetTrades`, `Stop` | the callers, the engine, `Stop`, a reader |
| `Risk` | `risk/*.go`, `Position` of `futures_order.go`, `startFuturesMarketSimulator` and `ClosePosition` | the simulator, the liquidator, the funding cycle, a handler |
| `Totals` | no code: sums over finite sets, with which depth, positions and fills are stated | |
| `Totals_proofs` | what sums do when a set grows, is split or a term changes; induction over sets | |
| `OrderBook_proofs` | the book's invariant, the theorems that follow from it, and that `OrderBook` implements `Exchange` | |
| `OrderBookTotals_proofs` | the book's sums: fills and tape, levels and totals; and that a match ends | |
| `SkipList_proofs` | where the walks along the pointers end, and the theorems about the list | |
| `MatchingEngine_proofs`, `FuturesEngine_proofs`, `Hub_proofs`, `Risk_proofs` | the theorems about these modules | |
| `MC...` | instances for TLC | |

`OrderBook`. `request[o]` is what `NewOrder` fixes and `order[o]` what `Fill` and
the rejection change; `value` is `AvgFillPrice * FilledQuantity`, which avoids a
division. `queue[s][p]`, `levelQty[s][p]` and `total[s]` are `PriceLevel.Orders`,
`PriceLevel.Quantity` and the side's total; an empty `queue[s][p]` means that there
is no such level. The price lists themselves are `SkipList`'s business; here
only their order and their tolerance matter. `ListedBefore` and `Near` are `compare`:
prices at most `Epsilon` (1e-8) apart are equal, the others in the order of the list.
An order joins a level whose key compares equal to its price, or else makes one of its
own (`LevelsFor`). If two keys compare equal to it, `Search` may return either, by the
random heights of the nodes, so `AddOrder` may take either. `matchOrders` compares a
taker's limit with the key of a level and trades at the maker's own price, which may be
`Epsilon` worse: `TradesAreSound` and `Exchange` grant that much, and no more.
`pc`, `taker`, `level`, `index` and `lot` are the local variables of the loops of
`matchOrders`. A step is what happens between two places where another goroutine
could look: `FillTaker` and `FillMaker` are two steps because the two `Fill`s take
two locks. `tape` is a history variable of all trades.

Prices are integers, of either sign since no handler checks a limit price, and quantities
naturals. The code adds, subtracts, multiplies and
compares floats and divides only to form the average price; what rounding does to
sums of floats is a hazard without a property.

`MatchingEngine`. A channel is the sequence it buffers. `call[o]` is the handler's
goroutine in `SubmitOrder`: its outcomes are `Accept`, `TimeOut` (possible when
the channel is full), `RefuseStopped` and `SendOnClosed`, the panic, each with
exactly the readiness condition of its `select` case. `OfferTrade` comes between the
match and what `processOrder` does after it. `stop` is how far `Stop` has got:
cancel, `wg.Wait` and close of `tradeCh`, close of `orderCh`. `GetTrades` is
`StartDrain`, `Receive`, `EndDrain`, and `ReceiveNil` once the channel is closed.

`SkipList`. `Update(k)` is the array of predecessors that `Insert` and `Delete` collect
level by level, and `Search` goes from place to place, a place being a level and a
node; both are recursive functions, of which the proofs show that they are defined.
`Insert` takes any height up to `MaxHeight`, as `randomLevel` does.
`Unlink` stops at the first level that does not point to the node, as the code does.
`Near` is what `compare` calls equal, a difference of at most 1e-8; `StrictlyNear` is what
`Delete` asks of the node it has come to, a difference of less than 1e-8. At exactly 1e-8
`Search` finds a node that `Delete` does not.

`Hub`. `send[c]` and `broadcast` are buffered channels; `register` and `unregister` have no
buffer, so that the two sides of a rendezvous are one step (`Register`, `Unregister`).
`reader[c]` is where `HandleWebSocket` and then `readPump` are, `writer[c]` where
`writePump` is. The loop over the clients in `Run` is one step per client
(`TakeMessage`, `Deliver`, `EndDelivery`) because readers change their groups
meanwhile, and a request's topics are changed one by one (`Change`) for the same
reason. A message is its position in `published`; `taken`, `missed`, `acked` and `owed` are
history variables that say what each client was sent, told and promised. `acked`
shrinks when the client gives a topic up or goes, and `owed[m]` with it.

`FuturesEngine`. The book of a contract keeps its levels in a map and sorts their prices
when a match begins: `todo` is the set of prices `Match` has not come to. `Match` holds
the book's write lock throughout and the readers of depth and best prices take it, so a
trade is one step here, where it is three in the spot book; the channels and `Stop`
interleave with every step. `StepTo` is the `i--` after a maker was cut out of the
level. `UpdatePosition` books one trade: it adds the trade's quantity to the
position of the taker's `PositionSide`, whichever way the order goes. A position's
`value` is `EntryPrice * Quantity`. Levels are keyed by their exact price in a map, so the
module promises `Exchange` with tolerance 0: `Fate` and `RestedBefore` are its refinement
mapping.

`Risk`. `terms[p]` is what `NewPosition` fixes, `pos[p]` what the methods of `Position`
change; `watched` is `MarginEngine.positions` with its key reduced to user and side, as
the symbol is one. `simulator`, `liquidator`, `funder` and `closer` are the four goroutines:
`pc` is where one is, `at` the position it holds a pointer to, `todo` the rest of the
snapshot `GetPositions` gave it, `price` what it has read. A step is a method of
`Position`, which takes the position's lock, or an access under the lock of an engine.
`le.mu` is the exclusion of `BeginUpdate` and `BeginCheck`. `ComputeFee` and
`AddFundingFee` are two steps because `SettleFunding` reads the position without its
lock and charges it later; `AskIndex` and `CalculateRate` because the index and the mark
price are read one after the other; so are `Tick`, which quotes the exchanges and works
out the mark price, and `FollowTrades`, which sets the last trade price. `AddPosition`
overwrites what it finds under the key, and `RemovePosition` removes what it finds there. Amounts are scaled to stay whole: money and the
rate count 1/400, a liquidation price 1/(200*leverage); prices are multiples of 20 so
that 5% off one is whole. `exit` and `late` are history variables.

## 3. What the runs check

`book` (526,663 states). Four orders of any side, type, price 1 to 3 and quantity
1 or 2, arriving in any order, tolerance 1, with symmetry.
- `FillsMatchTape`: what the clients are told of their orders is what the trades say,
  at every step, the half-done trade included.
- `TradesAreSound`: every trade is at the maker's price, and within the taker's limit but
  for the tolerance.
- `OpenOrdersRest`: no open order is ever lost, whatever the level's `Quantity` says
  when a level is deleted; it rests in one level only, whose key compares equal to its
  price; and nothing else is on the book.
- `TimePriority`: within a level nobody behind an open order has ever traded.
- `DepthAccounting`: exactly what levels and totals count, including the excess of
  orders that traded before they rested. It does not say that this excess is right; it
  says that it is the only one, and that a level never counts less than is open.
- `NoDeadLevel`: between orders every level has an open order.
- `SettledIsFinal`: no settled order changes again.
- `MatchAdvances`: every step of the nested loops lowers `StepsLeft`, so no level is swept
  for ever, though levels keep orders that are done and quantities nobody has left.
- `RefInv`: the inductive invariant of the proofs, `TypeOK` within it, checked before it
  was proved.
- `KeepsPromise`: `OrderBook` implements `Exchange` with the tolerance of its lists.

`engine` (169,704 states). Three limit or market orders, buffers of two orders and one
trade, every interleaving of callers, engine, `Stop` and `GetTrades`, under fairness
and without symmetry.
- `AcceptedOrdersInTurn`: matched once and in order of acceptance if `SubmitOrder`
  returned nil, never otherwise, the 100 ms timeout and the shutdown included.
- `TradesPublishedInTurn`: every trade is published once, in order, or dropped at a
  full channel; none is left over when the engine turns to the next order.
- `NoSendOnClosedTrades`: the engine never sends on the closed trade channel.
- `EngineTypeOK`: besides the types, an engine that has exited holds no order.
- `AcceptedIsDealtWith`, `MatchEnds`, `StopReturns`: with a trade channel of one place that
  nobody need read and a buyer that makes two trades, the engine never waits for good.

`skiplist` (5,881 states). Five nodes, thirteen prices, tolerance 2, heights up to 3:
- `PricesApart`: no two prices on the list compare equal, though near prices form chains.
- `LevelsThreadTheList`: every level leads in order through the nodes that reach it.
- `SearchFinds`: `Search` finds a level if and only if one compares equal to the price,
  and `Delete` finds every level by its own price, which is how `matchOrders` calls it.
- `OperationsOfASet`: an addition adds one price; a deletion takes one away, nearer than
  the tolerance, and no other.
- `SInv`: the inductive invariant of the proofs, `TypeOK` within it.

`hub` (195,906 states). A client that may name every set of topics in two requests,
fails and goes in every interleaving with two messages and `Stop`, buffers of one
message, under fairness.
- `NoSendOnClosed`: a client's channel is closed once, when neither `Run`'s loop nor the
  client's own reader can send on it any more.
- `BatchIsThere`: what `writePump` counted before it takes it is still in the channel.
- `InOrder`: a client gets each message at most once and in the order of publication,
  whatever its full buffer dropped.
- `AnsweredIsServed`: who has been answered for a topic gets every message of it from
  then on, until it gives the topic up, goes, or finds its own buffer full.
- `DeadIsLetGo` and `BroadcastDrains`: they hold unless the hub is stopped: after `Stop`
  nobody receives from `unregister`, and the readers that end wait for ever.

`futures` (948,112 states). Three orders of any side, type, holder, price -1 or 0 and
quantity 1 or 2, channels of one place, every interleaving of callers, engine, a
reader of trades and `Stop`, with symmetry.
- `PricePriority`: no level is swept while an open order at a better price waits. The
  same property is violated by the spot book (`book_price`).
- `NeverCrossed`: when the engine is through with an order, no open buy meets an open
  sell: no trade was missed by loops over slices and maps that the trades change.
- `PositionsAddUp`: a position's quantity is that of the trades of the takers that name
  it, each booked once and for nobody else, and its entry price lies between the lowest
  and the highest of their prices, though an average of 0 is taken for no price and
  overwritten. It is silent about the side of the trades and about the margin, where
  the code departs from `DESIGN_DERIVATIVES.md` 4.2: closing orders add to a position,
  and the margin is that of its first trade.
- `KeepsPromise`: `FuturesEngine` implements `Exchange` without tolerance: price limits, the price of the maker,
  time priority and the finality of settled orders hold as for the spot book.
- `FInv`: the inductive invariant of the proofs, `TypeOK` within it, checked before it was
  proved.

`risk` (3,452,082 states). Two positions of one user, two ticks of the simulator and one
settlement, every interleaving of the four goroutines and `AddPosition`, with symmetry.
- `EndsOnce`: whoever of `ClosePosition` and `CheckAndLiquidate` comes first settles the
  profit at its price; who comes later with a pointer to the position books nothing more,
  and at most one funding fee, worked out before, is charged after the end. The status is
  left out: a latecomer overwrites it.
- `LossUsesUpMargin`: a position liquidated by a liquidation price that was computed has
  booked a loss that leaves at most 0.5% of its entry value of its initial margin, however
  updates, closes and fees interleave. It says nothing of a short that is checked while
  its liquidation price is still the 0 it was created with, which is liquidated at any
  price, nor of the margin rate of `DESIGN_DERIVATIVES.md` 6.3, which the check does not use.
- `OpenPnlIsCurrent`: between two updates of the simulator the unrealized profit shown is
  the one at the price shown, though closes, liquidations and fees come in between.

Runs that TLC must find violated, one per disagreement of the code with its docs:
- `book_price`: `matchOrders` takes the worst level for the best, because the lists
  are sorted the other way round than `Min` assumes.
- `book_symbols`: the symbols of one shard share price levels and match each other.
- `engine_stopped`: `SubmitOrder` after `Stop` may panic instead of returning the
  error documented for it.
- `engine_nil`: `GetTrades` on a stopped engine never returns and collects nil trades.
- `hub_topics`: messages are published under their kind alone, so a client that
  subscribed to `BTCUSDT@trade` as documented is served nothing.
- `risk_funding`: `AddFundingFee` subtracts the fee, which is negative for a long at a
  positive rate, from the margin: the longs are paid where the comment has them pay.

Every property of a passing run has a mutant of the code that breaks it; they are
definitions marked `Mutant:` next to what they change.

### Bounds

- `book`: four orders let a maker rest behind two others, a taker sweep two orders or
  two levels, an order trade as taker, rest and trade as maker. Of three prices with
  tolerance 1 the outer two tell crossing from not crossing and make two levels, and the
  middle one compares equal to both: its orders join either, trades pass a limit by 1,
  and a level at 2 draws in orders at 1 and 3. Quantities 1 and 2 give partial fills on
  both sides. The other runs of the book and the engine have tolerance 0, as their
  questions are not about it. The proofs cover every set of orders, prices and
  quantities and every tolerance.
- `engine`: `OrderCap` 2 of three orders makes the channel full and queued; `TradeCap` 1
  makes it drop with the second trade. The code's 50000 differ only in when they are
  full. `MaxNils` 1: the reader of a closed channel appends nils for ever and one of
  them is what matters.
  `FewRequests` restricts Init to one order that buys 2 and others that sell 1 or 2, at
  most one of the three a market order: the smallest set in which one match makes more
  trades than the channel holds, a level counts more than it has left, and an order is
  rejected or dropped.
- `skiplist`: keys 1 to 13 with tolerance 2 contain chains of prices each near the next,
  pairs nearer than the tolerance and pairs exactly as far apart, and room for five
  levels at once; five nodes of height up to 3 thread every level in several ways. `Reverse` TRUE
  only: FALSE is the mirror image (`After` with its arguments exchanged).
- `hub`: one place in each buffer makes every send find it full sooner or later; two
  messages show an order and a gap, two requests a topic given up and taken again. The
  properties speak of one client each and clients meet only in the loop of `Run`; the
  theorems cover any number of them.
- `futures`: the handler lets prices of 0 and below through. At 0 `updatePositions`
  overwrites the entry price, and with -1 an average differs from the price of a single
  trade; two prices give two levels to choose from. An average that comes to 0 from
  trades of both signs and is then overwritten takes three trades, and so four orders; it
  is left to the proof.
  Three orders let a taker cut a maker out of a level and go on to the next one. Two
  holders tell whose position a trade goes to.
- `risk`: `LosingSpec` restricts Init to longs entered at 200 and shorts at 160 with leverage
  10, and the exchanges quote 180: with no deal the mark price is 180, at which a long is
  due; after a deal at 200 it is 190, and at either price a short is due. One of
  the two is a long. Two positions of one user may have one key, so that one is removed for
  the other. `AddPosition` is called once with each. It takes two ticks
  for the index and the mark price to differ and the funding rate to be other than 0.
  The theorems cover every number of positions, users, prices, ticks and settlements.

### Fairness

`EngineFairness` assumes weak fairness of the engine's steps, of `Stop`'s two closes once
it has begun, of each caller's `select` (a case is ready at the latest after 100 ms) and
of `GetTrades` once it has begun: goroutines that are not blocked are scheduled. It
does not assume that anyone calls `SubmitOrder`, `GetTrades` or `Stop`.

The hub's `Fairness` assumes weak fairness of `Run`, of each reader once it has a request
or its connection is closed, and of each writer: `Flush` or `WriteFails` happens since
a write has a deadline of ten seconds. Peers need not send, read or close anything.

## 4. What is proved

From `BookAssumption` (prices are integers, quantities positive naturals, the tolerance a
natural, `NoOrder` is no order), `EngineAssumption`, `FuturesAssumption` (the same for
futures, with channels of at least one place), for the skip list `SkipListAssumption`
(keys are integers, the tolerance and the greatest height positive, either order), for the hub `HubAssumption`
and `TopicAssumption`, and for the risk package `RiskAssumption` (prices are positive
multiples of 20, quantities positive, leverages up to 100 divide 400), for any sets
of orders, symbols, prices, quantities, nodes, keys, clients, topics, positions and users
and any channel capacities, TLAPS checks:

| Theorem | Says |
|---|---|
| `Invariance`, `RefInvariance` | `Spec => []IInv`, `Spec => []RefInv` of `OrderBook` |
| `TypeCorrect` | `Spec => []TypeOK` |
| `TradesSound` | `Spec => []TradesAreSound` |
| `NoLostLiquidity` | `Spec => []OpenOrdersRest` |
| `FirstComeFirstServed` | `Spec => []TimePriority` |
| `LevelsAreLive` | `Spec => []NoDeadLevel` |
| `Finality` | `Spec => SettledIsFinal` |
| `FillsAddUp` | `Spec => []FillsMatchTape` |
| `DepthAddsUp` | `Spec => []DepthAccounting` |
| `EveryMatchEnds` | `Spec => MatchAdvances` |
| `BookKeepsPromise` | `Spec => KeepsPromise`: `OrderBook` implements `Exchange` with tolerance `Epsilon` |
| `SkipListInvariance`, `SkipListTypes` | `Spec => []SInv`, `Spec => []TypeOK` of `SkipList` |
| `PricesStayApart` | `Spec => []PricesApart` |
| `LevelsStayThreaded` | `Spec => []LevelsThreadTheList` |
| `SearchesFind` | `Spec => []SearchFinds` |
| `OperatesAsASet` | `Spec => OperationsOfASet` |
| `BookHoldsInEngine`, `MatchesEndInEngine` | what `FirstComeFirstServed`, `NoLostLiquidity`, `FillsAddUp`, `DepthAddsUp` and `EveryMatchEnds` say of the book holds in the engine |
| `AcceptedInTurn` | `EngineSpec => []AcceptedOrdersInTurn` |
| `ClosesInOrder` | `EngineSpec => []NoSendOnClosedTrades` |
| `EngineTypes` | `EngineSpec => []EngineTypeOK` |
| `PublishesInTurn` | `EngineSpec => []TradesPublishedInTurn` |
| `EngineKeepsPromise` | `EngineSpec => KeepsPromise`: the spot engine implements `Exchange` with tolerance `Epsilon` |
| `FuturesInvariance`, `FuturesTypes` | `Spec => []FInv`, `Spec => []TypeOK` of `FuturesEngine` |
| `FuturesPricePriority` | `Spec => []PricePriority` |
| `FuturesNeverCrossed` | `Spec => []NeverCrossed` |
| `FuturesPositions` | `Spec => []PositionsAddUp` |
| `FuturesMatchEnds` | `Spec => MatchAdvances` of `FuturesEngine_proofs`: its matches end too |
| `FuturesKeepsPromise` | `Spec => KeepsPromise`: the futures engine implements `Exchange` with tolerance 0 |
| `HubInvariance`, `HubTypeCorrect` | `Spec => []HubInv`, `Spec => []TypeOK` of `Hub` |
| `ClosesSafely` | `Spec => []NoSendOnClosed` |
| `WholeBatches` | `Spec => []BatchIsThere` |
| `DeliversInOrder` | `Spec => []InOrder` |
| `ServesTheAnswered` | `Spec => []AnsweredIsServed` |
| `Risk_proofs!TypeCorrect` | `Spec => []TypeOK` of `Risk` |
| `PositionsEndOnce` | `Spec => []EndsOnce` |
| `LiquidationsUseUpMargin` | `Spec => []LossUsesUpMargin` |
| `OpenPnlStaysCurrent` | `Spec => []OpenPnlIsCurrent` |

The book. `OpenOrdersRest` is not inductive: `SweepLevel` deletes a level when its
`Quantity`, a number kept apart from the orders, is used up, and only if that number
is never less than the sum of what the level's orders have left is no open order
deleted with it. `IInv` is therefore `Inv` with `LevelInv`, which bounds `levelQty` from
below by that sum, a recursive function over the positions of the level
(`OrderBook_proofs` proves what it does when an order is appended, is filled or is
done). `Inv` also says where each order is in the loop: what is before `index` in the
level is done, and the lot of a trade under way fits both orders.

The book implements `Exchange` (`Promised` is the instance, `Fate`, `RestedBefore` and what
each order has sold the mapping). The difficulty is the trade of two steps: after
`FillTaker` the taker reads as filled though the trade is not done, so `Sold` leaves the
lot out, and `FillMaker` is the promise's `Trade`. `FateInv` says what the mapping relies on in between: the
taker has been filled by at least the lot the maker still misses, whoever is on the tape
as a taker has been filled, and a rejected order has not. `before`, the promise's order of
precedence, holds between the orders of one level; that a newcomer queues behind all the
open orders of the level it joins, and that these are `Close` to it, follows from the
prices of a level being near its key (`InPlace`). Each action is then shown to
be one of `Exchange`'s steps (`Arrive`, `Trade`, `Rest`, `Finish`) or to leave the mapped
state alone; `SweepLevel` is of the second kind because everybody in the level
it deletes is done.

Sums. `FillsMatchTape` and `DepthAccounting` add up over sets that no bound limits. Induction
with a predicate as a parameter is beyond the provers, so `Totals_proofs` states it with
a set in its place: a set of naturals that has 0 and with each n also n + 1 has all of
them, and likewise for the subsets of a finite set. From it follow the facts the books
need of a sum over a finite set: it exists whichever element is taken first, it grows
by a new term, splits over disjoint sets, and changes by what one term changes. With
them a step of the book is arithmetic: `FillMaker` puts one trade on the tape and lowers
one term of its level's sum, `Rest` adds one term, with the order's whole quantity.

Matches end. `StepsLeft` counts what the loops have before them, five steps for an order
on the other side at most: a level to enter, an order to pass or two halves of a trade,
a loop to end and a level to delete. That each step lowers it needs `OpenOrdersRest`,
by which an order is listed once and in one level only, so that passing one
or striking off a level takes it out of the count; and it needs `ScanInv`, by which a taker
that is not done at the end of a level has left only orders that are done there: the
level is deleted and the outer loop meets fewer. That there is a number at all is
`StatsInv`'s finiteness of `processed`. The futures engine counts otherwise: two steps for
each price in `todo` and three for each order that may still trade, because a trade
fills one of its two orders and is later offered and booked. That a match ends follows if
the engine is scheduled; that last step is temporal and left to TLC.

The skip list. What `Update` and `Search` compute are recursive functions, and
a recursive function is defined only if there is one: `FollowsExists` builds it, by
`SetInduction`, when a rank, a natural, goes down along `next`; `RankInduction` is what
then holds of all its values. The rank of a place on a level is how many nodes of that
level are behind it (`Rest`); in `Search` a level counts more than the whole list. `SInv` makes it go down: `LevelsThreadTheList` says that a pointer leads to the
next node behind, and `OffTheList`, that a node off a level points nowhere on it, that a
walk never leaves the list. A walk for `k` then ends at the last node before `k` (`IsPred`), with
exactly the nodes not before `k` behind it (`PredRest`). An insertion puts the new node
between its predecessor and those (`InsertThreads`); a deletion takes a node whose
predecessor is the only one that leads to it (`OnePredecessor`), and the levels on which it
is are the lowest ones, so that stopping at the first level without it leaves no pointer
behind. That `Target` finds a node by the node's own
price needs only that 0 is less than the tolerance. The comparison with a tolerance is not an order of prices, since being equal is not
transitive, but `After` is a strict one and `PricesApart` makes it total on the list; `Add` keeps it
that way because `Search` finds nothing equal only if there is nothing (`SearchResult`): it
passes only nodes before `k`, and when it gives up the next node of level 1, on which
all nodes are, is behind `k` (`NothingBetween`).

The engine. Its invariant adds that the orders in the channel are the end of the
accepted sequence and those taken up its beginning. `TradesPublishedInTurn`, stated on
`Flow`, what was received followed by what is in the channel, is inductive with the types
of the channel: `Receive` moves a trade within `Flow`, and `OfferTrade` appends the next of
the tape or drops it. The engine's actions are the book's or leave its
variables alone, by definition, which carries what is proved of the book
over to the engine, `KeepsPromise` included.

The futures engine. `FInv` has eight parts. `FlowInv`: an order goes through the channel
once. `BookInv`: the levels list exactly the open orders of their side and price; with
`StepTo`, which removes the maker under the loop, an order that is done is out of its level
at once, so the spot book's bound becomes `StatsInv`: the levels and totals cover the
sum of the open orders. `LoopInv` is what the loops know: while a level is swept every
level of the maker's side is that one or in `todo`, those in `todo` are no better, and the
index is 1 as long as the taker is not done, for whoever was passed is done and gone.
So the sweep ends only with the taker done or with nobody left to trade with; a taker
that rests then crosses nobody, which keeps `CrossInv`, and that is `NeverCrossed`.
`PricePriority` is `LoopInv` and `BookInv` together. `PositionsInv` relates a position to the
trades booked for it: a weighted average lies between what it averages (`StaysBetween`),
also when it starts again from an average of 0. The refinement needs one
step per trade here; that makers trade in order of arrival follows from the index being
1, that is from nobody open being in front.

The hub's invariant ties three places together. `Listed`: a client is on the list
exactly while its reader is between registration and departure, and the loop's `todo`
is empty when `Run` is idle, so `Unregister` closes a channel nobody is about to send
on. `OrderInv`: what was sent is behind the message in delivery, strictly for clients
still in `todo`, and that is behind those in `broadcast`. `AnswerInv`: who has been answered
for a topic has it in its groups and no request of its own is about to remove it, so
`Deliver` cannot pass over a message that is owed.

The risk package's invariants say what each goroutine may still do with what it
holds. `BookInv` and `LateInv`: a position is untouched until it ends and empty after, and
a fee other than 0 in the hands of the funder was worked out before. `GoneInv`: what was
liquidated is about to be removed or out of the map, and in nobody's snapshot of an
update, because `le.mu` lets no update begin between `Liquidate` and `RemovePosition`; so
its liquidation price stays the one it was judged by, which `PriceInv` knows, and
`FoundIsDue` is the algebra that turns the comparison with that price into the margin
being used up. `PnlInv`: only the position in
the hands of the simulator shows a profit at an older price.

## 5. What is only model-checked

Liveness: `AcceptedIsDealtWith`, `MatchEnds`, `StopReturns`, `DeadIsLetGo`,
`BroadcastDrains`. Temporal formulas under fairness are beyond the prover. For `MatchEnds`
the part that is not about scheduling is proved (`EveryMatchEnds`). Every other property of a
passing run is stated by a theorem.

## 6. What is not modelled

- `mq/kafka.go` is a mock that logs; `proto/` encodes market data no other component
  uses; `config/` is read once at start. The red-black tree and the linked queue of
  `skiplist.go` are used by nobody.
- `RemoveOrder`, `Cancel` and `Wait` of orders and books have no caller in the server, and
  the handlers' `CancelOrder` and `GetOrder` are stubs.
- Read-only accessors (depth, statistics, `GetPositions`), logging, timestamps,
  identifiers, HTTP and JSON; the metrics; the wiring of the server.
- `GetTrades` of a stopped futures engine, which collects nils as the spot engine's does
  (`engine_nil`): nobody calls it.
- Routing: several shards are several independent engines, each of which
  `MatchingEngine` models with the symbols of one shard. A request may name one symbol in
  its query, by which the handler is chosen, and another in its body; `Risk` takes
  requests in which they agree.
- Floats: sums and averages are exact in the models.

## 7. Plan

In this order, the first the most important:

1. `OrderBook`, `Exchange`, `MatchingEngine`, `SkipList` and their proofs (done).
2. `Hub` and its proofs (done).
3. `FuturesEngine`, `Risk` and the proofs about `Risk` (done).
4. The sums, refinements and the proofs about `FuturesEngine` (done).
5. The proofs about `SkipList`, and that matches end (done).
6. Orders cancelled and waited for by a client of the `engine` package, if the server
   comes to offer that; `RedBlackTree` and the linked queue if it comes to use them.
