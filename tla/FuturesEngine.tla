------------------------------ MODULE FuturesEngine ------------------------------
(***************************************************************************)
(* engine/futures: the engine of one perpetual contract with its book, the *)
(* positions it keeps of its users, and SubmitOrder, GetTrades and Stop    *)
(* around it.                                                              *)
(*                                                                         *)
(* Match holds the book's lock from beginning to end, so that depth and    *)
(* best prices are only ever read between matches; a trade is one step.    *)
(* Levels are kept in a map by price and sorted when a match begins.       *)
(*                                                                         *)
(* Prices and quantities are integers.  A limit price may be 0 or negative:*)
(* the handler's CreateOrder checks the quantity and not the price.  The   *)
(* engine never looks at the symbol of an order, but as part of the key of *)
(* a position: user, symbol and position side are one holder.  The leverage*)
(* of an order only divides the margin.                                    *)
(***************************************************************************)
EXTENDS Integers, Sequences, FiniteSets, Totals

CONSTANTS
    Orders,      \* the orders that may be submitted
    Holders,     \* the positions that users may have: user and position side
    Prices,      \* limit prices
    Quantities,  \* order quantities
    NoOrder,     \* the engine holds no order
    OrderCap,    \* cap(orderCh), 50000 in the code
    TradeCap     \* cap(tradeCh), 50000 in the code

ASSUME FuturesAssumption ==
    /\ Prices \subseteq Int
    /\ Quantities \subseteq Nat \ {0}    \* CreateOrder refuses others
    /\ NoOrder \notin Orders
    /\ OrderCap \in Nat \ {0} /\ TradeCap \in Nat \ {0}

Sides == {"Buy", "Sell"}
Opposite(s) == IF s = "Buy" THEN "Sell" ELSE "Buy"

\* What NewFuturesOrder is given.  Holder and side are independent: a buy may name
\* the short position of its user.
Request ==
    [holder : Holders, side : Sides, type : {"Limit"}, price : Prices, quantity : Quantities]
        \cup
    [holder : Holders, side : Sides, type : {"Market"}, price : {0}, quantity : Quantities]

VARIABLES
    request,    \* the fixed part of each order
    order,      \* the part of each order that matching changes
    call,       \* what SubmitOrder returned for each order
    orderCh,    \* orders submitted and not taken up
    processed,  \* the orders the engine has taken up (processedCount)
    queue,      \* PriceLevel.Orders by side and price; <<>>: no such level
    levelQty,   \* PriceLevel.Quantity by side and price
    total,      \* TotalBidQuantity and TotalAskQuantity
    tape,       \* history: every trade made, in order
    tradeCh,    \* trades published, not collected: positions on the tape
    offered,    \* how many trades of the tape the engine has offered to tradeCh
    booked,     \* how many it has booked to positions
    position,   \* the engine's positions by holder; quantity 0: no position yet
    pc,         \* where the engine is in processOrder and Match
    taker,      \* the order being processed
    todo,       \* the prices of the other side that Match has not come to
    level,      \* the price level being swept
    index,      \* the loop variable i over the level's orders
    stop        \* how far Stop is

bookVars == <<queue, levelQty, total>>
scanVars == <<todo, level, index>>
chVars == <<call, orderCh, tradeCh, stop>>
vars == <<request, order, processed, bookVars, tape, offered, booked, position,
          pc, taker, scanVars, chVars>>

(* The order: futures_order.go *)

NewOrder == [filled |-> 0, value |-> 0, status |-> "New", done |-> FALSE]

Remaining(o) == request[o].quantity - order[o].filled
IsDone(o) == order[o].done

\* FuturesOrder.Fill.  value is AvgFillPrice * FilledQuantity.
Filled(o, quantity, price) ==
    LET filled == order[o].filled + quantity
        all == filled >= request[o].quantity
    IN  [filled |-> filled,
         value  |-> order[o].value + price * quantity,
         status |-> IF all THEN "Filled" ELSE "PartiallyFilled",
         done   |-> IsDone(o) \/ all]

(* The book *)

Levels(s) == {p \in Prices : queue[s][p] # <<>>}

\* Mutant: both sides are sorted ascending.
LowestFirst(s, p, q) == p <= q

\* The order in which Match sorts the prices of a side: asks ascend, bids descend.
ComesFirst(s, p, q) == IF s = "Sell" THEN p <= q ELSE p >= q

Crosses(o, p) ==
    \/ request[o].type = "Market"
    \/ request[o].side = "Buy" /\ request[o].price >= p
    \/ request[o].side = "Sell" /\ request[o].price <= p

MakerSide == Opposite(request[taker].side)
LevelOrders == queue[MakerSide][level]

\* The price Match comes to next.
NextPrice(p) == p \in todo /\ \A q \in todo : ComesFirst(MakerSide, p, q)

\* What the inner loop still has to look at: it passes over orders that are done.
Ahead == {i \in index..Len(LevelOrders) : ~IsDone(LevelOrders[i])}

MatchQuantity(m) == IF Remaining(taker) <= Remaining(m) THEN Remaining(taker) ELSE Remaining(m)

\* Mutant: the loop variable is not set back when an order is removed.
StepOver(i, removed) == i + 1

\* i-- undoes i++ when the order at i has been removed.
StepTo(i, removed) == IF removed THEN i ELSE i + 1

\* Mutant: an order joins the front of its level.
AddInFront(o) ==
    LET s == request[o].side
        p == request[o].price
    IN  /\ queue' = [queue EXCEPT ![s][p] = <<o>> \o @]
        /\ levelQty' = [levelQty EXCEPT ![s][p] = @ + request[o].quantity]
        /\ total' = [total EXCEPT ![s] = @ + request[o].quantity]

\* Mutant: the level takes the quantity of the order that joins it.
AddOverwriting(o) ==
    LET s == request[o].side
        p == request[o].price
    IN  /\ queue' = [queue EXCEPT ![s][p] = Append(@, o)]
        /\ levelQty' = [levelQty EXCEPT ![s][p] = request[o].quantity]
        /\ total' = [total EXCEPT ![s] = @ + request[o].quantity]

\* AddOrder: the level and the side grow by the order's whole Quantity.
AddOrder(o) ==
    LET s == request[o].side
        p == request[o].price
    IN  /\ queue' = [queue EXCEPT ![s][p] = Append(@, o)]
        /\ levelQty' = [levelQty EXCEPT ![s][p] = @ + request[o].quantity]
        /\ total' = [total EXCEPT ![s] = @ + request[o].quantity]

(* Positions *)

NoPosition == [quantity |-> 0, value |-> 0, margin |-> 0]

\* Mutant: the quantity is updated first, and the trade's price weighted with all of it.
GrownFirst(pos, t) ==
    [quantity |-> pos.quantity + t.quantity,
     value |-> IF pos.value = 0 THEN t.price * (pos.quantity + t.quantity)
               ELSE pos.value + t.price * (pos.quantity + t.quantity),
     margin |-> IF pos.quantity = 0 THEN t.price * t.quantity ELSE pos.margin]

\* updatePositions for one trade, whichever way it goes.  value is EntryPrice *
\* Quantity and margin is Margin * Leverage; the margin is set once, and an entry
\* price of 0, also one that is the average of earlier trades, is replaced by the price
\* of the trade, for the whole quantity.
Grown(pos, t) ==
    [quantity |-> pos.quantity + t.quantity,
     value    |-> IF pos.value = 0 THEN t.price * (pos.quantity + t.quantity)
                  ELSE pos.value + t.price * t.quantity,
     margin   |-> IF pos.quantity = 0 THEN t.price * t.quantity ELSE pos.margin]

-----------------------------------------------------------------------------

Init ==
    /\ request \in [Orders -> Request]
    /\ order = [o \in Orders |-> NewOrder]
    /\ call = [o \in Orders |-> "none"]
    /\ orderCh = <<>> /\ tradeCh = <<>> /\ processed = {}
    /\ queue = [s \in Sides |-> [p \in Prices |-> <<>>]]
    /\ levelQty = [s \in Sides |-> [p \in Prices |-> 0]]
    /\ total = [s \in Sides |-> 0]
    /\ tape = <<>> /\ offered = 0 /\ booked = 0
    /\ position = [h \in Holders |-> NoPosition]
    /\ pc = "idle" /\ taker = NoOrder
    /\ todo = {} /\ level = 0 /\ index = 0
    /\ stop = "running"

(* SubmitOrder, whose select takes any case that is ready *)

Cancelled == stop # "running"

Submit(o, result) ==
    /\ call[o] = "none"
    /\ call' = [call EXCEPT ![o] = result]
    /\ UNCHANGED <<request, order, processed, bookVars, tape, offered, booked, position,
                   pc, taker, scanVars, tradeCh, stop>>

Accept(o) ==
    /\ Submit(o, "accepted")
    /\ stop # "closed" /\ Len(orderCh) < OrderCap
    /\ orderCh' = Append(orderCh, o)

\* The channel was full for 100ms.
TimeOut(o) ==
    /\ Submit(o, "ORDER_CHANNEL_FULL")
    /\ stop # "closed" /\ Len(orderCh) = OrderCap
    /\ UNCHANGED orderCh

RefuseStopped(o) ==
    /\ Submit(o, "ENGINE_STOPPED")
    /\ Cancelled
    /\ UNCHANGED orderCh

\* On a closed channel the send is ready too, and panics.
SendOnClosed(o) ==
    /\ Submit(o, "panic")
    /\ stop = "closed"
    /\ UNCHANGED orderCh

(* The engine's goroutine *)

\* run takes an order from the channel, and Match sorts the prices of the other side.
TakeOrder ==
    /\ stop \in {"running", "cancelled"}
    /\ pc = "idle" /\ orderCh # <<>>
    /\ taker' = Head(orderCh)
    /\ orderCh' = Tail(orderCh)
    /\ processed' = processed \cup {taker'}
    /\ todo' = Levels(Opposite(request[taker'].side))
    /\ pc' = "sweep"
    /\ UNCHANGED <<request, order, bookVars, tape, offered, booked, position,
                   level, index, call, tradeCh, stop>>

\* The outer loop comes to a price it may trade at ...
EnterLevel ==
    /\ pc = "sweep" /\ ~IsDone(taker)
    /\ \E p \in todo : NextPrice(p) /\ Crosses(taker, p) /\ level' = p
    /\ todo' = todo \ {level'}
    /\ index' = 1
    /\ pc' = "scan"
    /\ UNCHANGED <<request, order, processed, bookVars, tape, offered, booked, position,
                   taker, chVars>>

\* ... and ends when the taker is done, no price is left or the next does not cross.
EndMatch ==
    /\ pc = "sweep"
    /\ IsDone(taker) \/ \A p \in todo : NextPrice(p) => ~Crosses(taker, p)
    /\ todo' = {}
    /\ pc' = "matched"
    /\ UNCHANGED <<request, order, processed, bookVars, tape, offered, booked, position,
                   taker, level, index, chVars>>

\* One trade of the inner loop; a maker that is done leaves the level.
Trade ==
    /\ pc = "scan" /\ ~IsDone(taker)
    /\ \E i \in Ahead :
        LET m == LevelOrders[i]
            lot == MatchQuantity(m)
            maker == Filled(m, lot, request[m].price)
        IN  /\ \A j \in Ahead : i <= j
            /\ order' = [order EXCEPT ![taker] = Filled(taker, lot, request[m].price),
                                      ![m] = maker]
            /\ total' = [total EXCEPT ![MakerSide] = @ - lot]
            /\ levelQty' = [levelQty EXCEPT ![MakerSide][level] = @ - lot]
            /\ queue' = IF maker.done
                        THEN [queue EXCEPT ![MakerSide][level] =
                                 SubSeq(@, 1, i - 1) \o SubSeq(@, i + 1, Len(@))]
                        ELSE queue
            /\ index' = StepTo(i, maker.done)
            /\ tape' = Append(tape, [taker |-> taker, maker |-> m,
                                     price |-> request[m].price, quantity |-> lot])
    /\ UNCHANGED <<request, processed, offered, booked, position, pc, taker, todo, level, chVars>>

\* The inner loop is over; a level that is used up is deleted.
LeaveLevel ==
    /\ pc = "scan"
    /\ IsDone(taker) \/ Ahead = {}
    /\ IF levelQty[MakerSide][level] <= 0 \/ LevelOrders = <<>>
       THEN /\ queue' = [queue EXCEPT ![MakerSide][level] = <<>>]
            /\ levelQty' = [levelQty EXCEPT ![MakerSide][level] = 0]
       ELSE UNCHANGED <<queue, levelQty>>
    /\ pc' = "sweep"
    /\ UNCHANGED <<request, order, processed, total, tape, offered, booked, position,
                   taker, scanVars, chVars>>

\* Each trade of the match is sent, or dropped if the channel is full, ...
OfferTrade ==
    /\ pc = "matched" /\ offered < Len(tape)
    /\ offered' = offered + 1
    /\ tradeCh' = IF Len(tradeCh) < TradeCap THEN Append(tradeCh, offered') ELSE tradeCh
    /\ UNCHANGED <<request, order, processed, bookVars, tape, booked, position,
                   pc, taker, scanVars, call, orderCh, stop>>

\* ... and then booked to the position of the taker's holder, and of no other.
UpdatePosition ==
    /\ pc = "matched" /\ offered = Len(tape) /\ booked < Len(tape)
    /\ booked' = booked + 1
    /\ position' = [position EXCEPT ![request[taker].holder] = Grown(@, tape[booked'])]
    /\ UNCHANGED <<request, order, processed, bookVars, tape, offered,
                   pc, taker, scanVars, chVars>>

\* processOrder is over: the engine returns to its loop.
Return ==
    /\ pc = "matched" /\ booked = Len(tape)
    /\ pc' = "idle" /\ taker' = NoOrder
    /\ level' = 0 /\ index' = 0
    /\ UNCHANGED <<request, processed, tape, offered, booked, position, todo, chVars>>

\* A market order that traded nothing is rejected (failedCount), and is not done.
RejectMarket ==
    /\ Return
    /\ request[taker].type = "Market" /\ \A i \in DOMAIN tape : tape[i].taker # taker
    /\ order' = [order EXCEPT ![taker].status = "Rejected"]
    /\ UNCHANGED bookVars

\* The unfilled rest of a market order that traded is dropped, as is nothing of
\* a limit order that is done.
Forget ==
    /\ Return
    /\ IF request[taker].type = "Market" THEN \E i \in DOMAIN tape : tape[i].taker = taker
       ELSE IsDone(taker)
    /\ UNCHANGED <<order, bookVars>>

\* The remainder of a limit order joins the book.
Rest ==
    /\ Return
    /\ request[taker].type = "Limit" /\ ~IsDone(taker)
    /\ AddOrder(taker)
    /\ UNCHANGED order

\* The engine goes on with the order it holds.
Work ==
    \/ EnterLevel \/ EndMatch \/ Trade \/ LeaveLevel
    \/ OfferTrade \/ UpdatePosition
    \/ RejectMarket \/ Forget \/ Rest

(* GetTrades, which nobody in the server calls, and Stop *)

Receive ==
    /\ tradeCh # <<>>
    /\ tradeCh' = Tail(tradeCh)
    /\ UNCHANGED <<request, order, processed, bookVars, tape, offered, booked, position,
                   pc, taker, scanVars, call, orderCh, stop>>

Advance(from, to) ==
    /\ stop = from /\ stop' = to
    /\ UNCHANGED <<request, order, processed, bookVars, tape, offered, booked, position,
                   pc, taker, scanVars, call, orderCh, tradeCh>>

Cancel == Advance("running", "cancelled")

\* run sees the cancellation, between two orders.
Exit == pc = "idle" /\ Advance("cancelled", "exited")

\* wg.Wait has returned; the channels are closed.
Close == Advance("exited", "closed")

EngineStep == TakeOrder \/ Work \/ Exit

Next ==
    \/ \E o \in Orders : Accept(o) \/ TimeOut(o) \/ RefuseStopped(o) \/ SendOnClosed(o)
    \/ EngineStep
    \/ Receive
    \/ Cancel \/ Close

Spec == Init /\ [][Next]_vars

-----------------------------------------------------------------------------
(* Properties *)

\* Every variable has its type, the channels keep within their buffers, and the
\* engine holds an order exactly when it is not idle.
TypeOK ==
    /\ request \in [Orders -> Request]
    /\ order \in [Orders -> [filled : Nat, value : Int, done : BOOLEAN,
                             status : {"New", "PartiallyFilled", "Filled", "Rejected"}]]
    /\ orderCh \in Seq(Orders) /\ Len(orderCh) <= OrderCap
    /\ tradeCh \in Seq(1..offered) /\ Len(tradeCh) <= TradeCap
    /\ queue \in [Sides -> [Prices -> Seq(Orders)]]
    /\ levelQty \in [Sides -> [Prices -> Nat]] /\ total \in [Sides -> Nat]
    /\ offered \in 0..Len(tape) /\ booked \in 0..offered
    /\ position \in [Holders -> [quantity : Nat, value : Int, margin : Int]]
    /\ pc \in {"idle", "sweep", "scan", "matched"}
    /\ taker = NoOrder <=> pc = "idle"
    /\ todo \subseteq Prices
    /\ pc = "idle" => offered = Len(tape) /\ booked = Len(tape)

\* A limit order the engine has dealt with and not completed.
Open(o) == o \in processed \ {taker} /\ request[o].type = "Limit" /\ ~IsDone(o)

\* DESIGN_DERIVATIVES.md 4.5, price priority: no trade leaves an open order of the
\* maker's side at a better price for the taker.  (The spot book breaks this.)
PricePriority ==
    pc = "scan" => \A o \in Orders :
        Open(o) /\ request[o].side = MakerSide =>
            IF MakerSide = "Sell" THEN level <= request[o].price ELSE level >= request[o].price

\* No trade is missed: when the engine is through with an order, no open buy is at or
\* above an open sell, though levels, lists and prices are changed while the nested
\* loops run over them.
NeverCrossed ==
    pc = "idle" => \A b, s \in Orders :
        Open(b) /\ request[b].side = "Buy" /\ Open(s) /\ request[s].side = "Sell"
            => request[b].price < request[s].price

BookedFor(h) == {i \in 1..booked : request[tape[i].taker].holder = h}
Traded(trades) == SumOver([i \in DOMAIN tape |-> tape[i].quantity], trades)

\* A holder's position grows by every trade that the orders naming it make as takers,
\* and by no trade twice or of another holder; whatever averages on the way were taken
\* for "no price yet", its entry price (value / quantity) lies between the lowest and
\* the highest price of those trades.  Nothing is said of the sides of the trades and of
\* the margin, which DESIGN_DERIVATIVES.md wants otherwise than the code has them.
PositionsAddUp ==
    \A h \in Holders :
        LET trades == BookedFor(h)
            pos == position[h]
        IN  /\ pos.quantity = Traded(trades)
            /\ trades = {} => pos = NoPosition
            /\ trades # {} => \E low, high \in trades :
                /\ tape[low].price * pos.quantity <= pos.value
                /\ pos.value <= tape[high].price * pos.quantity

(* What the clients are promised: module Exchange *)

Fate(o) ==
    CASE o \notin processed            -> "New"
      [] o = taker                      -> "Matching"
      [] Open(o)                        -> "Open"
      [] o # taker /\ IsDone(o)         -> "Filled"
      [] order[o].status = "Rejected"   -> "Rejected"
      [] OTHER                          -> "Dropped"

\* The open orders of one level, pairwise, the earlier one first.
RestedBefore ==
    {pair \in {o \in Orders : Open(o)} \X {o \in Orders : Open(o)} :
        \E s \in Sides, p \in Prices : \E i, j \in 1..Len(queue[s][p]) :
            i < j /\ queue[s][p][i] = pair[1] /\ queue[s][p][j] = pair[2]}

Promised == INSTANCE Exchange WITH
    Tolerance <- 0,
    wanted  <- request,
    sold    <- [o \in Orders |-> order[o].filled],
    fate    <- [o \in Orders |-> Fate(o)],
    current <- taker,
    before  <- RestedBefore

\* The futures engine keeps the promise of Exchange as the spot book does, with
\* maps for lists, with orders removed in the middle of the loop over them, and
\* whatever its callers, its readers and Stop do meanwhile.
KeepsPromise == Promised!AbstractSpec

===================================================================================
