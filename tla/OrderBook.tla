------------------------------- MODULE OrderBook -------------------------------
(***************************************************************************)
(* The spot order book and the matching of one order at a time against it: *)
(* engine/order.go, engine/orderbook.go and the part of engine/matching.go *)
(* that processes an order it has received.                                *)
(*                                                                         *)
(* One goroutine, the engine's, runs this code.  A step of the model is    *)
(* what it does between two places at which another goroutine could see    *)
(* the orders (each Order has its own lock) or the book's statistics       *)
(* (GetStats reads them without a lock), so one trade takes two steps: the *)
(* taker is filled, then the maker.                                        *)
(*                                                                         *)
(* Prices and quantities, floats in the code, are integers here, which     *)
(* every float computation of this code represents exactly.  Nothing in the*)
(* code keeps a limit price from being negative.                           *)
(*                                                                         *)
(* The skip lists hold two prices equal that are at most 1e-8 apart        *)
(* (Epsilon here), so an order may join a level whose key is not its price.*)
(* The limit of a taker is compared with the key, without tolerance, and   *)
(* the trade is made at the maker's own price.                             *)
(***************************************************************************)
EXTENDS Integers, Sequences, FiniteSets, Totals

CONSTANTS
    Orders,      \* the orders that may be submitted
    Symbols,     \* the symbols that share this book
    Prices,      \* limit prices
    Quantities,  \* order quantities
    Epsilon,     \* prices at most this far apart compare equal in a skip list
    NoOrder      \* the engine holds no order

ASSUME BookAssumption ==
    /\ Prices \subseteq Int
    /\ Quantities \subseteq Nat \ {0}    \* CreateOrder refuses others
    /\ Epsilon \in Nat
    /\ NoOrder \notin Orders

Sides == {"Buy", "Sell"}
Opposite(s) == IF s = "Buy" THEN "Sell" ELSE "Buy"

\* What the client fixes in NewOrder.  A market order has no price of its own.
Request ==
    [symbol : Symbols, side : Sides, type : {"Limit"}, price : Prices, quantity : Quantities]
        \cup
    [symbol : Symbols, side : Sides, type : {"Market"}, price : {0}, quantity : Quantities]

Status == {"New", "PartiallyFilled", "Filled", "Rejected"}

VARIABLES
    request,    \* the fixed part of each order
    order,      \* the part of each order that matching changes
    processed,  \* the orders the engine has taken up (processedCount)
    queue,      \* PriceLevel.Orders by side and the level's key; <<>>: no such level
    levelQty,   \* PriceLevel.Quantity by side and the level's key
    total,      \* TotalBidQuantity and TotalAskQuantity
    tape,       \* history: every trade made, in order
    pc,         \* where the engine is in processOrder and matchOrders
    taker,      \* the order being processed
    level,      \* the key of the price level being swept
    index,      \* the loop variable i over the level's orders
    lot         \* matchQuantity of the trade under way

bookVars == <<queue, levelQty, total>>
scanVars == <<level, index, lot>>
vars == <<request, order, processed, bookVars, tape, pc, taker, scanVars>>

(* The order: engine/order.go *)

\* What matching changes of an order; Canceled is a status no caller sets.
NewOrder == [filled |-> 0, value |-> 0, status |-> "New", done |-> FALSE]

Quantity(o) == request[o].quantity
Remaining(o) == Quantity(o) - order[o].filled
IsDone(o) == order[o].done

\* Mutant: a later fill sets the average price to its own, instead of weighting.
FilledAtLastPrice(o, quantity, price) ==
    LET filled == order[o].filled + quantity
        all == filled >= Quantity(o)
    IN  [filled |-> filled, value |-> price * filled,
         status |-> IF all THEN "Filled" ELSE "PartiallyFilled", done |-> IsDone(o) \/ all]

\* Order.Fill.  value is AvgFillPrice * FilledQuantity.
Filled(o, quantity, price) ==
    LET filled == order[o].filled + quantity
        all == filled >= Quantity(o)
    IN  [filled |-> filled,
         value  |-> order[o].value + price * quantity,
         status |-> IF all THEN "Filled" ELSE "PartiallyFilled",
         done   |-> IsDone(o) \/ all]

Rejected(o) ==
    [filled |-> order[o].filled, value |-> order[o].value,
     status |-> "Rejected", done |-> IsDone(o)]

(* The book: engine/orderbook.go *)

Levels(s) == {p \in Prices : queue[s][p] # <<>>}

\* SkipList.compare: equal prices, and the order of the others.  NewSkipList(true),
\* the bids, ascend and NewSkipList(false), the asks, descend.
Near(p, q) == p - q <= Epsilon /\ q - p <= Epsilon
ListedBefore(s, p, q) == ~Near(p, q) /\ (IF s = "Buy" THEN p < q ELSE p > q)

\* p is the key of book.Min(), the first node of the side's list.
IsMin(s, p) ==
    /\ p \in Levels(s)
    /\ \A q \in Levels(s) : q = p \/ ListedBefore(s, p, q)

\* Mutant: sells compare like buys.
CrossesFromAbove(o, p) == request[o].type = "Market" \/ request[o].price >= p

\* priceMatch: may o trade in the level with key p?
Crosses(o, p) ==
    \/ request[o].type = "Market"
    \/ request[o].side = "Buy" /\ request[o].price >= p
    \/ request[o].side = "Sell" /\ request[o].price <= p

\* matchOrders' arguments and loop variables.
MakerSide == Opposite(request[taker].side)
LevelOrders == queue[MakerSide][level]
Maker == LevelOrders[index]

\* Mutant: the larger of the two remainders.
LargerQuantity == IF Remaining(taker) >= Remaining(Maker)
                  THEN Remaining(taker) ELSE Remaining(Maker)

MatchQuantity == IF Remaining(taker) <= Remaining(Maker)
                 THEN Remaining(taker) ELSE Remaining(Maker)

\* Mutant: a level is only deleted when its Quantity is used up.
QuantityUsedUp == levelQty[MakerSide][level] <= 0

\* Mutant: one order done is enough to delete the level.
AnyDone == \E i \in 1..Len(LevelOrders) : IsDone(LevelOrders[i])

\* allDone || priceLevel.Quantity <= 0
LevelSwept ==
    \/ \A i \in 1..Len(LevelOrders) : IsDone(LevelOrders[i])
    \/ levelQty[MakerSide][level] <= 0

\* The keys of the levels that an order of this price may join.  Search returns the
\* first node it meets whose key compares equal: if two do, either, by the heights the
\* random numbers gave them.  If none does, a level with the price as its key is made.
LevelsFor(s, price) ==
    LET found == {p \in Levels(s) : Near(p, price)}
    IN  IF found = {} THEN {price} ELSE found

\* Mutant: an order joins the front of its level.
AddInFront(o) ==
    LET s == request[o].side
    IN  \E p \in LevelsFor(s, request[o].price) :
            /\ queue' = [queue EXCEPT ![s][p] = <<o>> \o @]
            /\ levelQty' = [levelQty EXCEPT ![s][p] = @ + Quantity(o)]
            /\ total' = [total EXCEPT ![s] = @ + Quantity(o)]

\* Mutant: the level's Quantity becomes that of its newest order.
AddOverwriting(o) ==
    LET s == request[o].side
    IN  \E p \in LevelsFor(s, request[o].price) :
            /\ queue' = [queue EXCEPT ![s][p] = Append(@, o)]
            /\ levelQty' = [levelQty EXCEPT ![s][p] = Quantity(o)]
            /\ total' = [total EXCEPT ![s] = @ + Quantity(o)]

\* AddOrder: the level and the side grow by the order's whole Quantity.
AddOrder(o) ==
    LET s == request[o].side
    IN  \E p \in LevelsFor(s, request[o].price) :
            /\ queue' = [queue EXCEPT ![s][p] = Append(@, o)]
            /\ levelQty' = [levelQty EXCEPT ![s][p] = @ + Quantity(o)]
            /\ total' = [total EXCEPT ![s] = @ + Quantity(o)]

\* Mutant: the trades of the match are lost on the way to processMarketOrder.
NoTrades(o) == {}

\* The trades Match returned for o, as positions on the tape.
TradesOf(o) == {i \in DOMAIN tape : tape[i].taker = o}

-----------------------------------------------------------------------------

Init ==
    /\ request \in [Orders -> Request]
    /\ order = [o \in Orders |-> NewOrder]
    /\ processed = {}
    /\ queue = [s \in Sides |-> [p \in Prices |-> <<>>]]
    /\ levelQty = [s \in Sides |-> [p \in Prices |-> 0]]
    /\ total = [s \in Sides |-> 0]
    /\ tape = <<>>
    /\ pc = "idle"
    /\ taker = NoOrder
    /\ level = 0 /\ index = 0 /\ lot = 0

\* processOrder takes up o and calls Match.
Process(o) ==
    /\ pc = "idle"
    /\ o \notin processed
    /\ processed' = processed \cup {o}
    /\ taker' = o
    /\ pc' = "level"
    /\ UNCHANGED <<request, order, bookVars, tape, scanVars>>

\* The outer loop of matchOrders finds a level it may trade with ...
EnterLevel ==
    /\ pc = "level"
    /\ \E p \in Prices :
        /\ IsMin(MakerSide, p)
        /\ Crosses(taker, p)
        /\ level' = p
    /\ index' = 1
    /\ pc' = "scan"
    /\ UNCHANGED <<request, order, processed, bookVars, tape, taker, lot>>

\* ... or none: the side is empty or its first level does not cross.
EndMatch ==
    /\ pc = "level"
    /\ \A p \in Prices : IsMin(MakerSide, p) => ~Crosses(taker, p)
    /\ pc' = "matched"
    /\ UNCHANGED <<request, order, processed, bookVars, tape, taker, scanVars>>

\* The inner loop passes over an order that is done ...
SkipDone ==
    /\ pc = "scan"
    /\ index <= Len(LevelOrders)
    /\ IsDone(Maker)
    /\ index' = index + 1
    /\ UNCHANGED <<request, order, processed, bookVars, tape, pc, taker, level, lot>>

\* ... and trades with one that is not: first the taker is filled, ...
FillTaker ==
    /\ pc = "scan"
    /\ index <= Len(LevelOrders)
    /\ ~IsDone(Maker)
    /\ lot' = MatchQuantity
    /\ order' = [order EXCEPT ![taker] = Filled(taker, MatchQuantity, request[Maker].price)]
    /\ pc' = "fillMaker"
    /\ UNCHANGED <<request, processed, bookVars, tape, taker, level, index>>

\* ... then the maker, the totals and the trade record.
FillMaker ==
    /\ pc = "fillMaker"
    /\ order' = [order EXCEPT ![Maker] = Filled(Maker, lot, request[Maker].price)]
    /\ total' = [total EXCEPT ![MakerSide] = @ - lot]
    /\ levelQty' = [levelQty EXCEPT ![MakerSide][level] = @ - lot]
    /\ tape' = Append(tape, [taker |-> taker, maker |-> Maker,
                             price |-> request[Maker].price, quantity |-> lot])
    /\ pc' = IF IsDone(taker) THEN "sweep" ELSE "scan"
    /\ index' = IF IsDone(taker) THEN index ELSE index + 1
    /\ UNCHANGED <<request, processed, queue, taker, level, lot>>

EndScan ==
    /\ pc = "scan"
    /\ index > Len(LevelOrders)
    /\ pc' = "sweep"
    /\ UNCHANGED <<request, order, processed, bookVars, tape, taker, scanVars>>

\* The level is deleted when it is used up, and the outer loop goes on unless
\* the taker is done.
SweepLevel ==
    /\ pc = "sweep"
    /\ IF LevelSwept
       THEN /\ queue' = [queue EXCEPT ![MakerSide][level] = <<>>]
            /\ levelQty' = [levelQty EXCEPT ![MakerSide][level] = 0]
       ELSE UNCHANGED <<queue, levelQty>>
    /\ pc' = IF IsDone(taker) THEN "matched" ELSE "level"
    /\ UNCHANGED <<request, order, processed, total, tape, taker, scanVars>>

\* processOrder is over: the engine returns to its loop.
Return ==
    /\ pc' = "idle"
    /\ taker' = NoOrder
    /\ level' = 0 /\ index' = 0 /\ lot' = 0
    /\ UNCHANGED <<request, processed, tape>>

\* A market order that traded nothing is rejected, and is not done.
RejectMarket ==
    /\ pc = "matched"
    /\ request[taker].type = "Market"
    /\ TradesOf(taker) = {}
    /\ order' = [order EXCEPT ![taker] = Rejected(taker)]
    /\ Return
    /\ UNCHANGED bookVars

\* What a market order that traded leaves unfilled is dropped, as is nothing
\* of a limit order that is done.
Forget ==
    /\ pc = "matched"
    /\ IF request[taker].type = "Market" THEN TradesOf(taker) # {} ELSE IsDone(taker)
    /\ Return
    /\ UNCHANGED <<order, bookVars>>

\* The remainder of a limit order joins the book.
Rest ==
    /\ pc = "matched"
    /\ request[taker].type = "Limit"
    /\ ~IsDone(taker)
    /\ AddOrder(taker)
    /\ Return
    /\ UNCHANGED order

\* The engine goes on with the order it holds.
Work ==
    \/ EnterLevel \/ EndMatch
    \/ SkipDone \/ FillTaker \/ FillMaker \/ EndScan
    \/ SweepLevel
    \/ RejectMarket \/ Forget \/ Rest

Next ==
    \/ \E o \in Orders : Process(o)
    \/ Work

Spec == Init /\ [][Next]_vars

-----------------------------------------------------------------------------
(* Properties *)

\* Every variable has its type, and the engine holds an order exactly when it
\* is not idle.
TypeOK ==
    /\ request \in [Orders -> Request]
    /\ order \in [Orders -> [filled : Nat, value : Int, status : Status, done : BOOLEAN]]
    /\ processed \in SUBSET Orders
    /\ queue \in [Sides -> [Prices -> Seq(Orders)]]
    /\ levelQty \in [Sides -> [Prices -> Int]]
    /\ total \in [Sides -> Int]
    /\ tape \in Seq([taker : Orders, maker : Orders, price : Int, quantity : Nat])
    /\ pc \in {"idle", "level", "scan", "fillMaker", "sweep", "matched"}
    /\ taker \in processed \cup {NoOrder}
    /\ taker = NoOrder <=> pc = "idle"
    /\ level \in Int /\ index \in Nat /\ lot \in Nat
    /\ pc \in {"scan", "fillMaker", "sweep"} => level \in Prices
    /\ pc \in {"scan", "fillMaker"} => index > 0
    /\ pc = "fillMaker" => index <= Len(LevelOrders)

\* The trades of o as a maker.
Makes(o) == {i \in DOMAIN tape : tape[i].maker = o}

Traded(trades) == SumOver([i \in DOMAIN tape |-> tape[i].quantity], trades)
Paid(trades) == SumOver([i \in DOMAIN tape |-> tape[i].price * tape[i].quantity], trades)

\* What o has been filled of the trade under way, not yet on the tape.
HalfTrade(o) == IF pc = "fillMaker" /\ o = taker THEN lot ELSE 0

\* Each order's filled quantity and value are those of its trades: Fill is
\* called for the taker and for the maker of every trade with the same amounts
\* and no order is filled beyond its quantity or called filled before it.
FillsMatchTape ==
    \A o \in Orders :
        LET trades == TradesOf(o) \cup Makes(o)
        IN  /\ order[o].filled = Traded(trades) + HalfTrade(o)
            /\ order[o].value = Paid(trades)
                    + (IF HalfTrade(o) > 0 THEN lot * request[Maker].price ELSE 0)
            /\ order[o].filled <= Quantity(o)
            /\ IsDone(o) <=> order[o].filled = Quantity(o)

\* What the client of o asked for allows price p, but for the tolerance of the list.
WithinLimit(o, p) ==
    request[o].type = "Limit" =>
        IF request[o].side = "Buy" THEN p <= request[o].price + Epsilon
                                   ELSE request[o].price <= p + Epsilon

\* Every trade is one of a positive quantity between two orders of opposite sides, at
\* the price of the maker.  The taker's limit is kept up to Epsilon only: it was
\* compared with the key of the maker's level, which may be that much better for the
\* taker than the maker's price.
TradesAreSound ==
    \A i \in DOMAIN tape :
        LET t == tape[i]
        IN  /\ t.quantity > 0
            /\ request[t.maker].side = Opposite(request[t.taker].side)
            /\ request[t.maker].type = "Limit"
            /\ t.price = request[t.maker].price
            /\ WithinLimit(t.taker, t.price)

\* An order on the book is a limit order the engine has dealt with, in a level of its
\* side whose key compares equal to its price, once.
InPlace(s, p) ==
    LET q == queue[s][p]
    IN  /\ \A i \in 1..Len(q) :
            /\ q[i] \in processed \ {taker}
            /\ request[q[i]].type = "Limit"
            /\ request[q[i]].side = s
            /\ Near(request[q[i]].price, p)
        /\ \A i, j \in 1..Len(q) : i # j => q[i] # q[j]

\* No order is in two levels, though two may compare equal to its price.
OneLevelEach ==
    \A s \in Sides : \A p, r \in Prices :
        \A i \in 1..Len(queue[s][p]), j \in 1..Len(queue[s][r]) :
            queue[s][p][i] = queue[s][r][j] => p = r

\* A limit order the engine has dealt with and not completed.
Open(o) == o \in processed \ {taker} /\ request[o].type = "Limit" /\ ~IsDone(o)

\* The engine loses no liquidity and invents none: every open order rests in one
\* level, which is never deleted under it, whatever the level's Quantity says, and
\* nothing else is ever on the book.
OpenOrdersRest ==
    /\ \A s \in Sides, p \in Prices : InPlace(s, p)
    /\ OneLevelEach
    /\ \A o \in Orders : Open(o) =>
           \E p \in Prices : LET q == queue[request[o].side][p]
                             IN  \E i \in 1..Len(q) : q[i] = o

\* In one level, first come first served: while an order is open, no order behind it
\* in its level has ever made a trade.
TimePriority ==
    \A s \in Sides, p \in Prices :
        \A i, j \in 1..Len(queue[s][p]) :
            i < j /\ ~IsDone(queue[s][p][i])
                => \A k \in DOMAIN tape : tape[k].maker # queue[s][p][j]

\* What AddOrder counted for o and no trade has taken off again.
Counted(o) == Quantity(o) - Traded(Makes(o))

\* The orders in a level, and those of a side that ever rested.
Listed(s, p) == {o \in Orders : \E i \in 1..Len(queue[s][p]) : queue[s][p][i] = o}
Rested(s) == {o \in Orders : request[o].side = s /\ (Open(o) \/ Makes(o) # {})}

\* What GetDepth and GetStats report.  A level counts each of its orders with
\* what it had not sold as a maker, so what it sold as a taker before it rested
\* is still counted: never less than what is open, often more.  The totals keep
\* that excess of every order that ever rested.
DepthAccounting ==
    LET counted == [o \in Orders |-> Counted(o)]
    IN  /\ \A s \in Sides, p \in Prices :
            /\ levelQty[s][p] = SumOver(counted, Listed(s, p))
            /\ \A i \in 1..Len(queue[s][p]) : Counted(queue[s][p][i]) >= Remaining(queue[s][p][i])
        /\ \A s \in Sides :
            total[s] = SumOver(counted, Rested(s))

\* Between orders every level on the book has an open order: GetDepth and
\* GetBestBidAsk never show a level that nothing can trade with.
NoDeadLevel ==
    pc = "idle" => \A s \in Sides : \A p \in Levels(s) :
        \E i \in 1..Len(queue[s][p]) : ~IsDone(queue[s][p][i])

\* An order the engine is through with and that is not on the book.
Settled(o) == IsDone(o) \/ (o \in processed \ {taker} /\ request[o].type = "Market")

\* Filled, rejected and the dropped rest of a market order are final: no later
\* order changes what the client was told.
SettledIsFinal == [][\A o \in Orders : Settled(o) => order'[o] = order[o]]_vars

\* The matching of every order ends: no level is swept for ever.  (Under the
\* fairness of module MatchingEngine: the engine runs while it holds an order.)
MatchEnds == pc # "idle" ~> pc = "idle"

\* The orders on the maker's side, those of them outside the level being swept,
\* and those of that level the inner loop has not passed.
OnSide == UNION {Listed(MakerSide, p) : p \in Prices}
Elsewhere == UNION {Listed(MakerSide, p) : p \in Prices \ {level}}
NotPassed == {LevelOrders[i] : i \in index..Len(LevelOrders)}

\* The most steps the engine may take until it is through with the order it holds:
\* five per order on the maker's side, if each has a level of its own.
StepsLeft ==
    CASE pc = "idle"      -> 0
      [] pc = "matched"   -> 1
      [] pc = "level"     -> 2 + 5 * Cardinality(OnSide)
      [] pc = "scan"      -> 4 + 5 * Cardinality(Elsewhere) + 2 * Cardinality(NotPassed)
      [] pc = "fillMaker" -> 3 + 5 * Cardinality(Elsewhere) + 2 * Cardinality(NotPassed)
      [] pc = "sweep"     -> 3 + 5 * Cardinality(Elsewhere)

\* The nested loops of matchOrders get on with every step: no level is entered
\* twice and no order of a level met twice, whatever done orders and quantities
\* that no longer count anything the loops come across.
MatchAdvances == [][Work => StepsLeft' \in Nat /\ StepsLeft' < StepsLeft]_vars

\* README.md:241 "优先匹配价格最优的订单" (the best priced order is matched
\* first): when a trade is under way, no open order of the maker's side has a
\* better price for the taker.
PricePriority ==
    pc = "fillMaker" =>
        \A p \in Levels(MakerSide) :
            (IF request[taker].side = "Buy" THEN p < level ELSE p > level)
                => \A i \in 1..Len(queue[MakerSide][p]) : IsDone(queue[MakerSide][p][i])

\* API.md:109 "获取指定交易对的订单簿深度" (the depth of the given symbol): a level, which
\* is what each symbol of the shard is shown, holds orders of one symbol.
LevelIsOfOneSymbol ==
    \A s \in Sides, p \in Prices : \A i, j \in 1..Len(queue[s][p]) :
        request[queue[s][p][i]].symbol = request[queue[s][p][j]].symbol

(* What the clients are promised: module Exchange *)

\* What o has traded, counting a trade when it is complete.
Sold(o) == order[o].filled - (IF pc = "fillMaker" /\ o = taker THEN lot ELSE 0)

Fate(o) ==
    CASE o \notin processed            -> "New"
      [] o = taker                      -> "Matching"
      [] Open(o)                        -> "Open"
      [] o # taker /\ IsDone(o)         -> "Filled"
      [] order[o].status = "Rejected"   -> "Rejected"
      [] OTHER                          -> "Dropped"

\* The open orders of one level, pairwise, the earlier one first.
RestedBefore ==
    {pair \in {o \in Orders : Open(o)} \X {o \in Orders : Open(o)} :
        \E s \in Sides, p \in Prices : \E i, j \in 1..Len(queue[s][p]) :
            i < j /\ queue[s][p][i] = pair[1] /\ queue[s][p][j] = pair[2]}

Promised == INSTANCE Exchange WITH
    Tolerance <- Epsilon,
    wanted  <- request,
    sold    <- [o \in Orders |-> Sold(o)],
    fate    <- [o \in Orders |-> Fate(o)],
    current <- taker,
    before  <- RestedBefore

\* With all its levels, loops and statistics, the book only ever does what
\* Exchange allows: the half-done trades, the orders that are done and still
\* listed and the levels that are deleted cannot be told from outside.
KeepsPromise == Promised!AbstractSpec

=============================================================================
