---------------------------- MODULE OrderBook_proofs ----------------------------
(***************************************************************************)
(* The invariants of OrderBook that make its properties inductive, and the *)
(* proofs of the properties for every set of orders, prices and quantities;*)
(* and that the book keeps what Exchange promises.                         *)
(***************************************************************************)
EXTENDS OrderBook, TLAPS

\* An order is done when it is filled, and never beyond; the engine has not
\* touched an order it has not processed.
OrdersInv ==
    /\ \A o \in Orders : /\ order[o].filled <= Quantity(o)
                         /\ IsDone(o) <=> order[o].filled = Quantity(o)
    /\ \A o \in Orders \ processed : order[o] = NewOrder

\* What the engine has learnt at each point of matchOrders: the taker is not
\* done before it trades, the orders it has passed are, and the lot under way
\* completes the taker or the maker.
ScanInv ==
    /\ pc \in {"level", "scan"} => ~IsDone(taker)
    /\ pc \in {"scan", "fillMaker"} =>
        /\ Crosses(taker, level)
        /\ \A i \in 1..Len(LevelOrders) : i < index => IsDone(LevelOrders[i])
    /\ pc = "fillMaker" =>
        /\ 0 < lot /\ lot <= Remaining(Maker)
        /\ IsDone(taker) \/ lot = Remaining(Maker)
    /\ pc = "sweep" =>
        IsDone(taker) \/ \A i \in 1..Len(LevelOrders) : IsDone(LevelOrders[i])

\* Makers have rested, and a taker that has been filled has a trade.
TapeInv ==
    /\ \A k \in DOMAIN tape : tape[k].maker \in processed \ {taker}
    /\ pc \notin {"idle", "fillMaker"} /\ order[taker].filled > 0
        => TradesOf(taker) # {}

\* f sums the n quantities of r from the front.
Sums(n, r, f) ==
    /\ f \in [0..n -> Int]
    /\ f[0] = 0
    /\ \A i \in 1..n : f[i] = f[i - 1] + r[i]
    /\ \A i, j \in 0..n : i <= j => f[i] <= f[j]

\* What the orders of a level have left.
Left(s, p) == [i \in 1..Len(queue[s][p]) |-> Remaining(queue[s][p][i])]

\* A level's Quantity covers what its orders have left in all.  This is what
\* keeps the deletion of a level with Quantity <= 0 from taking an open order
\* with it.
LevelInv ==
    \A s \in Sides, p \in Prices :
        \E f : /\ Sums(Len(queue[s][p]), Left(s, p), f)
               /\ f[Len(queue[s][p])] <= levelQty[s][p]

\* All of it that TLC can evaluate ...
Inv ==
    /\ TypeOK
    /\ OrdersInv
    /\ OpenOrdersRest
    /\ ScanInv
    /\ TapeInv
    /\ TradesAreSound
    /\ TimePriority

\* ... and the inductive invariant.
IInv == Inv /\ LevelInv

-----------------------------------------------------------------------------
(* Types *)

USE DEF Sides, Opposite

\* Fill returns an order state of the right type.
LEMMA FilledType ==
    ASSUME TypeOK, BookAssumption,
           NEW o \in Orders, NEW q \in Nat, NEW p \in Int
    PROVE  Filled(o, q, p) \in [filled : Nat, value : Int, status : Status, done : BOOLEAN]
<1>1. /\ order[o].filled \in Nat /\ order[o].value \in Int /\ order[o].done \in BOOLEAN
      /\ p * q \in Int
  BY DEF TypeOK
<1>2. QED
  BY <1>1 DEF Filled, IsDone, Status

\* What a request says, of either type.
LEMMA RequestFields ==
    ASSUME BookAssumption, NEW r \in Request
    PROVE  /\ r.side \in Sides
           /\ r.type \in {"Limit", "Market"}
           /\ r.type = "Limit" => r.price \in Prices
           /\ r.price \in Int
           /\ r.quantity \in Nat \ {0}
<1>1. \A q \in Quantities : q \in Nat \ {0}
  BY DEF BookAssumption
<1>2. CASE r \in [symbol : Symbols, side : Sides, type : {"Limit"},
                  price : Prices, quantity : Quantities]
  <2>1. /\ r.side \in Sides /\ r.type = "Limit"
        /\ r.price \in Prices /\ r.quantity \in Quantities
    BY <1>2
  <2>2. r.price \in Int
    BY <2>1 DEF BookAssumption
  <2>3. QED
    BY <1>1, <2>1, <2>2
<1>3. CASE r \in [symbol : Symbols, side : Sides, type : {"Market"},
                  price : {0}, quantity : Quantities]
  <2>1. /\ r.side \in Sides /\ r.type = "Market"
        /\ r.price = 0 /\ r.quantity \in Quantities
    BY <1>3
  <2>2. r.quantity \in Nat \ {0}
    BY <1>1, <2>1
  <2>3. r.price \in Int /\ r.type # "Limit" /\ r.type \in {"Limit", "Market"}
    BY <2>1
  <2>4. QED
    BY <2>1, <2>2, <2>3
<1>4. QED
  BY <1>2, <1>3 DEF Request

\* The same of the request of any order.
LEMMA RequestType ==
    ASSUME BookAssumption, request \in [Orders -> Request], NEW o \in Orders
    PROVE  /\ request[o].side \in Sides
           /\ request[o].type \in {"Limit", "Market"}
           /\ request[o].type = "Limit" => request[o].price \in Prices
           /\ request[o].price \in Int
           /\ request[o].quantity \in Nat \ {0}
<1>1. request[o] \in Request
  OBVIOUS
<1>2. QED
  BY <1>1, RequestFields

\* The type of a function of two arguments updated at one place.
LEMMA Update2Type ==
    ASSUME NEW S, NEW T, NEW V, NEW f \in [S -> [T -> V]],
           NEW s \in S, NEW t \in T, NEW v \in V
    PROVE  [f EXCEPT ![s][t] = v] \in [S -> [T -> V]]
OBVIOUS

\* The type invariant holds initially ...
LEMMA InitTypeOK == BookAssumption /\ Init => TypeOK
<1> SUFFICES ASSUME BookAssumption, Init PROVE TypeOK
  OBVIOUS
<1>1. order \in [Orders -> [filled : Nat, value : Int, status : Status, done : BOOLEAN]]
  BY DEF Init, NewOrder, Status
<1>2. /\ queue \in [Sides -> [Prices -> Seq(Orders)]]
      /\ levelQty \in [Sides -> [Prices -> Int]]
      /\ total \in [Sides -> Int]
  BY DEF Init
<1>3. tape \in Seq([taker : Orders, maker : Orders, price : Int, quantity : Nat])
  BY DEF Init
<1>4. QED
  BY <1>1, <1>2, <1>3 DEF Init, TypeOK, BookAssumption

\* The level under the engine's hands and the maker in it have their types.
LEMMA MakerType ==
    ASSUME TypeOK, BookAssumption, pc \in {"scan", "fillMaker", "sweep"}
    PROVE  /\ taker \in Orders
           /\ MakerSide \in Sides
           /\ level \in Prices
           /\ LevelOrders \in Seq(Orders)
           /\ \A i \in 1..Len(LevelOrders) : LevelOrders[i] \in Orders
<1>1. taker \in Orders
  BY DEF TypeOK
<1>2. request[taker].side \in Sides
  BY <1>1, RequestType DEF TypeOK
<1>3. QED
  BY <1>1, <1>2 DEF TypeOK, MakerSide, LevelOrders

\* ... and every step preserves it.
LEMMA NextTypeOK ==
    ASSUME BookAssumption, TypeOK, OrdersInv, [Next]_vars
    PROVE  TypeOK'
<1>1. ASSUME NEW o \in Orders, Process(o) PROVE TypeOK'
  BY <1>1 DEF Process, TypeOK, bookVars, scanVars, BookAssumption
<1>2. CASE EnterLevel
  <2>1. PICK p \in Prices : level' = p
    BY <1>2 DEF EnterLevel
  <2>2. level' \in Prices /\ level' \in Int
    BY <2>1 DEF BookAssumption
  <2>3. pc' = "scan" /\ index' = 1 /\ UNCHANGED <<request, order, processed, queue,
            levelQty, total, tape, taker, lot>> /\ pc = "level"
    BY <1>2 DEF EnterLevel, bookVars
  <2>4. pc' \in {"idle", "level", "scan", "fillMaker", "sweep", "matched"} /\ pc' # "idle"
        /\ index' \in Nat /\ index' > 0 /\ taker' # NoOrder
    BY <2>3 DEF TypeOK
  <2>5. QED
    BY <2>2, <2>3, <2>4 DEF TypeOK
<1>3. CASE EndMatch
  BY <1>3 DEF EndMatch, TypeOK, bookVars, scanVars
<1>4. CASE SkipDone
  <2>1. index + 1 \in Nat /\ index + 1 > 0
    BY DEF TypeOK
  <2>2. QED
    BY <1>4, <2>1 DEF SkipDone, TypeOK, bookVars
<1>5. CASE FillTaker
  <2>1. taker \in Orders /\ Maker \in Orders /\ index \in 1..Len(LevelOrders)
    <3>1. pc = "scan" /\ index <= Len(LevelOrders) /\ index \in Nat /\ index > 0
      BY <1>5 DEF FillTaker, TypeOK
    <3>2. Len(LevelOrders) \in Nat
      BY <3>1, MakerType
    <3>3. QED
      BY <3>1, <3>2, MakerType DEF Maker
  <2>2. MatchQuantity \in Nat /\ request[Maker].price \in Int
    <3>1. \A o \in Orders : Quantity(o) \in Nat /\ request[o].price \in Int
      BY RequestType DEF Quantity, TypeOK
    <3>2. \A o \in Orders : order[o].filled \in Nat
      BY DEF TypeOK
    <3>3. \A o \in Orders : order[o].filled <= Quantity(o)
      BY DEF OrdersInv
    <3>4. \A o \in Orders : Remaining(o) \in Nat
      BY <3>1, <3>2, <3>3 DEF Remaining
    <3>5. QED
      BY <2>1, <3>1, <3>4 DEF MatchQuantity
  <2>3. Filled(taker, MatchQuantity, request[Maker].price)
            \in [filled : Nat, value : Int, status : Status, done : BOOLEAN]
    BY <2>1, <2>2, FilledType
  <2>4. LevelOrders' = LevelOrders
    BY <1>5 DEF FillTaker, LevelOrders, MakerSide, bookVars
  <2>5. QED
    BY <1>5, <2>1, <2>2, <2>3, <2>4 DEF FillTaker, TypeOK, bookVars, scanVars
<1>6. CASE FillMaker
  <2>1. taker \in Orders /\ Maker \in Orders /\ MakerSide \in Sides /\ level \in Prices
    <3>1. pc = "fillMaker" /\ index <= Len(LevelOrders) /\ index \in Nat /\ index > 0
      BY <1>6 DEF FillMaker, TypeOK
    <3>2. Len(LevelOrders) \in Nat
      BY <3>1, MakerType
    <3>3. QED
      BY <3>1, <3>2, MakerType DEF Maker
  <2>2. request[Maker].price \in Int
    BY <2>1, RequestType DEF TypeOK
  <2>3. order' \in [Orders -> [filled : Nat, value : Int, status : Status, done : BOOLEAN]]
    BY <1>6, <2>1, <2>2, FilledType DEF FillMaker, TypeOK
  <2>4. /\ total' \in [Sides -> Int]
        /\ levelQty' \in [Sides -> [Prices -> Int]]
    <3>1. /\ levelQty[MakerSide][level] - lot \in Int
          /\ total[MakerSide] - lot \in Int
      BY <2>1 DEF TypeOK
    <3>2. QED
      BY <1>6, <2>1, <3>1, Update2Type DEF FillMaker, TypeOK
  <2>5. tape' \in Seq([taker : Orders, maker : Orders, price : Int, quantity : Nat])
    BY <1>6, <2>1, <2>2 DEF FillMaker, TypeOK
  <2>6. index' \in Nat /\ index' > 0
    BY <1>6 DEF FillMaker, TypeOK
  <2>7. QED
    BY <1>6, <2>3, <2>4, <2>5, <2>6 DEF FillMaker, TypeOK
<1>7. CASE EndScan
  BY <1>7 DEF EndScan, TypeOK, bookVars, scanVars
<1>8. CASE SweepLevel
  <2>1. MakerSide \in Sides /\ level \in Prices
    BY <1>8, MakerType DEF SweepLevel
  <2>2. /\ queue' \in [Sides -> [Prices -> Seq(Orders)]]
        /\ levelQty' \in [Sides -> [Prices -> Int]]
    <3>1. <<>> \in Seq(Orders) /\ 0 \in Int
      OBVIOUS
    <3>2. CASE LevelSwept
      <4>1. /\ queue' = [queue EXCEPT ![MakerSide][level] = <<>>]
            /\ levelQty' = [levelQty EXCEPT ![MakerSide][level] = 0]
        BY <1>8, <3>2 DEF SweepLevel
      <4>2. /\ queue \in [Sides -> [Prices -> Seq(Orders)]]
            /\ levelQty \in [Sides -> [Prices -> Int]]
        BY DEF TypeOK
      <4>3. QED
        BY <2>1, <3>1, <4>1, <4>2, Update2Type
    <3>3. CASE ~LevelSwept
      BY <1>8, <3>3 DEF SweepLevel, TypeOK
    <3>4. QED
      BY <3>2, <3>3
  <2>3. QED
    BY <1>8, <2>2 DEF SweepLevel, TypeOK, scanVars
<1>9. CASE RejectMarket
  <2>1. taker \in Orders
    BY <1>9 DEF RejectMarket, TypeOK
  <2>2. Rejected(taker) \in [filled : Nat, value : Int, status : Status, done : BOOLEAN]
    BY <2>1 DEF Rejected, Status, TypeOK, IsDone
  <2>3. order' \in [Orders -> [filled : Nat, value : Int, status : Status, done : BOOLEAN]]
    BY <1>9, <2>1, <2>2 DEF RejectMarket, TypeOK
  <2>4. QED
    BY <1>9, <2>3 DEF RejectMarket, Return, TypeOK, bookVars
<1>10. CASE Forget
  BY <1>10 DEF Forget, Return, TypeOK, bookVars, scanVars
<1>11. CASE Rest
  <2>1. taker \in Orders
    BY <1>11 DEF Rest, TypeOK
  <2> DEFINE s == request[taker].side
  <2>2. PICK p \in LevelsFor(s, request[taker].price) :
          /\ queue' = [queue EXCEPT ![s][p] = Append(@, taker)]
          /\ levelQty' = [levelQty EXCEPT ![s][p] = @ + Quantity(taker)]
          /\ total' = [total EXCEPT ![s] = @ + Quantity(taker)]
    BY <1>11 DEF Rest, AddOrder
  <2>3. /\ queue' \in [Sides -> [Prices -> Seq(Orders)]]
        /\ levelQty' \in [Sides -> [Prices -> Int]]
        /\ total' \in [Sides -> Int]
    <3>1. s \in Sides /\ request[taker].price \in Prices /\ Quantity(taker) \in Nat
      BY <1>11, <2>1, RequestType DEF Rest, TypeOK, Quantity
    <3>2. p \in Prices
      BY <2>2, <3>1 DEF LevelsFor, Levels
    <3> HIDE DEF s
    <3>3. /\ queue[s] \in [Prices -> Seq(Orders)]
          /\ levelQty[s] \in [Prices -> Int]
          /\ total[s] \in Int
      BY <3>1 DEF TypeOK
    <3>4. queue[s][p] \in Seq(Orders) /\ levelQty[s][p] \in Int
      BY <3>2, <3>3
    <3>5. /\ Append(queue[s][p], taker) \in Seq(Orders)
          /\ levelQty[s][p] + Quantity(taker) \in Int
          /\ total[s] + Quantity(taker) \in Int
      BY <2>1, <3>1, <3>3, <3>4
    <3>6. QED
      BY <2>2, <3>1, <3>2, <3>5, Update2Type DEF TypeOK
  <2>4. QED
    BY <1>11, <2>3 DEF Rest, Return, TypeOK
<1>12. CASE UNCHANGED vars
  BY <1>12 DEF vars, TypeOK, bookVars, scanVars, LevelOrders, MakerSide
<1>13. QED
  BY <1>1, <1>2, <1>3, <1>4, <1>5, <1>6, <1>7, <1>8, <1>9, <1>10, <1>11, <1>12 DEF Next, Work

-----------------------------------------------------------------------------
(* Facts about one state *)

\* The orders of a level are orders.
LEMMA QueueType ==
    ASSUME TypeOK, NEW s \in Sides, NEW p \in Prices
    PROVE  /\ queue[s][p] \in Seq(Orders)
           /\ Len(queue[s][p]) \in Nat
           /\ \A i \in 1..Len(queue[s][p]) : queue[s][p][i] \in Orders
           /\ levelQty[s][p] \in Int
<1>1. /\ queue \in [Sides -> [Prices -> Seq(Orders)]]
      /\ levelQty \in [Sides -> [Prices -> Int]]
  BY DEF TypeOK
<1>2. queue[s] \in [Prices -> Seq(Orders)] /\ levelQty[s] \in [Prices -> Int]
  BY <1>1
<1>3. queue[s][p] \in Seq(Orders) /\ levelQty[s][p] \in Int
  BY <1>2
<1>4. QED
  BY <1>3

\* One quantity less, and so is every sum from there on.
LEMMA SumsDecrease ==
    ASSUME NEW n \in Nat, NEW r \in [1..n -> Nat], NEW f, Sums(n, r, f),
           NEW k \in 1..n, NEW x \in Nat, x <= r[k],
           NEW r2, \A i \in 1..n : i # k => r2[i] = r[i], r2[k] = r[k] - x
    PROVE  \E g : Sums(n, r2, g) /\ g[n] = f[n] - x
<1> DEFINE g == [i \in 0..n |-> IF i < k THEN f[i] ELSE f[i] - x]
<1>1. /\ f \in [0..n -> Int] /\ f[0] = 0
      /\ \A i \in 1..n : f[i] = f[i - 1] + r[i]
      /\ \A i, j \in 0..n : i <= j => f[i] <= f[j]
  BY DEF Sums
<1>2. /\ g \in [0..n -> Int] /\ g[0] = 0 /\ g[n] = f[n] - x
  BY <1>1, SMTT(30)
<1>3. ASSUME NEW i \in 1..n PROVE g[i] = g[i - 1] + r2[i]
  <2>1. /\ i \in 0..n /\ i - 1 \in 0..n /\ f[i] \in Int /\ f[i - 1] \in Int
        /\ f[i] = f[i - 1] + r[i] /\ r[i] \in Nat
    BY <1>1
  <2>2. CASE i = k
    BY <2>1, <2>2
  <2>3. CASE i < k
    BY <2>1, <2>3
  <2>4. CASE i > k
    <3>1. ~(i < k) /\ ~(i - 1 < k) /\ i # k
      BY <2>4
    <3>2. g[i] = f[i] - x /\ g[i - 1] = f[i - 1] - x
      BY <2>1, <3>1
    <3>3. r2[i] = r[i]
      BY <3>1
    <3>4. QED
      BY <2>1, <3>2, <3>3
  <2>5. QED
    BY <2>2, <2>3, <2>4
<1>4. ASSUME NEW i \in 0..n, NEW j \in 0..n, i <= j PROVE g[i] <= g[j]
  <2>1. f[i] \in Int /\ f[j] \in Int /\ f[i] <= f[j]
    BY <1>1, <1>4
  <2>2. CASE i < k /\ k <= j
    <3>1. k - 1 \in 0..n /\ k \in 0..n /\ f[k] \in Int /\ f[k - 1] \in Int /\ r[k] \in Nat
      BY <1>1
    <3>2. f[i] <= f[k - 1] /\ f[k] <= f[j] /\ f[k] = f[k - 1] + r[k]
      BY <1>1, <2>2, <3>1, SMTT(30)
    <3>3. f[i] <= f[j] - x
      BY <2>1, <3>1, <3>2, SMTT(30)
    <3>4. g[i] = f[i] /\ g[j] = f[j] - x
      BY <2>2
    <3>5. QED
      BY <3>3, <3>4
  <2>3. CASE ~(i < k /\ k <= j)
    BY <1>4, <2>1, <2>3, SMTT(30)
  <2>4. QED
    BY <2>2, <2>3
<1>5. Sums(n, r2, g)
  BY <1>2, <1>3, <1>4 DEF Sums
<1>6. QED
  BY <1>2, <1>5

\* One quantity more at the end.
LEMMA SumsExtend ==
    ASSUME NEW n \in Nat, NEW r, NEW f, Sums(n, r, f), NEW x \in Nat,
           NEW r2, \A i \in 1..n : r2[i] = r[i], r2[n + 1] = x
    PROVE  \E g : Sums(n + 1, r2, g) /\ g[n + 1] = f[n] + x
<1> DEFINE g == [i \in 0..n + 1 |-> IF i <= n THEN f[i] ELSE f[n] + x]
<1>1. /\ f \in [0..n -> Int] /\ f[0] = 0
      /\ \A i \in 1..n : f[i] = f[i - 1] + r[i]
      /\ \A i, j \in 0..n : i <= j => f[i] <= f[j]
  BY DEF Sums
<1>2. f[n] \in Int /\ n \in 0..n
  BY <1>1
<1>3. g \in [0..n + 1 -> Int] /\ g[0] = 0 /\ g[n + 1] = f[n] + x
  BY <1>1, <1>2
<1>4. ASSUME NEW i \in 1..n + 1 PROVE g[i] = g[i - 1] + r2[i]
  <2>1. CASE i <= n
    BY <1>1, <2>1
  <2>2. CASE i = n + 1
    BY <1>2, <1>3, <2>2
  <2>3. QED
    BY <2>1, <2>2
<1>5. ASSUME NEW i \in 0..n + 1, NEW j \in 0..n + 1, i <= j PROVE g[i] <= g[j]
  <2>1. CASE j <= n
    BY <1>1, <1>5, <2>1
  <2>2. CASE j = n + 1 /\ i <= n
    <3>1. f[i] \in Int /\ f[i] <= f[n] /\ g[i] = f[i]
      BY <1>1, <1>2, <2>2
    <3>2. QED
      BY <1>2, <1>3, <2>2, <3>1
  <2>3. CASE i = n + 1
    BY <1>2, <1>5, <2>3
  <2>4. QED
    BY <2>1, <2>2, <2>3
<1>6. Sums(n + 1, r2, g)
  BY <1>3, <1>4, <1>5 DEF Sums
<1>7. QED
  BY <1>3, <1>6

\* A positive quantity makes the whole sum positive.
LEMMA SumsPositive ==
    ASSUME NEW n \in Nat, NEW r \in [1..n -> Nat], NEW f, Sums(n, r, f),
           NEW k \in 1..n, r[k] > 0
    PROVE  f[n] \in Int /\ f[n] > 0
<1>1. /\ f \in [0..n -> Int] /\ f[0] = 0 /\ f[k] = f[k - 1] + r[k]
      /\ \A i, j \in 0..n : i <= j => f[i] <= f[j]
  BY DEF Sums
<1>2. 0 \in 0..n /\ k - 1 \in 0..n /\ k \in 0..n /\ n \in 0..n
  OBVIOUS
<1>3. f[k - 1] \in Int /\ f[k] \in Int /\ f[n] \in Int
  BY <1>1, <1>2
<1>4. f[0] <= f[k - 1] /\ f[k] <= f[n]
  BY <1>1, <1>2
<1>5. QED
  BY <1>1, <1>3, <1>4

\* The maker the scan stands at has rested on the other side at this level.
LEMMA MakerFacts ==
    ASSUME BookAssumption, Inv, pc \in {"scan", "fillMaker"}, index <= Len(LevelOrders)
    PROVE  /\ index \in 1..Len(LevelOrders)
           /\ taker \in Orders /\ Maker \in Orders /\ Maker # taker
           /\ Maker \in processed /\ taker \in processed
           /\ request[Maker].type = "Limit"
           /\ request[Maker].side = MakerSide
           /\ Near(request[Maker].price, level)
           /\ MakerSide \in Sides /\ level \in Prices
<1>1. Len(LevelOrders) \in Nat
  BY MakerType DEF Inv
<1>2. index \in 1..Len(LevelOrders)
  BY <1>1 DEF Inv, TypeOK
<1>3. MakerSide \in Sides /\ level \in Prices /\ taker \in Orders /\ Maker \in Orders
  BY <1>2, MakerType DEF Inv, Maker
<1>4. InPlace(MakerSide, level)
  BY <1>3 DEF Inv, OpenOrdersRest
<1>5. taker \in processed
  BY <1>3 DEF Inv, TypeOK, BookAssumption
<1>6. QED
  BY <1>2, <1>3, <1>4, <1>5 DEF InPlace, LevelOrders, Maker

\* ... and is nowhere else on the book.
LEMMA MakerPlace ==
    ASSUME BookAssumption, Inv, pc \in {"scan", "fillMaker"}, index <= Len(LevelOrders),
           NEW s \in Sides, NEW p \in Prices,
           NEW i \in 1..Len(queue[s][p]), queue[s][p][i] = Maker
    PROVE  s = MakerSide /\ p = level /\ i = index
<1>1. /\ index \in 1..Len(queue[MakerSide][level]) /\ queue[MakerSide][level][index] = Maker
      /\ request[Maker].side = MakerSide /\ MakerSide \in Sides /\ level \in Prices
  BY MakerFacts DEF Maker, LevelOrders
<1>2. OneLevelEach /\ InPlace(s, p)
  BY DEF Inv, OpenOrdersRest
<1>3. s = MakerSide
  BY <1>1, <1>2 DEF InPlace
<1>4. p = level
  BY <1>1, <1>2, <1>3 DEF OneLevelEach
<1>5. QED
  BY <1>1, <1>2, <1>3, <1>4 DEF InPlace

\* What an order has left is a natural, and nothing when it is done.
LEMMA RemainingType ==
    ASSUME BookAssumption, TypeOK, OrdersInv, NEW o \in Orders
    PROVE  /\ Remaining(o) \in Nat /\ Quantity(o) \in Nat /\ Quantity(o) > 0
           /\ order[o].filled \in Nat
           /\ IsDone(o) \in BOOLEAN
           /\ IsDone(o) <=> Remaining(o) = 0
           /\ Remaining(o) = Quantity(o) - order[o].filled
<1>1. Quantity(o) \in Nat /\ Quantity(o) > 0
  BY RequestType DEF TypeOK, Quantity
<1>2. order[o].filled \in Nat /\ order[o].done \in BOOLEAN
  BY DEF TypeOK
<1>3. QED
  BY <1>1, <1>2 DEF Remaining, OrdersInv, IsDone

\* What Fill does to an order it does not fill beyond its quantity.
LEMMA FillFacts ==
    ASSUME BookAssumption, TypeOK, OrdersInv,
           NEW o \in Orders, NEW q \in Nat, NEW p \in Int, q > 0, q <= Remaining(o)
    PROVE  /\ Filled(o, q, p).filled = order[o].filled + q
           /\ Filled(o, q, p).filled <= Quantity(o)
           /\ Filled(o, q, p).done \in BOOLEAN
           /\ Filled(o, q, p).done <=> Filled(o, q, p).filled = Quantity(o)
           /\ ~IsDone(o)
<1>1. ~IsDone(o) /\ order[o].filled + q <= Quantity(o)
  BY RemainingType
<1>2. Filled(o, q, p).filled = order[o].filled + q
  BY DEF Filled
<1>3. Filled(o, q, p).done = (IsDone(o) \/ order[o].filled + q >= Quantity(o))
  BY DEF Filled
<1>4. order[o].filled + q >= Quantity(o) <=> order[o].filled + q = Quantity(o)
  BY <1>1, RemainingType
<1>5. Filled(o, q, p).done <=> order[o].filled + q = Quantity(o)
  BY <1>1, <1>3, <1>4, Zenon
<1>6. Filled(o, q, p).done \in BOOLEAN
  BY <1>3, Zenon
<1>7. QED
  BY <1>1, <1>2, <1>5, <1>6

\* The lot of a trade is what its taker or its maker has left, and positive.
LEMMA LotFacts ==
    ASSUME BookAssumption, Inv, pc = "scan", index <= Len(LevelOrders), ~IsDone(Maker)
    PROVE  /\ MatchQuantity \in Nat /\ MatchQuantity > 0
           /\ MatchQuantity <= Remaining(taker)
           /\ MatchQuantity <= Remaining(Maker)
           /\ MatchQuantity = Remaining(taker) \/ MatchQuantity = Remaining(Maker)
<1>1. taker \in Orders /\ Maker \in Orders /\ ~IsDone(taker)
  BY MakerFacts DEF Inv, ScanInv
<1>2. /\ Remaining(taker) \in Nat /\ Remaining(taker) > 0
      /\ Remaining(Maker) \in Nat /\ Remaining(Maker) > 0
  BY <1>1, RemainingType DEF Inv
<1>3. QED
  BY <1>2 DEF MatchQuantity

-----------------------------------------------------------------------------
(* Steps that leave the orders and the book alone *)

\* A step that moves only the engine's place in the loops leaves the book as it is.
LEMMA FrameBook ==
    ASSUME Inv, LevelInv,
           UNCHANGED <<request, order, processed, queue, levelQty, tape, taker>>
    PROVE  /\ OrdersInv' /\ OpenOrdersRest' /\ LevelInv' /\ TradesAreSound' /\ TimePriority'
           /\ \A k \in DOMAIN tape' : tape'[k].maker \in processed' \ {taker'}
<1>1. OrdersInv'
  BY DEF Inv, OrdersInv, IsDone, Quantity
<1>2. OpenOrdersRest'
  BY DEF Inv, OpenOrdersRest, InPlace, OneLevelEach, Open, IsDone
<1>3. LevelInv'
  BY DEF LevelInv, Left, Remaining, Quantity
<1>4. TradesAreSound'
  BY DEF Inv, TradesAreSound, WithinLimit
<1>5. TimePriority'
  BY DEF Inv, TimePriority, IsDone
<1>6. QED
  BY <1>1, <1>2, <1>3, <1>4, <1>5 DEF Inv, TapeInv

\* The inductive invariant holds initially ...
LEMMA InitIInv == BookAssumption /\ Init => IInv
<1> SUFFICES ASSUME BookAssumption, Init PROVE IInv
  OBVIOUS
<1>1. TypeOK
  BY InitTypeOK
<1>2. OrdersInv
  <2>1. \A o \in Orders : order[o] = NewOrder
    BY DEF Init
  <2>2. \A o \in Orders : Quantity(o) \in Nat /\ Quantity(o) > 0
    BY <1>1, RequestType DEF TypeOK, Quantity
  <2>3. QED
    BY <2>1, <2>2 DEF OrdersInv, IsDone, NewOrder
<1>3. \A s \in Sides, p \in Prices : queue[s][p] = <<>> /\ levelQty[s][p] = 0
  BY DEF Init
<1>4. OpenOrdersRest
  BY <1>3 DEF Init, OpenOrdersRest, InPlace, OneLevelEach, Open
<1>5. ScanInv /\ TapeInv /\ TradesAreSound
  BY DEF Init, ScanInv, TapeInv, TradesAreSound
<1>6. TimePriority
  BY <1>3 DEF TimePriority
<1>7. LevelInv
  <2> DEFINE f == [i \in 0..0 |-> 0]
  <2>1. (\A r : Sums(0, r, f)) /\ f[0] <= 0 /\ Len(<<>>) = 0
    BY DEF Sums
  <2>2. QED
    BY <1>3, <2>1 DEF LevelInv
<1>8. QED
  BY <1>1, <1>2, <1>4, <1>5, <1>6, <1>7 DEF IInv, Inv

\* The steps that move only the engine's place in the loops preserve it.
LEMMA FrameSteps ==
    ASSUME BookAssumption, IInv,
           EnterLevel \/ EndMatch \/ SkipDone \/ EndScan \/ UNCHANGED vars
    PROVE  IInv'
<1>1. /\ OrdersInv' /\ OpenOrdersRest' /\ LevelInv' /\ TradesAreSound' /\ TimePriority'
      /\ \A k \in DOMAIN tape' : tape'[k].maker \in processed' \ {taker'}
  BY FrameBook DEF IInv, EnterLevel, EndMatch, SkipDone, EndScan, vars, bookVars, scanVars
<1>2. TypeOK'
  BY NextTypeOK DEF IInv, Inv, Next, Work
<1>3. ScanInv' /\ TapeInv'
  <2>1. CASE EnterLevel
    <3>1. PICK p \in Prices : Crosses(taker, p) /\ level' = p
      BY <2>1 DEF EnterLevel
    <3>2. pc = "level" /\ pc' = "scan" /\ index' = 1
      BY <2>1 DEF EnterLevel
    <3>3. UNCHANGED <<request, order, tape, taker, queue, processed>>
      BY <2>1 DEF EnterLevel, bookVars
    <3>4. ~IsDone(taker)' /\ Crosses(taker, level)'
      BY <3>1, <3>2, <3>3 DEF IInv, Inv, ScanInv, IsDone, Crosses
    <3>5. ScanInv'
      BY <3>2, <3>4 DEF ScanInv
    <3>6. TapeInv'
      BY <1>1, <3>2, <3>3 DEF IInv, Inv, TapeInv, TradesOf
    <3>7. QED
      BY <3>5, <3>6
  <2>2. CASE EndMatch
    BY <1>1, <2>2 DEF EndMatch, IInv, Inv, ScanInv, TapeInv, TradesOf
  <2>3. CASE SkipDone
    <3>1. UNCHANGED <<request, order, tape, taker, queue, processed, pc, level>>
          /\ pc = "scan" /\ index' = index + 1 /\ IsDone(Maker)
      BY <2>3 DEF SkipDone, bookVars
    <3>2. \A i \in 1..Len(LevelOrders') : i < index + 1 => IsDone(LevelOrders[i])
      <4>1. LevelOrders' = LevelOrders
        BY <3>1 DEF LevelOrders, MakerSide
      <4>2. index \in Nat /\ \A i \in 1..Len(LevelOrders) : i < index => IsDone(LevelOrders[i])
        BY <3>1 DEF IInv, Inv, ScanInv, TypeOK
      <4>3. SUFFICES ASSUME NEW i \in 1..Len(LevelOrders), i < index + 1
                     PROVE  IsDone(LevelOrders[i])
        BY <4>1
      <4>4. CASE i = index
        BY <3>1, <4>4 DEF Maker
      <4>5. CASE i # index
        BY <4>2, <4>3, <4>5
      <4>6. QED
        BY <4>4, <4>5
    <3>3. ScanInv'
      BY <3>1, <3>2 DEF IInv, Inv, ScanInv, Crosses, IsDone, LevelOrders, MakerSide
    <3>4. TapeInv'
      BY <1>1, <3>1 DEF IInv, Inv, TapeInv, TradesOf
    <3>5. QED
      BY <3>3, <3>4
  <2>4. CASE EndScan
    <3>1. UNCHANGED <<request, order, tape, taker, queue, processed, level, index>>
          /\ pc = "scan" /\ pc' = "sweep" /\ index > Len(LevelOrders)
      BY <2>4 DEF EndScan, bookVars, scanVars
    <3>2. index \in Nat /\ Len(LevelOrders) \in Nat
      BY <3>1, MakerType DEF IInv, Inv, TypeOK
    <3>3. \A i \in 1..Len(LevelOrders) : IsDone(LevelOrders[i])
      BY <3>1, <3>2 DEF IInv, Inv, ScanInv
    <3>4. ScanInv'
      BY <3>1, <3>3 DEF ScanInv, IsDone, LevelOrders, MakerSide
    <3>5. TapeInv'
      BY <1>1, <3>1 DEF IInv, Inv, TapeInv, TradesOf
    <3>6. QED
      BY <3>4, <3>5
  <2>5. CASE UNCHANGED vars
    BY <2>5 DEF vars, bookVars, scanVars, IInv, Inv, ScanInv, TapeInv, TradesOf, Crosses,
                IsDone, LevelOrders, MakerSide, Maker, Remaining, Quantity
  <2>6. QED
    BY <2>1, <2>2, <2>3, <2>4, <2>5
<1>4. QED
  BY <1>1, <1>2, <1>3 DEF IInv, Inv

-----------------------------------------------------------------------------
(* The other steps, one lemma each *)

\* A new order: it is on no queue and no tape yet.
LEMMA ProcessStep ==
    ASSUME BookAssumption, IInv, NEW o \in Orders, Process(o)
    PROVE  IInv'
<1> USE DEF IInv, Inv
<1>1. /\ UNCHANGED <<request, order, queue, levelQty, tape>>
      /\ pc = "idle" /\ pc' = "level" /\ taker' = o /\ o \notin processed
      /\ processed' = processed \cup {o}
  BY DEF Process, bookVars
<1>2. taker = NoOrder /\ processed \subseteq Orders /\ NoOrder \notin Orders
  BY <1>1 DEF TypeOK, BookAssumption
<1>3. TypeOK'
  BY NextTypeOK DEF Next
<1>4. order[o] = NewOrder /\ ~IsDone(o)
  BY <1>1 DEF OrdersInv, NewOrder, IsDone
<1>5. OrdersInv'
  BY <1>1 DEF OrdersInv, IsDone, Quantity
<1>6. OpenOrdersRest'
  <2>1. ASSUME NEW s \in Sides, NEW p \in Prices PROVE InPlace(s, p)'
    <3>1. InPlace(s, p)
      BY DEF OpenOrdersRest
    <3>2. \A i \in 1..Len(queue[s][p]) : queue[s][p][i] \in processed' \ {taker'}
      BY <1>1, <3>1 DEF InPlace
    <3>3. QED
      BY <1>1, <3>1, <3>2 DEF InPlace
  <2>2. \A x \in Orders : Open(x)' => Open(x)
    BY <1>1, <1>2 DEF Open, IsDone
  <2>3. OneLevelEach'
    BY <1>1 DEF OpenOrdersRest, OneLevelEach
  <2>4. ASSUME NEW x \in Orders, Open(x)'
        PROVE  (\E p \in Prices : LET q == queue[request[x].side][p]
                                 IN  \E i \in 1..Len(q) : q[i] = x)'
    BY <1>1, <2>2, <2>4 DEF OpenOrdersRest
  <2>5. QED
    BY <2>1, <2>3, <2>4 DEF OpenOrdersRest
<1>7. ScanInv'
  BY <1>1, <1>4 DEF ScanInv, IsDone
<1>8. TapeInv'
  BY <1>1, <1>2, <1>4 DEF TapeInv, NewOrder
<1>9. LevelInv'
  <2>1. \A s \in Sides, p \in Prices : Left(s, p)' = Left(s, p)
    BY <1>1 DEF Left, Remaining, Quantity
  <2>2. QED
    BY <1>1, <2>1 DEF LevelInv
<1>10. TradesAreSound' /\ TimePriority'
  BY <1>1 DEF TradesAreSound, TimePriority, WithinLimit, IsDone
<1>11. QED
  BY <1>3, <1>5, <1>6, <1>7, <1>8, <1>9, <1>10

\* The taker is not on the book, so filling it disturbs no level.
LEMMA FillTakerStep ==
    ASSUME BookAssumption, IInv, FillTaker
    PROVE  IInv'
<1> USE DEF IInv, Inv
<1>1. /\ UNCHANGED <<request, processed, queue, levelQty, tape, taker, level, index>>
      /\ pc = "scan" /\ pc' = "fillMaker" /\ lot' = MatchQuantity
      /\ index <= Len(LevelOrders) /\ ~IsDone(Maker)
      /\ order' = [order EXCEPT ![taker] = Filled(taker, MatchQuantity, request[Maker].price)]
  BY DEF FillTaker, bookVars
<1>2. /\ taker \in Orders /\ Maker \in Orders /\ Maker # taker /\ taker \in processed
      /\ request[Maker].price \in Int
  BY <1>1, MakerFacts, RequestType DEF TypeOK
<1>3. /\ MatchQuantity \in Nat /\ MatchQuantity > 0
      /\ MatchQuantity <= Remaining(taker) /\ MatchQuantity <= Remaining(Maker)
      /\ MatchQuantity = Remaining(taker) \/ MatchQuantity = Remaining(Maker)
  BY <1>1, LotFacts
<1>4. \A o \in Orders : o # taker => order'[o] = order[o]
  BY <1>1, <1>2 DEF TypeOK
<1>5. /\ order'[taker].filled = order[taker].filled + MatchQuantity
      /\ order'[taker].filled <= Quantity(taker)
      /\ order'[taker].done <=> order'[taker].filled = Quantity(taker)
  <2>1. order'[taker] = Filled(taker, MatchQuantity, request[Maker].price)
    BY <1>1, <1>2 DEF TypeOK
  <2>2. QED
    BY <1>2, <1>3, <2>1, FillFacts
<1>6. /\ LevelOrders' = LevelOrders /\ MakerSide' = MakerSide /\ Maker' = Maker
      /\ Len(LevelOrders) \in Nat
      /\ \A i \in 1..Len(LevelOrders) : LevelOrders[i] \in Orders /\ LevelOrders[i] # taker
  <2>1. LevelOrders' = LevelOrders /\ MakerSide' = MakerSide
    BY <1>1 DEF LevelOrders, MakerSide
  <2>2. Maker' = Maker
    BY <1>1, <2>1 DEF Maker
  <2>3. MakerSide \in Sides /\ level \in Prices /\ Len(LevelOrders) \in Nat
        /\ \A i \in 1..Len(LevelOrders) : LevelOrders[i] \in Orders
    BY <1>1, MakerType
  <2>4. InPlace(MakerSide, level)
    BY <2>3 DEF OpenOrdersRest
  <2>5. QED
    BY <2>1, <2>2, <2>3, <2>4 DEF InPlace, LevelOrders
<1>7. TypeOK'
  BY NextTypeOK DEF Next, Work
<1>8. OrdersInv'
  <2>1. ASSUME NEW o \in Orders
        PROVE  order'[o].filled <= Quantity(o)' /\ (IsDone(o)' <=> order'[o].filled = Quantity(o)')
    <3>1. CASE o = taker
      BY <1>1, <1>5, <3>1 DEF IsDone, Quantity
    <3>2. CASE o # taker
      BY <1>1, <1>4, <3>2 DEF OrdersInv, IsDone, Quantity
    <3>3. QED
      BY <3>1, <3>2
  <2>2. \A o \in Orders \ processed' : order'[o] = NewOrder
    BY <1>1, <1>2, <1>4 DEF OrdersInv
  <2>3. QED
    BY <2>1, <2>2 DEF OrdersInv
<1>9. OpenOrdersRest'
  <2>1. \A s \in Sides, p \in Prices : InPlace(s, p)'
    BY <1>1 DEF OpenOrdersRest, InPlace
  <2>2. \A o \in Orders : Open(o)' => Open(o)
    BY <1>1, <1>4 DEF Open, IsDone
  <2>3. QED
    BY <1>1, <2>1, <2>2 DEF OpenOrdersRest, OneLevelEach
<1>10. ScanInv'
  <2>1. Crosses(taker, level)' /\ \A i \in 1..Len(LevelOrders) : i < index => IsDone(LevelOrders[i])'
    BY <1>1, <1>4, <1>6 DEF ScanInv, Crosses, IsDone
  <2>2. 0 < lot' /\ lot' <= Remaining(Maker)'
    BY <1>1, <1>2, <1>3, <1>4, <1>6 DEF Remaining, Quantity
  <2>3. IsDone(taker)' \/ lot' = Remaining(Maker)'
    <3>1. CASE MatchQuantity = Remaining(taker)
      <4>1. order'[taker].filled = Quantity(taker)
        BY <1>2, <1>5, <3>1, RemainingType
      <4>2. QED
        BY <1>1, <1>5, <4>1 DEF IsDone
    <3>2. CASE MatchQuantity = Remaining(Maker)
      BY <1>1, <1>2, <1>4, <1>6, <3>2 DEF Remaining, Quantity
    <3>3. QED
      BY <1>3, <3>1, <3>2
  <2>4. QED
    BY <1>1, <1>6, <2>1, <2>2, <2>3 DEF ScanInv
<1>11. TapeInv'
  BY <1>1 DEF TapeInv
<1>12. LevelInv'
  <2>1. processed \subseteq Orders
    BY DEF TypeOK
  <2>2. ASSUME NEW s \in Sides, NEW p \in Prices
        PROVE  Left(s, p)' = Left(s, p)
    <3>1. \A i \in 1..Len(queue[s][p]) : queue[s][p][i] \in Orders /\ queue[s][p][i] # taker
      BY <2>1 DEF OpenOrdersRest, InPlace
    <3>2. \A i \in 1..Len(queue[s][p]) : Remaining(queue[s][p][i])' = Remaining(queue[s][p][i])
      BY <1>1, <1>4, <3>1 DEF Remaining, Quantity
    <3>3. QED
      BY <1>1, <3>2 DEF Left
  <2>3. QED
    BY <1>1, <2>2 DEF LevelInv
<1>13. TradesAreSound'
  BY <1>1 DEF TradesAreSound, WithinLimit
<1>14. TimePriority'
  <2>1. processed \subseteq Orders
    BY DEF TypeOK
  <2>2. ASSUME NEW s \in Sides, NEW p \in Prices, NEW i \in 1..Len(queue[s][p])
        PROVE  IsDone(queue[s][p][i])' = IsDone(queue[s][p][i])
    <3>0. InPlace(s, p)
      BY DEF OpenOrdersRest
    <3>1. queue[s][p][i] \in Orders /\ queue[s][p][i] # taker
      BY <2>1, <3>0 DEF InPlace
    <3>2. QED
      BY <1>1, <1>4, <3>1 DEF IsDone
  <2>3. QED
    BY <1>1, <2>2 DEF TimePriority
<1>15. QED
  BY <1>7, <1>8, <1>9, <1>10, <1>11, <1>12, <1>13, <1>14

\* The maker loses the lot, and so do the sums behind it in its level and the
\* level's Quantity.
LEMMA FillMakerStep ==
    ASSUME BookAssumption, IInv, FillMaker
    PROVE  IInv'
<1> DEFINE trade == [taker |-> taker, maker |-> Maker,
                     price |-> request[Maker].price, quantity |-> lot]
<1>1. /\ UNCHANGED <<request, processed, queue, taker, level>>
      /\ pc = "fillMaker" /\ pc' = (IF IsDone(taker) THEN "sweep" ELSE "scan")
      /\ index' = (IF IsDone(taker) THEN index ELSE index + 1)
      /\ order' = [order EXCEPT ![Maker] = Filled(Maker, lot, request[Maker].price)]
      /\ levelQty' = [levelQty EXCEPT ![MakerSide][level] = @ - lot]
      /\ tape' = Append(tape, trade)
  BY DEF FillMaker
<1>2. /\ TypeOK /\ OrdersInv /\ OpenOrdersRest /\ ScanInv /\ TapeInv
      /\ TradesAreSound /\ TimePriority /\ LevelInv /\ Inv
  BY DEF IInv, Inv
<1>3. index <= Len(LevelOrders) /\ index \in Nat
  BY <1>1, <1>2 DEF TypeOK
<1>4. /\ taker \in Orders /\ Maker \in Orders /\ Maker # taker
      /\ index \in 1..Len(LevelOrders)
      /\ Maker \in processed /\ taker \in processed
      /\ request[Maker].type = "Limit" /\ request[Maker].side = MakerSide
      /\ Near(request[Maker].price, level) /\ request[Maker].price \in Int
      /\ MakerSide \in Sides /\ level \in Prices /\ level \in Int
  BY <1>1, <1>2, <1>3, MakerFacts, RequestType DEF TypeOK
<1>5. lot \in Nat /\ 0 < lot /\ lot <= Remaining(Maker)
      /\ (IsDone(taker) \/ lot = Remaining(Maker))
  BY <1>1, <1>2 DEF ScanInv, TypeOK
<1>6. \A o \in Orders : o # Maker => order'[o] = order[o]
  BY <1>1, <1>2, <1>4 DEF TypeOK
<1>7. /\ order'[Maker].filled = order[Maker].filled + lot
      /\ order'[Maker].filled <= Quantity(Maker)
      /\ order'[Maker].done <=> order'[Maker].filled = Quantity(Maker)
      /\ ~IsDone(Maker)
  <2>1. order'[Maker] = Filled(Maker, lot, request[Maker].price)
    BY <1>1, <1>2, <1>4 DEF TypeOK
  <2>2. QED
    BY <1>2, <1>4, <1>5, <2>1, FillFacts
<1>8. lot = Remaining(Maker) => order'[Maker].done
  BY <1>2, <1>4, <1>7, RemainingType
<1>9. \A o \in Orders : IsDone(o) => IsDone(o)'
  BY <1>6, <1>7 DEF IsDone
<1>10. LevelOrders' = LevelOrders /\ MakerSide' = MakerSide
       /\ LevelOrders \in Seq(Orders) /\ Len(LevelOrders) \in Nat
       /\ \A i \in 1..Len(LevelOrders) : LevelOrders[i] \in Orders
  <2>1. LevelOrders' = LevelOrders /\ MakerSide' = MakerSide
    BY <1>1 DEF LevelOrders, MakerSide
  <2>2. QED
    BY <1>1, <1>2, <2>1, MakerType
<1>11. /\ tape \in Seq([taker : Orders, maker : Orders, price : Int, quantity : Nat])
       /\ trade \in [taker : Orders, maker : Orders, price : Int, quantity : Nat]
  BY <1>2, <1>4, <1>5 DEF TypeOK
<1>12. /\ Len(tape) \in Nat /\ DOMAIN tape = 1..Len(tape)
       /\ DOMAIN tape' = 1..(Len(tape) + 1)
       /\ \A k \in 1..Len(tape) : tape'[k] = tape[k]
       /\ tape'[Len(tape) + 1] = trade
  BY <1>1, <1>11
<1> HIDE DEF trade
<1>13. TypeOK'
  BY <1>2, NextTypeOK DEF Next, Work
<1>14. OrdersInv'
  <2>1. ASSUME NEW o \in Orders
        PROVE  order'[o].filled <= Quantity(o)' /\ (IsDone(o)' <=> order'[o].filled = Quantity(o)')
    <3>1. CASE o = Maker
      BY <1>1, <1>7, <3>1 DEF IsDone, Quantity
    <3>2. CASE o # Maker
      BY <1>1, <1>2, <1>6, <3>2 DEF OrdersInv, IsDone, Quantity
    <3>3. QED
      BY <3>1, <3>2
  <2>2. \A o \in Orders \ processed' : order'[o] = NewOrder
    BY <1>1, <1>2, <1>4, <1>6 DEF OrdersInv
  <2>3. QED
    BY <2>1, <2>2 DEF OrdersInv
<1>15. OpenOrdersRest'
  <2>1. \A s \in Sides, p \in Prices : InPlace(s, p)'
    BY <1>1, <1>2, SMTT(30) DEF OpenOrdersRest, InPlace
  <2>2. \A o \in Orders : Open(o)' => Open(o)
    BY <1>1, <1>9 DEF Open
  <2>3. QED
    BY <1>1, <1>2, <2>1, <2>2 DEF OpenOrdersRest, OneLevelEach
<1>16. ScanInv'
  <2>1. CASE IsDone(taker)
    <3>1. pc' = "sweep" /\ IsDone(taker)'
      BY <1>1, <1>4, <1>9, <2>1
    <3>2. QED
      BY <3>1 DEF ScanInv
  <2>2. CASE ~IsDone(taker)
    <3>1. pc' = "scan" /\ index' = index + 1
      BY <1>1, <2>2
    <3>2. ~IsDone(taker)' /\ Crosses(taker, level)'
      BY <1>1, <1>2, <1>4, <1>6, <2>2 DEF ScanInv, Crosses, IsDone
    <3>3. ASSUME NEW i \in 1..Len(LevelOrders), i < index + 1
          PROVE  IsDone(LevelOrders[i])'
      <4>1. CASE i = index
        BY <1>1, <1>7, <1>8, <1>5, <2>2, <4>1 DEF Maker, IsDone, LevelOrders, MakerSide
      <4>2. CASE i # index
        <5>1. IsDone(LevelOrders[i])
          BY <1>1, <1>2, <1>3, <3>3, <4>2 DEF ScanInv
        <5>2. QED
          BY <1>9, <1>10, <5>1
      <4>3. QED
        BY <4>1, <4>2
    <3>4. QED
      BY <1>10, <3>1, <3>2, <3>3 DEF ScanInv
  <2>3. QED
    BY <2>1, <2>2
<1>17. TapeInv'
  <2>1. ASSUME NEW k \in DOMAIN tape' PROVE tape'[k].maker \in processed' \ {taker'}
    <3>1. CASE k \in 1..Len(tape)
      BY <1>1, <1>2, <1>12, <3>1 DEF TapeInv
    <3>2. CASE k = Len(tape) + 1
      BY <1>1, <1>4, <1>12, <3>2 DEF trade
    <3>3. QED
      BY <1>12, <2>1, <3>1, <3>2
  <2>2. Len(tape) + 1 \in TradesOf(taker)'
    BY <1>1, <1>12 DEF TradesOf, trade
  <2>3. QED
    BY <2>1, <2>2 DEF TapeInv
<1>18. TradesAreSound'
  <2> SUFFICES ASSUME NEW k \in DOMAIN tape'
               PROVE  /\ tape'[k].quantity > 0
                      /\ request[tape'[k].maker].side = Opposite(request[tape'[k].taker].side)
                      /\ request[tape'[k].maker].type = "Limit"
                      /\ tape'[k].price = request[tape'[k].maker].price
                      /\ WithinLimit(tape'[k].taker, tape'[k].price)
    BY <1>1 DEF TradesAreSound, WithinLimit
  <2>1. CASE k \in 1..Len(tape)
    BY <1>2, <1>12, <2>1 DEF TradesAreSound
  <2>2. WithinLimit(taker, request[Maker].price)
    <3>1. /\ Crosses(taker, level) /\ Epsilon \in Nat
          /\ request[taker].price \in Int /\ request[taker].side \in Sides
      BY <1>1, <1>2, <1>4, RequestType DEF ScanInv, TypeOK, BookAssumption
    <3>2. /\ Near(request[Maker].price, level) /\ level \in Int
          /\ request[Maker].price \in Int
      BY <1>1, <1>2, <1>4, RequestType DEF TypeOK
    <3> DEFINE m == request[Maker].price
    <3> HIDE DEF m
    <3>3. m <= level + Epsilon /\ level <= m + Epsilon /\ m \in Int
      BY <3>1, <3>2 DEF Near, m
    <3>4. WithinLimit(taker, m)
      BY <3>1, <3>2, <3>3 DEF Crosses, WithinLimit
    <3>5. QED
      BY <3>4 DEF m
  <2>3. CASE k = Len(tape) + 1
    BY <1>1, <1>2, <1>4, <1>5, <1>12, <2>2, <2>3 DEF trade, MakerSide
  <2>4. QED
    BY <1>12, <2>1, <2>3
<1>19. TimePriority'
  <2> SUFFICES ASSUME NEW s \in Sides, NEW p \in Prices,
                      NEW i \in 1..Len(queue'[s][p]), NEW j \in 1..Len(queue'[s][p]),
                      i < j, ~IsDone(queue[s][p][i])'
               PROVE  \A k \in DOMAIN tape' : tape'[k].maker # queue'[s][p][j]
    BY DEF TimePriority
  <2>1. /\ i \in 1..Len(queue[s][p]) /\ j \in 1..Len(queue[s][p])
        /\ queue'[s][p] = queue[s][p]
        /\ queue[s][p][i] \in Orders /\ queue[s][p][j] \in Orders
    BY <1>1, <1>2, QueueType
  <2>2. ~IsDone(queue[s][p][i])
    BY <1>9, <2>1 DEF IsDone
  <2>3. ASSUME NEW k \in 1..Len(tape) PROVE tape'[k].maker # queue[s][p][j]
    <3>1. k \in DOMAIN tape /\ tape'[k] = tape[k]
      BY <1>12
    <3>2. TimePriority
      BY <1>2
    <3>3. tape[k].maker # queue[s][p][j]
      BY <2>1, <2>2, <3>1, <3>2 DEF TimePriority
    <3>4. QED
      BY <3>1, <3>3
  <2>4. tape'[Len(tape) + 1].maker # queue[s][p][j]
    <3>1. SUFFICES ASSUME queue[s][p][j] = Maker PROVE FALSE
      BY <1>12 DEF trade
    <3>3. s = MakerSide /\ p = level /\ j = index
      BY <1>1, <1>2, <1>3, <2>1, <3>1, MakerPlace
    <3>5. IsDone(queue[s][p][i])
      BY <1>1, <1>2, <3>3 DEF ScanInv, LevelOrders
    <3>6. QED
      BY <2>2, <3>5
  <2>5. QED
    BY <1>12, <2>1, <2>3, <2>4
<1>20. LevelInv'
  <2> SUFFICES ASSUME NEW s \in Sides, NEW p \in Prices
               PROVE  \E f : /\ Sums(Len(queue[s][p]), Left(s, p)', f)
                             /\ f[Len(queue[s][p])] <= levelQty'[s][p]
    BY <1>1 DEF LevelInv
  <2> DEFINE q == queue[s][p]
             n == Len(q)
             r == Left(s, p)
  <2>1. PICK f : Sums(n, r, f) /\ f[n] <= levelQty[s][p]
    BY <1>2 DEF LevelInv
  <2>2. n \in Nat /\ levelQty[s][p] \in Int /\ (\A i \in 1..n : q[i] \in Orders)
    BY <1>2, QueueType
  <2>3. r \in [1..n -> Nat]
    BY <1>2, <2>2, RemainingType DEF Left
  <2>4. InPlace(s, p)
    BY <1>2 DEF OpenOrdersRest
  <2>5. CASE s = MakerSide /\ p = level
    <3>1. q = LevelOrders /\ index \in 1..n /\ q[index] = Maker
      BY <1>4, <2>5 DEF LevelOrders, Maker
    <3>2. levelQty'[s][p] = levelQty[s][p] - lot
      BY <1>1, <1>2, <1>4, <2>5 DEF TypeOK
    <3>3. ASSUME NEW i \in 1..n, i # index
          PROVE  Left(s, p)'[i] = r[i]
      <4>1. q[i] # Maker
        BY <2>4, <3>1, <3>3 DEF InPlace
      <4>2. Remaining(q[i])' = Remaining(q[i])
        BY <1>1, <1>6, <2>2, <4>1 DEF Remaining, Quantity
      <4>3. QED
        BY <1>1, <4>2 DEF Left
    <3>4. Left(s, p)'[index] = r[index] - lot /\ lot <= r[index]
      <4>1. PICK m \in Orders : m = Maker
        BY <1>4
      <4>2. /\ order'[m].filled = order[m].filled + lot
            /\ request'[m].quantity = request[m].quantity
        BY <1>1, <1>7, <4>1
      <4>3. /\ Quantity(m) \in Nat /\ order[m].filled \in Nat
            /\ lot <= Remaining(m)
        BY <1>2, <1>5, <4>1, RemainingType
      <4>4. Remaining(m)' = Remaining(m) - lot
        BY <1>5, <4>2, <4>3 DEF Remaining, Quantity
      <4>5. queue'[s][p] = q /\ q[index] = m
        BY <1>1, <3>1, <4>1
      <4>6. Left(s, p)'[index] = Remaining(m)' /\ r[index] = Remaining(m)
        BY <3>1, <4>5 DEF Left
      <4>7. QED
        BY <4>3, <4>4, <4>6
    <3> DEFINE r2 == Left(s, p)'
    <3>5. /\ \A i \in 1..n : i # index => r2[i] = r[i]
          /\ r2[index] = r[index] - lot
      BY <3>3, <3>4
    <3>6. PICK g : Sums(n, r2, g) /\ g[n] = f[n] - lot
      <4> HIDE DEF n, r, r2
      <4>1. Sums(n, r, f) /\ n \in Nat /\ r \in [1..n -> Nat] /\ index \in 1..n
            /\ lot \in Nat /\ lot <= r[index]
        BY <1>5, <2>1, <2>2, <2>3, <3>1, <3>4
      <4>2. QED
        BY <3>5, <4>1, SumsDecrease, SMTT(60)
    <3>7. f[n] \in Int
      BY <2>1, <2>2 DEF Sums
    <3>8. g[n] <= levelQty'[s][p]
      BY <1>5, <2>1, <2>2, <3>2, <3>6, <3>7
    <3>9. QED
      BY <3>6, <3>8
  <2>6. CASE ~(s = MakerSide /\ p = level)
    <3>1. \A i \in 1..n : q[i] # Maker
      BY <1>1, <1>2, <1>3, <2>6, MakerPlace
    <3>2. \A i \in 1..n : Remaining(q[i])' = Remaining(q[i])
      BY <1>1, <1>6, <2>2, <3>1 DEF Remaining, Quantity
    <3>3. levelQty'[s][p] = levelQty[s][p]
      BY <1>1, <1>2, <1>4, <2>6 DEF TypeOK
    <3>4. Left(s, p)' = r
      BY <1>1, <3>2 DEF Left
    <3>5. QED
      BY <2>1, <3>3, <3>4
  <2>7. QED
    BY <2>5, <2>6
<1>21. QED
  BY <1>13, <1>14, <1>15, <1>16, <1>17, <1>18, <1>19, <1>20 DEF IInv, Inv

\* A level is deleted when all its orders are done.  It never is for the other
\* reason alone: its Quantity covers what an open order has left.
LEMMA SweptLevel ==
    ASSUME BookAssumption, IInv, SweepLevel, NEW s \in Sides, NEW p \in Prices
    PROVE  \/ queue'[s][p] = queue[s][p] /\ levelQty'[s][p] = levelQty[s][p]
           \/ /\ queue'[s][p] = <<>> /\ levelQty'[s][p] = 0
              /\ \A i \in 1..Len(queue[s][p]) : IsDone(queue[s][p][i])
<1>1. /\ pc = "sweep"
      /\ IF LevelSwept
         THEN /\ queue' = [queue EXCEPT ![MakerSide][level] = <<>>]
              /\ levelQty' = [levelQty EXCEPT ![MakerSide][level] = 0]
         ELSE UNCHANGED <<queue, levelQty>>
  BY DEF SweepLevel
<1>2. /\ TypeOK /\ OrdersInv /\ OpenOrdersRest /\ ScanInv /\ TapeInv
      /\ TradesAreSound /\ TimePriority /\ LevelInv /\ Inv
  BY DEF IInv, Inv
<1>3. MakerSide \in Sides /\ level \in Prices
  BY <1>1, <1>2, MakerType
<1>4. /\ queue \in [Sides -> [Prices -> Seq(Orders)]]
      /\ levelQty \in [Sides -> [Prices -> Int]]
  BY <1>2 DEF TypeOK
<1>5. ASSUME LevelSwept, NEW i \in 1..Len(LevelOrders)
      PROVE  IsDone(LevelOrders[i])
  <2> DEFINE n == Len(LevelOrders)
             r == Left(MakerSide, level)
  <2>1. SUFFICES ASSUME ~IsDone(LevelOrders[i]) PROVE FALSE
    OBVIOUS
  <2>2. levelQty[MakerSide][level] <= 0
    BY <1>5, <2>1 DEF LevelSwept
  <2>3. PICK f : Sums(n, r, f) /\ f[n] <= levelQty[MakerSide][level]
    BY <1>2, <1>3 DEF LevelInv, LevelOrders
  <2>4. n \in Nat /\ (\A j \in 1..n : LevelOrders[j] \in Orders)
        /\ levelQty[MakerSide][level] \in Int
    BY <1>2, <1>3, QueueType DEF LevelOrders
  <2>5. r \in [1..n -> Nat] /\ r[i] > 0
    <3>1. \A j \in 1..n : Remaining(LevelOrders[j]) \in Nat
      BY <1>2, <2>4, RemainingType
    <3>2. Remaining(LevelOrders[i]) > 0
      BY <1>2, <2>1, <2>4, RemainingType
    <3>3. QED
      BY <3>1, <3>2 DEF Left, LevelOrders
  <2>6. f[n] \in Int /\ f[n] > 0
    <3> HIDE DEF n, r
    <3>1. i \in 1..n
      BY DEF n
    <3>2. QED
      BY <2>3, <2>4, <2>5, <3>1, SumsPositive
  <2>7. QED
    BY <2>2, <2>3, <2>4, <2>6
<1>6. CASE LevelSwept /\ s = MakerSide /\ p = level
  BY <1>1, <1>3, <1>4, <1>5, <1>6 DEF LevelOrders
<1>7. CASE ~(LevelSwept /\ s = MakerSide /\ p = level)
  BY <1>1, <1>3, <1>4, <1>7
<1>8. QED
  BY <1>6, <1>7

\* So the sweep disturbs no open order.
LEMMA SweepLevelStep ==
    ASSUME BookAssumption, IInv, SweepLevel
    PROVE  IInv'
<1>1. /\ UNCHANGED <<request, order, processed, tape, taker>>
      /\ pc = "sweep" /\ pc' = (IF IsDone(taker) THEN "matched" ELSE "level")
      /\ IF LevelSwept
         THEN /\ queue' = [queue EXCEPT ![MakerSide][level] = <<>>]
              /\ levelQty' = [levelQty EXCEPT ![MakerSide][level] = 0]
         ELSE UNCHANGED <<queue, levelQty>>
  BY DEF SweepLevel
<1>2. /\ TypeOK /\ OrdersInv /\ OpenOrdersRest /\ ScanInv /\ TapeInv
      /\ TradesAreSound /\ TimePriority /\ LevelInv /\ Inv
  BY DEF IInv, Inv
<1>3. MakerSide \in Sides /\ level \in Prices
  BY <1>1, <1>2, MakerType
<1>4. /\ queue \in [Sides -> [Prices -> Seq(Orders)]]
      /\ levelQty \in [Sides -> [Prices -> Int]]
  BY <1>2 DEF TypeOK
<1>6. ASSUME NEW s \in Sides, NEW p \in Prices
      PROVE  \/ queue'[s][p] = queue[s][p] /\ levelQty'[s][p] = levelQty[s][p]
             \/ /\ queue'[s][p] = <<>> /\ levelQty'[s][p] = 0
                /\ \A i \in 1..Len(queue[s][p]) : IsDone(queue[s][p][i])
  BY SweptLevel
<1>7. TypeOK'
  BY <1>2, NextTypeOK DEF Next, Work
<1>8. OrdersInv'
  BY <1>1, <1>2 DEF OrdersInv, IsDone, Quantity
<1>9. OpenOrdersRest'
  <2>1. ASSUME NEW s \in Sides, NEW p \in Prices PROVE InPlace(s, p)'
    <3>1. InPlace(s, p)
      BY <1>2 DEF OpenOrdersRest
    <3>2. CASE queue'[s][p] = queue[s][p]
      BY <1>1, <3>1, <3>2 DEF InPlace
    <3>3. CASE queue'[s][p] = <<>>
      BY <3>3 DEF InPlace
    <3>4. QED
      BY <1>6, <3>2, <3>3
  <2>2. ASSUME NEW o \in Orders, Open(o)'
        PROVE  \E p \in Prices : \E i \in 1..Len(queue'[request[o].side][p]) :
                   queue'[request[o].side][p][i] = o
    <3> DEFINE s == request[o].side
    <3>1. Open(o) /\ ~IsDone(o)
      BY <1>1, <2>2 DEF Open, IsDone
    <3>2. PICK p \in Prices : \E i \in 1..Len(queue[s][p]) : queue[s][p][i] = o
      BY <1>2, <3>1 DEF OpenOrdersRest
    <3>3. s \in Sides
      BY <1>2, RequestType DEF TypeOK
    <3>4. queue'[s][p] = queue[s][p]
      <4>1. \/ queue'[s][p] = queue[s][p]
            \/ \A j \in 1..Len(queue[s][p]) : IsDone(queue[s][p][j])
        BY <1>6, <3>3
      <4>2. ~(\A j \in 1..Len(queue[s][p]) : IsDone(queue[s][p][j]))
        BY <3>1, <3>2
      <4>3. QED
        BY <4>1, <4>2
    <3>5. QED
      BY <3>2, <3>4
  <2>3. OneLevelEach'
    <3> SUFFICES ASSUME NEW s \in Sides, NEW p \in Prices, NEW r \in Prices,
                        NEW i \in 1..Len(queue'[s][p]), NEW j \in 1..Len(queue'[s][r]),
                        queue'[s][p][i] = queue'[s][r][j]
                 PROVE  p = r
      BY DEF OneLevelEach
    <3>1. Len(<<>>) = 0
      OBVIOUS
    <3>2. queue'[s][p] = queue[s][p] /\ queue'[s][r] = queue[s][r]
      BY <1>6, <3>1
    <3>3. QED
      BY <1>2, <3>2 DEF OpenOrdersRest, OneLevelEach
  <2>4. QED
    BY <1>1, <2>1, <2>2, <2>3 DEF OpenOrdersRest
<1>10. ScanInv'
  <2>1. CASE IsDone(taker)
    BY <1>1, <2>1 DEF ScanInv
  <2>2. CASE ~IsDone(taker)
    BY <1>1, <2>2 DEF ScanInv, IsDone
  <2>3. QED
    BY <2>1, <2>2
<1>11. TapeInv'
  BY <1>1, <1>2 DEF TapeInv, TradesOf
<1>12. TradesAreSound'
  BY <1>1, <1>2 DEF TradesAreSound, WithinLimit
<1>13. TimePriority'
  <2> SUFFICES ASSUME NEW s \in Sides, NEW p \in Prices,
                      NEW i \in 1..Len(queue'[s][p]), NEW j \in 1..Len(queue'[s][p]),
                      i < j, ~IsDone(queue[s][p][i])'
               PROVE  \A k \in DOMAIN tape' : tape'[k].maker # queue'[s][p][j]
    BY DEF TimePriority
  <2>1. queue'[s][p] = queue[s][p]
    BY <1>6
  <2>2. QED
    BY <1>1, <1>2, <2>1 DEF TimePriority, IsDone
<1>14. LevelInv'
  <2> SUFFICES ASSUME NEW s \in Sides, NEW p \in Prices
               PROVE  \E f : /\ Sums(Len(queue'[s][p]), Left(s, p)', f)
                             /\ f[Len(queue'[s][p])] <= levelQty'[s][p]
    BY DEF LevelInv
  <2>1. CASE queue'[s][p] = queue[s][p] /\ levelQty'[s][p] = levelQty[s][p]
    <3>1. Left(s, p)' = Left(s, p)
      BY <1>1, <2>1 DEF Left, Remaining, Quantity
    <3>2. QED
      BY <1>2, <2>1, <3>1 DEF LevelInv
  <2>2. CASE queue'[s][p] = <<>> /\ levelQty'[s][p] = 0
    <3> DEFINE f == [i \in 0..0 |-> 0]
    <3>1. (\A r : Sums(0, r, f)) /\ f[0] <= 0 /\ Len(<<>>) = 0
      BY DEF Sums
    <3>2. QED
      BY <2>2, <3>1
  <2>3. QED
    BY <1>6, <2>1, <2>2
<1>15. QED
  BY <1>7, <1>8, <1>9, <1>10, <1>11, <1>12, <1>13, <1>14 DEF IInv, Inv

\* The engine drops the taker: it is no limit order with something left.
LEMMA DropStep ==
    ASSUME BookAssumption, IInv, RejectMarket \/ Forget
    PROVE  IInv'
<1>1. /\ UNCHANGED <<request, processed, queue, levelQty, tape>>
      /\ pc = "matched" /\ pc' = "idle" /\ taker' = NoOrder
      /\ request[taker].type = "Market" \/ IsDone(taker)
  BY DEF RejectMarket, Forget, Return, bookVars
<1>2. /\ TypeOK /\ OrdersInv /\ OpenOrdersRest /\ ScanInv /\ TapeInv
      /\ TradesAreSound /\ TimePriority /\ LevelInv /\ Inv
  BY DEF IInv, Inv
<1>3. taker \in Orders /\ taker \in processed /\ processed \subseteq Orders /\ NoOrder \notin Orders
  BY <1>1, <1>2 DEF TypeOK, BookAssumption
<1>4. \A o \in Orders : /\ order'[o].filled = order[o].filled
                        /\ order'[o].done = order[o].done
                        /\ o # taker => order'[o] = order[o]
  <2>1. CASE RejectMarket
    <3>1. order' = [order EXCEPT ![taker] = Rejected(taker)]
      BY <2>1 DEF RejectMarket
    <3>2. Rejected(taker).filled = order[taker].filled /\ Rejected(taker).done = order[taker].done
      BY DEF Rejected, IsDone
    <3>3. QED
      BY <1>2, <1>3, <3>1, <3>2 DEF TypeOK
  <2>2. CASE Forget
    BY <2>2 DEF Forget
  <2>3. QED
    BY <2>1, <2>2
<1>5. TypeOK'
  BY <1>2, NextTypeOK DEF Next, Work
<1>6. OrdersInv'
  BY <1>1, <1>2, <1>3, <1>4 DEF OrdersInv, IsDone, Quantity
<1>7. OpenOrdersRest'
  <2>1. ASSUME NEW s \in Sides, NEW p \in Prices PROVE InPlace(s, p)'
    <3>1. InPlace(s, p)
      BY <1>2 DEF OpenOrdersRest
    <3>2. \A j \in 1..Len(queue[s][p]) : queue[s][p][j] \in processed' \ {taker'}
      BY <1>1, <1>3, <3>1 DEF InPlace
    <3>3. QED
      BY <1>1, <3>1, <3>2 DEF InPlace
  <2>2. \A o \in Orders : Open(o)' => Open(o)
    BY <1>1, <1>4 DEF Open, IsDone
  <2>3. QED
    BY <1>1, <1>2, <2>1, <2>2 DEF OpenOrdersRest, OneLevelEach
<1>8. ScanInv'
  BY <1>1 DEF ScanInv
<1>9. TapeInv'
  <2>1. \A k \in DOMAIN tape : tape[k].maker \in processed \ {NoOrder}
    BY <1>2, <1>3 DEF TapeInv
  <2>2. QED
    BY <1>1, <2>1 DEF TapeInv
<1>10. TradesAreSound'
  BY <1>1, <1>2 DEF TradesAreSound, WithinLimit
<1>11. ASSUME NEW s \in Sides, NEW p \in Prices, NEW j \in 1..Len(queue[s][p])
       PROVE  /\ IsDone(queue[s][p][j])' = IsDone(queue[s][p][j])
              /\ Remaining(queue[s][p][j])' = Remaining(queue[s][p][j])
  <2>1. queue[s][p][j] \in Orders
    BY <1>2, QueueType
  <2>2. QED
    BY <1>1, <1>4, <2>1 DEF IsDone, Remaining, Quantity
<1>12. TimePriority'
  BY <1>1, <1>2, <1>11 DEF TimePriority
<1>13. LevelInv'
  <2>1. \A s \in Sides, p \in Prices : Left(s, p)' = Left(s, p)
    BY <1>1, <1>11 DEF Left
  <2>2. QED
    BY <1>1, <1>2, <2>1 DEF LevelInv
<1>14. QED
  BY <1>5, <1>6, <1>7, <1>8, <1>9, <1>10, <1>12, <1>13 DEF IInv, Inv

\* A sequence and one more.
LEMMA AppendFacts ==
    ASSUME NEW T, NEW q \in Seq(T), NEW x \in T
    PROVE  /\ Len(q) \in Nat
           /\ Len(Append(q, x)) = Len(q) + 1
           /\ \A j \in 1..Len(q) : Append(q, x)[j] = q[j]
           /\ Append(q, x)[Len(q) + 1] = x
OBVIOUS

\* The taker joins a level whose key compares equal to its price, an old one if there
\* is any.
LEMMA JoinedLevel ==
    ASSUME BookAssumption, TypeOK, Rest
    PROVE  /\ taker \in Orders /\ request[taker].side \in Sides
           /\ request[taker].price \in Prices
           /\ \E p \in LevelsFor(request[taker].side, request[taker].price) :
                /\ p \in Prices /\ Near(request[taker].price, p)
                /\ queue' = [queue EXCEPT ![request[taker].side][p] = Append(@, taker)]
                /\ levelQty' = [levelQty EXCEPT ![request[taker].side][p] = @ + Quantity(taker)]
                /\ total' = [total EXCEPT ![request[taker].side] = @ + Quantity(taker)]
<1>1. taker \in Orders
  BY DEF Rest, TypeOK
<1>2. request[taker].side \in Sides /\ request[taker].price \in Prices
  BY <1>1, RequestType DEF Rest, TypeOK
<1>3. ASSUME NEW p \in LevelsFor(request[taker].side, request[taker].price)
      PROVE  p \in Prices /\ Near(request[taker].price, p)
  <2> DEFINE s == request[taker].side
             c == request[taker].price
             found == {r \in Levels(s) : Near(r, c)}
  <2>1. \A r \in Prices : r \in Int
    BY DEF BookAssumption
  <2>2. Epsilon \in Nat /\ c \in Prices
    BY <1>2 DEF BookAssumption
  <2> HIDE DEF s, c
  <2>3. \A r \in found : r \in Prices /\ Near(c, r)
    BY <2>1, <2>2 DEF Levels, Near
  <2>4. Near(c, c)
    BY <2>1, <2>2 DEF Near
  <2>5. p \in found \/ p = c
    BY <1>3 DEF LevelsFor, s, c
  <2>6. QED
    BY <2>2, <2>3, <2>4, <2>5 DEF c
<1>4. QED
  BY <1>1, <1>2, <1>3 DEF Rest, AddOrder

\* The taker joins the end of its level, which grows by more than it has left.
LEMMA RestStep ==
    ASSUME BookAssumption, IInv, Rest
    PROVE  IInv'
<1> DEFINE S == request[taker].side
<1>0. PICK P \in Prices :
        /\ Near(request[taker].price, P)
        /\ queue' = [queue EXCEPT ![S][P] = Append(@, taker)]
        /\ levelQty' = [levelQty EXCEPT ![S][P] = @ + Quantity(taker)]
  BY JoinedLevel DEF IInv, Inv
<1>1. /\ UNCHANGED <<request, order, processed, tape>>
      /\ pc = "matched" /\ pc' = "idle" /\ taker' = NoOrder
      /\ request[taker].type = "Limit" /\ ~IsDone(taker)
      /\ queue' = [queue EXCEPT ![S][P] = Append(@, taker)]
      /\ levelQty' = [levelQty EXCEPT ![S][P] = @ + Quantity(taker)]
  BY <1>0 DEF Rest, Return
<1>2. /\ TypeOK /\ OrdersInv /\ OpenOrdersRest /\ ScanInv /\ TapeInv
      /\ TradesAreSound /\ TimePriority /\ LevelInv /\ Inv
  BY DEF IInv, Inv
<1>3. taker \in Orders /\ taker \in processed /\ processed \subseteq Orders /\ NoOrder \notin Orders
  BY <1>1, <1>2 DEF TypeOK, BookAssumption
<1>4. S \in Sides /\ P \in Prices /\ S = request[taker].side /\ Near(request[taker].price, P)
  BY <1>0, <1>2, <1>3, RequestType DEF TypeOK
<1>5. ASSUME NEW s \in Sides, NEW p \in Prices, ~(s = S /\ p = P)
      PROVE  queue'[s][p] = queue[s][p] /\ levelQty'[s][p] = levelQty[s][p]
  BY <1>1, <1>2, <1>4, <1>5 DEF TypeOK
<1>6. /\ queue[S][P] \in Seq(Orders) /\ Len(queue[S][P]) \in Nat
      /\ queue'[S][P] = Append(queue[S][P], taker)
      /\ levelQty'[S][P] = levelQty[S][P] + Quantity(taker)
      /\ levelQty[S][P] \in Int
  <2>1. queue[S][P] \in Seq(Orders) /\ Len(queue[S][P]) \in Nat /\ levelQty[S][P] \in Int
    BY <1>2, <1>4, QueueType
  <2>2. QED
    BY <1>1, <1>2, <1>4, <2>1 DEF TypeOK
<1> HIDE DEF S
<1>7. /\ Len(queue'[S][P]) = Len(queue[S][P]) + 1
      /\ \A j \in 1..Len(queue[S][P]) : queue'[S][P][j] = queue[S][P][j]
      /\ queue'[S][P][Len(queue[S][P]) + 1] = taker
  BY <1>3, <1>6, AppendFacts
<1>8. \A o \in Orders : IsDone(o)' = IsDone(o) /\ Remaining(o)' = Remaining(o)
  BY <1>1 DEF IsDone, Remaining, Quantity
<1>9. TypeOK'
  BY <1>2, NextTypeOK DEF Next, Work
<1>10. OrdersInv'
  BY <1>1, <1>2 DEF OrdersInv, IsDone, Quantity
<1>11. OpenOrdersRest'
  <2>1. ASSUME NEW s \in Sides, NEW p \in Prices PROVE InPlace(s, p)'
    <3>1. InPlace(s, p)
      BY <1>2 DEF OpenOrdersRest
    <3>2. \A j \in 1..Len(queue[s][p]) : queue[s][p][j] \in processed' \ {taker'}
                                         /\ queue[s][p][j] # taker
      BY <1>1, <1>3, <3>1 DEF InPlace
    <3>3. CASE ~(s = S /\ p = P)
      <4>1. queue'[s][p] = queue[s][p] /\ request' = request
        BY <1>1, <1>5, <3>3
      <4>2. QED
        BY <3>1, <3>2, <4>1 DEF InPlace
    <3>4. CASE s = S /\ p = P
      <4> DEFINE n == Len(queue[s][p])
      <4>1. n \in Nat /\ Len(queue'[s][p]) = n + 1 /\ queue'[s][p][n + 1] = taker
            /\ \A j \in 1..n : queue'[s][p][j] = queue[s][p][j]
        BY <1>6, <1>7, <3>4
      <4>2. ASSUME NEW j \in 1..n + 1
            PROVE  /\ queue'[s][p][j] \in processed' \ {taker'}
                   /\ request[queue'[s][p][j]].type = "Limit"
                   /\ request[queue'[s][p][j]].side = s
                   /\ Near(request[queue'[s][p][j]].price, p)
        <5>1. CASE j \in 1..n
          BY <3>1, <3>2, <4>1, <5>1 DEF InPlace
        <5>2. CASE j = n + 1
          <6>1. queue'[s][p][j] = taker
            BY <4>1, <5>2
          <6>2. taker \in processed' \ {taker'}
            BY <1>1, <1>3
          <6>3. request[taker].type = "Limit" /\ request[taker].side = s
                /\ Near(request[taker].price, p)
            BY <1>1, <1>4, <3>4
          <6>4. QED
            BY <6>1, <6>2, <6>3
        <5>3. j \in 1..n \/ j = n + 1
          BY <4>1, <4>2
        <5>4. QED
          BY <5>1, <5>2, <5>3
      <4>3. ASSUME NEW i \in 1..n + 1, NEW j \in 1..n + 1, i # j
            PROVE  queue'[s][p][i] # queue'[s][p][j]
        <5>1. CASE i \in 1..n /\ j \in 1..n
          BY <3>1, <4>1, <4>3, <5>1 DEF InPlace
        <5>2. CASE i = n + 1 /\ j \in 1..n
          BY <3>2, <4>1, <5>2
        <5>3. CASE i \in 1..n /\ j = n + 1
          BY <3>2, <4>1, <5>3
        <5>4. QED
          BY <4>1, <4>3, <5>1, <5>2, <5>3, SMTT(30)
      <4>4. QED
        BY <1>1, <4>1, <4>2, <4>3 DEF InPlace
    <3>5. QED
      BY <3>3, <3>4
  <2>2. ASSUME NEW o \in Orders, Open(o)'
        PROVE  \E p \in Prices : \E i \in 1..Len(queue'[request[o].side][p]) :
                   queue'[request[o].side][p][i] = o
    <3> DEFINE s == request[o].side
    <3>1. CASE o = taker
      <4>1. s = S
        BY <1>4, <3>1
      <4>2. Len(queue[S][P]) + 1 \in 1..Len(queue'[S][P])
        BY <1>6, <1>7
      <4>3. QED
        BY <1>4, <1>7, <3>1, <4>1, <4>2
    <3>2. CASE o # taker
      <4>1. Open(o)
        BY <1>1, <1>8, <2>2, <3>2 DEF Open
      <4>2. PICK p \in Prices : \E i \in 1..Len(queue[s][p]) : queue[s][p][i] = o
        BY <1>2, <4>1 DEF OpenOrdersRest
      <4>3. PICK i \in 1..Len(queue[s][p]) : queue[s][p][i] = o
        BY <4>2
      <4>4. s \in Sides
        BY <1>2, RequestType DEF TypeOK
      <4>5. i \in 1..Len(queue'[s][p]) /\ queue'[s][p][i] = queue[s][p][i]
        <5>1. CASE s = S /\ p = P
          BY <1>6, <1>7, <4>3, <5>1, SMTT(30)
        <5>2. CASE ~(s = S /\ p = P)
          BY <1>5, <4>3, <4>4, <5>2
        <5>3. QED
          BY <5>1, <5>2
      <4>6. QED
        BY <4>3, <4>5
    <3>3. QED
      BY <3>1, <3>2
  <2>3. OneLevelEach'
    <3>1. ASSUME NEW s \in Sides, NEW p \in Prices, NEW i \in 1..Len(queue'[s][p])
          PROVE  \/ i \in 1..Len(queue[s][p]) /\ queue'[s][p][i] = queue[s][p][i]
                    /\ queue[s][p][i] # taker
                 \/ p = P /\ queue'[s][p][i] = taker
      <4>1. InPlace(s, p)
        BY <1>2 DEF OpenOrdersRest
      <4>2. CASE s = S /\ p = P
        <5>1. i \in 1..Len(queue[s][p]) \/ i = Len(queue[s][p]) + 1
          BY <1>6, <1>7, <4>2
        <5>2. QED
          BY <1>7, <4>1, <4>2, <5>1 DEF InPlace
      <4>3. CASE ~(s = S /\ p = P)
        BY <1>5, <4>1, <4>3 DEF InPlace
      <4>4. QED
        BY <4>2, <4>3
    <3> SUFFICES ASSUME NEW s \in Sides, NEW p \in Prices, NEW r \in Prices,
                        NEW i \in 1..Len(queue'[s][p]), NEW j \in 1..Len(queue'[s][r]),
                        queue'[s][p][i] = queue'[s][r][j]
                 PROVE  p = r
      BY DEF OneLevelEach
    <3>2. /\ \/ i \in 1..Len(queue[s][p]) /\ queue'[s][p][i] = queue[s][p][i]
                /\ queue[s][p][i] # taker
             \/ p = P /\ queue'[s][p][i] = taker
          /\ \/ j \in 1..Len(queue[s][r]) /\ queue'[s][r][j] = queue[s][r][j]
                /\ queue[s][r][j] # taker
             \/ r = P /\ queue'[s][r][j] = taker
      BY <3>1
    <3>3. OneLevelEach
      BY <1>2 DEF OpenOrdersRest
    <3>4. QED
      BY <3>2, <3>3 DEF OneLevelEach
  <2>4. QED
    BY <1>1, <2>1, <2>2, <2>3 DEF OpenOrdersRest
<1>12. ScanInv'
  BY <1>1 DEF ScanInv
<1>13. \A k \in DOMAIN tape : tape[k].maker \in processed \ {NoOrder} /\ tape[k].maker # taker
  BY <1>2, <1>3 DEF TapeInv
<1>14. TapeInv'
  BY <1>1, <1>13 DEF TapeInv
<1>15. TradesAreSound'
  BY <1>1, <1>2 DEF TradesAreSound, WithinLimit
<1>16. TimePriority'
  <2> SUFFICES ASSUME NEW s \in Sides, NEW p \in Prices,
                      NEW i \in 1..Len(queue'[s][p]), NEW j \in 1..Len(queue'[s][p]),
                      i < j, ~IsDone(queue[s][p][i])'
               PROVE  \A k \in DOMAIN tape' : tape'[k].maker # queue'[s][p][j]
    BY DEF TimePriority
  <2>1. Len(queue[s][p]) \in Nat /\ Len(queue'[s][p]) \in Nat /\ TimePriority
        /\ tape' = tape /\ order' = order
    <3>1. Len(queue[s][p]) \in Nat
      BY <1>2, QueueType
    <3>2. Len(queue'[s][p]) = Len(queue[s][p]) \/ Len(queue'[s][p]) = Len(queue[s][p]) + 1
      BY <1>5, <1>7
    <3>3. QED
      BY <1>1, <1>2, <3>1, <3>2
  <2>2. CASE i \in 1..Len(queue[s][p]) /\ j \in 1..Len(queue[s][p])
    <3>1. queue'[s][p][i] = queue[s][p][i] /\ queue'[s][p][j] = queue[s][p][j]
      <4>1. CASE s = S /\ p = P
        BY <1>7, <2>2, <4>1
      <4>2. CASE ~(s = S /\ p = P)
        BY <1>5, <4>2
      <4>3. QED
        BY <4>1, <4>2
    <3>2. ~IsDone(queue[s][p][i])
      BY <2>1, <3>1 DEF IsDone
    <3>3. QED
      BY <2>1, <2>2, <3>1, <3>2 DEF TimePriority
  <2>3. CASE ~(i \in 1..Len(queue[s][p]) /\ j \in 1..Len(queue[s][p]))
    <3>1. s = S /\ p = P
      BY <1>5, <2>3
    <3>2. j = Len(queue[s][p]) + 1
      BY <1>7, <2>1, <2>3, <3>1, SMTT(30)
    <3>3. QED
      BY <1>7, <1>13, <2>1, <3>1, <3>2
  <2>4. QED
    BY <2>2, <2>3
<1>17. LevelInv'
  <2> SUFFICES ASSUME NEW s \in Sides, NEW p \in Prices
               PROVE  \E f : /\ Sums(Len(queue'[s][p]), Left(s, p)', f)
                             /\ f[Len(queue'[s][p])] <= levelQty'[s][p]
    BY DEF LevelInv
  <2> DEFINE n == Len(queue[s][p])
             r == Left(s, p)
             r2 == Left(s, p)'
  <2>1. PICK f : Sums(n, r, f) /\ f[n] <= levelQty[s][p]
    BY <1>2 DEF LevelInv
  <2>2. n \in Nat /\ levelQty[s][p] \in Int /\ (\A i \in 1..n : queue[s][p][i] \in Orders)
    BY <1>2, QueueType
  <2>3. CASE ~(s = S /\ p = P)
    <3>1. r2 = r
      BY <1>5, <1>8, <2>2, <2>3 DEF Left, Remaining, Quantity
    <3>2. QED
      BY <1>5, <2>1, <2>3, <3>1
  <2>4. CASE s = S /\ p = P
    <3>1. Len(queue'[s][p]) = n + 1 /\ queue'[s][p][n + 1] = taker
          /\ \A j \in 1..n : queue'[s][p][j] = queue[s][p][j]
      BY <1>7, <2>4
    <3>2. /\ Remaining(taker) \in Nat /\ Quantity(taker) \in Nat
          /\ Remaining(taker) <= Quantity(taker)
      BY <1>2, <1>3, RemainingType
    <3> DEFINE q2 == queue'[s][p]
    <3>3. r2 = [i \in 1..Len(q2) |-> Remaining(q2[i])]
      BY <1>1 DEF Left, Remaining, Quantity
    <3> HIDE DEF q2
    <3>4. /\ \A i \in 1..n : r2[i] = r[i]
          /\ r2[n + 1] = Remaining(taker)
      <4>1. Len(q2) = n + 1 /\ q2[n + 1] = taker /\ \A j \in 1..n : q2[j] = queue[s][p][j]
        BY <3>1 DEF q2
      <4>2. QED
        BY <2>2, <3>3, <4>1, SMTT(30) DEF Left
    <3>5. PICK g : Sums(n + 1, r2, g) /\ g[n + 1] = f[n] + Remaining(taker)
      <4> HIDE DEF n, r, r2
      <4>1. QED
        BY <2>1, <2>2, <3>2, <3>4, SumsExtend
    <3>6. f[n] \in Int
      BY <2>1, <2>2 DEF Sums
    <3>7. g[n + 1] <= levelQty'[s][p]
      <4>1. levelQty'[s][p] = levelQty[s][p] + Quantity(taker)
        BY <1>6, <2>4
      <4>2. QED
        BY <2>1, <2>2, <3>2, <3>5, <3>6, <4>1, SMTT(30)
    <3>8. QED
      BY <3>1, <3>5, <3>7
  <2>5. QED
    BY <2>3, <2>4
<1>18. QED
  BY <1>9, <1>10, <1>11, <1>12, <1>14, <1>15, <1>16, <1>17 DEF IInv, Inv

-----------------------------------------------------------------------------
(* The theorems *)

\* ... and every step preserves it.
LEMMA NextIInv == ASSUME BookAssumption, IInv, [Next]_vars PROVE IInv'
BY FrameSteps, ProcessStep, FillTakerStep, FillMakerStep, SweepLevelStep, DropStep, RestStep
   DEF Next, Work

\* The invariant that carries the others holds of every reachable state.
THEOREM Invariance == Spec => []IInv
<1>1. Init => IInv
  BY InitIInv, BookAssumption
<1>2. IInv /\ [Next]_vars => IInv'
  BY NextIInv, BookAssumption
<1>3. QED
  BY <1>1, <1>2, PTL DEF Spec

\* Every variable of the book and of the matching keeps its type: whatever the
\* orders, no price level or remaining quantity is ever negative or misplaced.
THEOREM TypeCorrect == Spec => []TypeOK
<1>1. IInv => TypeOK
  BY DEF IInv, Inv
<1>2. QED
  BY <1>1, Invariance, PTL

\* No trade is for nothing, between orders of one side, or at a price the
\* taker's limit or the maker forbids: Match never trades through a limit.
THEOREM TradesSound == Spec => []TradesAreSound
<1>1. IInv => TradesAreSound
  BY DEF IInv, Inv
<1>2. QED
  BY <1>1, Invariance, PTL

\* Orders of one price trade in the order in which they came to rest there.
THEOREM FirstComeFirstServed == Spec => []TimePriority
<1>1. IInv => TimePriority
  BY DEF IInv, Inv
<1>2. QED
  BY <1>1, Invariance, PTL

\* No open order is ever lost from the book and nothing else is on it, although
\* a level is also deleted on the word of a Quantity that counts other things.
THEOREM NoLostLiquidity == Spec => []OpenOrdersRest
<1>1. IInv => OpenOrdersRest
  BY DEF IInv, Inv
<1>2. QED
  BY <1>1, Invariance, PTL

\* The only orders a step changes are the taker, which is not settled, and an
\* open order of the level being swept.
LEMMA SettledStep ==
    ASSUME BookAssumption, IInv, [Next]_vars, NEW o \in Orders, Settled(o)
    PROVE  order'[o] = order[o]
<1>1. TypeOK /\ Inv /\ OrdersInv /\ TapeInv /\ ScanInv
  BY DEF IInv, Inv
<1>2. CASE FillTaker
  <2>1. ~IsDone(taker) /\ taker \in Orders
    BY <1>1, <1>2 DEF FillTaker, ScanInv, TypeOK
  <2>2. o # taker
    BY <2>1 DEF Settled
  <2>3. QED
    BY <1>1, <1>2, <2>1, <2>2 DEF FillTaker, TypeOK
<1>3. CASE FillMaker
  <2>1. pc = "fillMaker" /\ index <= Len(LevelOrders)
    BY <1>1, <1>3 DEF FillMaker, TypeOK
  <2>2. Maker \in Orders /\ request[Maker].type = "Limit"
    BY <1>1, <2>1, MakerFacts
  <2>3. ~IsDone(Maker)
    <3>1. lot \in Nat /\ 0 < lot /\ lot <= Remaining(Maker)
      BY <1>1, <2>1 DEF ScanInv, TypeOK
    <3>2. Remaining(Maker) \in Nat /\ (IsDone(Maker) <=> Remaining(Maker) = 0)
      BY <1>1, <2>2, RemainingType
    <3>3. QED
      BY <3>1, <3>2
  <2>4. o # Maker
    BY <2>2, <2>3 DEF Settled
  <2>5. QED
    BY <1>1, <1>3, <2>2, <2>4 DEF FillMaker, TypeOK
<1>4. CASE RejectMarket
  <2>1. /\ taker \in Orders /\ pc = "matched" /\ TradesOf(taker) = {}
        /\ order' = [order EXCEPT ![taker] = Rejected(taker)]
    BY <1>1, <1>4 DEF RejectMarket, TypeOK
  <2>2. ~(order[taker].filled > 0)
    BY <1>1, <2>1 DEF TapeInv
  <2>3. ~IsDone(taker)
    BY <1>1, <2>1, <2>2, RemainingType DEF OrdersInv
  <2>4. o # taker
    BY <2>3 DEF Settled
  <2>5. QED
    BY <1>1, <2>1, <2>4 DEF TypeOK
<1>5. CASE UNCHANGED order
  BY <1>5
<1>6. QED
  <2>1. ASSUME NEW x \in Orders, Process(x) PROVE UNCHANGED order
    BY <2>1 DEF Process
  <2>2. EnterLevel \/ EndMatch \/ SkipDone \/ EndScan \/ SweepLevel \/ Forget \/ Rest \/ UNCHANGED vars
            => UNCHANGED order
    BY DEF EnterLevel, EndMatch, SkipDone, EndScan, SweepLevel, Forget, Rest, vars
  <2>3. QED
    BY <1>2, <1>3, <1>4, <1>5, <2>1, <2>2 DEF Next, Work

\* What a client was told of a filled or rejected order, or of a market order
\* the engine has let go, no later order changes.
THEOREM Finality == Spec => SettledIsFinal
<1>1. BookAssumption /\ IInv /\ [Next]_vars
          => [\A o \in Orders : Settled(o) => order'[o] = order[o]]_vars
  BY SettledStep
<1>2. QED
  BY <1>1, Invariance, BookAssumption, PTL DEF Spec, SettledIsFinal

-----------------------------------------------------------------------------
(* No dead level *)

\* A level whose orders are all done is the one being swept.
LiveInv ==
    \A s \in Sides : \A p \in Levels(s) :
        \/ \E i \in 1..Len(queue[s][p]) : ~IsDone(queue[s][p][i])
        \/ pc \in {"scan", "fillMaker", "sweep"} /\ s = MakerSide /\ p = level

\* Every step keeps the levels live: one is deleted when its last order is done.
LEMMA LiveStep ==
    ASSUME BookAssumption, IInv, LiveInv, [Next]_vars
    PROVE  LiveInv'
<1>1. /\ TypeOK /\ Inv /\ OrdersInv /\ TapeInv /\ ScanInv /\ OpenOrdersRest /\ TypeOK'
  BY NextIInv DEF IInv, Inv
<1> SUFFICES ASSUME NEW s \in Sides, NEW p \in Prices, queue'[s][p] # <<>>
             PROVE  \/ \E i \in 1..Len(queue'[s][p]) : ~IsDone(queue[s][p][i])'
                    \/ pc' \in {"scan", "fillMaker", "sweep"} /\ s = MakerSide' /\ p = level'
  BY DEF LiveInv, Levels
<1>2. queue[s][p] \in Seq(Orders) /\ Len(queue[s][p]) \in Nat
      /\ \A i \in 1..Len(queue[s][p]) : queue[s][p][i] \in Orders
  BY <1>1, QueueType
<1>3. queue[s][p] # <<>> =>
         \/ \E i \in 1..Len(queue[s][p]) : ~IsDone(queue[s][p][i])
         \/ pc \in {"scan", "fillMaker", "sweep"} /\ s = MakerSide /\ p = level
  BY DEF LiveInv, Levels
<1>4. CASE (\E o \in Orders : Process(o)) \/ EnterLevel \/ EndMatch \/ SkipDone \/ EndScan
           \/ UNCHANGED vars
  <2>1. UNCHANGED <<queue, order, request>>
    BY <1>4 DEF Process, EnterLevel, EndMatch, SkipDone, EndScan, vars, bookVars
  <2>2. pc \in {"scan", "fillMaker", "sweep"} =>
            pc' \in {"scan", "fillMaker", "sweep"} /\ MakerSide' = MakerSide /\ level' = level
    BY <1>4 DEF Process, EnterLevel, EndMatch, SkipDone, EndScan, vars, scanVars, MakerSide
  <2>3. QED
    BY <1>3, <2>1, <2>2 DEF IsDone
<1>5. CASE FillTaker
  <2>1. UNCHANGED <<queue, request, taker, level>> /\ pc = "scan" /\ pc' = "fillMaker" /\ taker \in Orders
        /\ order' = [order EXCEPT ![taker] = Filled(taker, MatchQuantity, request[Maker].price)]
    BY <1>1, <1>5 DEF FillTaker, bookVars, TypeOK
  <2>2. \A i \in 1..Len(queue[s][p]) : queue[s][p][i] # taker
    BY <1>1 DEF OpenOrdersRest, InPlace
  <2>3. \A o \in Orders : o # taker => order'[o] = order[o]
    BY <1>1, <2>1 DEF TypeOK
  <2>4. MakerSide' = MakerSide /\ level' = level
    BY <2>1 DEF MakerSide
  <2>5. QED
    BY <1>2, <1>3, <2>1, <2>2, <2>3, <2>4 DEF IsDone
<1>6. CASE FillMaker
  <2>1. UNCHANGED <<queue, request, taker, level>> /\ pc = "fillMaker" /\ index <= Len(LevelOrders)
        /\ pc' \in {"scan", "sweep"}
        /\ order' = [order EXCEPT ![Maker] = Filled(Maker, lot, request[Maker].price)]
    BY <1>1, <1>6 DEF FillMaker, TypeOK
  <2>2. Maker \in Orders
    BY <1>1, <2>1, MakerFacts
  <2>3. \A o \in Orders : o # Maker => order'[o] = order[o]
    BY <1>1, <2>1 DEF TypeOK
  <2>4. MakerSide' = MakerSide /\ level' = level
    BY <2>1 DEF MakerSide
  <2>5. CASE s = MakerSide /\ p = level
    BY <2>1, <2>4, <2>5
  <2>6. CASE ~(s = MakerSide /\ p = level)
    <3>1. PICK i \in 1..Len(queue[s][p]) : ~IsDone(queue[s][p][i])
      BY <1>3, <2>1, <2>6
    <3>2. queue[s][p][i] # Maker
      BY <1>1, <2>1, <2>6, MakerPlace
    <3>3. ~IsDone(queue[s][p][i])'
      BY <1>2, <2>1, <2>3, <3>1, <3>2 DEF IsDone
    <3>4. QED
      BY <2>1, <3>1, <3>3
  <2>7. QED
    BY <2>5, <2>6
<1>7. CASE SweepLevel
  <2>1. /\ UNCHANGED order /\ pc = "sweep"
        /\ MakerSide \in Sides /\ level \in Prices
        /\ queue \in [Sides -> [Prices -> Seq(Orders)]]
    BY <1>1, <1>7, MakerType DEF SweepLevel, TypeOK
  <2>2. CASE LevelSwept
    <3>1. queue' = [queue EXCEPT ![MakerSide][level] = <<>>]
      BY <1>7, <2>2 DEF SweepLevel
    <3>2. ~(s = MakerSide /\ p = level) /\ queue'[s][p] = queue[s][p]
      BY <2>1, <3>1
    <3>3. QED
      BY <1>3, <2>1, <3>2 DEF IsDone
  <2>3. CASE ~LevelSwept
    <3>1. UNCHANGED queue /\ \E i \in 1..Len(LevelOrders) : ~IsDone(LevelOrders[i])
      BY <1>7, <2>3 DEF SweepLevel, LevelSwept
    <3>2. CASE s = MakerSide /\ p = level
      BY <2>1, <3>1, <3>2 DEF LevelOrders, IsDone
    <3>3. CASE ~(s = MakerSide /\ p = level)
      BY <1>3, <2>1, <3>1, <3>3 DEF IsDone
    <3>4. QED
      BY <3>2, <3>3
  <2>4. QED
    BY <2>2, <2>3
<1>8. CASE RejectMarket \/ Forget
  <2>1. UNCHANGED queue /\ pc = "matched" /\ taker \in Orders
    BY <1>1, <1>8 DEF RejectMarket, Forget, bookVars, TypeOK
  <2>2. order' = order \/ order' = [order EXCEPT ![taker] = Rejected(taker)]
    BY <1>8 DEF RejectMarket, Forget
  <2>3. \A o \in Orders : o # taker => order'[o] = order[o]
    BY <1>1, <2>1, <2>2 DEF TypeOK
  <2>4. \A i \in 1..Len(queue[s][p]) : queue[s][p][i] # taker
    BY <1>1 DEF OpenOrdersRest, InPlace
  <2>5. QED
    BY <1>2, <1>3, <2>1, <2>3, <2>4 DEF IsDone
<1>9. CASE Rest
  <2> DEFINE S == request[taker].side
  <2>1. PICK P \in Prices : queue' = [queue EXCEPT ![S][P] = Append(@, taker)]
    BY <1>1, <1>9, JoinedLevel
  <2>2. /\ UNCHANGED order /\ pc = "matched" /\ ~IsDone(taker) /\ taker \in Orders
        /\ request[taker].type = "Limit"
        /\ queue \in [Sides -> [Prices -> Seq(Orders)]]
        /\ S \in Sides /\ P \in Prices
    BY <1>1, <1>9, JoinedLevel DEF Rest, TypeOK
  <2> HIDE DEF S
  <2>3. CASE s = S /\ p = P
    <3>1. queue'[s][p] = Append(queue[s][p], taker)
      BY <2>1, <2>2, <2>3
    <3>2. Len(queue'[s][p]) = Len(queue[s][p]) + 1 /\ queue'[s][p][Len(queue[s][p]) + 1] = taker
      BY <1>2, <2>2, <3>1, AppendFacts
    <3>3. PICK n \in Nat : n = Len(queue[s][p])
      BY <1>2
    <3>4. n + 1 \in 1..Len(queue'[s][p]) /\ queue'[s][p][n + 1] = taker
      BY <3>2, <3>3
    <3>5. ~IsDone(queue[s][p][n + 1])'
      BY <2>2, <3>4 DEF IsDone
    <3>6. QED
      BY <3>4, <3>5
  <2>4. CASE ~(s = S /\ p = P)
    <3>1. queue'[s][p] = queue[s][p]
      BY <2>1, <2>2, <2>4
    <3>2. QED
      BY <1>3, <2>2, <3>1 DEF IsDone
  <2>5. QED
    BY <2>3, <2>4
<1>10. QED
  BY <1>4, <1>5, <1>6, <1>7, <1>8, <1>9 DEF Next, Work

LEMMA LiveInvariance == Spec => []LiveInv
<1>1. Init => LiveInv
  BY DEF Init, LiveInv, Levels
<1>2. BookAssumption /\ IInv /\ LiveInv /\ [Next]_vars => LiveInv'
  BY LiveStep
<1>3. QED
  BY <1>1, <1>2, Invariance, BookAssumption, PTL DEF Spec

\* Between orders, every level GetDepth shows has an order that can trade.
THEOREM LevelsAreLive == Spec => []NoDeadLevel
<1>1. LiveInv => NoDeadLevel
  BY DEF LiveInv, NoDeadLevel
<1>2. QED
  BY <1>1, LiveInvariance, PTL

-----------------------------------------------------------------------------
(* Levels apart *)

\* The keys of the levels of one side do not compare equal, so the first level is
\* before all others.
LevelsApart ==
    \A s \in Sides : \A p, r \in Levels(s) : p # r => ~Near(p, r)

\* A new level is only made at a price that no level is near to.
LEMMA ApartStep ==
    ASSUME BookAssumption, TypeOK, LevelsApart, [Next]_vars
    PROVE  LevelsApart'
<1>1. CASE UNCHANGED queue
  BY <1>1 DEF LevelsApart, Levels
<1>2. CASE SweepLevel
  <2>0. MakerSide \in Sides /\ level \in Prices
    BY <1>2, MakerType DEF SweepLevel
  <2>1. \A s \in Sides, p \in Prices : queue'[s][p] = queue[s][p] \/ queue'[s][p] = <<>>
    BY <1>2, <2>0 DEF SweepLevel, TypeOK
  <2>2. \A s \in Sides : Levels(s)' \subseteq Levels(s)
    BY <2>1 DEF Levels
  <2>3. QED
    BY <2>2 DEF LevelsApart
<1>3. CASE Rest
  <2> DEFINE S == request[taker].side
  <2>1. PICK P \in LevelsFor(S, request[taker].price) :
          /\ P \in Prices
          /\ queue' = [queue EXCEPT ![S][P] = Append(@, taker)]
    BY <1>3, JoinedLevel
  <2>2. S \in Sides /\ request[taker].price \in Int /\ Prices \subseteq Int /\ Epsilon \in Nat
    BY <1>3, JoinedLevel DEF BookAssumption
  <2> HIDE DEF S
  <2>3. \A s \in Sides, p \in Prices : ~(s = S /\ p = P) => queue'[s][p] = queue[s][p]
    BY <2>1, <2>2 DEF TypeOK
  <2>4. \A s \in Sides : Levels(s)' \subseteq Levels(s) \cup (IF s = S THEN {P} ELSE {})
    BY <2>3 DEF Levels
  <2>5. P \notin Levels(S) => \A r \in Levels(S) : ~Near(P, r) /\ ~Near(r, P)
    BY <2>1, <2>2 DEF LevelsFor, Levels, Near
  <2>6. QED
    BY <2>4, <2>5 DEF LevelsApart
<1>4. QED
  BY <1>1, <1>2, <1>3 DEF Next, Work, Process, EnterLevel, EndMatch, SkipDone, FillTaker,
         FillMaker, EndScan, RejectMarket, Forget, vars, bookVars

LEMMA LevelsStayApart == Spec => []LevelsApart
<1>1. Init => LevelsApart
  BY DEF Init, LevelsApart, Levels
<1>2. BookAssumption /\ IInv /\ LevelsApart /\ [Next]_vars => LevelsApart'
  BY ApartStep DEF IInv, Inv
<1>3. QED
  BY <1>1, <1>2, Invariance, BookAssumption, PTL DEF Spec

-----------------------------------------------------------------------------
(* What the clients are promised: every step of OrderBook is a step of      *)
(* Exchange or one that Exchange does not see.                              *)

HIDE DEF Sides, Opposite

\* What the mapping reads of an order beyond IInv: the taker has been filled by
\* the lot that the maker still misses, a taker on the tape has been filled, and
\* a rejected order is a market order that has not.
FateInv ==
    /\ pc = "fillMaker" => lot <= order[taker].filled
    /\ \A k \in DOMAIN tape : order[tape[k].taker].filled > 0
    /\ \A o \in Orders : order[o].status = "Rejected" =>
        /\ request[o].type = "Market" /\ order[o].filled = 0
        /\ o \in processed \ {taker}

\* What TLC can evaluate of the refinement's invariant.
RefInv == Inv /\ FateInv /\ LevelsApart

-----------------------------------------------------------------------------
(* The invariant *)

\* The trades on the tape, and on it with one more.
LEMMA TapeType ==
    ASSUME TypeOK
    PROVE  /\ Len(tape) \in Nat /\ DOMAIN tape = 1..Len(tape)
           /\ \A k \in DOMAIN tape : tape[k].taker \in Orders /\ tape[k].maker \in Orders
           /\ \A t : /\ DOMAIN Append(tape, t) = 1..(Len(tape) + 1)
                    /\ \A k \in 1..Len(tape) : Append(tape, t)[k] = tape[k]
                    /\ Append(tape, t)[Len(tape) + 1] = t
<1> DEFINE T == [taker : Orders, maker : Orders, price : Int, quantity : Nat]
<1>1. tape \in Seq(T)
  BY DEF TypeOK
<1>2. \A t \in T : t.taker \in Orders /\ t.maker \in Orders
  OBVIOUS
<1> HIDE DEF T
<1>3. Len(tape) \in Nat /\ DOMAIN tape = 1..Len(tape) /\ \A k \in DOMAIN tape : tape[k] \in T
  BY <1>1
<1>4. \A t : /\ DOMAIN Append(tape, t) = 1..(Len(tape) + 1)
           /\ \A k \in 1..Len(tape) : Append(tape, t)[k] = tape[k]
           /\ Append(tape, t)[Len(tape) + 1] = t
  BY <1>1
<1>5. QED
  BY <1>2, <1>3, <1>4

\* A step that touches no order and no trade.
Quiet == UNCHANGED <<order, tape>> /\ (pc' # "fillMaker" \/ UNCHANGED <<pc, lot, taker>>)

\* Three steps touch the orders.
LEMMA WhoChangesOrders ==
    ASSUME [Next]_vars
    PROVE  FillTaker \/ FillMaker \/ RejectMarket \/ Quiet
BY DEF Next, Work, Process, EnterLevel, EndMatch, SkipDone, EndScan, SweepLevel,
       Forget, Rest, Return, vars, scanVars, Quiet

\* What no step undoes: a request, and that an order has been dealt with.
LEMMA KeptByAll ==
    ASSUME BookAssumption, TypeOK, [Next]_vars
    PROVE  /\ request' = request
           /\ processed \ {taker} \subseteq processed' \ {taker'}
<1>1. request' = request /\ processed \subseteq processed'
  BY DEF Next, Work, Process, EnterLevel, EndMatch, SkipDone, FillTaker, FillMaker, EndScan,
         SweepLevel, RejectMarket, Forget, Rest, Return, vars
<1>2. taker' = taker \/ taker' \notin processed
  BY DEF Next, Work, Process, EnterLevel, EndMatch, SkipDone, FillTaker, FillMaker, EndScan,
         SweepLevel, RejectMarket, Forget, Rest, Return, vars, scanVars, TypeOK, BookAssumption
<1>3. QED
  BY <1>1, <1>2

\* FateInv is inductive: fills only add, and an order that is rejected is not on
\* the tape and has not been filled.
LEMMA FateInvStep ==
    ASSUME BookAssumption, IInv, FateInv, [Next]_vars
    PROVE  FateInv'
<1>1. TypeOK /\ OrdersInv /\ ScanInv /\ TapeInv /\ Inv
  BY DEF IInv, Inv
<1>2. request' = request /\ processed \ {taker} \subseteq processed' \ {taker'}
  BY <1>1, KeptByAll
<1>3. \A k \in DOMAIN tape : tape[k].taker \in Orders
  BY <1>1, TapeType
<1>4. ASSUME NEW x \in Orders, NEW q \in Nat, NEW p \in Int, q > 0,
             order' = [order EXCEPT ![x] = Filled(x, q, p)]
      PROVE  /\ \A k \in DOMAIN tape : order'[tape[k].taker].filled > 0
             /\ \A o \in Orders : order'[o].status = "Rejected" =>
                    order'[o] = order[o] /\ o # x
             /\ order'[x].filled = order[x].filled + q
             /\ order[x].filled \in Nat
             /\ \A o \in Orders : o # x => order'[o] = order[o]
  <2>1. /\ order'[x] = Filled(x, q, p)
        /\ \A o \in Orders : o # x => order'[o] = order[o]
        /\ order[x].filled \in Nat
    BY <1>1, <1>4 DEF TypeOK
  <2>2. /\ Filled(x, q, p).filled = order[x].filled + q
        /\ Filled(x, q, p).status # "Rejected"
    BY DEF Filled
  <2>3. ASSUME NEW k \in DOMAIN tape PROVE order'[tape[k].taker].filled > 0
    <3>1. tape[k].taker \in Orders /\ order[tape[k].taker].filled > 0
      BY <1>3 DEF FateInv
    <3>2. QED
      BY <2>1, <2>2, <3>1, <1>4
  <2>4. QED
    BY <2>1, <2>2, <2>3
<1>5. CASE FillTaker
  <2>1. /\ UNCHANGED <<tape, taker>> /\ lot' = MatchQuantity
        /\ pc = "scan" /\ index <= Len(LevelOrders) /\ ~IsDone(Maker)
        /\ order' = [order EXCEPT ![taker] = Filled(taker, MatchQuantity, request[Maker].price)]
    BY <1>5 DEF FillTaker
  <2>2. taker \in Orders /\ Maker \in Orders /\ MatchQuantity \in Nat /\ MatchQuantity > 0
    BY <1>1, <2>1, MakerFacts, LotFacts
  <2>3. request[Maker].price \in Int
    BY <1>1, <2>2, RequestType DEF TypeOK
  <2>4. /\ \A k \in DOMAIN tape : order'[tape[k].taker].filled > 0
        /\ \A o \in Orders : order'[o].status = "Rejected" => order'[o] = order[o] /\ o # taker
        /\ order'[taker].filled = order[taker].filled + MatchQuantity
        /\ order[taker].filled \in Nat
    BY <1>4, <2>1, <2>2, <2>3
  <2>5. lot' <= order'[taker'].filled
    BY <2>1, <2>2, <2>4
  <2>6. QED
    BY <1>2, <2>1, <2>4, <2>5 DEF FateInv
<1>6. CASE FillMaker
  <2>1. /\ taker' = taker /\ pc = "fillMaker" /\ pc' # "fillMaker"
        /\ order' = [order EXCEPT ![Maker] = Filled(Maker, lot, request[Maker].price)]
        /\ tape' = Append(tape, [taker |-> taker, maker |-> Maker,
                                 price |-> request[Maker].price, quantity |-> lot])
    BY <1>6 DEF FillMaker
  <2>2. index <= Len(LevelOrders) /\ lot \in Nat /\ lot > 0
    BY <1>1, <2>1 DEF TypeOK, ScanInv
  <2>3. taker \in Orders /\ Maker \in Orders /\ Maker # taker
    BY <1>1, <2>1, <2>2, MakerFacts
  <2>4. request[Maker].price \in Int
    BY <1>1, <2>3, RequestType DEF TypeOK
  <2>5. /\ \A k \in DOMAIN tape : order'[tape[k].taker].filled > 0
        /\ \A o \in Orders : order'[o].status = "Rejected" => order'[o] = order[o] /\ o # Maker
        /\ \A o \in Orders : o # Maker => order'[o] = order[o]
    BY <1>4, <2>1, <2>2, <2>3, <2>4
  <2>6. order'[taker].filled > 0
    <3>1. lot <= order[taker].filled /\ order[taker].filled \in Nat
      BY <1>1, <2>1, <2>3 DEF FateInv, TypeOK
    <3>2. QED
      BY <2>2, <2>3, <2>5, <3>1
  <2>7. ASSUME NEW k \in DOMAIN tape' PROVE order'[tape'[k].taker].filled > 0
    <3>1. (k \in DOMAIN tape /\ tape'[k] = tape[k]) \/ tape'[k].taker = taker
      BY <1>1, <2>1, <2>7, TapeType
    <3>2. QED
      BY <2>5, <2>6, <3>1
  <2>8. QED
    BY <1>2, <2>1, <2>5, <2>7 DEF FateInv
<1>7. CASE RejectMarket
  <2>1. /\ UNCHANGED <<request, tape, processed>> /\ taker' = NoOrder
        /\ pc = "matched" /\ pc' = "idle"
        /\ request[taker].type = "Market" /\ TradesOf(taker) = {}
        /\ order' = [order EXCEPT ![taker] = Rejected(taker)]
    BY <1>7 DEF RejectMarket, Return
  <2>2. taker \in Orders /\ taker \in processed /\ NoOrder \notin Orders
    BY <1>1, <2>1 DEF TypeOK, BookAssumption
  <2>3. order[taker].filled = 0
    BY <1>1, <2>1, <2>2 DEF TapeInv, TypeOK
  <2>4. /\ order'[taker].filled = 0
        /\ \A o \in Orders : order'[o].filled = order[o].filled
        /\ \A o \in Orders : o # taker => order'[o] = order[o]
    BY <1>1, <2>1, <2>2, <2>3 DEF TypeOK, Rejected
  <2>5. \A k \in DOMAIN tape : order'[tape[k].taker].filled > 0
    BY <1>3, <2>4 DEF FateInv
  <2>6. QED
    BY <1>2, <2>1, <2>2, <2>4, <2>5 DEF FateInv
<1>8. CASE Quiet
  BY <1>2, <1>8 DEF Quiet, FateInv
<1>9. QED
  BY <1>5, <1>6, <1>7, <1>8, WhoChangesOrders

-----------------------------------------------------------------------------
(* The mapping *)

\* Where an order stands, case by case.
FateTable ==
    \A o \in Orders :
        /\ o \notin processed => Fate(o) = "New"
        /\ o = taker => Fate(o) = "Matching"
        /\ Open(o) => Fate(o) = "Open"
        /\ o \in processed /\ o # taker /\ IsDone(o) => Fate(o) = "Filled"
        /\ order[o].status = "Rejected" => Fate(o) = "Rejected"
        /\ /\ o \in processed /\ o # taker /\ ~IsDone(o)
           /\ request[o].type = "Market" /\ order[o].status # "Rejected"
           => Fate(o) = "Dropped"

\* No two of the cases overlap.
LEMMA FateTableHolds == BookAssumption /\ IInv /\ FateInv => FateTable
<1> SUFFICES ASSUME BookAssumption, IInv, FateInv, NEW o \in Orders
             PROVE  /\ o \notin processed => Fate(o) = "New"
                    /\ o = taker => Fate(o) = "Matching"
                    /\ Open(o) => Fate(o) = "Open"
                    /\ o \in processed /\ o # taker /\ IsDone(o) => Fate(o) = "Filled"
                    /\ order[o].status = "Rejected" => Fate(o) = "Rejected"
                    /\ /\ o \in processed /\ o # taker /\ ~IsDone(o)
                       /\ request[o].type = "Market" /\ order[o].status # "Rejected"
                       => Fate(o) = "Dropped"
  BY DEF FateTable
<1>1. TypeOK /\ OrdersInv
  BY DEF IInv, Inv
<1>2. /\ taker \in Orders => taker \in processed
      /\ Open(o) <=> o \in processed /\ o # taker /\ request[o].type = "Limit" /\ ~IsDone(o)
  BY <1>1 DEF TypeOK, BookAssumption, Open
<1>3. order[o].status = "Rejected" =>
        o \in processed /\ o # taker /\ ~IsDone(o) /\ request[o].type = "Market"
  <2>1. order[o].filled = 0 => ~IsDone(o)
    BY <1>1, RemainingType
  <2>2. QED
    BY <2>1 DEF FateInv
<1>4. o \notin processed => Fate(o) = "New"
  <2>1. o \notin processed => ~IsDone(o) /\ o # taker
    BY <1>1, <1>2 DEF OrdersInv, NewOrder, IsDone
  <2>2. QED
    BY <1>2, <1>3, <2>1 DEF Fate
<1>5. o = taker => Fate(o) = "Matching"
  BY <1>2, <1>3 DEF Fate
<1>6. Open(o) => Fate(o) = "Open"
  BY <1>2, <1>3 DEF Fate
<1>7. o \in processed /\ o # taker /\ IsDone(o) => Fate(o) = "Filled"
  BY <1>2, <1>3 DEF Fate
<1>8. order[o].status = "Rejected" => Fate(o) = "Rejected"
  BY <1>2, <1>3 DEF Fate
<1>9. /\ o \in processed /\ o # taker /\ ~IsDone(o)
      /\ request[o].type = "Market" /\ order[o].status # "Rejected"
      => Fate(o) = "Dropped"
  BY <1>2, <1>3 DEF Fate
<1>10. QED
  BY <1>4, <1>5, <1>6, <1>7, <1>8, <1>9

\* What has been sold, and what the promise has left of an order.
SoldTable ==
    \A o \in Orders :
        /\ Sold(o) \in Nat
        /\ pc # "fillMaker" \/ o # taker =>
            Sold(o) = order[o].filled /\ Promised!Left(o) = Remaining(o)
        /\ pc = "fillMaker" =>
            Sold(taker) = order[taker].filled - lot /\ Promised!Left(taker) = Remaining(taker) + lot

LEMMA SoldTableHolds == BookAssumption /\ IInv /\ FateInv => SoldTable
<1> SUFFICES ASSUME BookAssumption, IInv, FateInv, NEW o \in Orders
             PROVE  /\ Sold(o) \in Nat
                    /\ pc # "fillMaker" \/ o # taker =>
                        Sold(o) = order[o].filled /\ Promised!Left(o) = Remaining(o)
                    /\ pc = "fillMaker" =>
                        /\ Sold(taker) = order[taker].filled - lot
                        /\ Promised!Left(taker) = Remaining(taker) + lot
  BY DEF SoldTable
<1>1. TypeOK /\ OrdersInv
  BY DEF IInv, Inv
<1>2. order[o].filled \in Nat /\ Quantity(o) \in Nat
  BY <1>1, RemainingType
<1>3. pc = "fillMaker" => taker \in Orders /\ lot \in Nat /\ lot <= order[taker].filled
  BY <1>1 DEF TypeOK, FateInv
<1>4. pc = "fillMaker" => order[taker].filled \in Nat /\ Quantity(taker) \in Nat
  BY <1>1, <1>3, RemainingType
<1>5. Promised!Left(o) = Quantity(o) - Sold(o)
  BY DEF Promised!Left, Quantity
<1>6. pc = "fillMaker" => Promised!Left(taker) = Quantity(taker) - Sold(taker)
  BY <1>3 DEF Promised!Left, Quantity
<1>7. QED
  BY <1>2, <1>3, <1>4, <1>5, <1>6 DEF Sold, Remaining

\* a is listed before b in one level.
Before(a, b) ==
    \E s \in Sides, p \in Prices : \E i, j \in 1..Len(queue[s][p]) :
        i < j /\ queue[s][p][i] = a /\ queue[s][p][j] = b

LEMMA BeforePairs ==
    /\ RestedBefore = {pair \in Orders \X Orders :
                            Open(pair[1]) /\ Open(pair[2]) /\ Before(pair[1], pair[2])}
    /\ RestedBefore' = {pair \in Orders \X Orders :
                            Open(pair[1])' /\ Open(pair[2])' /\ Before(pair[1], pair[2])'}
<1>1. RestedBefore = {pair \in Orders \X Orders :
                            Open(pair[1]) /\ Open(pair[2]) /\ Before(pair[1], pair[2])}
  BY DEF RestedBefore, Before
<1>2. RestedBefore' = {pair \in Orders \X Orders :
                            Open(pair[1])' /\ Open(pair[2])' /\ Before(pair[1], pair[2])'}
  BY DEF RestedBefore, Before
<1>3. QED
  BY <1>1, <1>2

\* A step that sells nothing, moves no order and leaves the lists of the open
\* orders is not seen.
LEMMA Unseen ==
    ASSUME UNCHANGED <<request, taker>>, RestedBefore' = RestedBefore,
           \A o \in Orders : Sold(o)' = Sold(o) /\ Fate(o)' = Fate(o)
    PROVE  UNCHANGED Promised!abstractVars
BY DEF Promised!abstractVars

\* The engine's way through its loops is not seen.
LEMMA LoopMaps ==
    ASSUME EnterLevel \/ EndMatch \/ SkipDone \/ EndScan \/ UNCHANGED vars
    PROVE  UNCHANGED Promised!abstractVars
<1>1. /\ UNCHANGED <<request, order, processed, queue, taker>>
      /\ (pc # "fillMaker" /\ pc' # "fillMaker") \/ UNCHANGED <<pc, lot>>
  BY DEF EnterLevel, EndMatch, SkipDone, EndScan, vars, bookVars, scanVars
<1>2. \A o \in Orders : Sold(o)' = Sold(o)
  BY <1>1 DEF Sold
<1>3. \A o \in Orders : Fate(o)' = Fate(o)
  BY <1>1 DEF Fate, Open, IsDone
<1>4. RestedBefore' = RestedBefore
  BY <1>1 DEF RestedBefore, Open, IsDone
<1>5. QED
  BY <1>1, <1>2, <1>3, <1>4, Unseen

\* Nor that a trade is half done: the taker is filled, but the trade is counted
\* when the maker is.
LEMMA FillTakerMaps ==
    ASSUME BookAssumption, IInv, FateInv, IInv', SoldTable, SoldTable', FateTable, FateTable',
           FillTaker
    PROVE  UNCHANGED Promised!abstractVars
<1>1. TypeOK /\ Inv
  BY DEF IInv, Inv
<1>2. /\ UNCHANGED <<request, processed, queue, taker>>
      /\ pc = "scan" /\ pc' = "fillMaker" /\ lot' = MatchQuantity
      /\ index <= Len(LevelOrders) /\ ~IsDone(Maker)
      /\ order' = [order EXCEPT ![taker] = Filled(taker, MatchQuantity, request[Maker].price)]
  BY DEF FillTaker, bookVars
<1>3. taker \in Orders /\ taker \in processed /\ MatchQuantity \in Nat
  BY <1>1, <1>2, MakerFacts, LotFacts
<1>4. /\ order'[taker].filled = order[taker].filled + MatchQuantity
      /\ order[taker].filled \in Nat
      /\ \A o \in Orders : o # taker => order'[o] = order[o]
  BY <1>1, <1>2, <1>3 DEF TypeOK, Filled
<1>5. \A o \in Orders : Sold(o)' = Sold(o)
  BY <1>2, <1>3, <1>4 DEF Sold
<1>6. \A o \in Orders : Open(o)' = Open(o)
  BY <1>2, <1>4 DEF Open, IsDone
<1>7. \A o \in Orders : Fate(o)' = Fate(o)
  <2> SUFFICES ASSUME NEW o \in Orders PROVE Fate(o)' = Fate(o)
    OBVIOUS
  <2>1. CASE o = taker
    BY <1>2, <2>1 DEF FateTable
  <2>2. CASE o # taker
    BY <1>2, <1>4, <1>6, <2>2 DEF Fate, IsDone
  <2>3. QED
    BY <2>1, <2>2
<1>8. RestedBefore' = RestedBefore
  BY <1>2, <1>6 DEF RestedBefore
<1>9. QED
  BY <1>2, <1>5, <1>7, <1>8, Unseen

\* A deleted level had no open order.
LEMMA SweepLevelMaps ==
    ASSUME BookAssumption, IInv, SweepLevel
    PROVE  UNCHANGED Promised!abstractVars
<1>1. /\ UNCHANGED <<request, order, processed, taker>>
      /\ pc = "sweep" /\ pc' # "fillMaker"
  BY DEF SweepLevel
<1>2. \A o \in Orders : Sold(o)' = Sold(o)
  BY <1>1 DEF Sold
<1>3. \A o \in Orders : Fate(o)' = Fate(o) /\ Open(o)' = Open(o)
  BY <1>1 DEF Fate, Open, IsDone
<1>4. ASSUME NEW s \in Sides, NEW p \in Prices
      PROVE  \/ queue'[s][p] = queue[s][p]
             \/ /\ queue'[s][p] = <<>>
                /\ \A i \in 1..Len(queue[s][p]) : IsDone(queue[s][p][i])
  BY SweptLevel
<1>5. ASSUME NEW a \in Orders, NEW b \in Orders, Open(a), Open(b)
      PROVE  Before(a, b)' <=> Before(a, b)
  <2>1. ~IsDone(a) /\ ~IsDone(b)
    BY <1>5 DEF Open
  <2>2. Len(<<>>) = 0
    OBVIOUS
  <2>3. ASSUME NEW s \in Sides, NEW p \in Prices
        PROVE  (\E i, j \in 1..Len(queue'[s][p]) :
                    i < j /\ queue'[s][p][i] = a /\ queue'[s][p][j] = b)
               <=> (\E i, j \in 1..Len(queue[s][p]) :
                    i < j /\ queue[s][p][i] = a /\ queue[s][p][j] = b)
    <3>1. CASE queue'[s][p] = queue[s][p]
      BY <3>1
    <3>2. CASE queue'[s][p] = <<>> /\ \A i \in 1..Len(queue[s][p]) : IsDone(queue[s][p][i])
      BY <2>1, <2>2, <3>2
    <3>3. QED
      BY <1>4, <3>1, <3>2
  <2>4. QED
    BY <2>3 DEF Before
<1>6. RestedBefore' = RestedBefore
  BY <1>3, <1>5, BeforePairs
<1>7. QED
  BY <1>1, <1>2, <1>3, <1>6, Unseen

-----------------------------------------------------------------------------
(* The steps that are seen *)

\* A new order.
LEMMA ProcessMaps ==
    ASSUME BookAssumption, IInv, SoldTable, SoldTable', FateTable, FateTable',
           NEW o \in Orders, Process(o)
    PROVE  Promised!Arrive(o)
<1>1. TypeOK
  BY DEF IInv, Inv
<1>2. /\ UNCHANGED <<request, order, queue>>
      /\ pc = "idle" /\ pc' = "level" /\ taker' = o /\ o \notin processed
      /\ processed' = processed \cup {o}
  BY DEF Process, bookVars
<1>3. taker = NoOrder /\ NoOrder \notin Orders /\ processed \subseteq Orders
  BY <1>1, <1>2 DEF TypeOK, BookAssumption
<1>4. \A x \in Orders : Sold(x)' = Sold(x)
  BY <1>2 DEF Sold
<1>5. \A x \in Orders : Open(x)' = Open(x)
  BY <1>2, <1>3 DEF Open, IsDone
<1>6. Fate(o) = "New" /\ Fate(o)' = "Matching"
  BY <1>2 DEF FateTable
<1>7. \A x \in Orders : x # o => Fate(x)' = Fate(x)
  BY <1>2, <1>3, <1>5 DEF Fate, IsDone
<1>8. RestedBefore' = RestedBefore
  BY <1>2, <1>5 DEF RestedBefore
<1>9. QED
  BY <1>2, <1>3, <1>4, <1>6, <1>7, <1>8 DEF Promised!Arrive

\* The trade is done: as large as the two orders allow, with the first open
\* order of its level.
LEMMA FillMakerMaps ==
    ASSUME BookAssumption, IInv, FateInv, IInv', SoldTable, SoldTable', FateTable, FateTable',
           FillMaker
    PROVE  \E m \in Orders : Promised!Trade(m)
<1>1. TypeOK /\ OrdersInv /\ OpenOrdersRest /\ ScanInv /\ Inv /\ OrdersInv' /\ TypeOK'
  BY DEF IInv, Inv
<1>2. /\ UNCHANGED <<request, processed, queue, taker, level>>
      /\ pc = "fillMaker" /\ pc' # "fillMaker"
      /\ order' = [order EXCEPT ![Maker] = Filled(Maker, lot, request[Maker].price)]
  BY DEF FillMaker
<1>3. /\ taker \in Orders /\ Maker \in Orders /\ Maker # taker
      /\ index \in 1..Len(LevelOrders)
      /\ Maker \in processed /\ taker \in processed
      /\ request[Maker].type = "Limit" /\ request[Maker].side = MakerSide
      /\ Near(request[Maker].price, level)
      /\ MakerSide \in Sides /\ level \in Prices
  BY <1>1, <1>2, MakerFacts DEF TypeOK
<1>4. PICK m \in Orders : m = Maker
  BY <1>3
<1>5. /\ m # taker /\ m = LevelOrders[index] /\ m \in processed
       /\ request[m].type = "Limit" /\ request[m].side = MakerSide
       /\ Near(request[m].price, level)
       /\ order' = [order EXCEPT ![m] = Filled(m, lot, request[m].price)]
  BY <1>2, <1>3, <1>4 DEF Maker
<1>6. lot \in Nat /\ 0 < lot /\ lot <= Remaining(m)
      /\ (IsDone(taker) \/ lot = Remaining(m))
  BY <1>1, <1>2, <1>4 DEF ScanInv, TypeOK
<1>7. /\ Remaining(taker) \in Nat /\ Remaining(m) \in Nat
      /\ IsDone(taker) <=> Remaining(taker) = 0
      /\ ~IsDone(m) /\ order[m].filled \in Nat /\ Quantity(m) \in Nat
      /\ order[taker].filled \in Nat
  BY <1>1, <1>3, <1>5, <1>6, RemainingType
<1>8. /\ Promised!Left(taker) = Remaining(taker) + lot
      /\ Promised!Left(m) = Remaining(m)
      /\ Sold(taker) = order[taker].filled - lot
  BY <1>2, <1>3, <1>5 DEF SoldTable
<1>9. /\ Promised!Smaller(Promised!Left(taker), Promised!Left(m)) = lot
      /\ Promised!Left(taker) > 0
  BY <1>6, <1>7, <1>8 DEF Promised!Smaller
<1>10. taker # NoOrder
  BY <1>3, <1>5 DEF BookAssumption
<1>11. Open(m) /\ Fate(m) = "Open"
  BY <1>3, <1>5, <1>7 DEF Open, FateTable
<1>12. Promised!MayTrade(taker, m)
  <2>1. Crosses(taker, level) /\ request[taker].side \in Sides
        /\ request[taker].type \in {"Limit", "Market"}
    BY <1>1, <1>2, <1>3, <1>5, RequestType DEF ScanInv, TypeOK
  <2>2. request[taker].price \in Int /\ request[m].price \in Int /\ level \in Int
        /\ Epsilon \in Nat
    BY <1>1, <1>3, RequestType DEF TypeOK, BookAssumption
  <2>3. request[taker].side # request[m].side /\ Near(request[m].price, level)
    BY <1>5, <2>1 DEF MakerSide, Opposite, Sides
  <2>4. QED
    BY <2>1, <2>2, <2>3 DEF Crosses, Promised!MayTrade, Near, Sides
<1>13. ASSUME NEW o \in Orders PROVE <<o, m>> \notin RestedBefore
  <2> SUFFICES ASSUME <<o, m>> \in RestedBefore PROVE FALSE
    OBVIOUS
  <2>1. Open(o) /\ Before(o, m)
    BY BeforePairs
  <2>2. PICK s \in Sides, p \in Prices : \E i, j \in 1..Len(queue[s][p]) :
            i < j /\ queue[s][p][i] = o /\ queue[s][p][j] = m
    BY <2>1 DEF Before
  <2>3. PICK i \in 1..Len(queue[s][p]), j \in 1..Len(queue[s][p]) :
            i < j /\ queue[s][p][i] = o /\ queue[s][p][j] = m
    BY <2>2
  <2>5. s = MakerSide /\ p = level /\ j = index
    BY <1>1, <1>2, <1>4, <2>3, MakerPlace DEF TypeOK
  <2>7. IsDone(o)
    BY <1>1, <1>2, <2>3, <2>5 DEF ScanInv, LevelOrders
  <2>8. QED
    BY <2>1, <2>7 DEF Open
<1>14. /\ order'[m].filled = order[m].filled + lot
       /\ \A o \in Orders : o # m => order'[o] = order[o]
  <2>1. /\ order'[m] = Filled(m, lot, request[m].price)
        /\ \A o \in Orders : o # m => order'[o] = order[o]
    BY <1>1, <1>5 DEF TypeOK
  <2>2. QED
    BY <2>1 DEF Filled
<1>15. IsDone(m)' <=> lot = Remaining(m)
  BY <1>1, <1>2, <1>3, <1>5, <1>6, <1>7, <1>14 DEF OrdersInv, Remaining, Quantity
<1>16. ASSUME NEW o \in Orders
       PROVE  Sold(o)' = IF o \in {taker, m} THEN Sold(o) + lot ELSE Sold(o)
  <2>1. Sold(o)' = order'[o].filled
    BY <1>2 DEF SoldTable
  <2>2. CASE o = taker
    BY <1>3, <1>5, <1>6, <1>7, <1>8, <1>14, <2>1, <2>2
  <2>3. CASE o # taker
    BY <1>3, <1>5, <1>14, <2>1, <2>3 DEF SoldTable
  <2>4. QED
    BY <2>2, <2>3
<1>17. ASSUME NEW o \in Orders PROVE Open(o)' <=> Open(o) /\ (o = m => lot # Remaining(m))
  BY <1>2, <1>3, <1>5, <1>11, <1>14, <1>15 DEF Open, IsDone
<1>18. ASSUME NEW o \in Orders, o # m PROVE Fate(o)' = Fate(o)
  BY <1>2, <1>14, <1>18 DEF Fate, Open, IsDone
<1>19. Fate(m)' = IF Remaining(m) = lot THEN "Filled" ELSE Fate(m)
  BY <1>2, <1>3, <1>5, <1>11, <1>15, <1>17 DEF FateTable
<1>20. RestedBefore' = {pair \in RestedBefore :
                            Promised!Left(m) # Promised!Smaller(Promised!Left(taker), Promised!Left(m))
                                \/ m \notin {pair[1], pair[2]}}
  <2>1. \A a, b : Before(a, b)' <=> Before(a, b)
    BY <1>2 DEF Before
  <2>2. QED
    BY <1>8, <1>9, <1>17, <2>1, BeforePairs
<1>21. [o \in Orders |-> Sold(o)]' =
         [o \in Orders |-> IF o \in {taker, m}
                           THEN [x \in Orders |-> Sold(x)][o]
                                    + Promised!Smaller(Promised!Left(taker), Promised!Left(m))
                           ELSE [x \in Orders |-> Sold(x)][o]]
  BY <1>9, <1>16
<1>22. [o \in Orders |-> Fate(o)]' =
         [[o \in Orders |-> Fate(o)] EXCEPT
             ![m] = IF Promised!Left(m) = Promised!Smaller(Promised!Left(taker), Promised!Left(m))
                    THEN "Filled" ELSE @]
  BY <1>3, <1>5, <1>8, <1>9, <1>18, <1>19
<1>23. [o \in Orders |-> Fate(o)][m] = "Open"
  BY <1>11
<1>24. Promised!Trade(m)
  BY <1>2, <1>9, <1>10, <1>12, <1>13, <1>20, <1>21, <1>22, <1>23 DEF Promised!Trade
<1>25. QED
  BY <1>24

\* The rest of a limit order joins the end of a level, whose open orders are a queue
\* of the market; there is one if an open order has its very price.
LEMMA RestMaps ==
    ASSUME BookAssumption, IInv, FateInv, IInv', SoldTable, SoldTable', FateTable, FateTable',
           LiveInv, Rest
    PROVE  Promised!Rest
<1>1. TypeOK /\ OrdersInv /\ OpenOrdersRest /\ OpenOrdersRest'
  BY DEF IInv, Inv
<1>2. /\ UNCHANGED <<request, order, processed>>
      /\ pc = "matched" /\ pc' = "idle" /\ taker' = NoOrder
      /\ request[taker].type = "Limit" /\ ~IsDone(taker)
  BY DEF Rest, Return
<1>3. PICK t \in Orders : t = taker /\ t \in processed /\ t # NoOrder
  BY <1>1, <1>2 DEF TypeOK, BookAssumption
<1> DEFINE S == request[t].side
<1>4. PICK P \in LevelsFor(S, request[t].price) :
        /\ P \in Prices /\ Near(request[t].price, P)
        /\ queue' = [queue EXCEPT ![S][P] = Append(@, t)]
  BY <1>1, <1>3, JoinedLevel
<1>20. S \in Sides /\ request[t].price \in Int /\ P \in Int /\ Epsilon \in Nat
  BY <1>1, <1>3, <1>4, RequestType DEF TypeOK, BookAssumption
<1>5. Promised!Left(t) > 0
  BY <1>1, <1>2, <1>3, RemainingType DEF SoldTable
<1>6. \A o \in Orders : Sold(o)' = Sold(o)
  BY <1>2 DEF Sold
<1>7. ASSUME NEW o \in Orders PROVE Open(o)' <=> Open(o) \/ o = t
  BY <1>2, <1>3 DEF Open, IsDone, BookAssumption
<1>8. Fate(t)' = "Open"
  BY <1>3, <1>7 DEF FateTable
<1>9. ASSUME NEW o \in Orders, o # t PROVE Fate(o)' = Fate(o)
  BY <1>2, <1>3, <1>7, <1>9 DEF Fate, IsDone, BookAssumption
<1>10. \A s \in Sides, p \in Prices : ~(s = S /\ p = P) => queue'[s][p] = queue[s][p]
  BY <1>1, <1>4 DEF TypeOK
<1> DEFINE q == queue[S][P]
           r == queue'[S][P]
<1>11. /\ Len(q) \in Nat /\ Len(r) = Len(q) + 1 /\ r[Len(q) + 1] = t
       /\ \A i \in 1..Len(q) : r[i] = q[i] /\ q[i] # t /\ q[i] \in Orders
  <2>1. q \in Seq(Orders) /\ r = Append(q, t)
    BY <1>1, <1>4, <1>20, QueueType DEF TypeOK
  <2>2. \A i \in 1..Len(q) : q[i] # t
    <3>1. InPlace(S, P)
      BY <1>1, <1>4, <1>20 DEF OpenOrdersRest
    <3>2. QED
      BY <1>3, <3>1 DEF InPlace
  <2>3. QED
    <3> HIDE DEF q, r
    <3>1. QED
      BY <2>1, <2>2, AppendFacts
<1>12. ASSUME NEW a \in Orders, NEW b \in Orders, Open(a), Open(b)
       PROVE  Before(a, b)' <=> Before(a, b)
  <2>1. a # t /\ b # t
    BY <1>3, <1>12 DEF Open
  <2>2. ASSUME NEW s \in Sides, NEW p \in Prices
        PROVE  (\E i, j \in 1..Len(queue'[s][p]) :
                    i < j /\ queue'[s][p][i] = a /\ queue'[s][p][j] = b)
               <=> (\E i, j \in 1..Len(queue[s][p]) :
                    i < j /\ queue[s][p][i] = a /\ queue[s][p][j] = b)
    <3>1. CASE s = S /\ p = P
      <4> HIDE DEF q, r
      <4>1. \A i \in 1..Len(r) : i \in 1..Len(q) \/ r[i] = t
        BY <1>11
      <4>2. \A i \in 1..Len(q) : i \in 1..Len(r) /\ r[i] = q[i]
        BY <1>11
      <4>3. (\E i, j \in 1..Len(r) : i < j /\ r[i] = a /\ r[j] = b)
            <=> (\E i, j \in 1..Len(q) : i < j /\ q[i] = a /\ q[j] = b)
        BY <2>1, <4>1, <4>2
      <4>4. QED
        BY <3>1, <4>3 DEF q, r
    <3>2. CASE ~(s = S /\ p = P)
      BY <1>10, <3>2
    <3>3. QED
      BY <3>1, <3>2
  <2>3. QED
    BY <2>2 DEF Before
<1> DEFINE group == {a \in Orders : Open(a) /\ \E i \in 1..Len(q) : q[i] = a}
<1>13. ASSUME NEW a \in Orders, Open(a)
       PROVE  Before(a, t)' <=> a \in group
  <2>1. a # t
    BY <1>3, <1>13 DEF Open
  <2>2. ASSUME a \in group PROVE Before(a, t)'
    <3>1. PICK i \in 1..Len(q) : q[i] = a
      BY <2>2
    <3>2. i \in 1..Len(r) /\ Len(q) + 1 \in 1..Len(r) /\ i < Len(q) + 1 /\ r[i] = a
      <4> HIDE DEF q, r
      <4>1. QED
        BY <1>11, <3>1
    <3>3. QED
      BY <1>4, <1>11, <1>20, <3>2 DEF Before
  <2>3. ASSUME Before(a, t)' PROVE a \in group
    <3>1. PICK s \in Sides, p \in Prices : \E i, j \in 1..Len(queue'[s][p]) :
              i < j /\ queue'[s][p][i] = a /\ queue'[s][p][j] = t
      BY <2>3 DEF Before
    <3>2. PICK i \in 1..Len(queue'[s][p]), j \in 1..Len(queue'[s][p]) :
              queue'[s][p][i] = a /\ queue'[s][p][j] = t
      BY <3>1
    <3>3. s = S /\ p = P
      <4>1. ~(\E k \in 1..Len(queue[s][p]) : queue[s][p][k] = t)
        BY <1>1, <1>3 DEF OpenOrdersRest, InPlace
      <4>2. QED
        BY <1>10, <3>2, <4>1
    <3>4. i \in 1..Len(r) /\ r[i] = a
      BY <3>2, <3>3
    <3> HIDE DEF q, r
    <3>5. i \in 1..Len(q) /\ q[i] = a
      BY <1>11, <2>1, <3>4
    <3>6. QED
      BY <1>13, <3>5
  <2>4. QED
    BY <2>2, <2>3
<1>14. ASSUME NEW b \in Orders, Open(b) \/ b = t
       PROVE  ~Before(t, b)'
  <2> SUFFICES ASSUME Before(t, b)' PROVE FALSE
    OBVIOUS
  <2>1. PICK s \in Sides, p \in Prices : \E i, j \in 1..Len(queue'[s][p]) :
            i < j /\ queue'[s][p][i] = t /\ queue'[s][p][j] = b
    BY DEF Before
  <2>2. PICK i \in 1..Len(queue'[s][p]), j \in 1..Len(queue'[s][p]) :
            i < j /\ queue'[s][p][i] = t /\ queue'[s][p][j] = b
    BY <2>1
  <2>4. s = S /\ p = P
    <3>1. ~(\E k \in 1..Len(queue[s][p]) : queue[s][p][k] = t)
      BY <1>1, <1>3 DEF OpenOrdersRest, InPlace
    <3>2. QED
      BY <1>10, <2>2, <3>1
  <2>5. i = Len(q) + 1
    <3>1. i \in 1..Len(r) /\ r[i] = t
      BY <2>2, <2>4
    <3> HIDE DEF q, r
    <3>2. QED
      BY <1>11, <3>1
  <2>6. QED
    BY <1>11, <2>2, <2>4, <2>5
<1>15. Promised!OpenOrders = {o \in Orders : Open(o)}
  <2>1. ASSUME NEW o \in Orders PROVE Fate(o) = "Open" <=> Open(o)
    BY <1>1 DEF FateTable, Open, Fate, TypeOK
  <2>2. QED
    BY <2>1 DEF Promised!OpenOrders
<1>16. RestedBefore' = RestedBefore \cup (group \X {t})
  <2> HIDE DEF group
  <2>0. group \subseteq {a \in Orders : Open(a)}
    BY DEF group
  <2>1. ASSUME NEW a \in Orders, NEW b \in Orders
        PROVE  (Open(a)' /\ Open(b)' /\ Before(a, b)')
               <=> \/ Open(a) /\ Open(b) /\ Before(a, b)
                   \/ a \in group /\ b = t
    <3>1. ~Open(t)
      BY <1>3 DEF Open
    <3>2. CASE Open(a) /\ Open(b)
      BY <1>7, <1>12, <3>1, <3>2
    <3>3. CASE Open(a) /\ b = t
      BY <1>7, <1>13, <3>1, <3>3
    <3>4. CASE a = t /\ (Open(b) \/ b = t)
      BY <1>14, <2>0, <3>1, <3>4
    <3>5. QED
      BY <1>7, <2>0, <3>2, <3>3, <3>4
  <2>2. QED
    BY <2>0, <2>1, BeforePairs
<1>21. group \in SUBSET {m \in Promised!OpenOrders : Promised!Close(m, t)}
  <2> SUFFICES ASSUME NEW m \in group PROVE Promised!Close(m, t)
    BY <1>15
  <2>1. PICK i \in 1..Len(q) : q[i] = m
    OBVIOUS
  <2>2. InPlace(S, P)
    BY <1>1, <1>4, <1>20 DEF OpenOrdersRest
  <2>3. m \in Orders /\ request[m].side = S /\ Near(request[m].price, P)
    BY <2>1, <2>2 DEF InPlace
  <2>4. request[m].price \in Int /\ request[t].price \in Int
    BY <1>1, <1>3, <2>3, RequestType DEF TypeOK
  <2>5. Near(request[t].price, P) /\ P \in Int /\ Epsilon \in Nat /\ request[t].side = S
    BY <1>4, <1>20 DEF BookAssumption
  <2> DEFINE a == request[m].price
             b == request[t].price
  <2> HIDE DEF a, b
  <2>6. a - b <= 2 * Epsilon /\ b - a <= 2 * Epsilon
    <3>1. /\ a \in Int /\ b \in Int /\ P \in Int /\ Epsilon \in Int
          /\ a - P <= Epsilon /\ P - a <= Epsilon /\ b - P <= Epsilon /\ P - b <= Epsilon
      BY <2>3, <2>4, <2>5 DEF Near, a, b
    <3>2. QED
      BY <3>1
  <2>7. QED
    BY <2>3, <2>5, <2>6 DEF Promised!Close, a, b
<1>22. Promised!IsQueue(group)
  <2>1. ASSUME NEW a \in group, NEW b \in group
        PROVE  a = b \/ <<a, b>> \in RestedBefore \/ <<b, a>> \in RestedBefore
    <3>1. PICK i \in 1..Len(q) : q[i] = a
      OBVIOUS
    <3>2. PICK j \in 1..Len(q) : q[j] = b
      OBVIOUS
    <3>3. i \in Int /\ j \in Int
      BY <1>11
    <3>4. CASE i = j
      BY <3>1, <3>2, <3>4
    <3>5. CASE i < j
      <4>1. Before(a, b)
        BY <1>4, <1>20, <3>1, <3>2, <3>5 DEF Before
      <4>2. a \in Orders /\ b \in Orders /\ Open(a) /\ Open(b)
        OBVIOUS
      <4> HIDE DEF group
      <4>3. QED
        BY <4>1, <4>2, BeforePairs
    <3>6. CASE j < i
      <4>1. Before(b, a)
        BY <1>4, <1>20, <3>1, <3>2, <3>6 DEF Before
      <4>2. a \in Orders /\ b \in Orders /\ Open(a) /\ Open(b)
        OBVIOUS
      <4> HIDE DEF group
      <4>3. QED
        BY <4>1, <4>2, BeforePairs
    <3>7. QED
      BY <3>3, <3>4, <3>5, <3>6
  <2>2. ASSUME NEW pair \in RestedBefore PROVE pair[1] \in group <=> pair[2] \in group
    <3>1. pair[1] \in Orders /\ pair[2] \in Orders /\ Open(pair[1]) /\ Open(pair[2])
          /\ Before(pair[1], pair[2])
      BY BeforePairs
    <3>2. PICK s \in Sides, p \in Prices : \E i, j \in 1..Len(queue[s][p]) :
              queue[s][p][i] = pair[1] /\ queue[s][p][j] = pair[2]
      BY <3>1 DEF Before
    <3>3. PICK i \in 1..Len(queue[s][p]), j \in 1..Len(queue[s][p]) :
              queue[s][p][i] = pair[1] /\ queue[s][p][j] = pair[2]
      BY <3>2
    <3>4. ASSUME NEW k \in 1..Len(q), q[k] \in {pair[1], pair[2]} PROVE s = S /\ p = P
      <4>1. InPlace(s, p) /\ InPlace(S, P) /\ OneLevelEach
        BY <1>1, <1>4, <1>20 DEF OpenOrdersRest
      <4>2. request[q[k]].side = S
        BY <4>1 DEF InPlace
      <4>3. request[pair[1]].side = s /\ request[pair[2]].side = s
        BY <3>3, <4>1 DEF InPlace
      <4>4. s = S
        BY <3>4, <4>2, <4>3
      <4>5. PICK n \in 1..Len(queue[s][p]) : queue[s][p][n] = q[k]
        BY <3>3, <3>4
      <4>6. p = P
        BY <1>4, <1>20, <4>1, <4>4, <4>5 DEF OneLevelEach
      <4>7. QED
        BY <4>4, <4>6
    <3>5. ASSUME pair[1] \in group PROVE pair[2] \in group
      <4>1. PICK k \in 1..Len(q) : q[k] = pair[1]
        BY <3>5
      <4>2. s = S /\ p = P
        BY <3>4, <4>1
      <4>3. QED
        BY <3>1, <3>3, <4>2
    <3>6. ASSUME pair[2] \in group PROVE pair[1] \in group
      <4>1. PICK k \in 1..Len(q) : q[k] = pair[2]
        BY <3>6
      <4>2. s = S /\ p = P
        BY <3>4, <4>1
      <4>3. QED
        BY <3>1, <3>3, <4>2
    <3>7. QED
      BY <3>5, <3>6
  <2>3. QED
    BY <2>1, <2>2 DEF Promised!IsQueue
<1>23. group = {} => \A m \in Promised!OpenOrders : ~Promised!Alike(m, t)
  <2> SUFFICES ASSUME NEW m \in Promised!OpenOrders, Promised!Alike(m, t)
               PROVE  group # {}
    OBVIOUS
  <2>1. m \in Orders /\ Open(m) /\ request[m].side = S /\ request[m].price = request[t].price
    BY <1>15 DEF Promised!Alike
  <2>2. PICK p \in Prices : \E i \in 1..Len(queue[S][p]) : queue[S][p][i] = m
    BY <1>1, <2>1 DEF OpenOrdersRest
  <2>3. Near(request[t].price, p) /\ p \in Int
    BY <1>1, <1>20, <2>1, <2>2 DEF OpenOrdersRest, InPlace, BookAssumption
  <2>4. queue[S][p] # <<>>
    <3>1. Len(<<>>) = 0
      OBVIOUS
    <3>2. QED
      BY <2>2, <3>1
  <2>5. P \in Levels(S)
    <3>1. Near(p, request[t].price)
      BY <1>20, <2>3 DEF Near
    <3>2. p \in Levels(S)
      BY <2>4 DEF Levels
    <3>3. {x \in Levels(S) : Near(x, request[t].price)} # {}
      BY <3>1, <3>2
    <3>4. QED
      BY <1>4, <3>3 DEF LevelsFor
  <2>6. PICK i \in 1..Len(q) : ~IsDone(q[i])
    BY <1>2, <1>20, <2>5 DEF LiveInv
  <2>7. Open(q[i])
    <3>1. InPlace(S, P)
      BY <1>1, <1>4, <1>20 DEF OpenOrdersRest
    <3>2. QED
      BY <2>6, <3>1 DEF InPlace, Open
  <2>8. q[i] \in group
    BY <1>11, <2>6, <2>7
  <2>9. QED
    BY <2>8
<1> HIDE DEF q, r, group
<1>17. [o \in Orders |-> Fate(o)]' = [[o \in Orders |-> Fate(o)] EXCEPT ![t] = "Open"]
  BY <1>8, <1>9
<1>18. [o \in Orders |-> Sold(o)]' = [o \in Orders |-> Sold(o)]
  BY <1>6
<1>19. QED
  BY <1>2, <1>3, <1>5, <1>16, <1>17, <1>18, <1>21, <1>22, <1>23 DEF Promised!Rest

\* An order that does not rest is over.
LEMMA DropMaps ==
    ASSUME BookAssumption, IInv, FateInv, IInv', SoldTable, SoldTable', FateTable, FateTable',
           RejectMarket \/ Forget
    PROVE  Promised!Finish
<1>1. TypeOK /\ OrdersInv /\ TapeInv /\ OrdersInv'
  BY DEF IInv, Inv
<1>2. /\ UNCHANGED <<request, processed, queue, tape>>
      /\ pc = "matched" /\ pc' = "idle" /\ taker' = NoOrder
      /\ request[taker].type = "Market" \/ IsDone(taker)
  BY DEF RejectMarket, Forget, Return, bookVars
<1>3. PICK t \in Orders : t = taker /\ t \in processed /\ t # NoOrder
  BY <1>1, <1>2 DEF TypeOK, BookAssumption
<1>4. \A o \in Orders : /\ order'[o].filled = order[o].filled
                        /\ IsDone(o)' = IsDone(o)
                        /\ o # t => order'[o] = order[o]
  <2>1. CASE RejectMarket
    <3>1. order' = [order EXCEPT ![t] = Rejected(t)]
      BY <1>3, <2>1 DEF RejectMarket
    <3>2. Rejected(t).filled = order[t].filled /\ Rejected(t).done = order[t].done
      BY DEF Rejected, IsDone
    <3>3. QED
      BY <1>1, <1>3, <3>1, <3>2 DEF TypeOK, IsDone
  <2>2. CASE Forget
    BY <2>2 DEF Forget, IsDone
  <2>3. QED
    BY <2>1, <2>2
<1>5. \A o \in Orders : Sold(o)' = Sold(o)
  BY <1>2, <1>4 DEF Sold
<1>6. ASSUME NEW o \in Orders PROVE Open(o)' <=> Open(o)
  BY <1>2, <1>3, <1>4 DEF Open, BookAssumption
<1>7. ASSUME NEW o \in Orders, o # t PROVE Fate(o)' = Fate(o)
  BY <1>2, <1>3, <1>4, <1>6, <1>7 DEF Fate, BookAssumption
<1>8. RestedBefore' = RestedBefore
  BY <1>2, <1>6 DEF RestedBefore
<1>9. /\ Promised!Left(t) = Remaining(t) /\ Remaining(t) \in Nat
      /\ IsDone(t) <=> Remaining(t) = 0
      /\ Sold(t) = order[t].filled /\ t \in processed' /\ t # taker'
      /\ [o \in Orders |-> Sold(o)][t] = Sold(t)
  BY <1>1, <1>2, <1>3, RemainingType DEF SoldTable
<1>10. CASE IsDone(t)
  <2>1. Fate(t)' = "Filled"
    BY <1>4, <1>9, <1>10 DEF FateTable
  <2>2. [o \in Orders |-> Fate(o)]' = [[o \in Orders |-> Fate(o)] EXCEPT ![t] = "Filled"]
    BY <1>7, <2>1
  <2>3. QED
    BY <1>2, <1>3, <1>5, <1>8, <1>9, <1>10, <2>2 DEF Promised!Finish
<1>11. CASE ~IsDone(t)
  <2>1. request[t].type = "Market" /\ Promised!Left(t) > 0
    BY <1>2, <1>3, <1>9, <1>11
  <2>2. Fate(t)' = IF Sold(t) = 0 THEN "Rejected" ELSE "Dropped"
    <3>1. CASE RejectMarket
      <4>1. order'[t].status = "Rejected"
        BY <1>1, <1>3, <3>1 DEF RejectMarket, TypeOK, Rejected
      <4>2. order[t].filled = 0
        BY <1>1, <1>2, <1>3, <3>1 DEF RejectMarket, TapeInv, TypeOK
      <4>3. QED
        BY <1>9, <4>1, <4>2 DEF FateTable
    <3>2. CASE Forget
      <4>1. order' = order /\ TradesOf(t) # {}
        BY <1>3, <2>1, <3>2 DEF Forget
      <4>2. order[t].filled > 0
        BY <4>1 DEF TradesOf, FateInv
      <4>3. order[t].status # "Rejected"
        BY <1>3 DEF FateInv
      <4>4. QED
        BY <1>2, <1>4, <1>9, <1>11, <2>1, <4>1, <4>2, <4>3 DEF FateTable
    <3>3. QED
      BY <3>1, <3>2
  <2>3. [o \in Orders |-> Fate(o)]' =
            [[o \in Orders |-> Fate(o)] EXCEPT ![t] = IF Sold(t) = 0 THEN "Rejected" ELSE "Dropped"]
    BY <1>7, <2>2
  <2>4. QED
    BY <1>2, <1>3, <1>5, <1>8, <1>9, <2>1, <2>3 DEF Promised!Finish
<1>12. QED
  BY <1>10, <1>11

-----------------------------------------------------------------------------
(* Theorems *)

\* Initially nothing has been sold and nobody has come.
LEMMA InitMaps == BookAssumption /\ Init => Promised!AbstractInit /\ FateInv
<1> SUFFICES ASSUME BookAssumption, Init PROVE Promised!AbstractInit /\ FateInv
  OBVIOUS
<1>1. /\ \A o \in Orders : order[o] = NewOrder
      /\ processed = {} /\ taker = NoOrder /\ NoOrder \notin Orders /\ pc = "idle" /\ tape = <<>>
  BY DEF Init, BookAssumption
<1>2. FateInv
  BY <1>1 DEF FateInv, NewOrder
<1>3. FateTable
  BY <1>2, InitIInv, FateTableHolds
<1>4. \A o \in Orders : Sold(o) = 0 /\ Fate(o) = "New"
  BY <1>1, <1>3 DEF Sold, NewOrder, FateTable
<1>5. RestedBefore = {}
  BY <1>1 DEF RestedBefore, Open
<1>6. QED
  BY <1>1, <1>2, <1>4, <1>5 DEF Promised!AbstractInit

\* Every step is one of Exchange's or is not seen.
LEMMA StepMaps ==
    ASSUME BookAssumption, IInv, FateInv, IInv', SoldTable, SoldTable', FateTable, FateTable',
           LiveInv, [Next]_vars
    PROVE  [Promised!AbstractNext]_(Promised!abstractVars)
<1>1. CASE EnterLevel \/ EndMatch \/ SkipDone \/ EndScan \/ UNCHANGED vars
  BY <1>1, LoopMaps
<1>2. ASSUME NEW o \in Orders, Process(o) PROVE Promised!AbstractNext
  BY <1>2, ProcessMaps DEF Promised!AbstractNext
<1>3. CASE FillTaker
  BY <1>3, FillTakerMaps
<1>4. CASE FillMaker
  BY <1>4, FillMakerMaps DEF Promised!AbstractNext
<1>5. CASE SweepLevel
  BY <1>5, SweepLevelMaps
<1>6. CASE RejectMarket \/ Forget
  BY <1>6, DropMaps DEF Promised!AbstractNext
<1>7. CASE Rest
  BY <1>7, RestMaps DEF Promised!AbstractNext
<1>8. QED
  BY <1>1, <1>2, <1>3, <1>4, <1>5, <1>6, <1>7 DEF Next, Work

\* The invariants hold together.
LEMMA FateInvariance == Spec => [](IInv /\ FateInv)
<1>1. Init => IInv /\ FateInv
  BY InitIInv, InitMaps, BookAssumption
<1>2. IInv /\ FateInv /\ [Next]_vars => (IInv /\ FateInv)'
  BY NextIInv, FateInvStep, BookAssumption
<1>3. QED
  BY <1>1, <1>2, PTL DEF Spec

\* What the mapping reads of the orders, the tape and the lot holds of every
\* reachable state (RefInv): a rejected market order was never filled, the taker has
\* had the lot the maker still misses, and no two levels of a side compare equal.
THEOREM RefInvariance == Spec => []RefInv
<1>1. IInv /\ FateInv /\ LevelsApart => RefInv
  BY DEF IInv, RefInv
<1>2. QED
  BY <1>1, FateInvariance, LevelsStayApart, PTL

\* The book, with its levels, half-done trades and listed orders that are done,
\* does nothing that the market of module Exchange would not do (KeepsPromise).
THEOREM BookKeepsPromise == Spec => KeepsPromise
<1>1. Init => Promised!AbstractInit
  BY InitMaps, BookAssumption
<1>2. IInv /\ FateInv => SoldTable /\ FateTable
  BY SoldTableHolds, FateTableHolds, BookAssumption
<1>3. /\ IInv /\ FateInv /\ SoldTable /\ FateTable /\ LiveInv
      /\ (IInv /\ FateInv /\ SoldTable /\ FateTable)'
      /\ [Next]_vars
      => [Promised!AbstractNext]_(Promised!abstractVars)
  BY StepMaps, BookAssumption
<1>4. QED
  BY <1>1, <1>2, <1>3, FateInvariance, LiveInvariance, PTL
     DEF Spec, KeepsPromise, Promised!AbstractSpec

=================================================================================
