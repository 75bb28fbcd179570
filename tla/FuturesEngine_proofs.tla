-------------------------- MODULE FuturesEngine_proofs --------------------------
(***************************************************************************)
(* The invariant that makes the properties of FuturesEngine inductive, and *)
(* the proofs of the properties for every set of orders, holders, prices   *)
(* and quantities and every size of the channels.                          *)
(***************************************************************************)
EXTENDS FuturesEngine, Totals_proofs, SequenceTheorems

TradeRecord == [taker : Orders, maker : Orders, price : Int, quantity : Nat]

\* The types that TypeOK leaves out.
KindsOK ==
    /\ TypeOK
    /\ call \in [Orders -> {"none", "accepted", "ORDER_CHANNEL_FULL", "ENGINE_STOPPED", "panic"}]
    /\ processed \subseteq Orders /\ IsFiniteSet(processed)
    /\ taker \in processed \cup {NoOrder}
    /\ tape \in Seq(TradeRecord)
    /\ level \in Int /\ index \in Nat

\* An order goes through the channel to the engine once.
FlowInv ==
    /\ \A o \in processed : call[o] # "none"
    /\ \A i \in 1..Len(orderCh) : orderCh[i] \notin processed /\ call[orderCh[i]] # "none"
    /\ \A i, j \in 1..Len(orderCh) : i # j => orderCh[i] # orderCh[j]

\* An order is done when it is filled, and never beyond; the engine has not
\* touched an order it has not processed; only a market order that traded nothing
\* is rejected.
OrdersInv ==
    /\ \A o \in Orders : /\ order[o].filled <= request[o].quantity
                         /\ IsDone(o) <=> order[o].filled = request[o].quantity
    /\ \A o \in Orders \ processed : order[o] = NewOrder
    /\ \A o \in Orders : order[o].status = "Rejected" =>
        request[o].type = "Market" /\ order[o].filled = 0 /\ o \in processed \ {taker}

\* A level lists open orders of its side and price, each once.
InPlace(s, p) ==
    LET q == queue[s][p]
    IN  /\ \A i \in 1..Len(q) :
            Open(q[i]) /\ request[q[i]].side = s /\ request[q[i]].price = p
        /\ \A i, j \in 1..Len(q) : i # j => q[i] # q[j]

\* The book lists the open orders and nothing else: orders that are done leave
\* their level at once.
BookInv ==
    /\ \A s \in Sides, p \in Prices : InPlace(s, p)
    /\ \A o \in Orders : Open(o) =>
           LET q == queue[request[o].side][request[o].price]
           IN  \E i \in 1..Len(q) : q[i] = o

\* What Match has learnt at each point of its loops.  It has not come to a level
\* of the book unless the level is the one it sweeps, it trades with the first
\* order of that level as long as the taker is not done, and it ends when nothing
\* on the book can trade with the taker any more.
LoopInv ==
    /\ pc = "sweep" /\ ~IsDone(taker) => Levels(MakerSide) \subseteq todo
    /\ pc = "scan" =>
        /\ level \in Prices /\ Crosses(taker, level)
        /\ Levels(MakerSide) \subseteq todo \cup {level}
        /\ \A p \in todo : ComesFirst(MakerSide, level, p)
        /\ ~IsDone(taker) => index = 1
    /\ pc = "matched" /\ ~IsDone(taker) => \A p \in Levels(MakerSide) : ~Crosses(taker, p)
    /\ IsFiniteSet(todo)

\* No two open orders cross, whatever the engine is doing.
CrossInv ==
    \A b, s \in Orders :
        Open(b) /\ request[b].side = "Buy" /\ Open(s) /\ request[s].side = "Sell"
            => request[b].price < request[s].price

\* The trades that are not booked yet are those of the order being processed,
\* which has been filled only by them; all who traded have been filled.
TapeInv ==
    /\ \A k \in DOMAIN tape : /\ tape[k].quantity > 0
                              /\ tape[k].maker \in processed \ {taker}
                              /\ order[tape[k].taker].filled > 0
                              /\ k > booked => tape[k].taker = taker
    /\ pc # "idle" /\ order[taker].filled > 0 => \E k \in DOMAIN tape : tape[k].taker = taker

\* The open orders of a side and price, and of a side.
OpenAt(s, p) == {o \in Orders : Open(o) /\ request[o].side = s /\ request[o].price = p}
OpenOn(s) == {o \in Orders : Open(o) /\ request[o].side = s}

\* The statistics cover what is left of the orders they count.
StatsInv ==
    /\ \A s \in Sides, p \in Prices :
        SumOver([o \in Orders |-> Remaining(o)], OpenAt(s, p)) <= levelQty[s][p]
    /\ \A s \in Sides : SumOver([o \in Orders |-> Remaining(o)], OpenOn(s)) <= total[s]

\* A position that has been opened has a quantity.
PositionsInv ==
    /\ PositionsAddUp
    /\ \A h \in Holders : BookedFor(h) # {} => position[h].quantity > 0

FInv ==
    /\ KindsOK
    /\ FlowInv
    /\ OrdersInv
    /\ BookInv
    /\ LoopInv
    /\ CrossInv
    /\ TapeInv
    /\ StatsInv

-----------------------------------------------------------------------------
(* Facts about one state *)

USE DEF Sides, Opposite

\* What a request says, of either type.
LEMMA RequestFields ==
    ASSUME FuturesAssumption, NEW r \in Request
    PROVE  /\ r.side \in Sides /\ r.holder \in Holders
           /\ r.type \in {"Limit", "Market"}
           /\ r.type = "Limit" => r.price \in Prices
           /\ r.price \in Int
           /\ r.quantity \in Nat /\ r.quantity > 0
<1>1. /\ \A q \in Quantities : q \in Nat /\ q > 0
      /\ \A p \in Prices : p \in Int
  BY DEF FuturesAssumption
<1>2. CASE r \in [holder : Holders, side : Sides, type : {"Limit"},
                  price : Prices, quantity : Quantities]
  <2>1. /\ r.side \in Sides /\ r.type = "Limit" /\ r.holder \in Holders
        /\ r.price \in Prices /\ r.quantity \in Quantities
    BY <1>2
  <2>2. QED
    BY <1>1, <2>1
<1>3. CASE r \in [holder : Holders, side : Sides, type : {"Market"},
                  price : {0}, quantity : Quantities]
  <2>1. /\ r.side \in Sides /\ r.type = "Market" /\ r.holder \in Holders
        /\ r.price = 0 /\ r.quantity \in Quantities
    BY <1>3
  <2>2. r.type # "Limit" /\ r.type \in {"Limit", "Market"} /\ r.price \in Int
    BY <2>1
  <2>3. QED
    BY <1>1, <2>1, <2>2
<1>4. QED
  BY <1>2, <1>3 DEF Request

\* The same of the request of any order.
LEMMA RequestType ==
    ASSUME FuturesAssumption, TypeOK, NEW o \in Orders
    PROVE  /\ request[o].side \in Sides /\ request[o].holder \in Holders
           /\ request[o].type \in {"Limit", "Market"}
           /\ request[o].type = "Limit" => request[o].price \in Prices
           /\ request[o].price \in Int
           /\ request[o].quantity \in Nat /\ request[o].quantity > 0
<1>1. request[o] \in Request
  BY DEF TypeOK
<1>2. QED
  BY <1>1, RequestFields

\* What an order has left is a natural, and nothing when it is done.
LEMMA RemainingType ==
    ASSUME FuturesAssumption, TypeOK, OrdersInv, NEW o \in Orders
    PROVE  /\ Remaining(o) \in Nat /\ order[o].filled \in Nat /\ order[o].value \in Int
           /\ IsDone(o) \in BOOLEAN
           /\ IsDone(o) <=> Remaining(o) = 0
           /\ Remaining(o) = request[o].quantity - order[o].filled
<1>1. request[o].quantity \in Nat
  BY RequestType
<1>2. order[o].filled \in Nat /\ order[o].done \in BOOLEAN /\ order[o].value \in Int
  BY DEF TypeOK
<1>3. QED
  BY <1>1, <1>2 DEF Remaining, OrdersInv, IsDone

\* The levels of the book are sequences of orders, their quantities naturals.
LEMMA QueueType ==
    ASSUME TypeOK, NEW s \in Sides, NEW p \in Prices
    PROVE  /\ queue[s][p] \in Seq(Orders)
           /\ Len(queue[s][p]) \in Nat
           /\ \A i \in 1..Len(queue[s][p]) : queue[s][p][i] \in Orders
           /\ queue[s][p] = <<>> <=> Len(queue[s][p]) = 0
           /\ levelQty[s][p] \in Nat /\ total[s] \in Nat
<1>1. /\ queue \in [Sides -> [Prices -> Seq(Orders)]]
      /\ levelQty \in [Sides -> [Prices -> Nat]] /\ total \in [Sides -> Nat]
  BY DEF TypeOK
<1>2. queue[s] \in [Prices -> Seq(Orders)] /\ levelQty[s] \in [Prices -> Nat]
  BY <1>1
<1>3. queue[s][p] \in Seq(Orders) /\ levelQty[s][p] \in Nat /\ total[s] \in Nat
  BY <1>1, <1>2
<1>4. QED
  BY <1>3

\* A price is a level of the book when an open order waits there.
LEMMA LevelsAre ==
    ASSUME FuturesAssumption, TypeOK, BookInv, NEW s \in Sides
    PROVE  /\ Levels(s) \subseteq Prices
           /\ \A p \in Prices : p \in Levels(s) <=> OpenAt(s, p) # {}
<1>1. ASSUME NEW p \in Prices, queue[s][p] # <<>> PROVE OpenAt(s, p) # {}
  <2>1. 1 \in 1..Len(queue[s][p]) /\ queue[s][p][1] \in Orders
    BY <1>1, QueueType
  <2>2. queue[s][p][1] \in OpenAt(s, p)
    BY <2>1 DEF BookInv, InPlace, OpenAt
  <2>3. QED
    BY <2>2
<1>2. ASSUME NEW p \in Prices, NEW o \in OpenAt(s, p) PROVE queue[s][p] # <<>>
  <2>1. o \in Orders /\ Open(o) /\ request[o].side = s /\ request[o].price = p
    BY DEF OpenAt
  <2>2. PICK i \in 1..Len(queue[s][p]) : queue[s][p][i] = o
    BY <2>1 DEF BookInv
  <2>3. Len(queue[s][p]) # 0 /\ Len(queue[s][p]) \in Nat
    BY <2>2, QueueType
  <2>4. QED
    BY <2>3, QueueType
<1>3. QED
  BY <1>1, <1>2 DEF Levels

\* The sets of open orders are finite, and so are the levels.
LEMMA OpenSets ==
    ASSUME KindsOK
    PROVE  /\ \A s, p : OpenAt(s, p) \subseteq Orders /\ IsFiniteSet(OpenAt(s, p))
           /\ \A s : OpenOn(s) \subseteq Orders /\ IsFiniteSet(OpenOn(s))
<1>1. \A A : A \subseteq processed => IsFiniteSet(A)
  BY FS_Subset DEF KindsOK
<1>2. /\ \A s, p : OpenAt(s, p) \subseteq processed
      /\ \A s : OpenOn(s) \subseteq processed
  BY DEF OpenAt, OpenOn, Open
<1>3. QED
  BY <1>1, <1>2 DEF OpenAt, OpenOn

LEMMA LevelsFinite ==
    ASSUME FuturesAssumption, KindsOK, BookInv, NEW s \in Sides
    PROVE  IsFiniteSet(Levels(s))
<1> DEFINE A == OpenOn(s)
           f == [o \in A |-> request[o].price]
<1>1. IsFiniteSet(A)
  BY OpenSets
<1>2. \A p \in Levels(s) : \E o \in A : f[o] = p
  BY LevelsAre DEF KindsOK, Levels, OpenAt, OpenOn
<1>3. \A o \in A : f[o] \in Levels(s)
  <2> SUFFICES ASSUME NEW o \in A PROVE request[o].price \in Levels(s)
    OBVIOUS
  <2>1. /\ o \in Orders /\ Open(o) /\ request[o].side = s /\ request[o].price \in Prices
    BY RequestType DEF KindsOK, OpenOn, Open
  <2>2. o \in OpenAt(s, request[o].price)
    BY <2>1 DEF OpenAt
  <2>3. QED
    BY <2>1, <2>2, LevelsAre DEF KindsOK
<1>4. f \in Surjection(A, Levels(s))
  BY <1>2, <1>3 DEF Surjection
<1>5. QED
  BY <1>1, <1>4, FS_Surjection DEF ExistsSurjection

\* A finite set of prices has a first one, whichever way a side is sorted.
LEMMA FirstPrice ==
    ASSUME NEW S, IsFiniteSet(S), S \subseteq Int, NEW s
    PROVE  S # {} => \E p \in S : \A q \in S : ComesFirst(s, p, q)
<1> DEFINE A == {T \in SUBSET S : T # {} => \E p \in T : \A q \in T : ComesFirst(s, p, q)}
<1>1. ASSUME NEW T \in SUBSET S, \A x \in T : T \ {x} \in A PROVE T \in A
  <2> SUFFICES ASSUME T # {} PROVE \E p \in T : \A q \in T : ComesFirst(s, p, q)
    OBVIOUS
  <2>1. PICK x \in T : TRUE
    OBVIOUS
  <2>2. CASE T \ {x} = {}
    <3>1. \A q \in T : ComesFirst(s, x, q)
      BY <2>1, <2>2 DEF ComesFirst
    <3>2. QED
      BY <2>1, <3>1
  <2>3. CASE T \ {x} # {}
    <3>1. PICK p \in T \ {x} : \A q \in T \ {x} : ComesFirst(s, p, q)
      BY <1>1, <2>1, <2>3
    <3>2. \A q \in T : q \in Int
      OBVIOUS
    <3>3. CASE ComesFirst(s, p, x)
      BY <2>1, <3>1, <3>3
    <3>4. CASE ~ComesFirst(s, p, x)
      <4>1. \A q \in T : ComesFirst(s, x, q)
        BY <2>1, <3>1, <3>2, <3>4 DEF ComesFirst
      <4>2. QED
        BY <2>1, <4>1
    <3>5. QED
      BY <3>3, <3>4
  <2>4. QED
    BY <2>2, <2>3
<1> HIDE DEF A
<1>2. \A T \in SUBSET S : T \in A
  BY <1>1, SubsetInduction
<1>3. S \in A
  BY <1>2
<1>4. QED
  BY <1>3 DEF A

\* What Fill does to an order it does not fill beyond its quantity.
LEMMA FillFacts ==
    ASSUME FuturesAssumption, TypeOK, OrdersInv,
           NEW o \in Orders, NEW q \in Nat, NEW p \in Int, q > 0, q <= Remaining(o)
    PROVE  /\ Filled(o, q, p).filled = order[o].filled + q
           /\ Filled(o, q, p).filled <= request[o].quantity
           /\ Filled(o, q, p).done \in BOOLEAN
           /\ Filled(o, q, p).done <=> q = Remaining(o)
           /\ Filled(o, q, p).done <=> Filled(o, q, p).filled = request[o].quantity
           /\ Filled(o, q, p).status # "Rejected"
           /\ Filled(o, q, p) \in [filled : Nat, value : Int, done : BOOLEAN,
                                   status : {"New", "PartiallyFilled", "Filled", "Rejected"}]
           /\ ~IsDone(o)
<1>1. /\ ~IsDone(o) /\ order[o].filled + q <= request[o].quantity
      /\ order[o].filled \in Nat /\ order[o].value \in Int /\ request[o].quantity \in Nat
  BY RemainingType, RequestType
<1>2. Filled(o, q, p).filled = order[o].filled + q /\ Filled(o, q, p).status # "Rejected"
  BY DEF Filled
<1>3. Filled(o, q, p).done = (IsDone(o) \/ order[o].filled + q >= request[o].quantity)
  BY DEF Filled
<1>4. /\ order[o].filled + q >= request[o].quantity <=> order[o].filled + q = request[o].quantity
      /\ order[o].filled + q = request[o].quantity <=> q = Remaining(o)
  BY <1>1, RemainingType
<1>5. Filled(o, q, p).done <=> order[o].filled + q = request[o].quantity
  BY <1>1, <1>3, <1>4, Zenon
<1>6. Filled(o, q, p).done \in BOOLEAN
  BY <1>3, Zenon
<1>7. p * q \in Int
  OBVIOUS
<1>8. Filled(o, q, p) \in [filled : Nat, value : Int, done : BOOLEAN,
                           status : {"New", "PartiallyFilled", "Filled", "Rejected"}]
  BY <1>1, <1>3, <1>6, <1>7 DEF Filled
<1>9. QED
  BY <1>1, <1>2, <1>4, <1>5, <1>6, <1>8

-----------------------------------------------------------------------------
(* One trade *)

\* A level without its first order.
LEMMA RemoveFirst ==
    ASSUME NEW S, NEW q \in Seq(S), Len(q) # 0
    PROVE  LET r == SubSeq(q, 1, 1 - 1) \o SubSeq(q, 1 + 1, Len(q))
           IN  /\ r \in Seq(S) /\ Len(r) \in Nat /\ Len(r) = Len(q) - 1
               /\ \A j \in 1..Len(r) : j + 1 \in 1..Len(q) /\ r[j] = q[j + 1]
<1> DEFINE a == SubSeq(q, 1, 1 - 1)
           b == SubSeq(q, 1 + 1, Len(q))
<1>1. a = <<>>
  BY SubSeqEmpty
<1>2. b \in Seq(S) /\ Len(b) \in Nat /\ Len(b) = Len(q) - 1 /\ \A j \in 1..Len(b) : b[j] = q[j + 1]
  <2>1. PICK n \in Nat : n = Len(q)
    OBVIOUS
  <2>2. n > 0 /\ n \in Int /\ 2 \in Int /\ 1 + 1 = 2 /\ n - 1 \in Nat
    BY <2>1
  <2>3. \A i \in 2..n : q[i] \in S
    BY <2>1
  <2>4. b = SubSeq(q, 2, n)
    BY <2>1, <2>2
  <2>5. /\ SubSeq(q, 2, n) \in Seq(S)
        /\ Len(SubSeq(q, 2, n)) = IF 2 <= n THEN n - 2 + 1 ELSE 0
        /\ \A i \in 1..n - 2 + 1 : SubSeq(q, 2, n)[i] = q[2 + i - 1]
    BY <2>2, <2>3, SubSeqProperties
  <2>6. (IF 2 <= n THEN n - 2 + 1 ELSE 0) = n - 1 /\ n - 2 + 1 = n - 1
    BY <2>2
  <2>7. \A j \in 1..(n - 1) : 2 + j - 1 = j + 1
    BY <2>2
  <2> HIDE DEF b
  <2>8. QED
    BY <2>1, <2>2, <2>4, <2>5, <2>6, <2>7
<1>3. a \o b = b
  BY <1>1, <1>2, ConcatEmptySeq
<1>4. QED
  BY <1>2, <1>3

\* The taker trades lot with m, the first order of the level it sweeps, and m
\* leaves the level when it is done.
TradeWith(m, lot) ==
    /\ pc = "scan" /\ UNCHANGED <<request, processed, offered, booked, position, pc, taker,
                                  todo, level, chVars>>
    /\ m # taker /\ Open(m) /\ ~IsDone(taker)
    /\ request[m].side = MakerSide /\ request[m].price = level
    /\ queue[MakerSide][level][1] = m /\ Len(queue[MakerSide][level]) # 0
    /\ lot > 0 /\ lot <= Remaining(taker) /\ lot <= Remaining(m)
    /\ lot = Remaining(taker) \/ lot = Remaining(m)
    /\ order' = [order EXCEPT ![taker] = Filled(taker, lot, request[m].price),
                              ![m] = Filled(m, lot, request[m].price)]
    /\ total' = [total EXCEPT ![MakerSide] = @ - lot]
    /\ levelQty' = [levelQty EXCEPT ![MakerSide][level] = @ - lot]
    /\ queue' = IF lot = Remaining(m)
                THEN [queue EXCEPT ![MakerSide][level] =
                         SubSeq(@, 1, 1 - 1) \o SubSeq(@, 1 + 1, Len(@))]
                ELSE queue
    /\ index' = IF lot = Remaining(m) THEN 1 ELSE 2
    /\ tape' = Append(tape, [taker |-> taker, maker |-> m,
                             price |-> request[m].price, quantity |-> lot])

\* While Match sweeps, it holds an order and the level is a price.
LEMMA SweepFacts ==
    ASSUME FuturesAssumption, FInv, pc # "idle"
    PROVE  /\ taker \in Orders /\ taker \in processed /\ MakerSide \in Sides
           /\ pc = "scan" => level \in Prices
<1>1. taker \in Orders /\ taker \in processed
  BY DEF FInv, KindsOK, TypeOK, FuturesAssumption
<1>2. MakerSide \in Sides
  BY <1>1, RequestType DEF FInv, KindsOK, MakerSide
<1>3. QED
  BY <1>1, <1>2 DEF FInv, LoopInv

LEMMA TradeFacts ==
    ASSUME FuturesAssumption, FInv, Trade
    PROVE  \E m \in Orders, lot \in Nat : TradeWith(m, lot)
<1>1. TypeOK /\ OrdersInv /\ BookInv /\ LoopInv
  BY DEF FInv, KindsOK
<1>2. pc = "scan" /\ ~IsDone(taker)
  BY DEF Trade
<1>3. taker \in Orders /\ taker \in processed /\ MakerSide \in Sides /\ level \in Prices /\ index = 1
  BY <1>1, <1>2, SweepFacts DEF LoopInv
<1> DEFINE q == queue[MakerSide][level]
<1>4. /\ LevelOrders = q /\ q \in Seq(Orders) /\ Len(q) \in Nat
      /\ \A j \in 1..Len(q) : q[j] \in Orders
      /\ InPlace(MakerSide, level)
  BY <1>1, <1>3, QueueType DEF LevelOrders, BookInv
<1>5. Ahead = 1..Len(q)
  BY <1>3, <1>4 DEF Ahead, InPlace, Open
<1>6. PICK i \in Ahead :
        LET m == LevelOrders[i]
            lot == MatchQuantity(m)
            maker == Filled(m, lot, request[m].price)
        IN  /\ \A j \in Ahead : i <= j
            /\ order' = [order EXCEPT ![taker] = Filled(taker, lot, request[m].price),
                                      ![m] = maker]
            /\ total' = [total EXCEPT ![MakerSide] = @ - lot]
            /\ levelQty' = [levelQty EXCEPT ![MakerSide][level] = @ - lot]
            /\ queue' = IF maker.done
                        THEN [queue EXCEPT ![MakerSide][level] =
                                 SubSeq(@, 1, i - 1) \o SubSeq(@, i + 1, Len(@))]
                        ELSE queue
            /\ index' = StepTo(i, maker.done)
            /\ tape' = Append(tape, [taker |-> taker, maker |-> m,
                                     price |-> request[m].price, quantity |-> lot])
  BY DEF Trade
<1>7. i = 1 /\ Len(q) # 0
  <2>1. \A j \in Ahead : i <= j
    BY <1>6
  <2>2. i \in 1..Len(q) /\ \A j \in 1..Len(q) : i <= j
    BY <1>5, <2>1
  <2>3. QED
    BY <1>4, <2>2
<1>8. PICK m \in Orders : m = q[1]
  BY <1>4, <1>7
<1>9. /\ Open(m) /\ request[m].side = MakerSide /\ request[m].price = level
      /\ m # taker /\ ~IsDone(m)
  BY <1>4, <1>7, <1>8 DEF InPlace, Open
<1>10. /\ Remaining(taker) \in Nat /\ Remaining(taker) # 0
       /\ Remaining(m) \in Nat /\ Remaining(m) # 0
  BY <1>1, <1>2, <1>3, <1>9, RemainingType
<1>11. PICK lot \in Nat : lot = MatchQuantity(m)
  BY <1>10 DEF MatchQuantity
<1>12. /\ lot > 0 /\ lot <= Remaining(taker) /\ lot <= Remaining(m)
       /\ lot = Remaining(taker) \/ lot = Remaining(m)
  BY <1>10, <1>11 DEF MatchQuantity
<1>13. request[m].price \in Int
  BY <1>1, RequestType
<1>14. Filled(m, lot, request[m].price).done <=> lot = Remaining(m)
  BY <1>1, <1>12, <1>13, FillFacts
<1>15. LevelOrders[i] = m
  BY <1>4, <1>7, <1>8
<1>16. /\ order' = [order EXCEPT ![taker] = Filled(taker, lot, request[m].price),
                                ![m] = Filled(m, lot, request[m].price)]
       /\ total' = [total EXCEPT ![MakerSide] = @ - lot]
       /\ levelQty' = [levelQty EXCEPT ![MakerSide][level] = @ - lot]
       /\ queue' = IF Filled(m, lot, request[m].price).done
                   THEN [queue EXCEPT ![MakerSide][level] =
                            SubSeq(@, 1, 1 - 1) \o SubSeq(@, 1 + 1, Len(@))]
                   ELSE queue
       /\ index' = StepTo(1, Filled(m, lot, request[m].price).done)
       /\ tape' = Append(tape, [taker |-> taker, maker |-> m,
                                price |-> request[m].price, quantity |-> lot])
  BY <1>6, <1>7, <1>11, <1>15
<1>17. UNCHANGED <<request, processed, offered, booked, position, pc, taker, todo, level, chVars>>
  BY DEF Trade
<1>18. queue' = IF lot = Remaining(m)
                THEN [queue EXCEPT ![MakerSide][level] =
                         SubSeq(@, 1, 1 - 1) \o SubSeq(@, 1 + 1, Len(@))]
                ELSE queue
  BY <1>14, <1>16
<1>19. index' = IF lot = Remaining(m) THEN 1 ELSE 2
  BY <1>14, <1>16 DEF StepTo
<1>20. TradeWith(m, lot)
  BY <1>2, <1>7, <1>8, <1>9, <1>12, <1>16, <1>17, <1>18, <1>19 DEF TradeWith
<1>21. QED
  BY <1>20

\* What a trade does to the orders.
LEMMA TradeOrders ==
    ASSUME FuturesAssumption, FInv, NEW m \in Orders, NEW lot \in Nat, TradeWith(m, lot)
    PROVE  /\ taker \in Orders /\ MakerSide \in Sides /\ level \in Prices
           /\ MakerSide' = MakerSide /\ ~IsDone(m)
           /\ order' \in [Orders -> [filled : Nat, value : Int, done : BOOLEAN,
                                     status : {"New", "PartiallyFilled", "Filled", "Rejected"}]]
           /\ \A o \in {taker, m} :
                /\ order'[o] = Filled(o, lot, request[m].price)
                /\ order'[o].filled = order[o].filled + lot
                /\ order'[o].filled <= request[o].quantity
                /\ order'[o].status # "Rejected"
                /\ Remaining(o)' = Remaining(o) - lot
                /\ IsDone(o)' <=> lot = Remaining(o)
                /\ IsDone(o)' <=> order'[o].filled = request[o].quantity
           /\ \A o \in Orders : o \notin {taker, m} =>
                order'[o] = order[o] /\ Remaining(o)' = Remaining(o) /\ IsDone(o)' = IsDone(o)
           /\ \A o \in Orders : Open(o)' <=> Open(o) /\ (o = m => lot # Remaining(m))
<1>1. TypeOK /\ OrdersInv
  BY DEF FInv, KindsOK
<1>2. taker \in Orders /\ MakerSide \in Sides /\ level \in Prices /\ MakerSide' = MakerSide
  BY SweepFacts DEF TradeWith, MakerSide
<1>3. request[m].price \in Int
  BY <1>1, RequestType
<1>4. m # taker /\ request' = request /\ taker' = taker /\ processed' = processed
  BY DEF TradeWith
<1>5. ASSUME NEW o \in {taker, m}
      PROVE  /\ Filled(o, lot, request[m].price).filled = order[o].filled + lot
             /\ Filled(o, lot, request[m].price).filled <= request[o].quantity
             /\ Filled(o, lot, request[m].price).status # "Rejected"
             /\ Filled(o, lot, request[m].price).done <=> lot = Remaining(o)
             /\ Filled(o, lot, request[m].price).done
                    <=> Filled(o, lot, request[m].price).filled = request[o].quantity
             /\ Filled(o, lot, request[m].price)
                    \in [filled : Nat, value : Int, done : BOOLEAN,
                         status : {"New", "PartiallyFilled", "Filled", "Rejected"}]
             /\ ~IsDone(o)
  <2>1. o \in Orders /\ lot > 0 /\ lot <= Remaining(o)
    BY <1>2 DEF TradeWith
  <2>2. QED
    BY <1>1, <1>3, <2>1, FillFacts
<1>6. /\ \A o \in {taker, m} : order'[o] = Filled(o, lot, request[m].price)
      /\ \A o \in Orders : o \notin {taker, m} => order'[o] = order[o]
      /\ order' \in [Orders -> [filled : Nat, value : Int, done : BOOLEAN,
                                status : {"New", "PartiallyFilled", "Filled", "Rejected"}]]
  <2>1. order' = [order EXCEPT ![taker] = Filled(taker, lot, request[m].price),
                               ![m] = Filled(m, lot, request[m].price)]
    BY DEF TradeWith
  <2> DEFINE T == [filled : Nat, value : Int, done : BOOLEAN,
                   status : {"New", "PartiallyFilled", "Filled", "Rejected"}]
  <2>2. order \in [Orders -> T]
    BY <1>1 DEF TypeOK
  <2>3. Filled(taker, lot, request[m].price) \in T /\ Filled(m, lot, request[m].price) \in T
    BY <1>5
  <2> HIDE DEF T
  <2>4. /\ order' \in [Orders -> T]
        /\ order'[taker] = Filled(taker, lot, request[m].price)
        /\ order'[m] = Filled(m, lot, request[m].price)
        /\ \A o \in Orders : o \notin {taker, m} => order'[o] = order[o]
    BY <1>2, <1>4, <2>1, <2>2, <2>3
  <2>5. QED
    BY <2>4 DEF T
<1>7. ASSUME NEW o \in {taker, m} PROVE Remaining(o)' = Remaining(o) - lot
  <2>1. order[o].filled \in Nat /\ request[o].quantity \in Nat
    BY <1>1, <1>2, RemainingType, RequestType
  <2>2. QED
    BY <1>4, <1>5, <1>6, <2>1 DEF Remaining
<1>8. \A o \in {taker, m} :
        /\ IsDone(o)' <=> lot = Remaining(o)
        /\ IsDone(o)' <=> order'[o].filled = request[o].quantity
  BY <1>5, <1>6 DEF IsDone
<1>9. \A o \in Orders : o \notin {taker, m} =>
        Remaining(o)' = Remaining(o) /\ IsDone(o)' = IsDone(o)
  BY <1>4, <1>6 DEF Remaining, IsDone
<1>10. \A o \in Orders : Open(o)' <=> Open(o) /\ (o = m => lot # Remaining(m))
  <2> SUFFICES ASSUME NEW o \in Orders
               PROVE  Open(o)' <=> Open(o) /\ (o = m => lot # Remaining(m))
    OBVIOUS
  <2>1. CASE o = taker
    BY <1>4, <2>1 DEF Open
  <2>2. CASE o = m
    BY <1>4, <1>5, <1>8, <2>2 DEF Open, TradeWith
  <2>3. CASE o \notin {taker, m}
    BY <1>4, <1>9, <2>3 DEF Open
  <2>4. QED
    BY <2>1, <2>2, <2>3
<1>11. ~IsDone(m)
  BY <1>5
<1>12. QED
  BY <1>2, <1>5, <1>6, <1>7, <1>8, <1>9, <1>10, <1>11

-----------------------------------------------------------------------------
(* Steps that leave the orders, the book and the loops alone *)

QuietVars == <<request, order, processed, bookVars, tape, pc, taker, scanVars>>

Calls == {"none", "accepted", "ORDER_CHANNEL_FULL", "ENGINE_STOPPED", "panic"}
Position == [quantity : Nat, value : Int, margin : Int]

\* What such a step has to show for the whole invariant.
LEMMA QuietStep ==
    ASSUME FuturesAssumption, FInv, UNCHANGED QuietVars,
           call' \in [Orders -> Calls], FlowInv',
           orderCh' \in Seq(Orders), Len(orderCh') <= OrderCap,
           tradeCh' \in Seq(1..offered'), Len(tradeCh') <= TradeCap,
           offered' \in 0..Len(tape), booked' \in 0..offered', booked <= booked',
           position' \in [Holders -> Position],
           pc = "idle" => offered' = offered /\ booked' = booked
    PROVE  FInv'
<1>1. /\ request' = request /\ order' = order /\ processed' = processed /\ tape' = tape
      /\ queue' = queue /\ levelQty' = levelQty /\ total' = total
      /\ pc' = pc /\ taker' = taker /\ todo' = todo /\ level' = level /\ index' = index
  BY DEF QuietVars, bookVars, scanVars
<1>2. KindsOK'
  BY <1>1 DEF FInv, KindsOK, TypeOK, Calls, Position
<1>3. OrdersInv'
  BY <1>1 DEF FInv, OrdersInv, IsDone
<1>4. \A o : Open(o)' <=> Open(o)
  BY <1>1 DEF Open, IsDone
<1>5. BookInv' /\ CrossInv'
  BY <1>1, <1>4 DEF FInv, BookInv, CrossInv, InPlace
<1>6. LoopInv'
  BY <1>1 DEF FInv, LoopInv, MakerSide, Levels, Crosses, IsDone
<1>7. TapeInv'
  <2>1. booked \in Int /\ booked' \in Int /\ \A k \in DOMAIN tape : k \in Nat
    BY DEF FInv, KindsOK, TypeOK
  <2>2. QED
    BY <1>1, <2>1 DEF FInv, TapeInv
<1>8. StatsInv'
  BY <1>1 DEF FInv, StatsInv, OpenAt, OpenOn, Open, IsDone, Remaining
<1>9. QED
  BY <1>2, <1>3, <1>5, <1>6, <1>7, <1>8 DEF FInv

\* A caller's step: the order may join the channel, which it has not yet been on.
LEMMA CallerSteps ==
    ASSUME FuturesAssumption, FInv, NEW o \in Orders,
           Accept(o) \/ TimeOut(o) \/ RefuseStopped(o) \/ SendOnClosed(o)
    PROVE  FInv'
<1>1. PICK result \in Calls : result # "none" /\ Submit(o, result)
  BY DEF Accept, TimeOut, RefuseStopped, SendOnClosed, Calls
<1>2. /\ call[o] = "none" /\ call \in [Orders -> Calls] /\ call' = [call EXCEPT ![o] = result]
      /\ UNCHANGED <<QuietVars, offered, booked, position, tradeCh>>
  BY <1>1 DEF Submit, QuietVars, FInv, KindsOK, Calls
<1>3. /\ call' \in [Orders -> Calls] /\ call'[o] # "none"
      /\ \A x \in Orders : x # o => call'[x] = call[x]
  BY <1>1, <1>2
<1>4. orderCh \in Seq(Orders) /\ Len(orderCh) \in Nat /\ Len(orderCh) <= OrderCap
  BY DEF FInv, KindsOK, TypeOK
<1>5. /\ o \notin processed /\ \A i \in 1..Len(orderCh) : orderCh[i] # o
      /\ processed \subseteq Orders /\ \A i \in 1..Len(orderCh) : orderCh[i] \in Orders
  BY <1>2, <1>4 DEF FInv, FlowInv, KindsOK
<1>6. /\ orderCh' \in Seq(Orders) /\ Len(orderCh') <= OrderCap
      /\ FlowInv'
  <2>1. CASE orderCh' = orderCh
    BY <1>2, <1>3, <1>4, <1>5, <2>1 DEF FInv, FlowInv, QuietVars
  <2>2. CASE orderCh' = Append(orderCh, o) /\ Len(orderCh) < OrderCap
    <3>1. PICK n \in Nat : n = Len(orderCh)
      BY <1>4
    <3>2. /\ orderCh' \in Seq(Orders) /\ Len(orderCh') = n + 1 /\ orderCh'[n + 1] = o
          /\ \A i \in 1..n : orderCh'[i] = orderCh[i]
      BY <1>4, <2>2, <3>1
    <3>3. \A i \in 1..Len(orderCh') : i \in 1..n \/ i = n + 1
      BY <3>2
    <3>4. n + 1 <= OrderCap
      BY <2>2, <3>1 DEF FuturesAssumption
    <3>5. processed' = processed
      BY <1>2 DEF QuietVars
    <3>6. \A i \in 1..Len(orderCh') : orderCh'[i] \notin processed' /\ call'[orderCh'[i]] # "none"
      BY <1>3, <1>5, <3>1, <3>2, <3>3, <3>5 DEF FInv, FlowInv
    <3>7. \A i, j \in 1..Len(orderCh') : i # j => orderCh'[i] # orderCh'[j]
      BY <1>5, <3>1, <3>2, <3>3 DEF FInv, FlowInv
    <3>8. \A x \in processed' : call'[x] # "none"
      BY <1>3, <1>5, <3>5 DEF FInv, FlowInv
    <3>9. QED
      BY <3>2, <3>4, <3>6, <3>7, <3>8 DEF FlowInv
  <2>3. QED
    BY <2>1, <2>2 DEF Accept, TimeOut, RefuseStopped, SendOnClosed
<1>7. /\ tradeCh' \in Seq(1..offered') /\ Len(tradeCh') <= TradeCap
      /\ offered' \in 0..Len(tape) /\ booked' \in 0..offered' /\ booked <= booked'
      /\ position' \in [Holders -> Position]
      /\ offered' = offered /\ booked' = booked /\ UNCHANGED QuietVars
  BY <1>2 DEF FInv, KindsOK, TypeOK, Position
<1>8. QED
  BY <1>3, <1>6, <1>7, QuietStep

\* The engine's steps after a match, the collector's and those of Stop.
LEMMA OtherQuietSteps ==
    ASSUME FuturesAssumption, FInv,
           OfferTrade \/ UpdatePosition \/ Receive \/ Cancel \/ Exit \/ Close \/ UNCHANGED vars
    PROVE  FInv'
<1>1. UNCHANGED <<QuietVars, call, orderCh>>
  BY DEF OfferTrade, UpdatePosition, Receive, Cancel, Exit, Close, Advance, vars, QuietVars, chVars
<1>2. FlowInv' /\ call' \in [Orders -> Calls] /\ orderCh' \in Seq(Orders) /\ Len(orderCh') <= OrderCap
  BY <1>1 DEF FInv, FlowInv, KindsOK, TypeOK, Calls, QuietVars
<1>3. /\ tradeCh \in Seq(1..offered) /\ Len(tradeCh) \in Nat /\ Len(tradeCh) <= TradeCap
      /\ Len(tape) \in Nat /\ offered \in Nat /\ booked \in Nat
      /\ offered <= Len(tape) /\ booked <= offered
      /\ position \in [Holders -> Position] /\ tape \in Seq(TradeRecord)
      /\ pc = "idle" => offered = Len(tape) /\ booked = Len(tape)
  BY DEF FInv, KindsOK, TypeOK, Position
<1>4. TradeCap \in Nat
  BY DEF FuturesAssumption
<1>5. CASE OfferTrade
  <2>1. PICK n \in Nat : n = offered + 1
    BY <1>3
  <2>2. offered' = n /\ booked' = booked /\ position' = position /\ n <= Len(tape) /\ pc = "matched"
    BY <1>3, <1>5, <2>1 DEF OfferTrade
  <2>3. tradeCh' = IF Len(tradeCh) < TradeCap THEN Append(tradeCh, n) ELSE tradeCh
    BY <1>5, <2>2 DEF OfferTrade
  <2>4. n \in 1..n /\ tradeCh \in Seq(1..n)
    <3>1. \A i \in 1..Len(tradeCh) : tradeCh[i] \in 1..n
      BY <1>3, <2>1
    <3>2. QED
      BY <1>3, <2>1, <3>1
  <2>5. tradeCh' \in Seq(1..n) /\ Len(tradeCh') <= TradeCap
    <3>1. PICK c \in Nat : c = Len(tradeCh)
      BY <1>3
    <3>2. Len(Append(tradeCh, n)) = c + 1 /\ Append(tradeCh, n) \in Seq(1..n)
      BY <2>4, <3>1
    <3>3. c <= TradeCap /\ (c < TradeCap => c + 1 <= TradeCap)
      BY <1>3, <1>4, <3>1
    <3>4. QED
      BY <2>3, <2>4, <3>1, <3>2, <3>3
  <2>6. QED
    BY <1>1, <1>2, <1>3, <2>1, <2>2, <2>5, QuietStep
<1>6. CASE UpdatePosition
  <2>1. PICK n \in Nat : n = booked + 1
    BY <1>3
  <2>2. booked' = n /\ offered' = offered /\ tradeCh' = tradeCh /\ n <= offered /\ pc = "matched"
    BY <1>3, <1>6, <2>1 DEF UpdatePosition, chVars
  <2>3. PICK t \in TradeRecord : t = tape[n]
    BY <1>3, <2>1, <2>2
  <2>4. \A pos \in Position : Grown(pos, t) \in Position
    <3> SUFFICES ASSUME NEW pos \in Position PROVE Grown(pos, t) \in Position
      OBVIOUS
    <3>1. /\ pos.quantity \in Nat /\ pos.value \in Int /\ pos.margin \in Int
          /\ t.price \in Int /\ t.quantity \in Nat
      BY DEF Position, TradeRecord
    <3>2. /\ pos.quantity + t.quantity \in Nat /\ t.price * t.quantity \in Int
      BY <3>1
    <3>3. t.price * (pos.quantity + t.quantity) \in Int /\ pos.value + t.price * t.quantity \in Int
      BY <3>1, <3>2
    <3>4. QED
      BY <3>1, <3>2, <3>3 DEF Grown, Position
  <2>5. position' = [position EXCEPT ![request[taker].holder] = Grown(@, t)]
    BY <1>6, <2>2, <2>3 DEF UpdatePosition
  <2>6. position' \in [Holders -> Position]
    BY <1>3, <2>4, <2>5
  <2>7. QED
    BY <1>1, <1>2, <1>3, <2>1, <2>2, <2>6, QuietStep
<1>7. CASE Receive
  <2>1. offered' = offered /\ booked' = booked /\ position' = position
    BY <1>7 DEF Receive
  <2>2. tradeCh' \in Seq(1..offered) /\ Len(tradeCh') <= TradeCap
    BY <1>3, <1>4, <1>7 DEF Receive
  <2>3. QED
    BY <1>1, <1>2, <1>3, <2>1, <2>2, QuietStep
<1>8. CASE Cancel \/ Exit \/ Close \/ UNCHANGED vars
  <2>1. offered' = offered /\ booked' = booked /\ position' = position /\ tradeCh' = tradeCh
    BY <1>8 DEF Cancel, Exit, Close, Advance, vars, chVars
  <2>2. QED
    BY <1>1, <1>2, <1>3, <2>1, QuietStep
<1>9. QED
  BY <1>5, <1>6, <1>7, <1>8

-----------------------------------------------------------------------------
(* Steps of a match that leave the book alone *)

\* The book says as much as before when neither it nor the open orders change.
LEMMA SameOpen ==
    ASSUME FuturesAssumption, FInv, UNCHANGED <<request, queue>>,
           \A o \in Orders : /\ Open(o)' <=> Open(o)
                             /\ Remaining(o)' = Remaining(o)
    PROVE  /\ BookInv' /\ CrossInv'
           /\ \A s, p : OpenAt(s, p)' = OpenAt(s, p)
           /\ \A s : OpenOn(s)' = OpenOn(s)
           /\ [o \in Orders |-> Remaining(o)]' = [o \in Orders |-> Remaining(o)]
           /\ UNCHANGED <<levelQty, total>> => StatsInv'
<1>1. CrossInv'
  BY DEF FInv, CrossInv
<1>2. ASSUME NEW s \in Sides, NEW p \in Prices PROVE InPlace(s, p)'
  <2>1. \A i \in 1..Len(queue[s][p]) : queue[s][p][i] \in Orders
    BY QueueType DEF FInv, KindsOK
  <2>2. InPlace(s, p)
    BY DEF FInv, BookInv
  <2>3. QED
    BY <2>1, <2>2 DEF InPlace
<1>3. BookInv'
  BY <1>2 DEF FInv, BookInv
<1>4. /\ \A s, p : OpenAt(s, p)' = OpenAt(s, p)
      /\ \A s : OpenOn(s)' = OpenOn(s)
      /\ [o \in Orders |-> Remaining(o)]' = [o \in Orders |-> Remaining(o)]
  BY DEF OpenAt, OpenOn
<1>5. UNCHANGED <<levelQty, total>> => StatsInv'
  BY <1>4 DEF FInv, StatsInv
<1>6. QED
  BY <1>1, <1>3, <1>4, <1>5

LEMMA TakeOrderStep ==
    ASSUME FuturesAssumption, FInv, TakeOrder
    PROVE  FInv'
<1>1. /\ pc = "idle" /\ taker = NoOrder /\ orderCh # <<>> /\ orderCh \in Seq(Orders)
      /\ offered = Len(tape) /\ booked = Len(tape) /\ Len(orderCh) <= OrderCap
  BY DEF TakeOrder, FInv, KindsOK, TypeOK
<1>2. /\ taker' = Head(orderCh) /\ orderCh' = Tail(orderCh) /\ processed' = processed \cup {taker'}
      /\ pc' = "sweep" /\ todo' = Levels(Opposite(request[taker'].side))
      /\ UNCHANGED <<request, order, queue, levelQty, total, tape, offered, booked, position,
                     level, index, call, tradeCh>>
  BY DEF TakeOrder, bookVars
<1>3. PICK t \in Orders : t = Head(orderCh)
  BY <1>1
<1>4. PICK n \in Nat : n = Len(orderCh) /\ n > 0
  BY <1>1
<1>5. /\ orderCh[1] = t /\ orderCh' \in Seq(Orders) /\ Len(orderCh') = n - 1
      /\ \A i \in 1..(n - 1) : orderCh'[i] = orderCh[i + 1]
  BY <1>1, <1>2, <1>3, <1>4, HeadTailProperties
<1>6. /\ t \notin processed /\ call[t] # "none"
      /\ \A i \in 1..(n - 1) : orderCh'[i] # t
  <2>1. 1 \in 1..n /\ \A i \in 1..(n - 1) : i + 1 \in 1..n /\ i + 1 # 1
    BY <1>4
  <2>2. QED
    BY <1>4, <1>5, <2>1 DEF FInv, FlowInv
<1>7. /\ taker' = t /\ processed' = processed \cup {t} /\ NoOrder \notin processed /\ t # NoOrder
  BY <1>2, <1>3 DEF FInv, KindsOK, FuturesAssumption
<1>8. FlowInv'
  <2>1. \A i \in 1..(n - 1) : i + 1 \in 1..n
    BY <1>4
  <2>2. \A i, j \in 1..(n - 1) : i # j => i + 1 # j + 1
    BY <1>4
  <2>3. \A i \in 1..(n - 1) : orderCh'[i] \notin processed' /\ call'[orderCh'[i]] # "none"
    BY <1>2, <1>4, <1>5, <1>6, <1>7, <2>1 DEF FInv, FlowInv
  <2>4. \A i, j \in 1..(n - 1) : i # j => orderCh'[i] # orderCh'[j]
    <3>1. \A i, j \in 1..n : i # j => orderCh[i] # orderCh[j]
      BY <1>4 DEF FInv, FlowInv
    <3> SUFFICES ASSUME NEW i \in 1..(n - 1), NEW j \in 1..(n - 1), i # j
                 PROVE  orderCh'[i] # orderCh'[j]
      OBVIOUS
    <3>2. orderCh[i + 1] # orderCh[j + 1]
      BY <2>1, <2>2, <3>1
    <3>3. QED
      BY <1>5, <3>2
  <2>5. \A x \in processed' : call'[x] # "none"
    BY <1>2, <1>6, <1>7 DEF FInv, FlowInv
  <2>6. QED
    BY <1>5, <2>3, <2>4, <2>5 DEF FlowInv
<1>9. \A o \in Orders : /\ Open(o)' <=> Open(o)
                        /\ Remaining(o)' = Remaining(o)
                        /\ IsDone(o)' = IsDone(o)
  BY <1>1, <1>2, <1>6, <1>7 DEF Open, IsDone, Remaining
<1>10. BookInv' /\ CrossInv' /\ StatsInv'
  BY <1>2, <1>9, SameOpen
<1>11. order[t] = NewOrder /\ order[t].filled = 0 /\ order[t].status = "New"
  BY <1>6 DEF FInv, OrdersInv, NewOrder
<1>12. OrdersInv'
  <2>1. /\ \A o \in Orders : /\ order[o].filled <= request[o].quantity
                             /\ IsDone(o)' <=> order[o].filled = request[o].quantity
        /\ \A o \in Orders \ processed : order[o] = NewOrder
        /\ \A o \in Orders : order[o].status = "Rejected" =>
             request[o].type = "Market" /\ order[o].filled = 0 /\ o \in processed
    BY <1>9 DEF FInv, OrdersInv
  <2>2. \A o \in Orders : order[o].status = "Rejected" => o # t
    BY <1>11
  <2>3. QED
    BY <1>2, <1>7, <2>1, <2>2 DEF OrdersInv
<1>13. /\ MakerSide' \in Sides /\ MakerSide' = Opposite(request[t].side)
       /\ todo' = Levels(MakerSide') /\ Levels(MakerSide') \subseteq Prices
       /\ IsFiniteSet(todo')
  <2>1. MakerSide' = Opposite(request[t].side) /\ Opposite(request[t].side) \in Sides
    BY <1>2, <1>7, RequestType DEF MakerSide, FInv, KindsOK
  <2>2. todo' = Levels(Opposite(request[t].side))
    BY <1>2, <1>7
  <2>3. QED
    BY <2>1, <2>2, LevelsFinite DEF FInv, Levels
<1>14. LoopInv'
  <2>1. Levels(MakerSide)' = Levels(MakerSide')
    BY <1>2 DEF Levels
  <2>2. QED
    BY <1>2, <1>13, <2>1 DEF LoopInv
<1>15. TapeInv'
  <2>1. booked \in Nat /\ \A k \in DOMAIN tape : ~(k > booked)
    BY <1>1 DEF FInv, KindsOK, TypeOK
  <2>2. \A k \in DOMAIN tape : tape[k].quantity > 0 /\ tape[k].maker \in processed /\ order[tape[k].taker].filled > 0
    BY DEF FInv, TapeInv
  <2>3. ~(order'[t].filled > 0)
    BY <1>2, <1>11
  <2>4. QED
    BY <1>2, <1>6, <1>7, <2>1, <2>2, <2>3 DEF TapeInv
<1>16. KindsOK'
  <2>1. IsFiniteSet(processed')
    BY <1>7, FS_AddElement DEF FInv, KindsOK
  <2>2. Len(orderCh') <= OrderCap
    BY <1>1, <1>4, <1>5 DEF FuturesAssumption
  <2>3. QED
    BY <1>1, <1>2, <1>3, <1>5, <1>7, <1>13, <2>1, <2>2 DEF FInv, KindsOK, TypeOK
<1>17. QED
  BY <1>8, <1>10, <1>12, <1>14, <1>15, <1>16 DEF FInv

\* The engine goes on to another point of the loops, with the orders as they are.
LEMMA LoopStep ==
    ASSUME FuturesAssumption, FInv, LoopInv', pc # "idle",
           pc' \in {"sweep", "scan", "matched"}, level' \in Int, index' \in Nat,
           todo' \subseteq Prices,
           UNCHANGED <<request, order, processed, bookVars, tape, offered, booked, position,
                       taker, chVars>>
    PROVE  FInv'
<1>1. UNCHANGED <<request, order, processed, queue, levelQty, total, tape, offered, booked,
                  position, taker, call, orderCh, tradeCh>>
  BY DEF bookVars, chVars
<1>2. \A o \in Orders : (Open(o)' <=> Open(o)) /\ Remaining(o)' = Remaining(o)
  BY <1>1 DEF Open, Remaining, IsDone
<1>3. BookInv' /\ CrossInv' /\ StatsInv'
  BY <1>1, <1>2, SameOpen
<1>4. FlowInv' /\ OrdersInv'
  BY <1>1 DEF FInv, FlowInv, OrdersInv, IsDone
<1>5. TapeInv'
  BY <1>1 DEF FInv, TapeInv
<1>6. KindsOK'
  BY <1>1 DEF FInv, KindsOK, TypeOK
<1>7. QED
  BY <1>3, <1>4, <1>5, <1>6 DEF FInv

LEMMA EnterLevelStep ==
    ASSUME FuturesAssumption, FInv, EnterLevel
    PROVE  FInv'
<1>1. /\ pc = "sweep" /\ ~IsDone(taker) /\ pc' = "scan" /\ index' = 1 /\ todo' = todo \ {level'}
      /\ UNCHANGED <<request, order, processed, bookVars, tape, offered, booked, position,
                     taker, chVars>>
  BY DEF EnterLevel
<1>2. PICK p \in todo : NextPrice(p) /\ Crosses(taker, p) /\ level' = p
  BY DEF EnterLevel
<1>3. todo \subseteq Prices /\ Prices \subseteq Int /\ p \in Prices /\ p \in Int
  BY <1>2 DEF FInv, KindsOK, TypeOK, FuturesAssumption
<1>4. /\ MakerSide' = MakerSide /\ Levels(MakerSide)' = Levels(MakerSide)
      /\ Crosses(taker, p)' <=> Crosses(taker, p)
  BY <1>1 DEF MakerSide, Levels, Crosses, bookVars
<1>5. \A q \in todo : ComesFirst(MakerSide, p, q)
  BY <1>2 DEF NextPrice
<1>6. Levels(MakerSide) \subseteq todo /\ IsFiniteSet(todo)
  BY <1>1 DEF FInv, LoopInv
<1>7. IsFiniteSet(todo')
  BY <1>1, <1>6, FS_RemoveElement
<1>8. LoopInv'
  <2>1. /\ level' \in Prices /\ Crosses(taker, level)'
        /\ Levels(MakerSide)' \subseteq todo' \cup {level'}
        /\ \A q \in todo' : ComesFirst(MakerSide', level', q)
    BY <1>1, <1>2, <1>3, <1>4, <1>5, <1>6 DEF Crosses
  <2>2. QED
    BY <1>1, <1>7, <2>1 DEF LoopInv, ComesFirst
<1>9. QED
  BY <1>1, <1>2, <1>3, <1>8, LoopStep

\* When Match ends with the taker not done, no level crosses: the first one left
\* does not, and the others come after it.
LEMMA EndMatchStep ==
    ASSUME FuturesAssumption, FInv, EndMatch
    PROVE  FInv'
<1>1. /\ pc = "sweep" /\ pc' = "matched" /\ todo' = {}
      /\ IsDone(taker) \/ \A p \in todo : NextPrice(p) => ~Crosses(taker, p)
      /\ UNCHANGED <<request, order, processed, bookVars, tape, offered, booked, position,
                     taker, level, index, chVars>>
  BY DEF EndMatch
<1>2. taker \in Orders /\ MakerSide \in Sides
  BY <1>1, SweepFacts
<1>3. todo \subseteq Int /\ IsFiniteSet(todo)
  BY DEF FInv, KindsOK, TypeOK, FuturesAssumption, LoopInv
<1>4. /\ MakerSide' = MakerSide /\ Levels(MakerSide)' = Levels(MakerSide)
      /\ \A p : Crosses(taker, p)' <=> Crosses(taker, p)
      /\ IsDone(taker)' <=> IsDone(taker)
  BY <1>1 DEF MakerSide, Levels, Crosses, bookVars, IsDone
<1>5. ASSUME ~IsDone(taker), NEW p \in Levels(MakerSide) PROVE ~Crosses(taker, p)
  <2>1. p \in todo
    BY <1>1, <1>5 DEF FInv, LoopInv
  <2>2. PICK first \in todo : \A q \in todo : ComesFirst(MakerSide, first, q)
    BY <1>3, <2>1, FirstPrice
  <2>3. ~Crosses(taker, first) /\ ComesFirst(MakerSide, first, p)
    BY <1>1, <1>5, <2>1, <2>2 DEF NextPrice
  <2>4. /\ first \in Int /\ p \in Int /\ request[taker].price \in Int
        /\ request[taker].side \in Sides /\ request[taker].type \in {"Limit", "Market"}
    BY <1>2, <1>3, <2>1, <2>2, RequestType DEF FInv, KindsOK
  <2>5. CASE request[taker].side = "Buy"
    BY <2>3, <2>4, <2>5 DEF Crosses, ComesFirst, MakerSide
  <2>6. CASE request[taker].side = "Sell"
    BY <2>3, <2>4, <2>6 DEF Crosses, ComesFirst, MakerSide
  <2>7. QED
    BY <2>4, <2>5, <2>6
<1>6. LoopInv'
  <2>1. ~IsDone(taker)' => \A p \in Levels(MakerSide)' : ~Crosses(taker, p)'
    BY <1>4, <1>5
  <2>2. IsFiniteSet(todo')
    BY <1>1, FS_EmptySet
  <2>3. QED
    BY <1>1, <2>1, <2>2 DEF LoopInv, Crosses
<1>7. level' \in Int /\ index' \in Nat /\ todo' \subseteq Prices
  BY <1>1 DEF FInv, KindsOK
<1>8. QED
  BY <1>1, <1>6, <1>7, LoopStep

\* What is left of some orders is what is left of one and of the others.
LEMMA PartOfSum ==
    ASSUME FuturesAssumption, FInv, NEW S \in SUBSET Orders, IsFiniteSet(S), NEW o \in S,
           NEW R, R = [x \in Orders |-> Remaining(x)]
    PROVE  /\ SumOver(R, S) \in Nat /\ SumOver(R, S \ {o}) \in Nat /\ Remaining(o) \in Nat
           /\ SumOver(R, S) = SumOver(R, S \ {o}) + Remaining(o)
<1>1. \A x \in Orders : R[x] = Remaining(x) /\ Remaining(x) \in Nat
  BY RemainingType DEF FInv, KindsOK
<1>2. /\ \A x \in S : R[x] \in Nat
      /\ \A x \in S : R[x] \in Int
      /\ \A x \in S \ {o} : R[x] \in Nat
      /\ IsFiniteSet(S \ {o})
  BY <1>1, FS_RemoveElement
<1>3. SumOver(R, S) \in Nat
  BY <1>2, SumOverType
<1>4. SumOver(R, S \ {o}) \in Nat
  BY <1>2, SumOverType
<1>5. SumOver(R, S) = SumOver(R, S \ {o}) + R[o]
  BY <1>2, SumOverSplit
<1>6. QED
  BY <1>1, <1>3, <1>4, <1>5

\* A level without a quantity has no orders: no order is ever deleted with its level.
LEMMA DeletedLevel ==
    ASSUME FuturesAssumption, FInv, LeaveLevel
    PROVE  /\ taker \in Orders /\ MakerSide \in Sides /\ level \in Prices
           /\ queue' = queue
           /\ \/ levelQty' = levelQty
              \/ /\ OpenAt(MakerSide, level) = {}
                 /\ levelQty' = [levelQty EXCEPT ![MakerSide][level] = 0]
<1>1. /\ pc = "scan" /\ pc' = "sweep"
      /\ IsDone(taker) \/ Ahead = {}
      /\ UNCHANGED <<request, order, processed, total, tape, offered, booked, position, taker,
                     todo, level, index, call, orderCh, tradeCh>>
  BY DEF LeaveLevel, scanVars, chVars
<1>2. taker \in Orders /\ MakerSide \in Sides /\ level \in Prices
  BY <1>1, SweepFacts
<1>3. TypeOK /\ OrdersInv /\ BookInv /\ StatsInv /\ KindsOK
  BY DEF FInv, KindsOK
<1> DEFINE S == OpenAt(MakerSide, level)
           R == [o \in Orders |-> Remaining(o)]
<1>4. S \in SUBSET Orders /\ IsFiniteSet(S)
  BY <1>3, OpenSets
<1>5. levelQty[MakerSide][level] \in Nat /\ SumOver(R, S) <= levelQty[MakerSide][level]
  BY <1>2, <1>3, QueueType DEF StatsInv
<1>6. LevelOrders = <<>> <=> S = {}
  BY <1>2, <1>3, LevelsAre DEF Levels, LevelOrders
<1>7. ASSUME levelQty[MakerSide][level] <= 0 PROVE S = {}
  <2> SUFFICES ASSUME NEW o \in S PROVE FALSE
    OBVIOUS
  <2>1. /\ SumOver(R, S) \in Nat /\ SumOver(R, S \ {o}) \in Nat /\ Remaining(o) \in Nat
        /\ SumOver(R, S) = SumOver(R, S \ {o}) + Remaining(o)
    BY <1>4, PartOfSum
  <2>2. Remaining(o) # 0
    BY <1>3, <1>4, RemainingType DEF OpenAt, Open
  <2> HIDE DEF S, R
  <2>3. QED
    BY <1>5, <1>7, <2>1, <2>2
<1>8. queue' = queue
  <2>1. CASE UNCHANGED <<queue, levelQty>>
    BY <2>1
  <2>2. CASE /\ levelQty[MakerSide][level] <= 0 \/ LevelOrders = <<>>
             /\ queue' = [queue EXCEPT ![MakerSide][level] = <<>>]
    <3>1. queue[MakerSide][level] = <<>>
      BY <1>6, <1>7, <2>2 DEF LevelOrders
    <3>2. queue \in [Sides -> [Prices -> Seq(Orders)]]
      BY <1>3 DEF TypeOK
    <3>3. queue[MakerSide] = [queue[MakerSide] EXCEPT ![level] = <<>>]
      BY <1>2, <3>1, <3>2
    <3>4. QED
      BY <1>2, <2>2, <3>2, <3>3
  <2>3. QED
    BY <2>1, <2>2 DEF LeaveLevel
<1>9. \/ levelQty' = levelQty
      \/ S = {} /\ levelQty' = [levelQty EXCEPT ![MakerSide][level] = 0]
  BY <1>6, <1>7 DEF LeaveLevel
<1>10. QED
  BY <1>2, <1>8, <1>9

\* A taker that is not done has passed over no order of the level it leaves.
LEMMA LeaveLevelStep ==
    ASSUME FuturesAssumption, FInv, LeaveLevel
    PROVE  FInv'
<1>1. /\ pc = "scan" /\ pc' = "sweep"
      /\ IsDone(taker) \/ Ahead = {}
      /\ UNCHANGED <<request, order, processed, total, tape, offered, booked, position, taker,
                     todo, level, index, call, orderCh, tradeCh>>
  BY DEF LeaveLevel, scanVars, chVars
<1>2. taker \in Orders /\ MakerSide \in Sides /\ level \in Prices
  BY DeletedLevel
<1>3. TypeOK /\ OrdersInv /\ BookInv /\ StatsInv /\ KindsOK
  BY DEF FInv, KindsOK
<1> DEFINE S == OpenAt(MakerSide, level)
           R == [o \in Orders |-> Remaining(o)]
<1>4. queue' = queue
  BY DeletedLevel
<1>5. \/ levelQty' = levelQty
      \/ S = {} /\ levelQty' = [levelQty EXCEPT ![MakerSide][level] = 0]
  BY DeletedLevel
<1>6. levelQty' \in [Sides -> [Prices -> Nat]]
  <2>1. levelQty \in [Sides -> [Prices -> Nat]]
    BY <1>3 DEF TypeOK
  <2>2. CASE levelQty' = [levelQty EXCEPT ![MakerSide][level] = 0]
    <3>1. [levelQty[MakerSide] EXCEPT ![level] = 0] \in [Prices -> Nat]
      BY <1>2, <2>1
    <3>2. levelQty' = [levelQty EXCEPT ![MakerSide] = [levelQty[MakerSide] EXCEPT ![level] = 0]]
      BY <1>2, <2>1, <2>2
    <3>3. QED
      BY <1>2, <2>1, <3>1, <3>2
  <2>3. QED
    BY <1>5, <2>1, <2>2
<1>7. \A o \in Orders : /\ Open(o)' <=> Open(o)
                        /\ Remaining(o)' = Remaining(o)
  BY <1>1 DEF Open, Remaining, IsDone
<1>8. /\ BookInv' /\ CrossInv'
      /\ \A s, p : OpenAt(s, p)' = OpenAt(s, p)
      /\ \A s : OpenOn(s)' = OpenOn(s)
      /\ R' = R
      /\ levelQty' = levelQty => StatsInv'
  BY <1>1, <1>4, <1>7, SameOpen
<1>9. StatsInv'
  <2>1. CASE levelQty' = levelQty
    BY <1>8, <2>1
  <2>2. CASE S = {} /\ levelQty' = [levelQty EXCEPT ![MakerSide][level] = 0]
    <3> HIDE DEF R
    <3>1. ASSUME NEW s \in Sides, NEW p \in Prices
          PROVE  SumOver(R', OpenAt(s, p)') <= levelQty'[s][p]
      <4>1. levelQty \in [Sides -> [Prices -> Nat]]
        BY <1>3 DEF TypeOK
      <4>2. CASE s = MakerSide /\ p = level
        <5>1. levelQty'[s][p] = 0
          BY <1>2, <2>2, <4>1, <4>2
        <5>2. SumOver(R', OpenAt(s, p)') = 0
          BY <1>8, <2>2, <4>2, SumOverNothing
        <5>3. QED
          BY <5>1, <5>2
      <4>3. CASE ~(s = MakerSide /\ p = level)
        <5>1. levelQty'[s][p] = levelQty[s][p]
          BY <1>2, <2>2, <4>1, <4>3
        <5>2. SumOver(R, OpenAt(s, p)) <= levelQty[s][p]
          BY <1>3 DEF StatsInv, R
        <5>3. QED
          BY <1>8, <5>1, <5>2
      <4>4. QED
        BY <4>2, <4>3
    <3>2. \A s \in Sides : SumOver(R', OpenOn(s)') <= total'[s]
      <4>1. \A s \in Sides : SumOver(R, OpenOn(s)) <= total[s]
        BY <1>3 DEF StatsInv, R
      <4>2. QED
        BY <1>1, <1>8, <4>1
    <3>3. QED
      BY <3>1, <3>2 DEF StatsInv, R
  <2>3. QED
    BY <1>5, <2>1, <2>2
<1>10. LoopInv'
  <2>1. /\ MakerSide' = MakerSide /\ Levels(MakerSide)' = Levels(MakerSide)
        /\ IsDone(taker)' <=> IsDone(taker)
    BY <1>1, <1>4 DEF MakerSide, Levels, IsDone
  <2>2. ASSUME ~IsDone(taker) PROVE LevelOrders = <<>>
    <3>1. index = 1 /\ Ahead = {}
      BY <1>1, <2>2 DEF FInv, LoopInv
    <3>2. /\ LevelOrders = queue[MakerSide][level] /\ Len(LevelOrders) \in Nat
          /\ Len(LevelOrders) = 0 => LevelOrders = <<>>
      BY <1>2, <1>3, QueueType DEF LevelOrders
    <3>3. \A i \in 1..Len(LevelOrders) : ~IsDone(LevelOrders[i])
      BY <1>2, <1>3, <3>2 DEF BookInv, InPlace, Open
    <3>4. 1 \notin 1..Len(LevelOrders)
      BY <3>1, <3>3 DEF Ahead
    <3>5. QED
      BY <3>2, <3>4
  <2>3. Levels(MakerSide) \subseteq todo \cup {level} /\ IsFiniteSet(todo)
    BY <1>1 DEF FInv, LoopInv
  <2>4. ~IsDone(taker) => Levels(MakerSide) \subseteq todo
    BY <2>2, <2>3 DEF Levels, LevelOrders
  <2>5. QED
    BY <1>1, <2>1, <2>3, <2>4 DEF LoopInv
<1>11. FlowInv' /\ OrdersInv' /\ TapeInv'
  BY <1>1 DEF FInv, FlowInv, OrdersInv, TapeInv, IsDone
<1>12. KindsOK'
  BY <1>1, <1>4, <1>6 DEF FInv, KindsOK, TypeOK
<1>13. QED
  BY <1>8, <1>9, <1>10, <1>11, <1>12 DEF FInv

-----------------------------------------------------------------------------
(* The end of processOrder *)

\* What the three ways in which processOrder ends have in common.
LEMMA ReturnStep ==
    ASSUME FuturesAssumption, FInv, Return
    PROVE  /\ pc = "matched" /\ taker \in Orders /\ taker \in processed
           /\ pc' = "idle" /\ taker' = NoOrder /\ level' = 0 /\ index' = 0
           /\ UNCHANGED <<request, processed, tape, offered, booked, position, todo,
                          call, orderCh, tradeCh>>
           /\ processed' \ {taker'} = processed
           /\ offered = Len(tape) /\ booked = Len(tape)
           /\ FlowInv' /\ LoopInv'
           /\ \A k \in DOMAIN tape : /\ tape[k].quantity > 0
                                     /\ tape[k].maker \in processed
                                     /\ order[tape[k].taker].filled > 0
                                     /\ ~(k > booked)
<1>1. /\ pc = "matched" /\ booked = Len(tape) /\ pc' = "idle" /\ taker' = NoOrder
      /\ level' = 0 /\ index' = 0
      /\ UNCHANGED <<request, processed, tape, offered, booked, position, todo,
                     call, orderCh, tradeCh>>
  BY DEF Return, chVars
<1>2. taker \in Orders /\ taker \in processed
  BY <1>1, SweepFacts
<1>3. processed' \ {taker'} = processed
  BY <1>1 DEF FInv, KindsOK, FuturesAssumption
<1>4. FlowInv' /\ LoopInv'
  BY <1>1 DEF FInv, FlowInv, LoopInv
<1>5. /\ tape \in Seq(TradeRecord) /\ Len(tape) \in Nat /\ offered \in 0..Len(tape)
      /\ booked \in Nat /\ booked \in 0..offered
  BY DEF FInv, KindsOK, TypeOK
<1>6. offered = Len(tape) /\ \A k \in DOMAIN tape : ~(k > booked)
  BY <1>1, <1>5
<1>7. \A k \in DOMAIN tape : /\ tape[k].quantity > 0
                             /\ tape[k].maker \in processed
                             /\ order[tape[k].taker].filled > 0
  BY DEF FInv, TapeInv
<1>8. QED
  BY <1>1, <1>2, <1>3, <1>4, <1>6, <1>7

\* An order that is not left on the book is done or a market order.
LEMMA DropStep ==
    ASSUME FuturesAssumption, FInv, RejectMarket \/ Forget
    PROVE  FInv'
<1>1. Return /\ UNCHANGED <<queue, levelQty, total>>
  BY DEF RejectMarket, Forget, bookVars
<1>2. /\ pc = "matched" /\ taker \in Orders /\ taker \in processed
      /\ pc' = "idle" /\ taker' = NoOrder /\ level' = 0 /\ index' = 0
      /\ UNCHANGED <<request, processed, tape, offered, booked, position, todo,
                     call, orderCh, tradeCh>>
      /\ processed' \ {taker'} = processed
      /\ offered = Len(tape) /\ booked = Len(tape)
      /\ FlowInv' /\ LoopInv'
      /\ \A k \in DOMAIN tape : /\ tape[k].quantity > 0
                                /\ tape[k].maker \in processed
                                /\ order[tape[k].taker].filled > 0
                                /\ ~(k > booked)
  BY <1>1, ReturnStep
<1> DEFINE T == [filled : Nat, value : Int, done : BOOLEAN,
                 status : {"New", "PartiallyFilled", "Filled", "Rejected"}]
<1>3. order \in [Orders -> T]
  BY DEF FInv, KindsOK, TypeOK
<1>4. request[taker].type # "Limit" \/ IsDone(taker)
  <2>1. request[taker].type \in {"Limit", "Market"}
    BY <1>2, RequestType DEF FInv, KindsOK
  <2>2. QED
    BY <2>1 DEF RejectMarket, Forget
<1>5. \/ order' = order
      \/ /\ request[taker].type = "Market" /\ order[taker].filled = 0
         /\ order' = [order EXCEPT ![taker].status = "Rejected"]
  <2>1. CASE Forget
    BY <2>1 DEF Forget
  <2>2. CASE RejectMarket
    <3>1. order[taker].filled \in Nat /\ ~(order[taker].filled > 0)
      BY <1>2, <1>3, <2>2 DEF RejectMarket, FInv, TapeInv
    <3>2. QED
      BY <2>2, <3>1 DEF RejectMarket
  <2>3. QED
    BY <2>1, <2>2
<1>6. /\ order' \in [Orders -> T]
      /\ \A o \in Orders : order'[o].filled = order[o].filled /\ order'[o].done = order[o].done
      /\ \A o \in Orders : o # taker => order'[o] = order[o]
      /\ \/ order'[taker].status = order[taker].status
         \/ request[taker].type = "Market" /\ order[taker].filled = 0
  <2>1. CASE order' = order
    BY <1>3, <2>1
  <2>2. CASE /\ request[taker].type = "Market" /\ order[taker].filled = 0
             /\ order' = [order EXCEPT ![taker].status = "Rejected"]
    <3>1. order[taker] \in T
      BY <1>2, <1>3
    <3>2. PICK t : t = [order[taker] EXCEPT !.status = "Rejected"]
      OBVIOUS
    <3>3. t \in T /\ t.filled = order[taker].filled /\ t.done = order[taker].done
      BY <3>1, <3>2
    <3>4. order' = [order EXCEPT ![taker] = t]
      BY <1>2, <1>3, <2>2, <3>2
    <3> HIDE DEF T
    <3>5. QED
      BY <1>2, <1>3, <2>2, <3>3, <3>4
  <2>3. QED
    BY <1>5, <2>1, <2>2
<1>7. \A o \in Orders : /\ IsDone(o)' = IsDone(o)
                        /\ Remaining(o)' = Remaining(o)
                        /\ Open(o)' <=> Open(o)
  <2>1. \A o \in Orders : IsDone(o)' = IsDone(o) /\ Remaining(o)' = Remaining(o)
    BY <1>2, <1>6 DEF IsDone, Remaining
  <2>2. QED
    BY <1>2, <1>4, <2>1 DEF Open
<1>8. BookInv' /\ CrossInv' /\ StatsInv'
  BY <1>1, <1>2, <1>7, SameOpen
<1>9. OrdersInv'
  <2>1. \A o \in Orders : /\ order[o].filled <= request[o].quantity
                          /\ IsDone(o) <=> order[o].filled = request[o].quantity
    BY DEF FInv, OrdersInv
  <2>2. \A o \in Orders \ processed : order[o] = NewOrder
    BY DEF FInv, OrdersInv
  <2>3. \A o \in Orders : order[o].status = "Rejected" =>
            request[o].type = "Market" /\ order[o].filled = 0 /\ o \in processed
    BY DEF FInv, OrdersInv
  <2>4. \A o \in Orders : /\ order'[o].filled <= request'[o].quantity
                          /\ IsDone(o)' <=> order'[o].filled = request'[o].quantity
    BY <1>2, <1>6, <1>7, <2>1
  <2>5. \A o \in Orders \ processed' : order'[o] = NewOrder
    BY <1>2, <1>6, <2>2
  <2>6. \A o \in Orders : order'[o].status = "Rejected" =>
            request'[o].type = "Market" /\ order'[o].filled = 0 /\ o \in processed' \ {taker'}
    BY <1>2, <1>6, <2>3
  <2>7. QED
    BY <2>4, <2>5, <2>6 DEF OrdersInv
<1>10. TapeInv'
  <2>1. \A k \in DOMAIN tape : tape[k] \in TradeRecord
    BY DEF FInv, KindsOK
  <2>2. \A k \in DOMAIN tape : tape[k].taker \in Orders
    BY <2>1 DEF TradeRecord
  <2>3. QED
    BY <1>2, <1>6, <2>2 DEF TapeInv
<1>11. KindsOK'
  <2>1. offered' = Len(tape') /\ booked' = Len(tape') /\ taker' = NoOrder /\ pc' = "idle"
    BY <1>2
  <2>2. level' \in Int /\ index' \in Nat /\ offered' \in 0..Len(tape') /\ booked' \in 0..offered'
    BY <1>2, <2>1 DEF FInv, KindsOK, TypeOK
  <2>3. TypeOK'
    BY <1>1, <1>2, <1>6, <2>1, <2>2 DEF FInv, KindsOK, TypeOK
  <2>4. QED
    BY <1>2, <2>1, <2>2, <2>3 DEF FInv, KindsOK
<1>12. QED
  BY <1>2, <1>8, <1>9, <1>10, <1>11 DEF FInv

\* The rest of a limit order is appended to its level.  Nothing on the other side
\* crosses it, for Match has gone on until nothing did.
LEMMA RestStep ==
    ASSUME FuturesAssumption, FInv, Rest
    PROVE  FInv'
<1>1. /\ Return /\ order' = order /\ AddOrder(taker)
      /\ request[taker].type = "Limit" /\ ~IsDone(taker)
  BY DEF Rest
<1>2. /\ pc = "matched" /\ taker \in Orders /\ taker \in processed
      /\ pc' = "idle" /\ taker' = NoOrder /\ level' = 0 /\ index' = 0
      /\ UNCHANGED <<request, processed, tape, offered, booked, position, todo,
                     call, orderCh, tradeCh>>
      /\ processed' \ {taker'} = processed
      /\ offered = Len(tape) /\ booked = Len(tape)
      /\ FlowInv' /\ LoopInv'
      /\ \A k \in DOMAIN tape : /\ tape[k].quantity > 0
                                /\ tape[k].maker \in processed
                                /\ order[tape[k].taker].filled > 0
                                /\ ~(k > booked)
  BY <1>1, ReturnStep
<1>3. KindsOK /\ TypeOK /\ OrdersInv /\ BookInv /\ StatsInv /\ CrossInv /\ LoopInv
  BY DEF FInv, KindsOK
<1>4. PICK t \in Orders, side \in Sides, price \in Prices, quantity \in Nat :
        /\ t = taker /\ side = request[t].side /\ price = request[t].price
        /\ quantity = request[t].quantity
  BY <1>1, <1>2, <1>3, RequestType
<1>5. /\ queue' = [queue EXCEPT ![side][price] = Append(@, t)]
      /\ levelQty' = [levelQty EXCEPT ![side][price] = @ + quantity]
      /\ total' = [total EXCEPT ![side] = @ + quantity]
  BY <1>1, <1>4 DEF AddOrder
<1>6. /\ queue \in [Sides -> [Prices -> Seq(Orders)]]
      /\ levelQty \in [Sides -> [Prices -> Nat]] /\ total \in [Sides -> Nat]
  BY <1>3 DEF TypeOK
<1>7. /\ queue'[side][price] = Append(queue[side][price], t)
      /\ levelQty'[side][price] = levelQty[side][price] + quantity
      /\ total'[side] = total[side] + quantity
      /\ \A s \in Sides, p \in Prices : ~(s = side /\ p = price) =>
            queue'[s][p] = queue[s][p] /\ levelQty'[s][p] = levelQty[s][p]
      /\ \A s \in Sides : s # side => total'[s] = total[s]
  BY <1>5, <1>6
<1>8. /\ queue' \in [Sides -> [Prices -> Seq(Orders)]]
      /\ levelQty' \in [Sides -> [Prices -> Nat]] /\ total' \in [Sides -> Nat]
  <2>1. PICK q, v, w : /\ q = Append(queue[side][price], t)
                       /\ v = levelQty[side][price] + quantity
                       /\ w = total[side] + quantity
    OBVIOUS
  <2>2. q \in Seq(Orders) /\ v \in Nat /\ w \in Nat
    <3>1. /\ queue[side][price] \in Seq(Orders)
          /\ levelQty[side][price] \in Nat /\ total[side] \in Nat
      BY <1>3, QueueType
    <3>2. q \in Seq(Orders)
      BY <2>1, <3>1
    <3>3. QED
      BY <2>1, <3>1, <3>2
  <2>3. /\ queue' = [queue EXCEPT ![side] = [queue[side] EXCEPT ![price] = q]]
        /\ levelQty' = [levelQty EXCEPT ![side] = [levelQty[side] EXCEPT ![price] = v]]
        /\ total' = [total EXCEPT ![side] = w]
    BY <1>5, <1>6, <2>1
  <2>4. /\ [queue[side] EXCEPT ![price] = q] \in [Prices -> Seq(Orders)]
        /\ [levelQty[side] EXCEPT ![price] = v] \in [Prices -> Nat]
    BY <1>6, <2>2
  <2>5. QED
    BY <1>6, <2>2, <2>3, <2>4
<1>9. /\ ~Open(t) /\ Open(t)' /\ \A o \in Orders : o # t => (Open(o)' <=> Open(o))
      /\ \A o \in Orders : Remaining(o)' = Remaining(o) /\ IsDone(o)' = IsDone(o)
  BY <1>1, <1>2, <1>4 DEF Open, IsDone, Remaining
<1>10. BookInv'
  <2>1. ASSUME NEW s \in Sides, NEW p \in Prices PROVE InPlace(s, p)'
    <3>1. /\ InPlace(s, p) /\ Len(queue[s][p]) \in Nat
          /\ \A i \in 1..Len(queue[s][p]) : queue[s][p][i] \in Orders
      BY <1>3, QueueType DEF BookInv
    <3>2. CASE ~(s = side /\ p = price)
      <4>1. PICK q \in Seq(Orders) : q = queue[s][p]
        BY <1>3, QueueType
      <4>2. queue'[s][p] = q
        BY <1>7, <3>2, <4>1
      <4>3. /\ \A i \in 1..Len(q) : /\ Open(q[i]) /\ q[i] \in Orders
                                    /\ request[q[i]].side = s /\ request[q[i]].price = p
            /\ \A i, j \in 1..Len(q) : i # j => q[i] # q[j]
        BY <3>1, <4>1 DEF InPlace
      <4>4. \A i \in 1..Len(q) : Open(q[i])'
        BY <1>9, <4>3
      <4>5. QED
        BY <1>2, <4>2, <4>3, <4>4 DEF InPlace
    <3>3. CASE s = side /\ p = price
      <4>1. PICK n \in Nat : n = Len(queue[s][p])
        BY <3>1
      <4>2. PICK q \in Seq(Orders) : q = queue[s][p]
        BY <1>3, QueueType
      <4>3. PICK r : r = Append(q, t)
        OBVIOUS
      <4>4. /\ Len(r) = n + 1 /\ r[n + 1] = t /\ queue'[s][p] = r
            /\ \A i \in 1..n : r[i] = q[i]
        BY <1>7, <3>3, <4>1, <4>2, <4>3
      <4>5. \A i \in 1..(n + 1) : i \in 1..n \/ i = n + 1
        OBVIOUS
      <4>6. /\ \A i \in 1..n : /\ Open(q[i]) /\ q[i] \in Orders
                               /\ request[q[i]].side = s /\ request[q[i]].price = p
            /\ \A i, j \in 1..n : i # j => q[i] # q[j]
        BY <3>1, <4>1, <4>2 DEF InPlace
      <4>7. \A i \in 1..n : Open(q[i])' /\ q[i] # t
        BY <1>9, <4>6
      <4>8. \A i \in 1..(n + 1) : Open(r[i])' /\ request[r[i]].side = s /\ request[r[i]].price = p
        BY <1>4, <1>9, <3>3, <4>4, <4>5, <4>6, <4>7
      <4>9. \A i, j \in 1..(n + 1) : i # j => r[i] # r[j]
        BY <4>4, <4>5, <4>6, <4>7
      <4>10. QED
        BY <1>2, <4>4, <4>8, <4>9 DEF InPlace
    <3>4. QED
      BY <3>2, <3>3
  <2>2. ASSUME NEW o \in Orders, Open(o)'
        PROVE  \E i \in 1..Len(queue'[request[o].side][request[o].price]) :
                    queue'[request[o].side][request[o].price][i] = o
    <3>1. PICK n \in Nat : n = Len(queue[side][price])
      BY <1>3, QueueType
    <3>2. /\ Len(queue'[side][price]) = n + 1 /\ queue'[side][price][n + 1] = t
          /\ \A i \in 1..n : queue'[side][price][i] = queue[side][price][i]
      BY <1>3, <1>7, <3>1, QueueType
    <3>3. n + 1 \in 1..(n + 1) /\ \A i \in 1..n : i \in 1..(n + 1)
      OBVIOUS
    <3>4. CASE o = t
      BY <1>4, <3>2, <3>3, <3>4
    <3>5. CASE o # t
      <4>1. Open(o)
        BY <1>9, <2>2, <3>5
      <4>2. PICK s \in Sides, p \in Prices : s = request[o].side /\ p = request[o].price
        BY <1>3, <4>1, RequestType DEF Open
      <4>3. PICK i \in 1..Len(queue[s][p]) : queue[s][p][i] = o
        BY <1>3, <4>1, <4>2 DEF BookInv
      <4>4. CASE s = side /\ p = price
        BY <3>1, <3>2, <3>3, <4>2, <4>3, <4>4
      <4>5. CASE ~(s = side /\ p = price)
        BY <1>7, <4>2, <4>3, <4>5
      <4>6. QED
        BY <4>4, <4>5
    <3>6. QED
      BY <3>4, <3>5
  <2>3. QED
    BY <1>2, <2>1, <2>2 DEF BookInv
<1>11. CrossInv'
  <2>1. ASSUME NEW o \in Orders, Open(o), request[o].side = Opposite(side)
        PROVE  /\ side = "Buy" => price < request[o].price
               /\ side = "Sell" => request[o].price < price
    <3>1. request[o].price \in Prices /\ Opposite(side) \in Sides
      BY <1>3, <2>1, RequestType DEF Open
    <3>2. o \in OpenAt(Opposite(side), request[o].price)
      BY <2>1 DEF OpenAt
    <3>3. request[o].price \in Levels(MakerSide)
      BY <1>3, <1>4, <3>1, <3>2, LevelsAre DEF MakerSide
    <3>4. ~Crosses(t, request[o].price)
      BY <1>1, <1>2, <1>3, <1>4, <3>3 DEF LoopInv
    <3>5. price \in Int /\ request[o].price \in Int
      BY <1>3, <1>4, RequestType
    <3>6. QED
      BY <1>4, <3>4, <3>5 DEF Crosses
  <2>2. SUFFICES ASSUME NEW b \in Orders, NEW s \in Orders,
                        Open(b)', request[b].side = "Buy", Open(s)', request[s].side = "Sell"
                 PROVE  request[b].price < request[s].price
    BY <1>2 DEF CrossInv
  <2>3. CASE b = t
    BY <1>4, <1>9, <2>1, <2>2, <2>3
  <2>4. CASE s = t
    BY <1>4, <1>9, <2>1, <2>2, <2>4
  <2>5. CASE b # t /\ s # t
    BY <1>3, <1>9, <2>2, <2>5 DEF CrossInv
  <2>6. QED
    BY <2>3, <2>4, <2>5
<1> DEFINE R == [o \in Orders |-> Remaining(o)]
<1>12. R' = R
  BY <1>9
<1>13. R[t] \in Nat /\ R[t] <= quantity /\ R[t] \in Int /\ \A o \in Orders : R[o] \in Nat /\ R[o] \in Int
  <2>1. \A o \in Orders : Remaining(o) \in Nat
    BY <1>3, RemainingType
  <2>2. order[t].filled \in Nat /\ Remaining(t) = quantity - order[t].filled
    BY <1>3, <1>4, RemainingType
  <2>3. QED
    BY <2>1, <2>2
<1>14. ASSUME NEW S \in SUBSET Orders, IsFiniteSet(S), t \notin S,
              NEW v \in Nat, SumOver(R, S) <= v
       PROVE  SumOver(R, S \cup {t}) <= v + quantity
  <2> HIDE DEF R
  <2>1. SumOver(R, S \cup {t}) = SumOver(R, S) + R[t]
    BY <1>13, <1>14, SumOverAdd
  <2>2. SumOver(R, S) \in Int
    BY <1>13, <1>14, SumOverType
  <2>3. QED
    BY <1>13, <1>14, <2>1, <2>2
<1>15. /\ \A s \in Sides, p \in Prices :
            OpenAt(s, p)' = IF s = side /\ p = price THEN OpenAt(s, p) \cup {t} ELSE OpenAt(s, p)
       /\ \A s \in Sides :
            OpenOn(s)' = IF s = side THEN OpenOn(s) \cup {t} ELSE OpenOn(s)
  BY <1>2, <1>4, <1>9 DEF OpenAt, OpenOn
<1>16. /\ \A s, p : OpenAt(s, p) \in SUBSET Orders /\ IsFiniteSet(OpenAt(s, p)) /\ t \notin OpenAt(s, p)
       /\ \A s : OpenOn(s) \in SUBSET Orders /\ IsFiniteSet(OpenOn(s)) /\ t \notin OpenOn(s)
  <2>1. /\ \A s, p : OpenAt(s, p) \subseteq Orders /\ IsFiniteSet(OpenAt(s, p))
        /\ \A s : OpenOn(s) \subseteq Orders /\ IsFiniteSet(OpenOn(s))
    BY <1>3, OpenSets
  <2>2. (\A s, p : t \notin OpenAt(s, p)) /\ (\A s : t \notin OpenOn(s))
    BY <1>9 DEF OpenAt, OpenOn
  <2>3. QED
    BY <2>1, <2>2
<1>17. StatsInv'
  <2>1. /\ \A s \in Sides, p \in Prices : SumOver(R, OpenAt(s, p)) <= levelQty[s][p]
        /\ \A s \in Sides : SumOver(R, OpenOn(s)) <= total[s]
    BY <1>3 DEF StatsInv
  <2>2. \A s \in Sides, p \in Prices : levelQty[s][p] \in Nat /\ total[s] \in Nat
    BY <1>3, QueueType
  <2> HIDE DEF R
  <2>3. ASSUME NEW s \in Sides, NEW p \in Prices
        PROVE  SumOver(R', OpenAt(s, p)') <= levelQty'[s][p]
    <3>1. CASE s = side /\ p = price
      <4>1. SumOver(R, OpenAt(s, p) \cup {t}) <= levelQty[s][p] + quantity
        BY <1>14, <1>16, <2>1, <2>2
      <4>2. QED
        BY <1>7, <1>12, <1>15, <3>1, <4>1
    <3>2. CASE ~(s = side /\ p = price)
      <4>1. OpenAt(s, p)' = OpenAt(s, p) /\ levelQty'[s][p] = levelQty[s][p]
        BY <1>7, <1>15, <3>2
      <4>2. QED
        BY <1>12, <2>1, <4>1
    <3>3. QED
      BY <3>1, <3>2
  <2>4. ASSUME NEW s \in Sides PROVE SumOver(R', OpenOn(s)') <= total'[s]
    <3>1. CASE s = side
      <4>1. SumOver(R, OpenOn(s) \cup {t}) <= total[s] + quantity
        <5>1. total[s] \in Nat
          BY <1>6
        <5>2. QED
          BY <1>14, <1>16, <2>1, <5>1
      <4>2. QED
        BY <1>7, <1>12, <1>15, <3>1, <4>1
    <3>2. CASE s # side
      BY <1>7, <1>12, <1>15, <2>1, <3>2
    <3>3. QED
      BY <3>1, <3>2
  <2>5. QED
    BY <2>3, <2>4 DEF StatsInv, R
<1>18. OrdersInv'
  BY <1>1, <1>2, <1>3, <1>9 DEF OrdersInv
<1>19. TapeInv'
  BY <1>1, <1>2 DEF TapeInv
<1>20. KindsOK'
  <2>1. /\ offered' = Len(tape') /\ booked' = Len(tape') /\ taker' = NoOrder /\ pc' = "idle"
        /\ order' = order
    BY <1>1, <1>2
  <2>2. level' \in Int /\ index' \in Nat /\ offered' \in 0..Len(tape') /\ booked' \in 0..offered'
    BY <1>2, <1>3, <2>1 DEF KindsOK, TypeOK
  <2>3. TypeOK'
    BY <1>2, <1>3, <1>8, <2>1, <2>2 DEF KindsOK, TypeOK
  <2>4. QED
    BY <1>2, <1>3, <2>1, <2>2, <2>3 DEF KindsOK
<1>21. QED
  BY <1>2, <1>10, <1>11, <1>17, <1>18, <1>19, <1>20 DEF FInv

-----------------------------------------------------------------------------
(* The trade *)

\* What a trade takes from the sum of what some orders have left, the taker not
\* among them and m only if it still has something.
LEMMA TradeSums ==
    ASSUME FuturesAssumption, FInv, NEW m \in Orders, NEW lot \in Nat, TradeWith(m, lot),
           NEW S \in SUBSET Orders, IsFiniteSet(S), taker \notin S,
           NEW R, R = [o \in Orders |-> Remaining(o)],
           NEW W, W = [o \in Orders |-> Remaining(o)'],
           NEW U, U = {o \in S : o = m => lot # Remaining(m)}
    PROVE  /\ m \notin S => SumOver(W, U) = SumOver(R, S)
           /\ m \in S => SumOver(W, U) = SumOver(R, S) - lot
           /\ m \in S => lot <= SumOver(R, S)
           /\ SumOver(R, S) \in Nat
<1>1. \A o \in Orders : R[o] = Remaining(o) /\ Remaining(o) \in Nat /\ Remaining(o) \in Int
  BY RemainingType DEF FInv, KindsOK
<1>2. /\ \A o \in Orders : o \notin {taker, m} => W[o] = R[o]
      /\ W[m] = R[m] - lot
  BY <1>1, TradeOrders
<1>3. lot <= Remaining(m) /\ lot \in Int /\ 0 - lot \in Int
  BY DEF TradeWith
<1>4. /\ \A x \in S : R[x] \in Nat
      /\ \A x \in S : R[x] \in Int
  BY <1>1
<1>5. SumOver(R, S) \in Nat
  BY <1>4, SumOverType
<1>6. CASE m \notin S
  <2>1. U = S /\ \A x \in S : W[x] = R[x]
    BY <1>2, <1>6
  <2>2. SumOver(W, S) = SumOver(R, S)
    BY <2>1, SumOverEqual
  <2>3. QED
    BY <1>5, <1>6, <2>1, <2>2
<1>7. CASE m \in S
  <2>1. /\ SumOver(R, S \ {m}) \in Nat
        /\ SumOver(R, S) = SumOver(R, S \ {m}) + Remaining(m)
    BY <1>7, PartOfSum
  <2>2. lot <= SumOver(R, S)
    BY <1>1, <1>3, <2>1
  <2>3. CASE lot = Remaining(m)
    <3>1. U = S \ {m} /\ IsFiniteSet(S \ {m}) /\ \A x \in S \ {m} : W[x] = R[x]
      BY <1>2, <1>7, <2>3, FS_RemoveElement
    <3>2. SumOver(W, U) = SumOver(R, S \ {m})
      BY <3>1, SumOverEqual, SMTT(30)
    <3>3. QED
      BY <1>5, <1>7, <2>1, <2>2, <2>3, <3>2
  <2>4. CASE lot # Remaining(m)
    <3>1. U = S
      BY <2>4
    <3>2. \A x \in S \ {m} : W[x] = R[x]
      BY <1>2
    <3>3. SumOver(W, S) = SumOver(R, S) - lot
      <4>1. /\ \A y \in S : R[y] \in Int
            /\ \A y \in S \ {m} : W[y] = R[y]
            /\ W[m] = R[m] - lot /\ lot \in Int /\ m \in S
        BY <1>2, <1>3, <1>4, <1>7, <3>2
      <4>2. QED
        BY <4>1, SumOverLess, SMTT(30)
    <3>4. QED
      BY <1>5, <1>7, <2>2, <3>1, <3>3
  <2>5. QED
    BY <2>3, <2>4
<1>8. QED
  BY <1>6, <1>7

\* What a trade does to the level it is made at, and to no other.
LEMMA TradeLevel ==
    ASSUME FuturesAssumption, FInv, NEW m \in Orders, NEW lot \in Nat, TradeWith(m, lot)
    PROVE  /\ \A s \in Sides, p \in Prices : ~(s = MakerSide /\ p = level) =>
                queue'[s][p] = queue[s][p] /\ levelQty'[s][p] = levelQty[s][p]
           /\ \A s \in Sides : s # MakerSide => total'[s] = total[s]
           /\ levelQty'[MakerSide][level] = levelQty[MakerSide][level] - lot
           /\ total'[MakerSide] = total[MakerSide] - lot
           /\ lot <= levelQty[MakerSide][level] /\ lot <= total[MakerSide]
           /\ queue' \in [Sides -> [Prices -> Seq(Orders)]]
           /\ levelQty' \in [Sides -> [Prices -> Nat]] /\ total' \in [Sides -> Nat]
           /\ lot # Remaining(m) => queue' = queue
           /\ lot = Remaining(m) =>
                /\ Len(queue[MakerSide][level]) \in Nat
                /\ Len(queue'[MakerSide][level]) = Len(queue[MakerSide][level]) - 1
                /\ \A j \in 1..Len(queue'[MakerSide][level]) :
                      /\ j + 1 \in 1..Len(queue[MakerSide][level])
                      /\ queue'[MakerSide][level][j] = queue[MakerSide][level][j + 1]
<1>1. KindsOK /\ TypeOK /\ StatsInv
  BY DEF FInv, KindsOK
<1>2. PICK side \in Sides, price \in Prices : side = MakerSide /\ price = level
  BY TradeOrders
<1>3. /\ queue \in [Sides -> [Prices -> Seq(Orders)]]
      /\ levelQty \in [Sides -> [Prices -> Nat]] /\ total \in [Sides -> Nat]
  BY <1>1 DEF TypeOK
<1>4. /\ levelQty' = [levelQty EXCEPT ![side][price] = @ - lot]
      /\ total' = [total EXCEPT ![side] = @ - lot]
      /\ Len(queue[side][price]) # 0
      /\ queue' = IF lot = Remaining(m)
                  THEN [queue EXCEPT ![side][price] =
                           SubSeq(@, 1, 1 - 1) \o SubSeq(@, 1 + 1, Len(@))]
                  ELSE queue
  BY <1>2 DEF TradeWith
<1>5. /\ levelQty'[side][price] = levelQty[side][price] - lot
      /\ total'[side] = total[side] - lot
      /\ \A s \in Sides, p \in Prices : ~(s = side /\ p = price) => levelQty'[s][p] = levelQty[s][p]
      /\ \A s \in Sides : s # side => total'[s] = total[s]
  BY <1>3, <1>4
<1>6. lot <= levelQty[side][price] /\ lot <= total[side]
  <2> DEFINE R == [o \in Orders |-> Remaining(o)]
             W == [o \in Orders |-> Remaining(o)']
  <2>1. m \in OpenAt(side, price) /\ m \in OpenOn(side)
        /\ taker \notin OpenAt(side, price) /\ taker \notin OpenOn(side)
    BY <1>2 DEF TradeWith, OpenAt, OpenOn, Open
  <2>2. /\ OpenAt(side, price) \in SUBSET Orders /\ IsFiniteSet(OpenAt(side, price))
        /\ OpenOn(side) \in SUBSET Orders /\ IsFiniteSet(OpenOn(side))
    BY <1>1, OpenSets
  <2>3. lot <= SumOver(R, OpenAt(side, price)) /\ SumOver(R, OpenAt(side, price)) \in Nat
    BY <2>1, <2>2, TradeSums
  <2>4. lot <= SumOver(R, OpenOn(side)) /\ SumOver(R, OpenOn(side)) \in Nat
    BY <2>1, <2>2, TradeSums
  <2>5. /\ SumOver(R, OpenAt(side, price)) <= levelQty[side][price]
        /\ SumOver(R, OpenOn(side)) <= total[side]
    BY <1>1 DEF StatsInv
  <2>6. levelQty[side][price] \in Nat /\ total[side] \in Nat
    BY <1>3
  <2> HIDE DEF R
  <2>7. QED
    BY <2>3, <2>4, <2>5, <2>6
<1>7. levelQty' \in [Sides -> [Prices -> Nat]] /\ total' \in [Sides -> Nat]
  <2>1. PICK v, w : v = levelQty[side][price] - lot /\ w = total[side] - lot
    OBVIOUS
  <2>2. v \in Nat /\ w \in Nat
    BY <1>3, <1>6, <2>1
  <2>3. /\ levelQty' = [levelQty EXCEPT ![side] = [levelQty[side] EXCEPT ![price] = v]]
        /\ total' = [total EXCEPT ![side] = w]
    BY <1>3, <1>4, <2>1
  <2>4. [levelQty[side] EXCEPT ![price] = v] \in [Prices -> Nat]
    BY <1>3, <2>2
  <2>5. QED
    BY <1>3, <2>2, <2>3, <2>4
<1>8. PICK q \in Seq(Orders) : q = queue[side][price]
  BY <1>3
<1>9. PICK r : r = SubSeq(q, 1, 1 - 1) \o SubSeq(q, 1 + 1, Len(q))
  OBVIOUS
<1>10. /\ r \in Seq(Orders) /\ Len(r) = Len(q) - 1 /\ Len(q) \in Nat
       /\ \A j \in 1..Len(r) : j + 1 \in 1..Len(q) /\ r[j] = q[j + 1]
  BY <1>4, <1>8, <1>9, RemoveFirst
<1>11. lot = Remaining(m) =>
         queue' = [queue EXCEPT ![side] = [queue[side] EXCEPT ![price] = r]]
  BY <1>3, <1>4, <1>8, <1>9
<1>12. [queue[side] EXCEPT ![price] = r] \in [Prices -> Seq(Orders)]
  BY <1>3, <1>10
<1>13. /\ queue' \in [Sides -> [Prices -> Seq(Orders)]]
       /\ lot # Remaining(m) => queue' = queue
       /\ lot = Remaining(m) => queue'[side][price] = r
       /\ \A s \in Sides, p \in Prices : ~(s = side /\ p = price) => queue'[s][p] = queue[s][p]
  BY <1>3, <1>4, <1>11, <1>12
<1>14. QED
  BY <1>2, <1>5, <1>6, <1>7, <1>8, <1>10, <1>13

LEMMA TradeBook ==
    ASSUME FuturesAssumption, FInv, NEW m \in Orders, NEW lot \in Nat, TradeWith(m, lot)
    PROVE  BookInv'
<1>1. TypeOK /\ BookInv
  BY DEF FInv, KindsOK
<1>2. PICK side \in Sides, price \in Prices : side = MakerSide /\ price = level
  BY TradeOrders
<1>3. /\ \A o \in Orders : Open(o)' <=> Open(o) /\ (o = m => lot # Remaining(m))
      /\ request' = request /\ request[m].side = side /\ request[m].price = price
      /\ queue[side][price][1] = m
  BY <1>2, TradeOrders DEF TradeWith
<1>4. /\ \A s \in Sides, p \in Prices : ~(s = side /\ p = price) => queue'[s][p] = queue[s][p]
      /\ lot # Remaining(m) => queue' = queue
  BY <1>2, TradeLevel
<1>5. \E q \in Seq(Orders) : \E r : q = queue[side][price] /\ r = queue'[side][price]
  BY <1>1, QueueType
<1> PICK q \in Seq(Orders) : \E r : q = queue[side][price] /\ r = queue'[side][price]
  BY <1>5
<1> PICK r : q = queue[side][price] /\ r = queue'[side][price]
  OBVIOUS
<1>6. /\ Len(q) \in Nat /\ \A i \in 1..Len(q) : q[i] \in Orders
      /\ \A i \in 1..Len(q) : Open(q[i]) /\ request[q[i]].side = side /\ request[q[i]].price = price
      /\ \A i, j \in 1..Len(q) : i # j => q[i] # q[j]
      /\ q[1] = m
  <2>1. InPlace(side, price)
    BY <1>1 DEF BookInv
  <2>2. QED
    BY <1>3, <1>5, <2>1 DEF InPlace
<1>7. PICK n \in Nat : n = Len(q)
  BY <1>6
<1>8. lot = Remaining(m) =>
        Len(r) = n - 1 /\ \A j \in 1..(n - 1) : j + 1 \in 1..n /\ r[j] = q[j + 1]
  BY <1>2, <1>5, <1>7, TradeLevel
<1>9. Len(q) # 0
  BY <1>2, <1>5 DEF TradeWith
<1>10. ASSUME NEW s \in Sides, NEW p \in Prices PROVE InPlace(s, p)'
  <2>1. /\ InPlace(s, p) /\ \A i \in 1..Len(queue[s][p]) : queue[s][p][i] \in Orders
    BY <1>1, QueueType DEF BookInv
  <2>2. CASE ~(s = side /\ p = price)
    <3>1. \A i \in 1..Len(queue[s][p]) : queue[s][p][i] # m
      BY <1>3, <2>1, <2>2 DEF InPlace
    <3>2. PICK w \in Seq(Orders) : w = queue[s][p] /\ w = queue'[s][p]
      BY <1>1, <1>4, <2>2, QueueType
    <3>3. /\ \A i \in 1..Len(w) : /\ Open(w[i]) /\ w[i] \in Orders /\ w[i] # m
                                  /\ request[w[i]].side = s /\ request[w[i]].price = p
          /\ \A i, j \in 1..Len(w) : i # j => w[i] # w[j]
      BY <2>1, <3>1, <3>2 DEF InPlace
    <3>4. \A i \in 1..Len(w) : Open(w[i])'
      BY <1>3, <3>3
    <3>5. QED
      BY <1>3, <3>2, <3>3, <3>4 DEF InPlace
  <2>3. CASE s = side /\ p = price /\ lot # Remaining(m)
    BY <1>3, <1>4, <2>1, <2>3 DEF InPlace
  <2>4. CASE s = side /\ p = price /\ lot = Remaining(m)
    <3>1. \A j \in 1..(n - 1) : j + 1 \in 1..n /\ j + 1 # 1 /\ 1 \in 1..n
      BY <1>7, <1>9
    <3>2. \A j \in 1..(n - 1) : r[j] \in Orders /\ r[j] # m
      BY <1>6, <1>7, <1>8, <2>4, <3>1, SMTT(30)
    <3>3. \A j \in 1..(n - 1) : Open(r[j]) /\ request[r[j]].side = side /\ request[r[j]].price = price
      <4> SUFFICES ASSUME NEW j \in 1..(n - 1)
                   PROVE  Open(r[j]) /\ request[r[j]].side = side /\ request[r[j]].price = price
        OBVIOUS
      <4>1. PICK i \in 1..Len(q) : i = j + 1
        BY <1>7, <3>1
      <4>2. r[j] = q[i]
        BY <1>8, <2>4, <4>1
      <4>3. QED
        BY <1>6, <4>2
    <3>4. \A j \in 1..(n - 1) : Open(r[j])'
      BY <1>3, <3>2, <3>3
    <3>5. \A i, j \in 1..(n - 1) : i # j => r[i] # r[j]
      <4> SUFFICES ASSUME NEW i \in 1..(n - 1), NEW j \in 1..(n - 1), i # j PROVE r[i] # r[j]
        OBVIOUS
      <4>1. i + 1 \in 1..n /\ j + 1 \in 1..n /\ i + 1 # j + 1
        BY <3>1
      <4>2. r[i] = q[i + 1] /\ r[j] = q[j + 1]
        BY <1>8, <2>4
      <4>3. QED
        BY <1>6, <1>7, <4>1, <4>2
    <3>6. Len(queue'[s][p]) = n - 1 /\ queue'[s][p] = r
      BY <1>5, <1>8, <2>4
    <3>7. QED
      BY <1>3, <2>4, <3>3, <3>4, <3>5, <3>6 DEF InPlace
  <2>5. QED
    BY <2>2, <2>3, <2>4
<1>11. ASSUME NEW o \in Orders, Open(o)'
       PROVE  \E i \in 1..Len(queue'[request[o].side][request[o].price]) :
                 queue'[request[o].side][request[o].price][i] = o
  <2>1. Open(o) /\ (o = m => lot # Remaining(m))
    BY <1>3, <1>11
  <2>2. PICK s \in Sides, p \in Prices : s = request[o].side /\ p = request[o].price
    BY <1>1, <2>1, RequestType DEF Open
  <2>3. PICK i \in 1..Len(queue[s][p]) : queue[s][p][i] = o
    BY <1>1, <2>1, <2>2 DEF BookInv
  <2>4. CASE ~(s = side /\ p = price) \/ lot # Remaining(m)
    BY <1>4, <2>2, <2>3, <2>4
  <2>5. CASE s = side /\ p = price /\ lot = Remaining(m)
    <3>1. i \in 1..n /\ q[i] = o /\ o # m /\ i # 1
      BY <1>5, <1>6, <1>7, <2>1, <2>3, <2>5
    <3>2. PICK j \in 1..(n - 1) : j + 1 = i
      <4>1. i - 1 \in 1..(n - 1) /\ (i - 1) + 1 = i
        BY <3>1
      <4>2. QED
        BY <4>1
    <3>3. r[j] = o /\ j \in 1..Len(r)
      BY <1>8, <2>5, <3>1, <3>2
    <3>4. QED
      BY <1>5, <2>2, <2>5, <3>3
  <2>6. QED
    BY <2>4, <2>5
<1>12. QED
  BY <1>3, <1>10, <1>11 DEF BookInv

LEMMA TradeStats ==
    ASSUME FuturesAssumption, FInv, NEW m \in Orders, NEW lot \in Nat, TradeWith(m, lot)
    PROVE  StatsInv'
<1> DEFINE R == [o \in Orders |-> Remaining(o)]
           W == [o \in Orders |-> Remaining(o)']
<1>1. KindsOK /\ TypeOK
  BY DEF FInv, KindsOK
<1>2. PICK side \in Sides, price \in Prices : side = MakerSide /\ price = level
  BY TradeOrders
<1>3. /\ \A o \in Orders : Open(o)' <=> Open(o) /\ (o = m => lot # Remaining(m))
      /\ request' = request /\ request[m].side = side /\ request[m].price = price /\ Open(m)
  BY <1>2, TradeOrders DEF TradeWith
<1>4. ASSUME NEW s \in Sides, NEW p \in Prices
      PROVE  SumOver(W, OpenAt(s, p)') <= levelQty'[s][p]
  <2>1. /\ OpenAt(s, p) \in SUBSET Orders /\ IsFiniteSet(OpenAt(s, p)) /\ taker \notin OpenAt(s, p)
    BY <1>1, OpenSets DEF OpenAt, Open
  <2>2. OpenAt(s, p)' = {o \in OpenAt(s, p) : o = m => lot # Remaining(m)}
    BY <1>3 DEF OpenAt
  <2>3. /\ m \notin OpenAt(s, p) => SumOver(W, OpenAt(s, p)') = SumOver(R, OpenAt(s, p))
        /\ m \in OpenAt(s, p) => SumOver(W, OpenAt(s, p)') = SumOver(R, OpenAt(s, p)) - lot
        /\ SumOver(R, OpenAt(s, p)) \in Nat
    BY <2>1, <2>2, TradeSums
  <2>4. m \in OpenAt(s, p) <=> s = side /\ p = price
    BY <1>3 DEF OpenAt
  <2>5. SumOver(R, OpenAt(s, p)) <= levelQty[s][p] /\ levelQty[s][p] \in Nat
    BY <1>1, QueueType DEF FInv, StatsInv
  <2>6. /\ ~(s = side /\ p = price) => levelQty'[s][p] = levelQty[s][p]
        /\ s = side /\ p = price => levelQty'[s][p] = levelQty[s][p] - lot
    BY <1>2, TradeLevel
  <2> HIDE DEF R, W
  <2>7. QED
    BY <2>3, <2>4, <2>5, <2>6
<1>5. ASSUME NEW s \in Sides
      PROVE  SumOver(W, OpenOn(s)') <= total'[s]
  <2>1. /\ OpenOn(s) \in SUBSET Orders /\ IsFiniteSet(OpenOn(s)) /\ taker \notin OpenOn(s)
    BY <1>1, OpenSets DEF OpenOn, Open
  <2>2. OpenOn(s)' = {o \in OpenOn(s) : o = m => lot # Remaining(m)}
    BY <1>3 DEF OpenOn
  <2>3. /\ m \notin OpenOn(s) => SumOver(W, OpenOn(s)') = SumOver(R, OpenOn(s))
        /\ m \in OpenOn(s) => SumOver(W, OpenOn(s)') = SumOver(R, OpenOn(s)) - lot
        /\ SumOver(R, OpenOn(s)) \in Nat
    BY <2>1, <2>2, TradeSums
  <2>4. m \in OpenOn(s) <=> s = side
    BY <1>3 DEF OpenOn
  <2>5. SumOver(R, OpenOn(s)) <= total[s] /\ total[s] \in Nat
    BY <1>1 DEF FInv, StatsInv, TypeOK
  <2>6. /\ s # side => total'[s] = total[s]
        /\ s = side => total'[s] = total[s] - lot
    BY <1>2, TradeLevel
  <2> HIDE DEF R, W
  <2>7. QED
    BY <2>3, <2>4, <2>5, <2>6
<1>6. QED
  BY <1>4, <1>5 DEF StatsInv

LEMMA TradeStep ==
    ASSUME FuturesAssumption, FInv, Trade
    PROVE  FInv'
<1>1. PICK m \in Orders, lot \in Nat : TradeWith(m, lot)
  BY TradeFacts
<1>2. /\ pc = "scan" /\ pc' = pc /\ taker' = taker
      /\ UNCHANGED <<request, processed, offered, booked, position, todo, level,
                     call, orderCh, tradeCh>>
      /\ ~IsDone(taker) /\ Open(m) /\ lot > 0
      /\ lot = Remaining(taker) \/ lot = Remaining(m)
      /\ index' = IF lot = Remaining(m) THEN 1 ELSE 2
      /\ tape' = Append(tape, [taker |-> taker, maker |-> m,
                               price |-> request[m].price, quantity |-> lot])
  BY <1>1 DEF TradeWith, chVars
<1>3. /\ taker \in Orders /\ MakerSide \in Sides /\ level \in Prices
      /\ MakerSide' = MakerSide /\ ~IsDone(m)
      /\ order' \in [Orders -> [filled : Nat, value : Int, done : BOOLEAN,
                                status : {"New", "PartiallyFilled", "Filled", "Rejected"}]]
      /\ \A o \in {taker, m} :
           /\ order'[o].filled = order[o].filled + lot
           /\ order'[o].filled <= request[o].quantity
           /\ order'[o].status # "Rejected"
           /\ IsDone(o)' <=> lot = Remaining(o)
           /\ IsDone(o)' <=> order'[o].filled = request[o].quantity
      /\ \A o \in Orders : o \notin {taker, m} =>
           order'[o] = order[o] /\ IsDone(o)' = IsDone(o)
      /\ \A o \in Orders : Open(o)' <=> Open(o) /\ (o = m => lot # Remaining(m))
  BY <1>1, TradeOrders
<1>4. taker \in processed /\ m \in processed \ {taker}
  BY <1>2, SweepFacts DEF Open
<1>5. \A o \in Orders : order[o].filled \in Nat /\ order'[o].filled \in Nat
                        /\ order'[o].filled >= order[o].filled
  <2>1. \A o \in Orders : order[o].filled \in Nat
    BY RemainingType DEF FInv, KindsOK
  <2>2. \A o \in Orders : order'[o].filled = order[o].filled + lot \/ order'[o].filled = order[o].filled
    BY <1>3
  <2>3. QED
    BY <2>1, <2>2
<1>6. BookInv' /\ StatsInv'
  BY <1>1, TradeBook, TradeStats
<1>7. CrossInv'
  BY <1>2, <1>3 DEF FInv, CrossInv
<1>8. FlowInv'
  BY <1>2 DEF FInv, FlowInv
<1>9. OrdersInv'
  <2>1. OrdersInv
    BY DEF FInv
  <2>2. \A o \in Orders : /\ order'[o].filled <= request'[o].quantity
                          /\ IsDone(o)' <=> order'[o].filled = request'[o].quantity
    BY <1>2, <1>3, <2>1 DEF OrdersInv
  <2>3. \A o \in Orders \ processed' : order'[o] = NewOrder
    BY <1>2, <1>3, <1>4, <2>1 DEF OrdersInv
  <2>4. \A o \in Orders : order'[o].status = "Rejected" =>
          request'[o].type = "Market" /\ order'[o].filled = 0 /\ o \in processed' \ {taker'}
    BY <1>2, <1>3, <2>1 DEF OrdersInv
  <2>5. QED
    BY <2>2, <2>3, <2>4 DEF OrdersInv
<1>10. LoopInv'
  <2>1. /\ level \in Prices /\ Crosses(taker, level) /\ IsFiniteSet(todo)
        /\ Levels(MakerSide) \subseteq todo \cup {level}
        /\ \A p \in todo : ComesFirst(MakerSide, level, p)
    BY <1>2 DEF FInv, LoopInv
  <2>2. Levels(MakerSide)' \subseteq todo' \cup {level'}
    <3>1. ASSUME NEW p \in Levels(MakerSide)', p # level PROVE p \in todo
      <4>1. p \in Prices /\ queue'[MakerSide][p] # <<>>
        BY <1>3 DEF Levels
      <4>2. queue'[MakerSide][p] = queue[MakerSide][p]
        BY <1>1, <1>3, <3>1, <4>1, TradeLevel
      <4>3. p \in Levels(MakerSide)
        BY <4>1, <4>2 DEF Levels
      <4>4. QED
        BY <2>1, <3>1, <4>3
    <3>2. QED
      BY <1>2, <3>1
  <2>3. ~IsDone(taker)' => index' = 1
    BY <1>2, <1>3
  <2>4. Crosses(taker, level)' /\ \A p \in todo' : ComesFirst(MakerSide, level, p)'
    BY <1>2, <1>3, <2>1 DEF Crosses, ComesFirst
  <2>5. QED
    BY <1>2, <1>3, <2>1, <2>2, <2>3, <2>4 DEF LoopInv, ComesFirst
<1>11. PICK t : t = [taker |-> taker, maker |-> m, price |-> request[m].price, quantity |-> lot]
  OBVIOUS
<1>12. /\ t \in TradeRecord /\ t.taker = taker /\ t.maker = m /\ t.quantity = lot
  <2>1. request[m].price \in Int
    BY RequestType DEF FInv, KindsOK
  <2>2. QED
    BY <1>3, <1>11, <2>1 DEF TradeRecord
<1>13. PICK n \in Nat : n = Len(tape) /\ tape \in Seq(TradeRecord)
  BY DEF FInv, KindsOK
<1>14. /\ tape' \in Seq(TradeRecord) /\ Len(tape') = n + 1 /\ tape'[n + 1] = t
       /\ \A k \in 1..n : tape'[k] = tape[k]
       /\ DOMAIN tape' = 1..(n + 1) /\ DOMAIN tape = 1..n
       /\ \A k \in 1..n : tape[k] \in TradeRecord
  BY <1>2, <1>11, <1>12, <1>13
<1>15. TapeInv'
  <2>1. \A k \in 1..n : /\ tape[k].quantity > 0
                        /\ tape[k].maker \in processed \ {taker}
                        /\ order[tape[k].taker].filled > 0
                        /\ k > booked => tape[k].taker = taker
                        /\ tape[k].taker \in Orders
    <3>1. \A k \in 1..n : tape[k].taker \in Orders
      BY <1>14 DEF TradeRecord
    <3>2. QED
      BY <1>14, <3>1 DEF FInv, TapeInv
  <2>2. \A k \in 1..n : order'[tape[k].taker].filled > 0
    BY <1>5, <2>1
  <2>3. order'[taker].filled > 0
    <3>1. order'[taker].filled = order[taker].filled + lot /\ order[taker].filled \in Nat
      BY <1>3, <1>5
    <3>2. QED
      BY <1>2, <3>1
  <2>4. \A k \in 1..(n + 1) : k \in 1..n \/ k = n + 1
    OBVIOUS
  <2>5. \A k \in 1..(n + 1) : /\ tape'[k].quantity > 0
                              /\ tape'[k].maker \in processed' \ {taker'}
                              /\ order'[tape'[k].taker].filled > 0
                              /\ k > booked' => tape'[k].taker = taker'
    BY <1>2, <1>4, <1>12, <1>14, <2>1, <2>2, <2>3, <2>4
  <2>6. n + 1 \in 1..(n + 1) /\ tape'[n + 1].taker = taker'
    BY <1>2, <1>12, <1>14
  <2>7. QED
    BY <1>14, <2>5, <2>6 DEF TapeInv
<1>16. KindsOK'
  <2>1. /\ queue' \in [Sides -> [Prices -> Seq(Orders)]]
        /\ levelQty' \in [Sides -> [Prices -> Nat]] /\ total' \in [Sides -> Nat]
    BY <1>1, TradeLevel
  <2>2. offered' \in 0..Len(tape') /\ booked' \in 0..offered' /\ index' \in Nat
    <3>1. offered \in 0..n /\ booked \in 0..offered
      BY <1>13 DEF FInv, KindsOK, TypeOK
    <3>2. offered \in 0..(n + 1)
      BY <3>1
    <3>3. QED
      BY <1>2, <1>14, <3>1, <3>2
  <2>3. QED
    BY <1>2, <1>3, <1>14, <2>1, <2>2 DEF FInv, KindsOK, TypeOK
<1>17. QED
  BY <1>6, <1>7, <1>8, <1>9, <1>10, <1>15, <1>16 DEF FInv

-----------------------------------------------------------------------------
(* The invariant *)

LEMMA FInit == ASSUME FuturesAssumption, Init PROVE FInv
<1>1. KindsOK
  <2>1. \A A : <<>> \in Seq(A) /\ Len(<<>>) = 0
    OBVIOUS
  <2>2. \A o \in Orders : NewOrder \in [filled : Nat, value : Int, done : BOOLEAN,
                                        status : {"New", "PartiallyFilled", "Filled", "Rejected"}]
    BY DEF NewOrder
  <2>3. \A h \in Holders : NoPosition \in [quantity : Nat, value : Int, margin : Int]
    BY DEF NoPosition
  <2>4. IsFiniteSet(processed)
    BY FS_EmptySet DEF Init
  <2>5. order \in [Orders -> [filled : Nat, value : Int, done : BOOLEAN,
                              status : {"New", "PartiallyFilled", "Filled", "Rejected"}]]
    BY <2>2 DEF Init
  <2>6. /\ queue \in [Sides -> [Prices -> Seq(Orders)]]
        /\ levelQty \in [Sides -> [Prices -> Nat]] /\ total \in [Sides -> Nat]
    BY <2>1 DEF Init
  <2>7. TypeOK
    BY <2>1, <2>3, <2>5, <2>6 DEF TypeOK, Init, FuturesAssumption
  <2>8. QED
    BY <2>1, <2>4, <2>7 DEF KindsOK, Init
<1>2. FlowInv
  BY DEF FlowInv, Init
<1>3. \A o \in Orders : order[o] = NewOrder /\ ~Open(o) /\ order[o].filled = 0
                        /\ ~IsDone(o) /\ order[o].status = "New"
  BY DEF Init, Open, NewOrder, IsDone
<1>4. OrdersInv
  <2>1. \A o \in Orders : request[o].quantity \in Nat /\ request[o].quantity > 0
    BY <1>1, RequestType DEF KindsOK
  <2>2. QED
    BY <1>3, <2>1 DEF OrdersInv
<1>5. BookInv /\ CrossInv
  <2>1. \A s \in Sides, p \in Prices : queue[s][p] = <<>>
    BY DEF Init
  <2>2. ASSUME NEW s \in Sides, NEW p \in Prices PROVE InPlace(s, p)
    <3>1. Len(queue[s][p]) = 0
      BY <2>1
    <3>2. 1..Len(queue[s][p]) = {}
      BY <3>1
    <3>3. QED
      BY <3>2 DEF InPlace
  <2>3. QED
    BY <1>3, <2>2 DEF BookInv, CrossInv
<1>6. LoopInv
  BY FS_EmptySet DEF LoopInv, Init
<1>7. TapeInv
  BY DEF TapeInv, Init
<1>8. StatsInv
  <2>1. (\A s, p : OpenAt(s, p) = {}) /\ (\A s : OpenOn(s) = {})
    BY <1>3 DEF OpenAt, OpenOn
  <2>2. \A s \in Sides, p \in Prices : levelQty[s][p] = 0 /\ total[s] = 0
    BY DEF Init
  <2>3. \A s \in Sides : total[s] = 0
    BY DEF Init
  <2>4. \A v : SumOver(v, {}) = 0
    BY SumOverNothing
  <2>5. QED
    BY <2>1, <2>2, <2>3, <2>4 DEF StatsInv
<1>9. QED
  BY <1>1, <1>2, <1>4, <1>5, <1>6, <1>7, <1>8 DEF FInv

LEMMA FNext == ASSUME FuturesAssumption, FInv, [Next]_vars PROVE FInv'
<1>1. ASSUME NEW o \in Orders, Accept(o) \/ TimeOut(o) \/ RefuseStopped(o) \/ SendOnClosed(o)
      PROVE  FInv'
  BY <1>1, CallerSteps
<1>2. ASSUME TakeOrder PROVE FInv'
  BY <1>2, TakeOrderStep
<1>3. ASSUME EnterLevel PROVE FInv'
  BY <1>3, EnterLevelStep
<1>4. ASSUME EndMatch PROVE FInv'
  BY <1>4, EndMatchStep
<1>5. ASSUME Trade PROVE FInv'
  BY <1>5, TradeStep
<1>6. ASSUME LeaveLevel PROVE FInv'
  BY <1>6, LeaveLevelStep
<1>7. ASSUME RejectMarket \/ Forget PROVE FInv'
  BY <1>7, DropStep
<1>8. ASSUME Rest PROVE FInv'
  BY <1>8, RestStep
<1>9. ASSUME OfferTrade \/ UpdatePosition \/ Receive \/ Cancel \/ Exit \/ Close \/ UNCHANGED vars
      PROVE  FInv'
  BY <1>9, OtherQuietSteps
<1>10. QED
  BY <1>1, <1>2, <1>3, <1>4, <1>5, <1>6, <1>7, <1>8, <1>9 DEF Next, EngineStep, Work

\* The invariant: what the loops of Match know, that the book lists the open orders
\* and nothing else, that no two of them cross, and that the statistics cover them.
THEOREM FuturesInvariance == Spec => []FInv
<1>1. Init => FInv
  BY FuturesAssumption, FInit
<1>2. FInv /\ [Next]_vars => FInv'
  BY FuturesAssumption, FNext
<1>3. QED
  BY <1>1, <1>2, PTL DEF Spec

\* Every variable has its type, the channels keep within their buffers, and the
\* engine holds an order exactly when it is not idle.
THEOREM FuturesTypes == Spec => []TypeOK
<1>1. FInv => TypeOK
  BY DEF FInv, KindsOK
<1>2. QED
  BY <1>1, FuturesInvariance, PTL

\* No trade of the sweep leaves an open order of the maker's side at a better price
\* for the taker: the levels not in todo are empty or the one being swept.
THEOREM FuturesPricePriority == Spec => []PricePriority
<1>1. FInv => PricePriority
  <2> SUFFICES ASSUME FInv, pc = "scan", NEW o \in Orders,
                      Open(o), request[o].side = MakerSide
               PROVE  IF MakerSide = "Sell" THEN level <= request[o].price
                      ELSE level >= request[o].price
    BY DEF PricePriority
  <2>1. FuturesAssumption
    BY FuturesAssumption
  <2>2. MakerSide \in Sides /\ level \in Prices
    BY <2>1, SweepFacts
  <2>3. request[o].price \in Prices
    BY <2>1, RequestType DEF Open, FInv, KindsOK
  <2>4. request[o].price \in Levels(MakerSide)
    BY <2>1, <2>2, <2>3, LevelsAre DEF OpenAt, FInv, KindsOK
  <2>5. request[o].price \in todo \cup {level} /\ \A p \in todo : ComesFirst(MakerSide, level, p)
    BY <2>4 DEF FInv, LoopInv
  <2>6. level \in Int
    BY <2>1, <2>2 DEF FuturesAssumption
  <2>7. QED
    BY <2>5, <2>6 DEF ComesFirst
<1>2. QED
  BY <1>1, FuturesInvariance, PTL

\* When the engine is through with an order, no open buy is at or above an open sell.
THEOREM FuturesNeverCrossed == Spec => []NeverCrossed
<1>1. FInv => NeverCrossed
  BY DEF FInv, CrossInv, NeverCrossed
<1>2. QED
  BY <1>1, FuturesInvariance, PTL

-----------------------------------------------------------------------------
(* Positions *)

\* What the positions are about: trades of the tape, with their types.
LEMMA BookedFacts ==
    ASSUME FuturesAssumption, FInv
    PROVE  /\ booked \in Nat /\ Len(tape) \in Nat /\ booked <= Len(tape)
           /\ DOMAIN tape = 1..Len(tape)
           /\ \A i \in 1..Len(tape) : /\ tape[i].quantity \in Nat /\ tape[i].quantity > 0
                                      /\ tape[i].price \in Int /\ tape[i].taker \in Orders
           /\ \A h : BookedFor(h) \subseteq 1..booked /\ IsFiniteSet(BookedFor(h))
<1>1. /\ offered \in 0..Len(tape) /\ booked \in 0..offered
      /\ tape \in Seq(TradeRecord) /\ Len(tape) \in Nat
  BY DEF FInv, KindsOK, TypeOK
<1>2. booked \in Nat /\ booked <= Len(tape) /\ DOMAIN tape = 1..Len(tape)
  BY <1>1
<1>3. \A i \in 1..Len(tape) : tape[i] \in TradeRecord
  BY <1>1
<1>4. \A i \in 1..Len(tape) : tape[i].quantity > 0
  BY <1>2 DEF FInv, TapeInv
<1>5. \A i \in 1..Len(tape) : /\ tape[i].quantity \in Nat
                              /\ tape[i].price \in Int /\ tape[i].taker \in Orders
  BY <1>3 DEF TradeRecord
<1>7. IsFiniteSet(1..booked)
  BY <1>2, FS_Interval
<1>8. \A h : BookedFor(h) \subseteq 1..booked
  BY DEF BookedFor
<1>9. \A h : IsFiniteSet(BookedFor(h))
  BY <1>7, <1>8, FS_Subset
<1>10. QED
  BY <1>1, <1>2, <1>4, <1>5, <1>8, <1>9

\* A step that books no trade leaves the positions right: the trades booked stay
\* where they are on the tape.
LEMMA PositionsSame ==
    ASSUME FuturesAssumption, FInv, PositionsInv, FInv',
           UNCHANGED <<request, booked, position>>,
           \A i \in 1..booked : tape'[i] = tape[i]
    PROVE  PositionsInv'
<1>1. FuturesAssumption'
  BY DEF FuturesAssumption
<1>2. /\ booked \in Nat /\ booked <= Len(tape) /\ DOMAIN tape = 1..Len(tape) /\ Len(tape) \in Nat
      /\ \A h : BookedFor(h) \subseteq 1..booked /\ IsFiniteSet(BookedFor(h))
  BY BookedFacts
<1>3. booked' <= Len(tape') /\ DOMAIN tape' = 1..Len(tape') /\ Len(tape') \in Nat
  <2>1. /\ offered' \in 0..Len(tape') /\ booked' \in 0..offered'
        /\ tape' \in Seq(TradeRecord) /\ Len(tape') \in Nat
    BY DEF FInv, KindsOK, TypeOK
  <2>2. QED
    BY <2>1
<1>4. \A h : BookedFor(h)' = BookedFor(h)
  BY DEF BookedFor
<1> DEFINE Q == [i \in DOMAIN tape |-> tape[i].quantity]
<1>5. \A i \in 1..booked : i \in DOMAIN tape /\ i \in DOMAIN tape'
  BY <1>2, <1>3
<1>6. \A h : \A i \in BookedFor(h) : tape'[i] = tape[i] /\ Q'[i] = Q[i]
  BY <1>2, <1>5
<1> HIDE DEF Q
<1>7. \A h : SumOver(Q', BookedFor(h)) = SumOver(Q, BookedFor(h))
  BY <1>2, <1>6, SumOverEqual
<1>8. \A h : Traded(BookedFor(h))' = Traded(BookedFor(h))
  BY <1>4, <1>7 DEF Traded, Q
<1>9. ASSUME NEW h \in Holders, BookedFor(h) # {}
      PROVE  \E low, high \in BookedFor(h) :
                /\ tape'[low].price * position[h].quantity <= position[h].value
                /\ position[h].value <= tape'[high].price * position[h].quantity
  <2>1. PICK low \in BookedFor(h), high \in BookedFor(h) :
          /\ tape[low].price * position[h].quantity <= position[h].value
          /\ position[h].value <= tape[high].price * position[h].quantity
    BY <1>9 DEF PositionsInv, PositionsAddUp
  <2>2. tape'[low].price = tape[low].price /\ tape'[high].price = tape[high].price
    BY <1>6
  <2>3. QED
    BY <2>1, <2>2
<1>10. PositionsAddUp'
  <2>1. \A h \in Holders : /\ position[h].quantity = Traded(BookedFor(h))
                           /\ BookedFor(h) = {} => position[h] = NoPosition
    BY DEF PositionsInv, PositionsAddUp
  <2>2. position' = position
    OBVIOUS
  <2>3. QED
    BY <1>4, <1>8, <1>9, <2>1, <2>2 DEF PositionsAddUp
<1>11. QED
  BY <1>4, <1>10 DEF PositionsInv

\* A price no higher costs no more.
LEMMA TimesMonotone ==
    ASSUME NEW x \in Int, NEW y \in Int, NEW n \in Nat, x <= y
    PROVE  x * n <= y * n
<1>1. (y - x) * n >= 0
  BY SMT
<1>2. (y - x) * n = y * n - x * n
  BY SMT
<1>3. QED
  BY <1>1, <1>2

\* An average that is between two prices is still between two of the prices when a
\* trade is added to it, or replaced by the price of that trade.
LEMMA StaysBetween ==
    ASSUME NEW a \in Nat, NEW b \in Int, NEW q \in Nat, NEW p \in Int,
           NEW low \in Int, NEW high \in Int, low * a <= b, b <= high * a
    PROVE  LET v == IF b = 0 THEN p * (a + q) ELSE b + p * q
           IN  /\ low * (a + q) <= v \/ p * (a + q) <= v
               /\ v <= high * (a + q) \/ v <= p * (a + q)
<1> DEFINE v == IF b = 0 THEN p * (a + q) ELSE b + p * q
<1>1. PICK pa \in Int, pq \in Int, la \in Int, lq \in Int, ha \in Int, hq \in Int :
        /\ pa = p * a /\ pq = p * q /\ la = low * a /\ lq = low * q
        /\ ha = high * a /\ hq = high * q
  BY SMT
<1>2. /\ p * (a + q) = pa + pq /\ low * (a + q) = la + lq /\ high * (a + q) = ha + hq
  BY <1>1, SMT
<1>3. /\ low <= p => lq <= pq
      /\ p <= low => pa <= la
      /\ p <= high => pq <= hq
      /\ high <= p => ha <= pa
  BY <1>1, TimesMonotone
<1>4. v = IF b = 0 THEN pa + pq ELSE b + pq
  BY <1>1, <1>2
<1>5. la <= b /\ b <= ha
  BY <1>1
<1> HIDE DEF v
<1>6. la + lq <= v \/ pa + pq <= v
  BY <1>3, <1>4, <1>5
<1>7. v <= ha + hq \/ v <= pa + pq
  BY <1>3, <1>4, <1>5
<1>8. QED
  BY <1>2, <1>6, <1>7 DEF v

\* The next trade is the taker's and is booked to the position of its holder.
LEMMA PositionsGrow ==
    ASSUME FuturesAssumption, FInv, PositionsInv, UpdatePosition
    PROVE  PositionsInv'
<1>1. /\ booked \in Nat /\ Len(tape) \in Nat /\ booked <= Len(tape) /\ DOMAIN tape = 1..Len(tape)
      /\ \A i \in 1..Len(tape) : /\ tape[i].quantity \in Nat /\ tape[i].quantity > 0
                                 /\ tape[i].price \in Int /\ tape[i].taker \in Orders
      /\ \A h : BookedFor(h) \subseteq 1..booked /\ IsFiniteSet(BookedFor(h))
  BY BookedFacts
<1>2. /\ pc = "matched" /\ request' = request /\ tape' = tape
      /\ booked' = booked + 1 /\ booked < Len(tape)
      /\ position' = [position EXCEPT ![request[taker].holder] = Grown(@, tape[booked'])]
  BY DEF UpdatePosition
<1>3. PICK n \in Nat : n = booked + 1 /\ n = booked'
  BY <1>1, <1>2
<1>4. n \in 1..Len(tape) /\ n \notin 1..booked
  BY <1>1, <1>2, <1>3
<1>5. taker \in Orders
  BY <1>2, SweepFacts
<1>6. PICK k \in Holders : k = request[taker].holder
  BY <1>5, RequestType DEF FInv, KindsOK
<1>7. tape[n].taker = taker
  <2>1. n \in DOMAIN tape /\ n > booked
    BY <1>1, <1>3, <1>4
  <2>2. QED
    BY <2>1 DEF FInv, TapeInv
<1>8. \A i \in 1..n : i \in 1..booked \/ i = n
  BY <1>1, <1>3
<1>9. \A i \in 1..booked : i \in 1..n /\ i < n /\ i \in 1..Len(tape)
  BY <1>1, <1>3
<1>10. BookedFor(k)' = BookedFor(k) \cup {n} /\ n \notin BookedFor(k)
  <2>1. BookedFor(k)' = {i \in 1..n : request[tape[i].taker].holder = k}
    BY <1>2, <1>3 DEF BookedFor
  <2>2. n \in 1..n /\ request[tape[n].taker].holder = k
    BY <1>4, <1>6, <1>7
  <2>3. QED
    BY <1>4, <1>8, <1>9, <2>1, <2>2 DEF BookedFor
<1>11. \A h \in Holders : h # k => BookedFor(h)' = BookedFor(h)
  <2>1. \A h : BookedFor(h)' = {i \in 1..n : request[tape[i].taker].holder = h}
    BY <1>2, <1>3 DEF BookedFor
  <2>2. \A h : h # k => request[tape[n].taker].holder # h
    BY <1>6, <1>7
  <2>3. ASSUME NEW h \in Holders, h # k
        PROVE  {i \in 1..n : request[tape[i].taker].holder = h}
                 = {i \in 1..booked : request[tape[i].taker].holder = h}
    <3>1. request[tape[n].taker].holder # h
      BY <2>2, <2>3
    <3>2. \A i : i \in 1..n <=> i \in 1..booked \/ i = n
      BY <1>1, <1>3, <1>8, <1>9
    <3>3. QED
      BY <3>1, <3>2
  <2>4. QED
    BY <2>1, <2>3 DEF BookedFor
<1>12. position \in [Holders -> Position]
  BY DEF FInv, KindsOK, TypeOK, Position
<1>13. PICK t : t = tape[n]
  OBVIOUS
<1>14. PICK pos \in Position : pos = position[k]
  BY <1>12
<1>15. /\ position'[k] = Grown(pos, t)
       /\ \A h \in Holders : h # k => position'[h] = position[h]
  BY <1>2, <1>3, <1>6, <1>12, <1>13, <1>14
<1>16. PICK a \in Nat, b \in Int : a = pos.quantity /\ b = pos.value
  BY DEF Position
<1>17. PICK q \in Nat, p \in Int : q = t.quantity /\ p = t.price /\ q > 0
  BY <1>1, <1>4, <1>13
<1>18. /\ position'[k].quantity = a + q
       /\ position'[k].value = IF b = 0 THEN p * (a + q) ELSE b + p * q
  BY <1>15, <1>16, <1>17 DEF Grown
<1> DEFINE Q == [i \in DOMAIN tape |-> tape[i].quantity]
<1>19. Q[n] = q /\ \A i \in 1..Len(tape) : Q[i] \in Int
  BY <1>1, <1>4, <1>13, <1>17
<1>20. \A A : Traded(A) = SumOver(Q, A) /\ Traded(A)' = SumOver(Q, A)
  BY <1>2 DEF Traded
<1> HIDE DEF Q
<1>21. /\ IsFiniteSet(BookedFor(k))
       /\ \A i \in BookedFor(k) : i \in 1..booked /\ i < n /\ Q[i] \in Int
  BY <1>1, <1>9, <1>19
<1>22. SumOver(Q, BookedFor(k) \cup {n}) = SumOver(Q, BookedFor(k)) + Q[n]
  BY <1>4, <1>10, <1>19, <1>21, SumOverAdd
<1>23. /\ a = SumOver(Q, BookedFor(k))
       /\ BookedFor(k) = {} => pos = NoPosition
       /\ BookedFor(k) # {} => \E low, high \in BookedFor(k) :
            tape[low].price * a <= b /\ b <= tape[high].price * a
  BY <1>14, <1>16, <1>20 DEF PositionsInv, PositionsAddUp
<1>24. a + q > 0 /\ a + q = SumOver(Q, BookedFor(k) \cup {n})
  BY <1>17, <1>19, <1>22, <1>23
<1>25. \E low, high \in BookedFor(k) \cup {n} :
         /\ tape[low].price * (a + q) <= position'[k].value
         /\ position'[k].value <= tape[high].price * (a + q)
  <2>1. CASE BookedFor(k) = {}
    <3>1. a = 0 /\ b = 0
      <4>1. NoPosition.quantity = 0 /\ NoPosition.value = 0
        BY DEF NoPosition
      <4>2. QED
        BY <1>16, <1>23, <2>1, <4>1
    <3>2. position'[k].value = p * (a + q)
      BY <1>18, <3>1
    <3>3. p * (a + q) \in Int /\ tape[n].price = p
      BY <1>13, <1>17
    <3>4. QED
      BY <3>2, <3>3
  <2>2. CASE BookedFor(k) # {}
    <3>1. PICK low \in BookedFor(k), high \in BookedFor(k) :
            tape[low].price * a <= b /\ b <= tape[high].price * a
      BY <1>23, <2>2
    <3>2. PICK l \in Int, h \in Int : l = tape[low].price /\ h = tape[high].price
      BY <1>1, <1>9, <1>21
    <3>3. l * a <= b /\ b <= h * a
      BY <3>1, <3>2
    <3>4. PICK v : v = IF b = 0 THEN p * (a + q) ELSE b + p * q
      OBVIOUS
    <3>5. /\ l * (a + q) <= v \/ p * (a + q) <= v
          /\ v <= h * (a + q) \/ v <= p * (a + q)
      BY <3>3, <3>4, StaysBetween
    <3>6. position'[k].value = v /\ tape[n].price = p
      BY <1>13, <1>17, <1>18, <3>4
    <3>7. PICK x \in {low, n} : tape[x].price * (a + q) <= v
      BY <3>2, <3>5, <3>6
    <3>8. PICK y \in {high, n} : v <= tape[y].price * (a + q)
      BY <3>2, <3>5, <3>6
    <3>9. QED
      BY <3>6, <3>7, <3>8
  <2>3. QED
    BY <2>1, <2>2
<1>26. /\ Traded(BookedFor(k))' = SumOver(Q, BookedFor(k) \cup {n})
       /\ BookedFor(k)' # {}
  BY <1>2, <1>10 DEF Traded, Q
<1>27. PositionsAddUp'
  <2> SUFFICES ASSUME NEW h \in Holders
               PROVE  /\ position'[h].quantity = Traded(BookedFor(h))'
                      /\ BookedFor(h)' = {} => position'[h] = NoPosition
                      /\ BookedFor(h)' # {} => \E low, high \in BookedFor(h)' :
                           /\ tape'[low].price * position'[h].quantity <= position'[h].value
                           /\ position'[h].value <= tape'[high].price * position'[h].quantity
    BY DEF PositionsAddUp
  <2>1. CASE h = k
    BY <1>2, <1>10, <1>18, <1>24, <1>25, <1>26, <2>1
  <2>2. CASE h # k
    <3>1. /\ Traded(BookedFor(h))' = Traded(BookedFor(h))
          /\ BookedFor(h)' = BookedFor(h) /\ position'[h] = position[h]
      BY <1>2, <1>11, <1>15, <2>2 DEF Traded
    <3>2. QED
      BY <1>2, <3>1 DEF PositionsInv, PositionsAddUp
  <2>3. QED
    BY <2>1, <2>2
<1>28. ASSUME NEW h \in Holders, BookedFor(h)' # {}
       PROVE  position'[h].quantity > 0
  <2>1. CASE h = k
    BY <1>18, <1>24, <2>1
  <2>2. CASE h # k
    BY <1>11, <1>15, <1>28, <2>2 DEF PositionsInv
  <2>3. QED
    BY <2>1, <2>2
<1>29. QED
  BY <1>27, <1>28 DEF PositionsInv

\* A holder's position is what the orders naming it have traded as takers, at an entry
\* price between the lowest and the highest of those trades, for prices of either sign
\* and whatever averages of 0 were replaced on the way.
THEOREM FuturesPositions == Spec => []PositionsAddUp
<1>1. Init => PositionsInv
  <2> SUFFICES ASSUME Init PROVE PositionsInv
    OBVIOUS
  <2>1. \A h \in Holders : BookedFor(h) = {} /\ position[h] = NoPosition
    BY DEF Init, BookedFor
  <2>2. \A v : SumOver(v, {}) = 0
    BY SumOverNothing
  <2>3. Traded({}) = 0 /\ NoPosition.quantity = 0
    BY <2>2 DEF Traded, NoPosition
  <2>4. QED
    BY <2>1, <2>3 DEF PositionsInv, PositionsAddUp
<1>2. FInv /\ PositionsInv /\ [Next]_vars => PositionsInv'
  <2> SUFFICES ASSUME FInv, PositionsInv, [Next]_vars PROVE PositionsInv'
    OBVIOUS
  <2>1. FuturesAssumption
    BY FuturesAssumption
  <2>2. FInv'
    BY <2>1, FNext
  <2>3. CASE UpdatePosition
    BY <2>1, <2>3, PositionsGrow
  <2>4. CASE Trade
    <3>1. UNCHANGED <<request, booked, position>>
      BY <2>4 DEF Trade
    <3>2. PICK t : tape' = Append(tape, t)
      BY <2>4 DEF Trade
    <3>3. /\ tape \in Seq(TradeRecord) /\ booked \in Nat /\ booked <= Len(tape) /\ Len(tape) \in Nat
      BY <2>1, BookedFacts DEF FInv, KindsOK
    <3>4. \A i \in 1..booked : i \in 1..Len(tape)
      BY <3>3
    <3>5. \A i \in 1..booked : tape'[i] = tape[i]
      BY <3>2, <3>3, <3>4
    <3>6. QED
      BY <2>1, <2>2, <3>1, <3>5, PositionsSame
  <2>5. CASE ~UpdatePosition /\ ~Trade
    <3>1. UNCHANGED <<request, booked, position, tape>>
      BY <2>5 DEF Next, EngineStep, Work, Accept, TimeOut, RefuseStopped, SendOnClosed, Submit,
                  TakeOrder, EnterLevel, EndMatch, LeaveLevel, OfferTrade, Return,
                  RejectMarket, Forget, Rest, Receive, Cancel, Exit, Close, Advance, vars
    <3>2. QED
      BY <2>1, <2>2, <3>1, PositionsSame
  <2>6. QED
    BY <2>3, <2>4, <2>5
<1>3. PositionsInv => PositionsAddUp
  BY DEF PositionsInv
<1>4. QED
  BY <1>1, <1>2, <1>3, FuturesInvariance, PTL DEF Spec

-----------------------------------------------------------------------------
(* What the clients are promised *)

\* Where an order stands, case by case; the promise has left of it what the engine has.
FateTable ==
    \A o \in Orders :
        /\ Promised!Left(o) = Remaining(o)
        /\ o \notin processed => Fate(o) = "New"
        /\ o = taker => Fate(o) = "Matching"
        /\ Open(o) <=> Fate(o) = "Open"
        /\ o \in processed /\ o # taker /\ IsDone(o) => Fate(o) = "Filled"
        /\ order[o].status = "Rejected" => Fate(o) = "Rejected"
        /\ /\ o \in processed /\ o # taker /\ ~IsDone(o)
           /\ request[o].type = "Market" /\ order[o].status # "Rejected"
           => Fate(o) = "Dropped"

\* No two of the cases overlap.
LEMMA FateTableHolds == FuturesAssumption /\ FInv => FateTable
<1> SUFFICES ASSUME FuturesAssumption, FInv, NEW o \in Orders
             PROVE  /\ Promised!Left(o) = Remaining(o)
                    /\ o \notin processed => Fate(o) = "New"
                    /\ o = taker => Fate(o) = "Matching"
                    /\ Open(o) <=> Fate(o) = "Open"
                    /\ o \in processed /\ o # taker /\ IsDone(o) => Fate(o) = "Filled"
                    /\ order[o].status = "Rejected" => Fate(o) = "Rejected"
                    /\ /\ o \in processed /\ o # taker /\ ~IsDone(o)
                       /\ request[o].type = "Market" /\ order[o].status # "Rejected"
                       => Fate(o) = "Dropped"
  BY DEF FateTable
<1>1. TypeOK /\ OrdersInv /\ KindsOK
  BY DEF FInv, KindsOK
<1>2. /\ taker \in Orders => taker \in processed
      /\ Open(o) <=> o \in processed /\ o # taker /\ request[o].type = "Limit" /\ ~IsDone(o)
  BY <1>1 DEF KindsOK, FuturesAssumption, Open
<1>3. order[o].status = "Rejected" =>
        o \in processed /\ o # taker /\ ~IsDone(o) /\ request[o].type = "Market"
  <2>1. order[o].filled = 0 => ~IsDone(o)
    BY <1>1, RequestType DEF OrdersInv
  <2>2. QED
    BY <1>1, <2>1 DEF OrdersInv
<1>4. o \notin processed => Fate(o) = "New"
  <2>1. o \notin processed => ~IsDone(o) /\ o # taker
    BY <1>1, <1>2 DEF OrdersInv, NewOrder, IsDone
  <2>2. QED
    BY <1>2, <1>3, <2>1 DEF Fate
<1>5. o = taker => Fate(o) = "Matching"
  BY <1>2, <1>3 DEF Fate
<1>6. Open(o) <=> Fate(o) = "Open"
  BY <1>2, <1>3 DEF Fate
<1>7. o \in processed /\ o # taker /\ IsDone(o) => Fate(o) = "Filled"
  BY <1>2, <1>3 DEF Fate
<1>8. order[o].status = "Rejected" => Fate(o) = "Rejected"
  BY <1>2, <1>3 DEF Fate
<1>9. /\ o \in processed /\ o # taker /\ ~IsDone(o)
      /\ request[o].type = "Market" /\ order[o].status # "Rejected"
      => Fate(o) = "Dropped"
  BY <1>2, <1>3 DEF Fate
<1>10. Promised!Left(o) = Remaining(o)
  BY DEF Promised!Left, Remaining
<1>11. QED
  BY <1>4, <1>5, <1>6, <1>7, <1>8, <1>9, <1>10

\* a is listed before b in one level.
Before(a, b) ==
    \E s \in Sides, p \in Prices : \E i, j \in 1..Len(queue[s][p]) :
        i < j /\ queue[s][p][i] = a /\ queue[s][p][j] = b

LEMMA BeforePairs ==
    /\ RestedBefore = {pair \in Orders \X Orders :
                            Open(pair[1]) /\ Open(pair[2]) /\ Before(pair[1], pair[2])}
    /\ RestedBefore' = {pair \in Orders \X Orders :
                            Open(pair[1])' /\ Open(pair[2])' /\ Before(pair[1], pair[2])'}
<1>1. RestedBefore = {pair \in Orders \X Orders :
                            Open(pair[1]) /\ Open(pair[2]) /\ Before(pair[1], pair[2])}
  BY DEF RestedBefore, Before
<1>2. RestedBefore' = {pair \in Orders \X Orders :
                            Open(pair[1])' /\ Open(pair[2])' /\ Before(pair[1], pair[2])'}
  BY DEF RestedBefore, Before
<1>3. QED
  BY <1>1, <1>2

\* Callers, channels, positions and the engine's way through its loops are not seen.
LEMMA UnseenSteps ==
    ASSUME FuturesAssumption, FInv,
           \/ \E o \in Orders : Accept(o) \/ TimeOut(o) \/ RefuseStopped(o) \/ SendOnClosed(o)
           \/ OfferTrade \/ UpdatePosition \/ Receive \/ Cancel \/ Exit \/ Close
           \/ EnterLevel \/ EndMatch \/ LeaveLevel \/ UNCHANGED vars
    PROVE  UNCHANGED Promised!abstractVars
<1>1. UNCHANGED <<request, order, processed, queue, taker>>
  <2>1. CASE LeaveLevel
    BY <2>1, DeletedLevel DEF LeaveLevel
  <2>2. CASE ~LeaveLevel
    BY <2>2 DEF Accept, TimeOut, RefuseStopped, SendOnClosed, Submit, OfferTrade,
                UpdatePosition, Receive, Cancel, Exit, Close, Advance, EnterLevel, EndMatch,
                vars, bookVars
  <2>3. QED
    BY <2>1, <2>2
<1>2. \A o \in Orders : Fate(o)' = Fate(o) /\ order'[o].filled = order[o].filled
  BY <1>1 DEF Fate, Open, IsDone
<1>3. RestedBefore' = RestedBefore
  BY <1>1 DEF RestedBefore, Open, IsDone
<1>4. QED
  BY <1>1, <1>2, <1>3 DEF Promised!abstractVars

\* The engine takes an order.
LEMMA TakeOrderMaps ==
    ASSUME FuturesAssumption, FInv, FateTable, FateTable', TakeOrder
    PROVE  \E o \in Orders : Promised!Arrive(o)
<1>1. /\ taker = NoOrder /\ orderCh # <<>> /\ orderCh \in Seq(Orders) /\ Len(orderCh) \in Nat
      /\ UNCHANGED <<request, order, queue>>
      /\ taker' = Head(orderCh) /\ processed' = processed \cup {taker'}
  BY DEF TakeOrder, FInv, KindsOK, TypeOK, bookVars
<1>2. PICK t \in Orders : t = Head(orderCh) /\ t = orderCh[1] /\ 1 \in 1..Len(orderCh)
  BY <1>1
<1>3. /\ t \notin processed /\ taker' = t /\ processed' = processed \cup {t}
      /\ t # NoOrder /\ NoOrder \notin processed
  BY <1>1, <1>2 DEF FInv, FlowInv, KindsOK, FuturesAssumption
<1>4. \A x \in Orders : Open(x)' = Open(x) /\ order'[x].filled = order[x].filled
  BY <1>1, <1>3 DEF Open, IsDone
<1>5. Fate(t) = "New" /\ Fate(t)' = "Matching"
  BY <1>3 DEF FateTable
<1>6. \A x \in Orders : x # t => Fate(x)' = Fate(x)
  BY <1>1, <1>3, <1>4 DEF Fate, IsDone, FuturesAssumption
<1>7. RestedBefore' = RestedBefore
  <2>1. queue' = queue
    BY <1>1
  <2>2. QED
    BY <1>4, <2>1 DEF RestedBefore
<1>8. /\ [o \in Orders |-> Fate(o)]' = [[o \in Orders |-> Fate(o)] EXCEPT ![t] = "Matching"]
      /\ [o \in Orders |-> order[o].filled]' = [o \in Orders |-> order[o].filled]
      /\ [o \in Orders |-> Fate(o)][t] = "New"
  BY <1>4, <1>5, <1>6
<1>9. Promised!Arrive(t)
  BY <1>1, <1>3, <1>7, <1>8 DEF Promised!Arrive
<1>10. QED
  BY <1>9

\* A trade is as large as the two orders allow and with the first order of its level.
LEMMA TradeMaps ==
    ASSUME FuturesAssumption, FInv, FateTable, FateTable', Trade
    PROVE  \E o \in Orders : Promised!Trade(o)
<1>1. TypeOK /\ KindsOK /\ OrdersInv /\ BookInv /\ LoopInv
  BY DEF FInv, KindsOK
<1>2. PICK m \in Orders, lot \in Nat : TradeWith(m, lot)
  BY TradeFacts
<1>3. /\ pc = "scan" /\ m # taker /\ Open(m) /\ ~IsDone(taker)
      /\ request[m].side = MakerSide /\ request[m].price = level
      /\ queue[MakerSide][level][1] = m
      /\ lot > 0 /\ lot <= Remaining(taker) /\ lot <= Remaining(m)
      /\ lot = Remaining(taker) \/ lot = Remaining(m)
      /\ UNCHANGED <<request, processed, taker>>
  BY <1>2 DEF TradeWith
<1>4. /\ taker \in Orders /\ MakerSide \in Sides /\ level \in Prices
      /\ \A o \in {taker, m} :
           /\ order'[o].filled = order[o].filled + lot
           /\ IsDone(o)' <=> lot = Remaining(o)
      /\ \A o \in Orders : o \notin {taker, m} =>
           order'[o] = order[o] /\ IsDone(o)' = IsDone(o)
      /\ \A o \in Orders : Open(o)' <=> Open(o) /\ (o = m => lot # Remaining(m))
  BY <1>2, TradeOrders
<1>5. taker # NoOrder /\ taker \in processed /\ m \in processed
  BY <1>3, <1>4, SweepFacts DEF FuturesAssumption, Open
<1>6. /\ Remaining(taker) \in Nat /\ Remaining(m) \in Nat
      /\ Promised!Left(taker) = Remaining(taker) /\ Promised!Left(m) = Remaining(m)
  BY <1>1, <1>4, RemainingType DEF FateTable
<1>7. /\ Promised!Smaller(Promised!Left(taker), Promised!Left(m)) = lot
      /\ Promised!Left(taker) > 0
  BY <1>3, <1>6 DEF Promised!Smaller
<1>8. Promised!MayTrade(taker, m)
  <2>1. Crosses(taker, level) /\ request[taker].side \in Sides
        /\ request[taker].type \in {"Limit", "Market"}
    BY <1>1, <1>3, <1>4, RequestType DEF LoopInv
  <2>2. request[taker].price \in Int /\ level \in Int
    BY <1>1, <1>4, RequestType DEF FuturesAssumption
  <2>3. request[taker].side # request[m].side /\ request[m].price = level
    BY <1>3, <2>1 DEF MakerSide
  <2>4. QED
    BY <2>1, <2>2, <2>3 DEF Crosses, Promised!MayTrade, MakerSide
<1>9. ASSUME NEW o \in Orders PROVE <<o, m>> \notin RestedBefore
  <2> SUFFICES ASSUME <<o, m>> \in RestedBefore PROVE FALSE
    OBVIOUS
  <2>1. Before(o, m)
    BY BeforePairs
  <2>2. PICK s \in Sides, p \in Prices : \E i, j \in 1..Len(queue[s][p]) :
            i < j /\ queue[s][p][i] = o /\ queue[s][p][j] = m
    BY <2>1 DEF Before
  <2>3. PICK i \in 1..Len(queue[s][p]), j \in 1..Len(queue[s][p]) :
            i < j /\ queue[s][p][i] = o /\ queue[s][p][j] = m
    BY <2>2
  <2>4. InPlace(s, p)
    BY <1>1 DEF BookInv
  <2>5. s = MakerSide /\ p = level
    BY <1>3, <2>3, <2>4 DEF InPlace
  <2>6. i < j /\ i >= 1 /\ i \in Int /\ j \in Int /\ 1 \in 1..Len(queue[s][p])
    BY <1>1, <2>3, QueueType
  <2>7. j = 1
    BY <1>3, <2>3, <2>4, <2>5, <2>6 DEF InPlace
  <2>8. QED
    BY <2>6, <2>7
<1>10. ASSUME NEW a \in Orders, NEW b \in Orders,
              lot # Remaining(m) \/ (a # m /\ b # m)
       PROVE  Before(a, b)' <=> Before(a, b)
  <2>1. ASSUME NEW s \in Sides, NEW p \in Prices
        PROVE  (\E i, j \in 1..Len(queue'[s][p]) :
                    i < j /\ queue'[s][p][i] = a /\ queue'[s][p][j] = b)
               <=> (\E i, j \in 1..Len(queue[s][p]) :
                    i < j /\ queue[s][p][i] = a /\ queue[s][p][j] = b)
    <3>1. CASE ~(s = MakerSide /\ p = level) \/ lot # Remaining(m)
      <4>1. queue'[s][p] = queue[s][p]
        BY <1>2, <3>1, TradeLevel
      <4>2. QED
        BY <4>1
    <3>2. CASE s = MakerSide /\ p = level /\ lot = Remaining(m)
      <4>1. PICK q : q = queue[s][p]
        OBVIOUS
      <4>2. PICK r : r = queue'[s][p]
        OBVIOUS
      <4>3. /\ Len(q) \in Nat /\ Len(r) = Len(q) - 1
            /\ \A j \in 1..Len(r) : j + 1 \in 1..Len(q) /\ r[j] = q[j + 1]
            /\ q[1] = m
        BY <1>2, <1>3, <3>2, <4>1, <4>2, TradeLevel
      <4>4. PICK n \in Nat : n = Len(q)
        BY <4>3
      <4>5. ASSUME NEW i \in 1..Len(r), NEW j \in 1..Len(r), i < j, r[i] = a, r[j] = b
            PROVE  \E k, l \in 1..Len(q) : k < l /\ q[k] = a /\ q[l] = b
        <5>1. i + 1 \in 1..Len(q) /\ j + 1 \in 1..Len(q) /\ q[i + 1] = a /\ q[j + 1] = b
          BY <4>3, <4>5
        <5>2. i + 1 < j + 1
          BY <4>3, <4>5
        <5>3. QED
          BY <5>1, <5>2
      <4>6. ASSUME NEW k \in 1..Len(q), NEW l \in 1..Len(q), k < l, q[k] = a, q[l] = b
            PROVE  \E i, j \in 1..Len(r) : i < j /\ r[i] = a /\ r[j] = b
        <5>1. k # 1 /\ l # 1
          BY <1>10, <3>2, <4>3, <4>6
        <5>2. PICK i \in 1..(n - 1) : i + 1 = k
          <6>1. k - 1 \in 1..(n - 1) /\ (k - 1) + 1 = k
            BY <4>4, <5>1
          <6>2. QED
            BY <6>1
        <5>3. PICK j \in 1..(n - 1) : j + 1 = l
          <6>1. l - 1 \in 1..(n - 1) /\ (l - 1) + 1 = l
            BY <4>4, <5>1
          <6>2. QED
            BY <6>1
        <5>4. i < j
          BY <4>6, <5>2, <5>3
        <5>5. i \in 1..Len(r) /\ j \in 1..Len(r)
          BY <4>3, <4>4, <5>2, <5>3
        <5>6. r[i] = a /\ r[j] = b
          BY <4>3, <4>6, <5>2, <5>3, <5>5
        <5>7. QED
          BY <5>4, <5>5, <5>6
      <4>7. QED
        BY <4>1, <4>2, <4>5, <4>6
    <3>3. QED
      BY <3>1, <3>2
  <2>2. QED
    BY <2>1 DEF Before
<1>11. RestedBefore' = {pair \in RestedBefore : Promised!Left(m) # lot \/ m \notin {pair[1], pair[2]}}
  <2>1. ASSUME NEW a \in Orders, NEW b \in Orders
        PROVE  (Open(a)' /\ Open(b)' /\ Before(a, b)')
               <=> /\ Open(a) /\ Open(b) /\ Before(a, b)
                   /\ Remaining(m) # lot \/ m \notin {a, b}
    BY <1>4, <1>10
  <2>2. QED
    BY <1>6, <2>1, BeforePairs
<1>12. ASSUME NEW o \in Orders, o # m PROVE Fate(o)' = Fate(o)
  <2>1. CASE o = taker
    BY <1>3, <2>1 DEF FateTable
  <2>2. CASE o # taker
    <3>1. order'[o] = order[o] /\ (IsDone(o)' <=> IsDone(o)) /\ (Open(o)' <=> Open(o))
      BY <1>4, <1>12, <2>2
    <3>2. QED
      BY <1>3, <3>1 DEF Fate
  <2>3. QED
    BY <2>1, <2>2
<1>13. Fate(m) = "Open" /\ Fate(m)' = IF Remaining(m) = lot THEN "Filled" ELSE "Open"
  <2>1. Fate(m) = "Open"
    BY <1>3 DEF FateTable
  <2>2. CASE Remaining(m) = lot
    BY <1>3, <1>4, <1>5, <2>1, <2>2 DEF FateTable
  <2>3. CASE Remaining(m) # lot
    BY <1>3, <1>4, <2>1, <2>3 DEF FateTable
  <2>4. QED
    BY <2>1, <2>2, <2>3
<1>14. [o \in Orders |-> order[o].filled]' =
         [o \in Orders |-> IF o \in {taker, m}
                           THEN [x \in Orders |-> order[x].filled][o] + lot
                           ELSE [x \in Orders |-> order[x].filled][o]]
  BY <1>4
<1>15. [o \in Orders |-> Fate(o)]' =
         [[o \in Orders |-> Fate(o)] EXCEPT ![m] = IF Promised!Left(m) = lot THEN "Filled" ELSE @]
  BY <1>6, <1>12, <1>13
<1>16. [o \in Orders |-> Fate(o)][m] = "Open"
  BY <1>13
<1>17. Promised!Trade(m)
  BY <1>3, <1>5, <1>7, <1>8, <1>9, <1>11, <1>14, <1>15, <1>16 DEF Promised!Trade
<1>18. QED
  BY <1>17

\* The rest of a limit order joins the end of its level, behind every open order
\* like it.
LEMMA RestMaps ==
    ASSUME FuturesAssumption, FInv, FInv', FateTable, FateTable', Rest
    PROVE  Promised!Rest
<1>1. TypeOK /\ OrdersInv /\ BookInv /\ BookInv'
  BY DEF FInv, KindsOK
<1>2. /\ UNCHANGED <<request, order, processed>>
      /\ pc = "matched" /\ pc' = "idle" /\ taker' = NoOrder
      /\ request[taker].type = "Limit" /\ ~IsDone(taker)
  BY DEF Rest, Return
<1>3. PICK t \in Orders : t = taker /\ t \in processed /\ t # NoOrder /\ NoOrder \notin processed
  BY <1>2, SweepFacts DEF FInv, KindsOK, FuturesAssumption
<1>4. PICK side \in Sides, price \in Prices : side = request[t].side /\ price = request[t].price
  BY <1>1, <1>2, <1>3, RequestType
<1>5. queue' = [queue EXCEPT ![side][price] = Append(@, t)] /\ queue \in [Sides -> [Prices -> Seq(Orders)]]
  BY <1>1, <1>3, <1>4 DEF Rest, AddOrder, TypeOK
<1>6. Promised!Left(t) > 0
  BY <1>1, <1>2, <1>3, RemainingType DEF FateTable
<1>7. ASSUME NEW o \in Orders PROVE Open(o)' <=> Open(o) \/ o = t
  BY <1>2, <1>3 DEF Open, IsDone
<1>8. Fate(t)' = "Open"
  BY <1>7 DEF FateTable
<1>9. ASSUME NEW o \in Orders, o # t PROVE Fate(o)' = Fate(o)
  BY <1>2, <1>3, <1>7, <1>9 DEF Fate, IsDone, FuturesAssumption
<1>10. \A s \in Sides, p \in Prices : ~(s = side /\ p = price) => queue'[s][p] = queue[s][p]
  BY <1>5
<1>11. PICK q \in Seq(Orders) : q = queue[side][price]
  BY <1>5
<1>12. PICK r : r = queue'[side][price]
  OBVIOUS
<1>13. PICK n \in Nat : n = Len(q)
  OBVIOUS
<1>14. r = Append(q, t)
  BY <1>5, <1>11, <1>12
<1>15. /\ Len(r) = n + 1 /\ r[n + 1] = t
       /\ \A i \in 1..n : r[i] = q[i]
  BY <1>13, <1>14
<1>16. \A i \in 1..n : Open(q[i]) /\ q[i] # t /\ request[q[i]].side = side /\ request[q[i]].price = price
  <2>1. InPlace(side, price)
    BY <1>1 DEF BookInv
  <2>2. QED
    BY <1>3, <1>11, <1>13, <2>1 DEF InPlace, Open
<1>17. \A i \in 1..(n + 1) : i \in 1..n \/ i = n + 1
  OBVIOUS
<1>18. n + 1 \in 1..(n + 1) /\ \A i \in 1..n : i \in 1..(n + 1) /\ i < n + 1
  OBVIOUS
<1>19. ASSUME NEW a \in Orders, NEW b \in Orders, Open(a), Open(b)
       PROVE  Before(a, b)' <=> Before(a, b)
  <2>1. a # t /\ b # t
    BY <1>3, <1>19 DEF Open
  <2>2. ASSUME NEW s \in Sides, NEW p \in Prices
        PROVE  (\E i, j \in 1..Len(queue'[s][p]) :
                    i < j /\ queue'[s][p][i] = a /\ queue'[s][p][j] = b)
               <=> (\E i, j \in 1..Len(queue[s][p]) :
                    i < j /\ queue[s][p][i] = a /\ queue[s][p][j] = b)
    <3>1. CASE s = side /\ p = price
      <4>1. (\E i, j \in 1..(n + 1) : i < j /\ r[i] = a /\ r[j] = b)
            <=> (\E i, j \in 1..n : i < j /\ q[i] = a /\ q[j] = b)
        BY <1>15, <1>17, <1>18, <2>1
      <4>2. queue[s][p] = q /\ queue'[s][p] = r /\ Len(q) = n /\ Len(r) = n + 1
        BY <1>11, <1>12, <1>13, <1>15, <3>1
      <4>3. QED
        BY <4>1, <4>2
    <3>2. CASE ~(s = side /\ p = price)
      <4>1. queue'[s][p] = queue[s][p]
        BY <1>10, <3>2
      <4>2. QED
        BY <4>1
    <3>3. QED
      BY <3>1, <3>2
  <2>3. QED
    BY <2>2 DEF Before
<1>20. ASSUME NEW a \in Orders, Open(a)
       PROVE  Before(a, t)' <=> Promised!Alike(a, t)
  <2>1. ASSUME Promised!Alike(a, t) PROVE Before(a, t)'
    <3>1. request[a].side = side /\ request[a].price = price
      BY <1>4, <2>1 DEF Promised!Alike
    <3>2. PICK i \in 1..n : q[i] = a
      BY <1>1, <1>11, <1>13, <1>20, <3>1 DEF BookInv
    <3>3. i \in 1..(n + 1) /\ i < n + 1 /\ r[i] = a /\ r[n + 1] = t /\ n + 1 \in 1..(n + 1)
      BY <1>15, <1>18, <3>2
    <3>4. i \in 1..Len(queue'[side][price]) /\ n + 1 \in 1..Len(queue'[side][price])
      BY <1>12, <1>15, <3>3
    <3>5. QED
      BY <1>12, <3>3, <3>4 DEF Before
  <2>2. ASSUME Before(a, t)' PROVE Promised!Alike(a, t)
    <3>1. PICK s \in Sides, p \in Prices : \E i, j \in 1..Len(queue'[s][p]) :
              i < j /\ queue'[s][p][i] = a /\ queue'[s][p][j] = t
      BY <2>2 DEF Before
    <3>2. PICK i \in 1..Len(queue'[s][p]), j \in 1..Len(queue'[s][p]) :
              queue'[s][p][i] = a /\ queue'[s][p][j] = t
      BY <3>1
    <3>3. InPlace(s, p)'
      BY <1>1 DEF BookInv
    <3>4. request[a].side = s /\ request[a].price = p /\ request[t].side = s /\ request[t].price = p
      BY <1>2, <3>2, <3>3 DEF InPlace
    <3>5. QED
      BY <3>4 DEF Promised!Alike
  <2>3. QED
    BY <2>1, <2>2
<1>21. ASSUME NEW b \in Orders PROVE ~Before(t, b)'
  <2> SUFFICES ASSUME Before(t, b)' PROVE FALSE
    OBVIOUS
  <2>1. PICK s \in Sides, p \in Prices : \E i, j \in 1..Len(queue'[s][p]) :
            i < j /\ queue'[s][p][i] = t /\ queue'[s][p][j] = b
    BY DEF Before
  <2>2. PICK i \in 1..Len(queue'[s][p]), j \in 1..Len(queue'[s][p]) :
            i < j /\ queue'[s][p][i] = t /\ queue'[s][p][j] = b
    BY <2>1
  <2>3. InPlace(s, p)'
    BY <1>1 DEF BookInv
  <2>4. s = side /\ p = price
    BY <1>2, <1>4, <2>2, <2>3 DEF InPlace
  <2>5. i \in 1..(n + 1) /\ j \in 1..(n + 1) /\ r[i] = t /\ i < j
    BY <1>12, <1>15, <2>2, <2>4
  <2>6. i = n + 1
    BY <1>15, <1>16, <1>17, <2>5
  <2>7. QED
    BY <2>5, <2>6
<1>22. Promised!OpenOrders = {o \in Orders : Open(o)}
  <2>1. \A o \in Orders : [x \in Orders |-> Fate(x)][o] = "Open" <=> Open(o)
    BY DEF FateTable
  <2>2. QED
    BY <2>1 DEF Promised!OpenOrders
<1> DEFINE group == {m \in Promised!OpenOrders : Promised!Alike(m, t)}
<1>23. RestedBefore' = RestedBefore \cup (group \X {t})
  <2>1. ASSUME NEW a \in Orders, NEW b \in Orders
        PROVE  (Open(a)' /\ Open(b)' /\ Before(a, b)')
               <=> \/ Open(a) /\ Open(b) /\ Before(a, b)
                   \/ Open(a) /\ b = t /\ Promised!Alike(a, t)
    <3>1. ~Open(t)
      BY <1>3 DEF Open
    <3>2. CASE Open(a) /\ Open(b)
      BY <1>7, <1>19, <3>1, <3>2
    <3>3. CASE Open(a) /\ b = t
      BY <1>7, <1>20, <3>1, <3>3
    <3>4. CASE a = t
      BY <1>21, <3>1, <3>4
    <3>5. QED
      BY <1>7, <3>2, <3>3, <3>4
  <2>2. QED
    BY <1>22, <2>1, BeforePairs
<1>24. /\ [o \in Orders |-> Fate(o)]' = [[o \in Orders |-> Fate(o)] EXCEPT ![t] = "Open"]
       /\ [o \in Orders |-> order[o].filled]' = [o \in Orders |-> order[o].filled]
  BY <1>2, <1>8, <1>9
<1>25. \A m \in group : m \in Orders /\ Open(m) /\ request[m].side = side /\ request[m].price = price
  BY <1>4, <1>22 DEF Promised!Alike
<1>26. group \in SUBSET {m \in Promised!OpenOrders : Promised!Close(m, t)}
  <2>1. \A m \in group : Promised!Close(m, t)
    <3>1. price \in Int /\ price - price = 0 /\ 0 <= 2 * 0
      BY DEF FuturesAssumption, FInv, KindsOK
    <3>2. QED
      BY <1>4, <1>25, <3>1 DEF Promised!Close
  <2>2. QED
    BY <2>1
<1>27. Promised!IsQueue(group)
  <2>1. ASSUME NEW a \in group, NEW b \in group
        PROVE  a = b \/ <<a, b>> \in RestedBefore \/ <<b, a>> \in RestedBefore
    <3>1. PICK i \in 1..n, j \in 1..n : q[i] = a /\ q[j] = b
      <4>1. ASSUME NEW m \in group PROVE \E x \in 1..n : q[x] = m
        <5>1. Open(m) /\ m \in Orders /\ queue[request[m].side][request[m].price] = q
          BY <1>11, <1>25
        <5>2. QED
          BY <1>1, <1>13, <5>1 DEF BookInv
      <4>2. QED
        BY <4>1
    <3>2. i \in 1..Len(queue[side][price]) /\ j \in 1..Len(queue[side][price])
      BY <1>11, <1>13
    <3>3. i = j \/ i < j \/ j < i
      OBVIOUS
    <3>4. a = b \/ Before(a, b) \/ Before(b, a)
      BY <1>11, <3>1, <3>2, <3>3 DEF Before
    <3>5. QED
      BY <1>25, <3>4, BeforePairs
  <2>2. ASSUME NEW pair \in RestedBefore PROVE pair[1] \in group <=> pair[2] \in group
    <3>1. PICK a \in Orders, b \in Orders : pair = <<a, b>> /\ Open(a) /\ Open(b) /\ Before(a, b)
      BY <2>2, BeforePairs
    <3>2. PICK s \in Sides, p \in Prices : \E i, j \in 1..Len(queue[s][p]) :
              i < j /\ queue[s][p][i] = a /\ queue[s][p][j] = b
      BY <3>1 DEF Before
    <3>3. InPlace(s, p)
      BY <1>1 DEF BookInv
    <3>4. request[a].side = s /\ request[a].price = p /\ request[b].side = s /\ request[b].price = p
      BY <3>2, <3>3 DEF InPlace
    <3>5. a \in group <=> b \in group
      BY <1>22, <3>1, <3>4 DEF Promised!Alike
    <3>6. QED
      BY <3>1, <3>5
  <2>3. QED
    BY <2>1, <2>2 DEF Promised!IsQueue
<1>28. group = {} => \A m \in Promised!OpenOrders : ~Promised!Alike(m, t)
  OBVIOUS
<1> HIDE DEF group
<1>29. QED
  BY <1>2, <1>3, <1>6, <1>23, <1>24, <1>26, <1>27, <1>28 DEF Promised!Rest

\* An order that does not rest is over.
LEMMA DropMaps ==
    ASSUME FuturesAssumption, FInv, FateTable, FateTable', RejectMarket \/ Forget
    PROVE  Promised!Finish
<1>1. TypeOK /\ OrdersInv /\ TapeInv
  BY DEF FInv, KindsOK
<1>2. /\ UNCHANGED <<request, processed, queue, tape>>
      /\ pc = "matched" /\ taker' = NoOrder
      /\ request[taker].type = "Market" \/ IsDone(taker)
  BY DEF RejectMarket, Forget, Return, bookVars
<1>3. PICK t \in Orders : t = taker /\ t \in processed /\ t # NoOrder /\ NoOrder \notin processed
  BY <1>2, SweepFacts DEF FInv, KindsOK, FuturesAssumption
<1>4. order[t].filled \in Nat /\ request[t].type \in {"Limit", "Market"}
  BY <1>1, RemainingType, RequestType
<1>5. \/ order' = order
      \/ /\ request[t].type = "Market" /\ order[t].filled = 0
         /\ order' = [order EXCEPT ![t].status = "Rejected"]
  <2>1. CASE RejectMarket
    BY <1>1, <1>2, <1>3, <1>4, <2>1 DEF RejectMarket, TapeInv
  <2>2. CASE Forget
    BY <2>2 DEF Forget
  <2>3. QED
    BY <2>1, <2>2
<1>6. \A o \in Orders : /\ order'[o].filled = order[o].filled
                        /\ order'[o].done = order[o].done
                        /\ o # t => order'[o] = order[o]
  <2>1. CASE order' = order
    BY <2>1
  <2>2. CASE order' = [order EXCEPT ![t].status = "Rejected"]
    <3>1. PICK x : x = [order[t] EXCEPT !.status = "Rejected"]
      OBVIOUS
    <3>2. order[t] \in [filled : Nat, value : Int, done : BOOLEAN,
                        status : {"New", "PartiallyFilled", "Filled", "Rejected"}]
      BY <1>1 DEF TypeOK
    <3>3. x.filled = order[t].filled /\ x.done = order[t].done
      BY <3>1, <3>2
    <3>4. order' = [order EXCEPT ![t] = x] /\ DOMAIN order = Orders
      BY <1>1, <2>2, <3>1 DEF TypeOK
    <3>5. QED
      BY <3>3, <3>4
  <2>3. QED
    BY <1>5, <2>1, <2>2
<1>7. ASSUME NEW o \in Orders PROVE Open(o)' <=> Open(o)
  BY <1>2, <1>3, <1>4, <1>6 DEF Open, IsDone
<1>8. ASSUME NEW o \in Orders, o # t PROVE Fate(o)' = Fate(o)
  <2>1. o # taker /\ o # taker'
    BY <1>2, <1>3, <1>8 DEF FuturesAssumption
  <2>2. order'[o] = order[o] /\ (Open(o)' <=> Open(o))
    BY <1>6, <1>7, <1>8
  <2>3. QED
    BY <1>2, <2>1, <2>2 DEF Fate, IsDone
<1>9. RestedBefore' = RestedBefore
  <2>1. \A a, b : Before(a, b)' <=> Before(a, b)
    BY <1>2 DEF Before
  <2>2. QED
    BY <1>7, <2>1, BeforePairs
<1>10. /\ Promised!Left(t) = Remaining(t) /\ Remaining(t) \in Nat
       /\ IsDone(t) <=> Remaining(t) = 0
       /\ t \in processed' /\ t # taker' /\ IsDone(t)' = IsDone(t)
       /\ [o \in Orders |-> order[o].filled][t] = order[t].filled
       /\ [o \in Orders |-> order[o].filled]' = [o \in Orders |-> order[o].filled]
  BY <1>1, <1>2, <1>3, <1>6, RemainingType DEF FateTable, IsDone
<1>11. CASE IsDone(t)
  <2>1. Fate(t)' = "Filled"
    BY <1>10, <1>11 DEF FateTable
  <2>2. [o \in Orders |-> Fate(o)]' = [[o \in Orders |-> Fate(o)] EXCEPT ![t] = "Filled"]
    BY <1>8, <2>1
  <2>3. QED
    BY <1>2, <1>3, <1>9, <1>10, <1>11, <2>2 DEF Promised!Finish
<1>12. CASE ~IsDone(t)
  <2>1. request[t].type = "Market" /\ Promised!Left(t) > 0
    BY <1>2, <1>3, <1>10, <1>12
  <2>2. Fate(t)' = IF order[t].filled = 0 THEN "Rejected" ELSE "Dropped"
    <3>1. CASE RejectMarket
      <4>1. order' = [order EXCEPT ![t].status = "Rejected"]
        BY <1>3, <3>1 DEF RejectMarket
      <4>2. order'[t].status = "Rejected"
        BY <1>1, <4>1 DEF TypeOK
      <4>3. order[t].filled = 0
        BY <1>1, <1>2, <1>3, <1>4, <3>1 DEF RejectMarket, TapeInv
      <4>4. QED
        BY <4>2, <4>3 DEF FateTable
    <3>2. CASE Forget
      <4>1. order' = order /\ \E i \in DOMAIN tape : tape[i].taker = t
        BY <1>3, <2>1, <3>2 DEF Forget
      <4>2. order[t].filled > 0
        BY <1>1, <4>1 DEF TapeInv
      <4>3. order'[t].status # "Rejected" /\ request'[t].type = "Market"
        BY <1>1, <1>2, <1>3, <2>1, <4>1 DEF OrdersInv
      <4>4. Fate(t)' = "Dropped"
        BY <1>10, <1>12, <4>3 DEF FateTable
      <4>5. QED
        BY <4>2, <4>4
    <3>3. QED
      BY <3>1, <3>2
  <2>3. [o \in Orders |-> Fate(o)]' =
            [[o \in Orders |-> Fate(o)] EXCEPT
                ![t] = IF order[t].filled = 0 THEN "Rejected" ELSE "Dropped"]
    BY <1>8, <2>2
  <2>4. QED
    BY <1>2, <1>3, <1>9, <1>10, <2>1, <2>3 DEF Promised!Finish
<1>13. QED
  BY <1>11, <1>12

\* Every step is one of Exchange's or is not seen.
LEMMA StepMaps ==
    ASSUME FuturesAssumption, FInv, FInv', FateTable, FateTable', [Next]_vars
    PROVE  [Promised!AbstractNext]_(Promised!abstractVars)
<1>1. CASE \/ \E o \in Orders : Accept(o) \/ TimeOut(o) \/ RefuseStopped(o) \/ SendOnClosed(o)
           \/ OfferTrade \/ UpdatePosition \/ Receive \/ Cancel \/ Exit \/ Close
           \/ EnterLevel \/ EndMatch \/ LeaveLevel \/ UNCHANGED vars
  BY <1>1, UnseenSteps
<1>2. CASE TakeOrder
  BY <1>2, TakeOrderMaps DEF Promised!AbstractNext
<1>3. CASE Trade
  BY <1>3, TradeMaps DEF Promised!AbstractNext
<1>4. CASE Rest
  BY <1>4, RestMaps DEF Promised!AbstractNext
<1>5. CASE RejectMarket \/ Forget
  BY <1>5, DropMaps DEF Promised!AbstractNext
<1>6. QED
  BY <1>1, <1>2, <1>3, <1>4, <1>5 DEF Next, EngineStep, Work

\* The futures engine, with orders removed under the loop that runs over them, its
\* callers, channels and positions, does nothing that the market of module Exchange
\* would not do (KeepsPromise).
THEOREM FuturesKeepsPromise == Spec => KeepsPromise
<1>1. Init => Promised!AbstractInit
  <2> SUFFICES ASSUME Init PROVE Promised!AbstractInit
    OBVIOUS
  <2>1. /\ \A o \in Orders : order[o].filled = 0
        /\ processed = {} /\ taker = NoOrder
    BY DEF Init, NewOrder
  <2>2. FateTable
    BY FuturesAssumption, FInit, FateTableHolds
  <2>3. \A o \in Orders : Fate(o) = "New"
    BY <2>1, <2>2 DEF FateTable
  <2>4. RestedBefore = {}
    BY <2>1 DEF RestedBefore, Open
  <2>5. QED
    BY <2>1, <2>3, <2>4 DEF Promised!AbstractInit
<1>2. FInv => FateTable
  BY FateTableHolds, FuturesAssumption
<1>3. FInv /\ FInv' /\ FateTable /\ FateTable' /\ [Next]_vars
        => [Promised!AbstractNext]_(Promised!abstractVars)
  BY StepMaps, FuturesAssumption
<1>4. QED
  BY <1>1, <1>2, <1>3, FuturesInvariance, PTL DEF Spec, KeepsPromise, Promised!AbstractSpec


-----------------------------------------------------------------------------
(* The loops of Match end *)

\* Who may still trade in the match under way, and what is to be done with the
\* trades it has made: each is offered and then booked.
Unfilled == {o \in processed : ~IsDone(o) /\ (o = taker \/ o \in OpenOn(MakerSide))}
Unsent == (Len(tape) - offered) + (Len(tape) - booked)

\* The most steps the engine may take until it is through with the order it holds:
\* two for each price, and three for each trade, of which each fills someone.
StepsLeft ==
    CASE pc = "idle"    -> 0
      [] pc = "matched" -> 1 + Unsent
      [] pc = "sweep"   -> 2 + Unsent + 2 * Cardinality(todo) + 3 * Cardinality(Unfilled)
      [] pc = "scan"    -> 3 + Unsent + 2 * Cardinality(todo) + 3 * Cardinality(Unfilled)

\* Every step of the engine with the order it holds brings it nearer to the next one.
MatchAdvances == [][Work => StepsLeft' \in Nat /\ StepsLeft' < StepsLeft]_vars

\* The parts of the count are naturals.
LEMMA CountType ==
    ASSUME FuturesAssumption, FInv
    PROVE  /\ Unsent \in Nat
           /\ IsFiniteSet(todo) /\ Cardinality(todo) \in Nat
           /\ IsFiniteSet(Unfilled) /\ Cardinality(Unfilled) \in Nat
<1>1. PICK n \in Nat : n = Len(tape)
  BY DEF FInv, KindsOK
<1>2. offered \in 0..n /\ booked \in 0..n
  BY <1>1 DEF FInv, KindsOK, TypeOK
<1>3. Unsent \in Nat
  BY <1>1, <1>2 DEF Unsent
<1>4. Unfilled \subseteq processed
  BY DEF Unfilled
<1>5. IsFiniteSet(Unfilled) /\ IsFiniteSet(todo)
  BY <1>4, FS_Subset DEF FInv, KindsOK, LoopInv
<1>6. QED
  BY <1>3, <1>5, FS_CardinalityType

\* A level is entered for a price that is struck off todo.
LEMMA EnterAdvances ==
    ASSUME FuturesAssumption, FInv, EnterLevel
    PROVE  StepsLeft' \in Nat /\ StepsLeft' < StepsLeft
<1>1. /\ pc = "sweep" /\ pc' = "scan" /\ todo' = todo \ {level'} /\ level' \in todo
      /\ UNCHANGED <<request, order, processed, tape, offered, booked, taker>>
  BY DEF EnterLevel
<1>2. Unsent' = Unsent /\ Unfilled' = Unfilled
  BY <1>1 DEF Unsent, Unfilled, OpenOn, Open, IsDone, MakerSide
<1>3. PICK u \in Nat, t \in Nat, f \in Nat :
          u = Unsent /\ t = Cardinality(todo) /\ f = Cardinality(Unfilled)
  BY CountType
<1>4. Cardinality(todo') = t - 1 /\ t > 0
  <2>1. IsFiniteSet(todo) /\ todo # {}
    BY <1>1, CountType
  <2>2. Cardinality(todo \ {level'}) = t - 1
    BY <1>1, <1>3, <2>1, FS_RemoveElement
  <2>3. t # 0
    BY <1>3, <2>1, FS_EmptySet
  <2>4. QED
    BY <1>1, <1>3, <2>2, <2>3
<1>5. StepsLeft = 2 + u + 2 * t + 3 * f /\ StepsLeft' = 3 + u + 2 * (t - 1) + 3 * f
  BY <1>1, <1>2, <1>3, <1>4 DEF StepsLeft
<1>6. QED
  BY <1>3, <1>4, <1>5

\* A trade fills the taker or the maker, who then trades no more.
LEMMA TradeAdvances ==
    ASSUME FuturesAssumption, FInv, Trade
    PROVE  StepsLeft' \in Nat /\ StepsLeft' < StepsLeft
<1>1. PICK m \in Orders, lot \in Nat : TradeWith(m, lot)
  BY TradeFacts
<1>2. /\ pc = "scan" /\ pc' = pc /\ taker' = taker
      /\ UNCHANGED <<request, processed, offered, booked, todo>>
      /\ ~IsDone(taker) /\ Open(m) /\ request[m].side = MakerSide
      /\ lot = Remaining(taker) \/ lot = Remaining(m)
      /\ tape' = Append(tape, [taker |-> taker, maker |-> m,
                               price |-> request[m].price, quantity |-> lot])
  BY <1>1 DEF TradeWith
<1>3. /\ taker \in Orders /\ MakerSide' = MakerSide /\ ~IsDone(m)
      /\ \A o \in {taker, m} : IsDone(o)' <=> lot = Remaining(o)
      /\ \A o \in Orders : o \notin {taker, m} => IsDone(o)' = IsDone(o)
      /\ \A o \in Orders : Open(o)' <=> Open(o) /\ (o = m => lot # Remaining(m))
  BY <1>1, TradeOrders
<1>4. taker \in processed /\ m \in processed
  BY <1>2, SweepFacts DEF Open
<1>5. PICK x \in Unfilled : x \notin Unfilled'
  <2>1. taker \in Unfilled /\ m \in Unfilled
    BY <1>2, <1>3, <1>4 DEF Unfilled, OpenOn
  <2>2. PICK x \in {taker, m} : IsDone(x)'
    BY <1>2, <1>3
  <2>3. x \notin Unfilled'
    BY <2>2 DEF Unfilled
  <2>4. QED
    BY <2>1, <2>2, <2>3
<1>6. Unfilled' \subseteq Unfilled
  <2>1. ASSUME NEW o \in Unfilled' PROVE o \in Unfilled
    <3>1. o \in processed /\ ~IsDone(o)' /\ (o = taker \/ (o \in Orders /\ Open(o)' /\ request[o].side = MakerSide))
      BY <1>2, <1>3 DEF Unfilled, OpenOn
    <3>2. o = taker \/ (o \in OpenOn(MakerSide) /\ ~IsDone(o))
      BY <1>3, <3>1 DEF OpenOn, Open
    <3>3. QED
      BY <1>2, <3>1, <3>2 DEF Unfilled
  <2>2. QED
    BY <2>1
<1>7. PICK u \in Nat, t \in Nat, f \in Nat :
          u = Unsent /\ t = Cardinality(todo) /\ f = Cardinality(Unfilled)
  BY CountType
<1>8. PICK g \in Nat : g = Cardinality(Unfilled') /\ g < f
  <2>1. IsFiniteSet(Unfilled)
    BY CountType
  <2>2. IsFiniteSet(Unfilled') /\ Cardinality(Unfilled') <= f /\ Cardinality(Unfilled') # f
    BY <1>5, <1>6, <1>7, <2>1, FS_Subset
  <2>3. Cardinality(Unfilled') \in Nat
    BY <2>2, FS_CardinalityType
  <2>4. QED
    BY <2>2, <2>3
<1>9. Unsent' = u + 2
  <2>1. PICK n \in Nat : n = Len(tape)
    BY DEF FInv, KindsOK
  <2>2. Len(tape') = n + 1
    BY <1>2, <2>1 DEF FInv, KindsOK
  <2>3. offered \in 0..n /\ booked \in 0..n
    BY <2>1 DEF FInv, KindsOK, TypeOK
  <2>4. QED
    BY <1>2, <1>7, <2>1, <2>2, <2>3 DEF Unsent
<1>10. StepsLeft = 3 + u + 2 * t + 3 * f /\ StepsLeft' = 3 + (u + 2) + 2 * t + 3 * g
  BY <1>2, <1>7, <1>8, <1>9 DEF StepsLeft
<1>11. QED
  BY <1>7, <1>8, <1>10

\* The ends of the loops, the trades sent and booked, and the end of processOrder.
LEMMA OtherAdvances ==
    ASSUME FuturesAssumption, FInv,
           \/ EndMatch \/ LeaveLevel \/ OfferTrade \/ UpdatePosition
           \/ RejectMarket \/ Forget \/ Rest
    PROVE  StepsLeft' \in Nat /\ StepsLeft' < StepsLeft
<1>1. PICK u \in Nat, t \in Nat, f \in Nat :
          u = Unsent /\ t = Cardinality(todo) /\ f = Cardinality(Unfilled)
  BY CountType
<1>2. CASE EndMatch
  <2>1. pc = "sweep" /\ pc' = "matched" /\ Unsent' = u
    BY <1>1, <1>2 DEF EndMatch, Unsent
  <2>2. StepsLeft = 2 + u + 2 * t + 3 * f /\ StepsLeft' = 1 + u
    BY <1>1, <2>1 DEF StepsLeft
  <2>3. QED
    BY <1>1, <2>2
<1>3. CASE LeaveLevel
  <2>1. /\ pc = "scan" /\ pc' = "sweep" /\ todo' = todo
        /\ UNCHANGED <<request, order, processed, tape, offered, booked, taker>>
    BY <1>3 DEF LeaveLevel, scanVars
  <2>2. Unsent' = u /\ Unfilled' = Unfilled
    BY <1>1, <2>1 DEF Unsent, Unfilled, OpenOn, Open, IsDone, MakerSide
  <2>3. StepsLeft = 3 + u + 2 * t + 3 * f /\ StepsLeft' = 2 + u + 2 * t + 3 * f
    BY <1>1, <2>1, <2>2 DEF StepsLeft
  <2>4. QED
    BY <1>1, <2>3
<1>4. CASE OfferTrade \/ UpdatePosition
  <2>1. /\ pc = "matched" /\ pc' = "matched" /\ tape' = tape
        /\ \/ offered < Len(tape) /\ offered' = offered + 1 /\ booked' = booked
           \/ booked < Len(tape) /\ booked' = booked + 1 /\ offered' = offered
    BY <1>4 DEF OfferTrade, UpdatePosition
  <2>2. PICK n \in Nat : n = Len(tape)
    BY DEF FInv, KindsOK
  <2>3. offered \in 0..n /\ booked \in 0..n
    BY <2>2 DEF FInv, KindsOK, TypeOK
  <2>4. u = (n - offered) + (n - booked) /\ Unsent' = (n - offered') + (n - booked')
    BY <1>1, <2>1, <2>2 DEF Unsent
  <2>5. u > 0 /\ (n - offered') + (n - booked') = u - 1
    <3>1. PICK a \in 0..n, b \in 0..n : a = offered /\ b = booked
      BY <2>3
    <3>2. CASE a < n /\ offered' = a + 1 /\ booked' = b
      BY <1>1, <2>4, <3>1, <3>2
    <3>3. CASE b < n /\ booked' = b + 1 /\ offered' = a
      BY <1>1, <2>4, <3>1, <3>3
    <3>4. QED
      BY <2>1, <2>2, <3>1, <3>2, <3>3
  <2>6. StepsLeft = 1 + u /\ StepsLeft' = 1 + (u - 1)
    BY <1>1, <2>1, <2>4, <2>5 DEF StepsLeft
  <2>7. QED
    BY <1>1, <2>5, <2>6
<1>5. CASE RejectMarket \/ Forget \/ Rest
  <2>1. pc = "matched" /\ pc' = "idle"
    BY <1>5 DEF RejectMarket, Forget, Rest, Return
  <2>2. StepsLeft = 1 + u /\ StepsLeft' = 0
    BY <1>1, <2>1 DEF StepsLeft
  <2>3. QED
    BY <1>1, <2>2
<1>6. QED
  BY <1>2, <1>3, <1>4, <1>5

\* processOrder ends, whatever is on the book: each step takes a price off the list
\* Match works through, makes a trade that fills someone, or deals with a trade made,
\* and nothing that callers, the reader or Stop do adds to what is left
\* (MatchAdvances).
THEOREM FuturesMatchEnds == Spec => MatchAdvances
<1>1. FInv /\ [Next]_vars => [Work => StepsLeft' \in Nat /\ StepsLeft' < StepsLeft]_vars
  BY FuturesAssumption, EnterAdvances, TradeAdvances, OtherAdvances DEF Work
<1>2. QED
  BY <1>1, FuturesInvariance, PTL DEF Spec, MatchAdvances

=================================================================================
