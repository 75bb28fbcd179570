------------------------- MODULE OrderBookTotals_proofs -------------------------
(***************************************************************************)
(* The sums of the book: what an order has been filled is what its trades  *)
(* add up to, and the statistics that GetDepth and GetStats report are     *)
(* what AddOrder counted less what was sold.  And a count: the steps that a*)
(* match has left go down with each.                                       *)
(***************************************************************************)
EXTENDS OrderBook_proofs, Totals_proofs

\* A side's statistics and those of its levels, for sets of orders that are
\* finite because the engine has processed finitely many.
StatsInv ==
    /\ IsFiniteSet(processed)
    /\ \A s \in Sides, p \in Prices :
        levelQty[s][p] = SumOver([o \in Orders |-> Counted(o)], Listed(s, p))
    /\ \A s \in Sides : total[s] = SumOver([o \in Orders |-> Counted(o)], Rested(s))

\* A level counts each of its orders with no less than it has left.
CountedCovers == \A o \in Orders : Counted(o) \in Int /\ Counted(o) >= Remaining(o)

-----------------------------------------------------------------------------
(* Sums over trades *)

\* The trades of the tape as terms of a sum.
LEMMA TradeTerms ==
    ASSUME TypeOK
    PROVE  /\ Len(tape) \in Nat /\ DOMAIN tape = 1..Len(tape) /\ IsFiniteSet(DOMAIN tape)
           /\ \A i \in DOMAIN tape : /\ tape[i].quantity \in Nat
                                     /\ tape[i].price * tape[i].quantity \in Int
<1> DEFINE T == [taker : Orders, maker : Orders, price : Int, quantity : Nat]
<1>1. tape \in Seq(T)
  BY DEF TypeOK
<1>2. \A t \in T : t.quantity \in Nat /\ t.price \in Int
  OBVIOUS
<1>3. \A a, b \in Int : a * b \in Int
  OBVIOUS
<1> HIDE DEF T
<1>4. Len(tape) \in Nat /\ DOMAIN tape = 1..Len(tape) /\ \A i \in DOMAIN tape : tape[i] \in T
  BY <1>1
<1>5. IsFiniteSet(1..Len(tape))
  BY <1>4, FS_Interval
<1>6. QED
  BY <1>2, <1>3, <1>4, <1>5

\* Some of them have a sum, no larger than that of more of them.
LEMMA TradedType ==
    ASSUME TypeOK, NEW A, A \subseteq DOMAIN tape
    PROVE  IsFiniteSet(A) /\ Traded(A) \in Nat /\ Paid(A) \in Int
<1>1. IsFiniteSet(A)
  BY TradeTerms, FS_Subset
<1>2. /\ \A i \in A : [j \in DOMAIN tape |-> tape[j].quantity][i] \in Nat
      /\ \A i \in A : [j \in DOMAIN tape |-> tape[j].price * tape[j].quantity][i] \in Int
  BY TradeTerms
<1>3. Traded(A) \in Nat
  BY <1>1, <1>2, SumOverType DEF Traded
<1>4. Paid(A) \in Int
  BY <1>1, <1>2, SumOverType DEF Paid
<1>5. QED
  BY <1>1, <1>3, <1>4

LEMMA TradedMore ==
    ASSUME TypeOK, NEW A, A \subseteq DOMAIN tape, NEW B, B \subseteq A
    PROVE  Traded(B) <= Traded(A)
<1>1. IsFiniteSet(A)
  BY TradedType
<1>2. \A i \in A : [j \in DOMAIN tape |-> tape[j].quantity][i] \in Nat
  BY TradeTerms
<1>3. QED
  BY <1>1, <1>2, SumOverMore DEF Traded

\* A new trade adds its amounts to the sums it joins and leaves the others.
LEMMA TradeAdds ==
    ASSUME TypeOK, NEW A, A \subseteq DOMAIN tape,
           NEW t \in [taker : Orders, maker : Orders, price : Int, quantity : Nat],
           tape' = Append(tape, t)
    PROVE  LET q == [i \in DOMAIN tape' |-> tape'[i].quantity]
               v == [i \in DOMAIN tape' |-> tape'[i].price * tape'[i].quantity]
           IN  /\ SumOver(q, A) = Traded(A)
               /\ SumOver(v, A) = Paid(A)
               /\ SumOver(q, A \cup {Len(tape) + 1}) = Traded(A) + t.quantity
               /\ SumOver(v, A \cup {Len(tape) + 1}) = Paid(A) + t.price * t.quantity
<1> DEFINE q == [i \in DOMAIN tape |-> tape[i].quantity]
           v == [i \in DOMAIN tape |-> tape[i].price * tape[i].quantity]
           r == [i \in DOMAIN tape' |-> tape'[i].quantity]
           w == [i \in DOMAIN tape' |-> tape'[i].price * tape'[i].quantity]
           n == Len(tape) + 1
<1>1. /\ DOMAIN tape = 1..Len(tape) /\ Len(tape) \in Nat
      /\ DOMAIN tape' = 1..n /\ \A k \in 1..Len(tape) : tape'[k] = tape[k]
      /\ tape'[n] = t
  BY TapeType
<1>2. IsFiniteSet(A) /\ n \notin A
  BY <1>1, TradedType
<1>3. t.quantity \in Nat /\ t.price * t.quantity \in Int
  <2>1. t.quantity \in Nat /\ t.price \in Int
    OBVIOUS
  <2>2. QED
    BY <2>1
<1>4. \A i \in A : /\ q[i] \in Int /\ r[i] = q[i]
                   /\ v[i] \in Int /\ w[i] = v[i]
  BY <1>1, TradeTerms
<1>5. r[n] = t.quantity /\ w[n] = t.price * t.quantity /\ r[n] \in Int /\ w[n] \in Int
  BY <1>1, <1>3
<1>6. Traded(A) = SumOver(q, A) /\ Paid(A) = SumOver(v, A)
  BY DEF Traded, Paid
<1> HIDE DEF q, v, r, w, n
<1>7. SumOver(r, A) = SumOver(q, A) /\ SumOver(w, A) = SumOver(v, A)
  BY <1>2, <1>4, SumOverEqual
<1>8. SumOver(r, A \cup {n}) = SumOver(q, A) + r[n]
  <2>1. \A i \in A : q[i] \in Int /\ r[i] = q[i]
    BY <1>4
  <2>2. r[n] \in Int
    BY <1>5
  <2>3. QED
    BY <1>2, <2>1, <2>2, SumOverAdd
<1>9. SumOver(w, A \cup {n}) = SumOver(v, A) + w[n]
  <2>1. \A i \in A : v[i] \in Int /\ w[i] = v[i]
    BY <1>4
  <2>2. w[n] \in Int
    BY <1>5
  <2>3. QED
    BY <1>2, <2>1, <2>2, SumOverAdd, ZenonT(60)
<1>10. QED
  BY <1>5, <1>6, <1>7, <1>8, <1>9 DEF r, w, n

-----------------------------------------------------------------------------
(* What an order has been filled *)

\* What FillsMatchTape adds to the value for the trade under way.
HalfValue(o) == IF HalfTrade(o) > 0 THEN lot * request[Maker].price ELSE 0

\* The sums of FillsMatchTape; that no order is filled beyond its quantity is
\* part of OrdersInv.
FillSums ==
    \A o \in Orders :
        /\ order[o].filled = Traded(TradesOf(o) \cup Makes(o)) + HalfTrade(o)
        /\ order[o].value = Paid(TradesOf(o) \cup Makes(o)) + HalfValue(o)

\* Only the two halves of a trade change what has been filled or the tape.
LEMMA WhoTrades ==
    ASSUME TypeOK, BookAssumption, [Next]_vars
    PROVE  \/ FillTaker \/ FillMaker
           \/ /\ UNCHANGED <<request, tape>>
              /\ \A o \in Orders : /\ order'[o].filled = order[o].filled
                                   /\ order'[o].value = order[o].value
              /\ \/ pc # "fillMaker" /\ pc' # "fillMaker"
                 \/ UNCHANGED <<pc, taker, lot, queue, level, index>>
<1>1. CASE RejectMarket
  <2>1. /\ UNCHANGED <<request, tape>> /\ pc = "matched" /\ pc' = "idle"
        /\ order' = [order EXCEPT ![taker] = Rejected(taker)]
    BY <1>1 DEF RejectMarket, Return
  <2>2. \A o \in Orders : /\ order'[o].filled = order[o].filled
                          /\ order'[o].value = order[o].value
    BY <2>1 DEF TypeOK, Rejected
  <2>3. QED
    BY <2>1, <2>2
<1>2. CASE ~RejectMarket
  BY <1>2 DEF Next, Work, Process, EnterLevel, EndMatch, SkipDone, EndScan, SweepLevel,
              Forget, Rest, Return, vars, bookVars, scanVars
<1>3. QED
  BY <1>1, <1>2

\* Outside a trade nothing is half done.
LEMMA NoHalf == pc # "fillMaker" => \A o \in Orders : HalfTrade(o) = 0 /\ HalfValue(o) = 0
BY DEF HalfTrade, HalfValue

\* The first half of a trade fills the taker by what is then half done, ...
LEMMA FillTakerSums ==
    ASSUME BookAssumption, IInv, FillSums, FillTaker
    PROVE  FillSums'
<1>1. /\ UNCHANGED <<request, tape, taker, queue, level, index>>
      /\ pc = "scan" /\ pc' = "fillMaker" /\ lot' = MatchQuantity
      /\ index <= Len(LevelOrders) /\ ~IsDone(Maker)
      /\ order' = [order EXCEPT ![taker] = Filled(taker, MatchQuantity, request[Maker].price)]
  BY DEF FillTaker, bookVars
<1>2. TypeOK /\ Inv
  BY DEF IInv, Inv
<1>3. /\ taker \in Orders /\ Maker \in Orders /\ request[Maker].price \in Int
      /\ MatchQuantity \in Nat /\ MatchQuantity > 0
  BY <1>1, <1>2, MakerFacts, LotFacts, RequestType DEF TypeOK
<1>4. Maker' = Maker
  BY <1>1 DEF Maker, LevelOrders, MakerSide
<1>5. \A o \in Orders : HalfTrade(o)' = IF o = taker THEN MatchQuantity ELSE 0
  BY <1>1 DEF HalfTrade
<1>6. \A o \in Orders : HalfValue(o)' = IF o = taker THEN MatchQuantity * request[Maker].price ELSE 0
  BY <1>1, <1>3, <1>4, <1>5 DEF HalfValue
<1>7. /\ order'[taker].filled = order[taker].filled + MatchQuantity
      /\ order'[taker].value = order[taker].value + MatchQuantity * request[Maker].price
      /\ \A o \in Orders : o # taker => order'[o] = order[o]
  <2>1. /\ order'[taker] = Filled(taker, MatchQuantity, request[Maker].price)
        /\ \A o \in Orders : o # taker => order'[o] = order[o]
    BY <1>1, <1>2, <1>3 DEF TypeOK
  <2>2. request[Maker].price * MatchQuantity = MatchQuantity * request[Maker].price
    BY <1>3
  <2>3. QED
    BY <2>1, <2>2 DEF Filled
<1>8. ASSUME NEW o \in Orders
      PROVE  /\ order'[o].filled = (Traded(TradesOf(o) \cup Makes(o)) + HalfTrade(o))'
             /\ order'[o].value = (Paid(TradesOf(o) \cup Makes(o)) + HalfValue(o))'
  <2>1. /\ (Traded(TradesOf(o) \cup Makes(o)))' = Traded(TradesOf(o) \cup Makes(o))
        /\ (Paid(TradesOf(o) \cup Makes(o)))' = Paid(TradesOf(o) \cup Makes(o))
    BY <1>1 DEF Traded, Paid, TradesOf, Makes
  <2>2. /\ order[o].filled = Traded(TradesOf(o) \cup Makes(o))
        /\ order[o].value = Paid(TradesOf(o) \cup Makes(o))
        /\ order[o].filled \in Nat /\ order[o].value \in Int
    <3>1. TradesOf(o) \cup Makes(o) \subseteq DOMAIN tape
      BY DEF TradesOf, Makes
    <3>2. /\ Traded(TradesOf(o) \cup Makes(o)) \in Nat
          /\ Paid(TradesOf(o) \cup Makes(o)) \in Int
      BY <1>2, <3>1, TradedType
    <3>3. HalfTrade(o) = 0 /\ HalfValue(o) = 0
      BY <1>1, NoHalf
    <3>4. order[o].filled \in Nat /\ order[o].value \in Int
      BY <1>2 DEF TypeOK
    <3>5. QED
      BY <3>2, <3>3, <3>4 DEF FillSums
  <2>3. CASE o = taker
    BY <1>3, <1>5, <1>6, <1>7, <2>1, <2>2, <2>3
  <2>4. CASE o # taker
    BY <1>5, <1>6, <1>7, <2>1, <2>2, <2>4
  <2>5. QED
    BY <2>3, <2>4
<1>9. QED
  BY <1>8 DEF FillSums

\* ... and the second half fills the maker and puts the trade on the tape.
LEMMA FillMakerSums ==
    ASSUME BookAssumption, IInv, FillSums, FillMaker
    PROVE  FillSums'
<1>1. TypeOK /\ Inv /\ ScanInv
  BY DEF IInv, Inv
<1> DEFINE T == [taker : Orders, maker : Orders, price : Int, quantity : Nat]
           n == Len(tape) + 1
<1>2. PICK m \in Orders, t \in T :
        /\ m = Maker /\ m # taker /\ request[m].price \in Int /\ lot > 0
        /\ t = [taker |-> taker, maker |-> m, price |-> request[m].price, quantity |-> lot]
        /\ order' = [order EXCEPT ![m] = Filled(m, lot, request[m].price)]
        /\ tape' = Append(tape, t)
  <2>1. pc = "fillMaker" /\ index <= Len(LevelOrders) /\ lot \in Nat /\ lot > 0
    BY <1>1 DEF FillMaker, TypeOK, ScanInv
  <2>2. taker \in Orders /\ Maker \in Orders /\ Maker # taker /\ request[Maker].price \in Int
    BY <1>1, <2>1, MakerFacts, RequestType DEF TypeOK
  <2> DEFINE t == [taker |-> taker, maker |-> Maker, price |-> request[Maker].price, quantity |-> lot]
  <2>3. t \in T
    BY <2>1, <2>2
  <2>4. QED
    BY <2>1, <2>2, <2>3 DEF FillMaker
<1>3. /\ UNCHANGED <<request, taker>> /\ pc = "fillMaker" /\ pc' # "fillMaker" /\ taker \in Orders
      /\ lot \in Nat
  BY <1>1 DEF FillMaker, TypeOK, BookAssumption
<1>4. t.taker = taker /\ t.maker = m /\ t.price = request[m].price /\ t.quantity = lot
  BY <1>2
<1>5. \A o \in Orders : HalfTrade(o)' = 0 /\ HalfValue(o)' = 0
  BY <1>3 DEF HalfTrade, HalfValue
<1>6. \A o \in Orders : /\ HalfTrade(o) = IF o = taker THEN lot ELSE 0
                        /\ HalfValue(o) = IF o = taker THEN lot * request[m].price ELSE 0
  BY <1>2, <1>3 DEF HalfTrade, HalfValue
<1>7. /\ order'[m].filled = order[m].filled + lot
      /\ order'[m].value = order[m].value + lot * request[m].price
      /\ \A o \in Orders : o # m => order'[o] = order[o]
  <2>1. /\ order'[m] = Filled(m, lot, request[m].price)
        /\ \A o \in Orders : o # m => order'[o] = order[o]
    BY <1>1, <1>2 DEF TypeOK
  <2>2. request[m].price * lot = lot * request[m].price
    BY <1>2, <1>3
  <2>3. QED
    BY <2>1, <2>2 DEF Filled
<1>8. /\ DOMAIN tape = 1..Len(tape) /\ Len(tape) \in Nat
      /\ DOMAIN tape' = 1..n /\ (\A k \in 1..Len(tape) : tape'[k] = tape[k]) /\ tape'[n] = t
  BY <1>1, <1>2, TapeType
<1>9. ASSUME NEW o \in Orders
      PROVE  /\ order'[o].filled = (Traded(TradesOf(o) \cup Makes(o)) + HalfTrade(o))'
             /\ order'[o].value = (Paid(TradesOf(o) \cup Makes(o)) + HalfValue(o))'
  <2> DEFINE A == TradesOf(o) \cup Makes(o)
  <2>1. A \subseteq DOMAIN tape
    BY DEF TradesOf, Makes
  <2>2. (TradesOf(o) \cup Makes(o))' = IF o \in {taker, m} THEN A \cup {n} ELSE A
    BY <1>4, <1>8 DEF TradesOf, Makes
  <2>3. /\ order[o].filled = Traded(A) + HalfTrade(o)
        /\ order[o].value = Paid(A) + HalfValue(o)
    BY DEF FillSums
  <2> HIDE DEF A
  <2>4. Traded(A) \in Nat /\ Paid(A) \in Int
    BY <1>1, <2>1, TradedType
  <2> DEFINE q == [i \in DOMAIN tape' |-> tape'[i].quantity]
             v == [i \in DOMAIN tape' |-> tape'[i].price * tape'[i].quantity]
  <2>5. /\ SumOver(q, A) = Traded(A) /\ SumOver(v, A) = Paid(A)
        /\ SumOver(q, A \cup {n}) = Traded(A) + t.quantity
        /\ SumOver(v, A \cup {n}) = Paid(A) + t.price * t.quantity
    BY <1>1, <1>2, <2>1, TradeAdds
  <2>6. /\ (Traded(TradesOf(o) \cup Makes(o)))' = SumOver(q, (TradesOf(o) \cup Makes(o))')
        /\ (Paid(TradesOf(o) \cup Makes(o)))' = SumOver(v, (TradesOf(o) \cup Makes(o))')
    BY DEF Traded, Paid
  <2>7. /\ (Traded(TradesOf(o) \cup Makes(o)))' = Traded(A) + (IF o \in {taker, m} THEN lot ELSE 0)
        /\ (Paid(TradesOf(o) \cup Makes(o)))'
            = Paid(A) + (IF o \in {taker, m} THEN lot * request[m].price ELSE 0)
    <3>1. t.price * t.quantity = lot * request[m].price /\ t.quantity = lot
      BY <1>2, <1>3, <1>4
    <3> HIDE DEF q, v, n
    <3>2. CASE o \in {taker, m}
      BY <2>2, <2>5, <2>6, <3>1, <3>2
    <3>3. CASE o \notin {taker, m}
      <4>1. (TradesOf(o) \cup Makes(o))' = A
        BY <2>2, <3>3
      <4>2. /\ (Traded(TradesOf(o) \cup Makes(o)))' = Traded(A)
            /\ (Paid(TradesOf(o) \cup Makes(o)))' = Paid(A)
        BY <2>5, <2>6, <4>1
      <4>3. Traded(A) + 0 = Traded(A) /\ Paid(A) + 0 = Paid(A)
        BY <2>4
      <4>4. QED
        BY <3>3, <4>2, <4>3
    <3>4. QED
      BY <3>2, <3>3
  <2>8. lot * request[m].price \in Int
    BY <1>2, <1>3
  <2>9. CASE o = taker
    BY <1>2, <1>3, <1>5, <1>6, <1>7, <2>3, <2>4, <2>7, <2>8, <2>9
  <2>10. CASE o = m
    BY <1>2, <1>3, <1>5, <1>6, <1>7, <2>3, <2>4, <2>7, <2>8, <2>10
  <2>11. CASE o \notin {taker, m}
    BY <1>5, <1>6, <1>7, <2>3, <2>4, <2>7, <2>11
  <2>12. QED
    BY <2>9, <2>10, <2>11
<1>10. QED
  BY <1>9 DEF FillSums

\* The sums hold of every reachable state.
LEMMA FillSumsStep ==
    ASSUME BookAssumption, IInv, FillSums, [Next]_vars
    PROVE  FillSums'
<1>1. TypeOK
  BY DEF IInv, Inv
<1>2. CASE /\ UNCHANGED <<request, tape>>
           /\ \A o \in Orders : /\ order'[o].filled = order[o].filled
                                /\ order'[o].value = order[o].value
           /\ \/ pc # "fillMaker" /\ pc' # "fillMaker"
              \/ UNCHANGED <<pc, taker, lot, queue, level, index>>
  <2>1. \A o \in Orders : HalfTrade(o)' = HalfTrade(o) /\ HalfValue(o)' = HalfValue(o)
    <3>1. CASE pc # "fillMaker" /\ pc' # "fillMaker"
      BY <3>1 DEF HalfTrade, HalfValue
    <3>2. CASE UNCHANGED <<pc, taker, lot, queue, level, index>>
      BY <1>2, <3>2 DEF HalfTrade, HalfValue, Maker, LevelOrders, MakerSide
    <3>3. QED
      BY <1>2, <3>1, <3>2
  <2>2. \A o \in Orders :
            /\ (Traded(TradesOf(o) \cup Makes(o)))' = Traded(TradesOf(o) \cup Makes(o))
            /\ (Paid(TradesOf(o) \cup Makes(o)))' = Paid(TradesOf(o) \cup Makes(o))
    BY <1>2 DEF Traded, Paid, TradesOf, Makes
  <2>3. QED
    BY <1>2, <2>1, <2>2 DEF FillSums
<1>3. QED
  BY <1>1, <1>2, WhoTrades, FillTakerSums, FillMakerSums

LEMMA InitFillSums == BookAssumption /\ Init => FillSums
<1> SUFFICES ASSUME BookAssumption, Init, NEW o \in Orders
             PROVE  /\ order[o].filled = Traded(TradesOf(o) \cup Makes(o)) + HalfTrade(o)
                    /\ order[o].value = Paid(TradesOf(o) \cup Makes(o)) + HalfValue(o)
  BY DEF FillSums
<1>1. order[o].filled = 0 /\ order[o].value = 0 /\ pc = "idle" /\ tape = <<>>
  BY DEF Init, NewOrder
<1>2. TradesOf(o) \cup Makes(o) = {}
  BY <1>1 DEF TradesOf, Makes
<1>3. Traded(TradesOf(o) \cup Makes(o)) = 0 /\ Paid(TradesOf(o) \cup Makes(o)) = 0
  BY <1>2, SumOverNothing DEF Traded, Paid
<1>4. QED
  BY <1>1, <1>3, NoHalf

LEMMA FillSumsInvariance == Spec => []FillSums
<1>1. Init => FillSums
  BY InitFillSums, BookAssumption
<1>2. IInv /\ FillSums /\ [Next]_vars => FillSums'
  BY FillSumsStep, BookAssumption
<1>3. QED
  BY <1>1, <1>2, Invariance, PTL DEF Spec

\* Order.Fill is called for the taker and for the maker of every trade with the
\* same amounts: what an order has been filled, and at what average price, is
\* what its trades add up to, never more than its quantity.
THEOREM FillsAddUp == Spec => []FillsMatchTape
<1>1. IInv /\ FillSums => FillsMatchTape
  BY DEF IInv, Inv, OrdersInv, FillSums, FillsMatchTape, HalfValue
<1>2. QED
  BY <1>1, Invariance, FillSumsInvariance, PTL

-----------------------------------------------------------------------------
(* The statistics of the book *)

\* A level counts its orders with no less than they have left: what they sold
\* as makers is part of what they have been filled.
LEMMA Covers == BookAssumption /\ IInv /\ FillSums => CountedCovers
<1> SUFFICES ASSUME BookAssumption, IInv, FillSums, NEW o \in Orders
             PROVE  Counted(o) \in Int /\ Counted(o) >= Remaining(o)
  BY DEF CountedCovers
<1>1. TypeOK /\ OrdersInv
  BY DEF IInv, Inv
<1>2. /\ TradesOf(o) \cup Makes(o) \subseteq DOMAIN tape /\ Makes(o) \subseteq DOMAIN tape
      /\ Makes(o) \subseteq TradesOf(o) \cup Makes(o)
  BY DEF TradesOf, Makes
<1>3. PICK a \in Nat : a = Traded(Makes(o))
  BY <1>1, <1>2, TradedType
<1>4. PICK b \in Nat : b = Traded(TradesOf(o) \cup Makes(o))
  BY <1>1, <1>2, TradedType
<1>5. a <= b
  BY <1>1, <1>2, <1>3, <1>4, TradedMore
<1>6. PICK h \in Nat : h = HalfTrade(o)
  BY <1>1 DEF HalfTrade, TypeOK
<1>7. order[o].filled = b + h
  BY <1>4, <1>6 DEF FillSums
<1>8. Quantity(o) \in Nat /\ Remaining(o) = Quantity(o) - (b + h)
  BY <1>1, <1>7, RemainingType
<1>9. Counted(o) = Quantity(o) - a
  BY <1>3 DEF Counted
<1>10. QED
  BY <1>5, <1>8, <1>9

\* The sets the sums range over.
LEMMA StatSets ==
    ASSUME BookAssumption, IInv, StatsInv
    PROVE  /\ \A s \in Sides, p \in Prices : Listed(s, p) \subseteq Orders /\ IsFiniteSet(Listed(s, p))
           /\ \A s \in Sides : Rested(s) \subseteq Orders /\ IsFiniteSet(Rested(s))
           /\ \A o \in Orders : Counted(o) \in Int
<1>1. TypeOK /\ TapeInv /\ OpenOrdersRest
  BY DEF IInv, Inv
<1>2. \A s \in Sides, p \in Prices : Listed(s, p) \subseteq processed
  BY <1>1 DEF Listed, OpenOrdersRest, InPlace
<1>3. ASSUME NEW s \in Sides, NEW o \in Rested(s) PROVE o \in processed
  <2>1. CASE Open(o)
    BY <2>1 DEF Open
  <2>2. CASE Makes(o) # {}
    BY <1>1, <2>2 DEF Makes, TapeInv
  <2>3. QED
    BY <2>1, <2>2 DEF Rested
<1>4. ASSUME NEW o \in Orders PROVE Counted(o) \in Int
  <2>1. Makes(o) \subseteq DOMAIN tape
    BY DEF Makes
  <2>2. Traded(Makes(o)) \in Nat /\ Quantity(o) \in Nat
    BY <1>1, <2>1, TradedType, RemainingType DEF IInv, Inv
  <2>3. QED
    BY <2>2 DEF Counted
<1>5. ASSUME NEW A, A \subseteq processed PROVE IsFiniteSet(A)
  BY <1>5, FS_Subset DEF StatsInv
<1>6. \A s \in Sides, p \in Prices : Listed(s, p) \subseteq Orders
  BY DEF Listed
<1>7. \A s \in Sides : Rested(s) \subseteq Orders
  BY DEF Rested
<1>8. QED
  BY <1>2, <1>3, <1>4, <1>5, <1>6, <1>7

\* An order is listed in one level of its own side only.
LEMMA ListedOnce ==
    ASSUME OpenOrdersRest, NEW s \in Sides, NEW p \in Prices, NEW S \in Sides, NEW P \in Prices,
           NEW o \in Listed(s, p), o \in Listed(S, P)
    PROVE  s = S /\ p = P
<1>1. PICK i \in 1..Len(queue[s][p]) : queue[s][p][i] = o
  BY DEF Listed
<1>2. PICK j \in 1..Len(queue[S][P]) : queue[S][P][j] = o
  BY DEF Listed
<1>3. InPlace(s, p) /\ InPlace(S, P) /\ OneLevelEach
  BY DEF OpenOrdersRest
<1>4. s = request[o].side /\ S = request[o].side
  BY <1>1, <1>2, <1>3 DEF InPlace
<1>5. p = P
  BY <1>1, <1>2, <1>3, <1>4 DEF OneLevelEach
<1>6. QED
  BY <1>4, <1>5

\* A step that leaves the book, the trades and what rests alone.
LEMMA FrameStats ==
    ASSUME StatsInv, UNCHANGED <<request, queue, levelQty, total, tape>>,
           \A s \in Sides : Rested(s)' = Rested(s), IsFiniteSet(processed')
    PROVE  StatsInv'
<1>1. \A o \in Orders : Counted(o)' = Counted(o)
  BY DEF Counted, Quantity, Traded, Makes
<1>2. [o \in Orders |-> Counted(o)]' = [o \in Orders |-> Counted(o)]
  BY <1>1
<1>3. \A s \in Sides, p \in Prices : Listed(s, p)' = Listed(s, p)
  BY DEF Listed
<1>4. QED
  BY <1>2, <1>3 DEF StatsInv

\* A processed order is finite company; it rests only later.
LEMMA ProcessStats ==
    ASSUME BookAssumption, IInv, StatsInv, NEW x \in Orders, Process(x)
    PROVE  StatsInv'
<1>1. /\ UNCHANGED <<request, order, queue, levelQty, total, tape>>
      /\ pc = "idle" /\ x \notin processed /\ processed' = processed \cup {x} /\ taker' = x
  BY DEF Process, bookVars
<1>2. taker \notin Orders /\ processed \subseteq Orders
  BY <1>1 DEF IInv, Inv, TypeOK, BookAssumption
<1>3. IsFiniteSet(processed')
  BY <1>1, FS_AddElement DEF StatsInv
<1>4. ASSUME NEW s \in Sides PROVE Rested(s)' = Rested(s)
  <2>1. \A o \in Orders : Open(o)' <=> Open(o)
    BY <1>1, <1>2 DEF Open, IsDone
  <2>2. \A o \in Orders : Makes(o)' = Makes(o)
    BY <1>1 DEF Makes
  <2>3. QED
    BY <1>1, <2>1, <2>2 DEF Rested
<1>5. QED
  BY <1>1, <1>3, <1>4, FrameStats

\* No step of a match but the sale of a maker changes what rests.
LEMMA MatchStats ==
    ASSUME BookAssumption, IInv, StatsInv,
           EnterLevel \/ EndMatch \/ SkipDone \/ FillTaker \/ EndScan \/ UNCHANGED vars
    PROVE  StatsInv'
<1>1. /\ UNCHANGED <<request, processed, queue, levelQty, total, tape, taker>>
      /\ \A o \in Orders : o # taker => order'[o] = order[o]
  <2>1. CASE FillTaker
    BY <2>1 DEF FillTaker, bookVars, IInv, Inv, TypeOK
  <2>2. CASE ~FillTaker
    BY <2>2 DEF EnterLevel, EndMatch, SkipDone, EndScan, vars, bookVars, scanVars
  <2>3. QED
    BY <2>1, <2>2
<1>2. ASSUME NEW s \in Sides PROVE Rested(s)' = Rested(s)
  <2>1. \A o \in Orders : Open(o)' <=> Open(o)
    BY <1>1 DEF Open, IsDone
  <2>2. \A o \in Orders : Makes(o)' = Makes(o)
    BY <1>1 DEF Makes
  <2>3. QED
    BY <1>1, <2>1, <2>2 DEF Rested
<1>3. QED
  BY <1>1, <1>2, FrameStats DEF StatsInv

\* An order that is dropped rested neither before nor after.
LEMMA DropStats ==
    ASSUME BookAssumption, IInv, StatsInv, RejectMarket \/ Forget
    PROVE  StatsInv'
<1>1. /\ UNCHANGED <<request, processed, queue, levelQty, total, tape>>
      /\ pc = "matched" /\ taker' = NoOrder
      /\ request[taker].type = "Market" \/ IsDone(taker)
  BY DEF RejectMarket, Forget, Return, bookVars
<1>2. TypeOK /\ taker \in Orders /\ NoOrder \notin Orders /\ processed \subseteq Orders
  BY <1>1 DEF IInv, Inv, TypeOK, BookAssumption
<1>3. \A o \in Orders : IsDone(o)' = IsDone(o)
  <2>1. CASE RejectMarket
    BY <1>2, <2>1 DEF RejectMarket, Rejected, IsDone, TypeOK
  <2>2. CASE Forget
    BY <2>2 DEF Forget, IsDone
  <2>3. QED
    BY <2>1, <2>2
<1>4. ASSUME NEW s \in Sides PROVE Rested(s)' = Rested(s)
  <2>1. \A o \in Orders : Open(o)' <=> Open(o)
    BY <1>1, <1>2, <1>3 DEF Open
  <2>2. \A o \in Orders : Makes(o)' = Makes(o)
    BY <1>1 DEF Makes
  <2>3. QED
    BY <1>1, <2>1, <2>2 DEF Rested
<1>5. QED
  BY <1>1, <1>4, FrameStats DEF StatsInv

\* A level that is deleted counts nothing, and nothing is what it lists.
LEMMA SweepStats ==
    ASSUME BookAssumption, IInv, StatsInv, SweepLevel
    PROVE  StatsInv'
<1>1. UNCHANGED <<request, order, processed, total, tape, taker>>
  BY DEF SweepLevel
<1>2. /\ \A o \in Orders : Counted(o)' = Counted(o)
      /\ \A s \in Sides : Rested(s)' = Rested(s)
  BY <1>1 DEF Counted, Quantity, Traded, Makes, Rested, Open, IsDone
<1>3. [o \in Orders |-> Counted(o)]' = [o \in Orders |-> Counted(o)]
  BY <1>2
<1>4. ASSUME NEW s \in Sides, NEW p \in Prices
      PROVE  levelQty'[s][p] = SumOver([o \in Orders |-> Counted(o)]', Listed(s, p)')
  <2>1. CASE queue'[s][p] = queue[s][p] /\ levelQty'[s][p] = levelQty[s][p]
    <3>1. Listed(s, p)' = Listed(s, p)
      BY <2>1 DEF Listed
    <3>2. QED
      BY <1>3, <2>1, <3>1 DEF StatsInv
  <2>2. CASE queue'[s][p] = <<>> /\ levelQty'[s][p] = 0
    <3>1. Listed(s, p)' = {}
      BY <2>2 DEF Listed
    <3>2. QED
      BY <2>2, <3>1, SumOverNothing
  <2>3. QED
    BY <2>1, <2>2, SweptLevel
<1>5. QED
  BY <1>1, <1>2, <1>3, <1>4 DEF StatsInv

\* A sale takes its lot off the level of the maker and off the maker's side.
LEMMA FillMakerStats ==
    ASSUME BookAssumption, IInv, StatsInv, FillMaker
    PROVE  StatsInv'
<1> DEFINE T == [taker : Orders, maker : Orders, price : Int, quantity : Nat]
           n == Len(tape) + 1
           counted == [o \in Orders |-> Counted(o)]
<1>1. TypeOK /\ Inv /\ ScanInv /\ OpenOrdersRest
  BY DEF IInv, Inv
<1>2. PICK m \in Orders, t \in T, S \in Sides, P \in Prices :
        /\ m = Maker /\ m # taker /\ S = MakerSide /\ P = level
        /\ request[m].side = S /\ request[m].type = "Limit"
        /\ m \in processed /\ ~IsDone(m)
        /\ m \in Listed(S, P)
        /\ t.maker = m /\ t.quantity = lot
        /\ tape' = Append(tape, t)
  <2>1. pc = "fillMaker" /\ index <= Len(LevelOrders) /\ lot \in Nat /\ lot > 0
        /\ lot <= Remaining(Maker)
    BY <1>1 DEF FillMaker, TypeOK, ScanInv
  <2>2. /\ taker \in Orders /\ Maker \in Orders /\ Maker # taker /\ request[Maker].price \in Int
        /\ request[Maker].side = MakerSide
        /\ request[Maker].type = "Limit" /\ Maker \in processed
        /\ MakerSide \in Sides /\ level \in Prices /\ index \in 1..Len(LevelOrders)
    BY <1>1, <2>1, MakerFacts, RequestType DEF TypeOK
  <2>3. ~IsDone(Maker)
    BY <1>1, <2>1, <2>2, RemainingType DEF Inv
  <2>4. Maker \in Listed(MakerSide, level)
    BY <2>2 DEF Listed, Maker, LevelOrders
  <2> DEFINE t == [taker |-> taker, maker |-> Maker, price |-> request[Maker].price, quantity |-> lot]
  <2>5. t \in T /\ t.maker = Maker /\ t.quantity = lot
    BY <2>1, <2>2
  <2>6. tape' = Append(tape, t)
    BY DEF FillMaker
  <2> HIDE DEF t
  <2>7. QED
    BY <2>2, <2>3, <2>4, <2>5, <2>6
<1>3. /\ UNCHANGED <<request, processed, queue, taker>> /\ lot \in Nat
      /\ total' = [total EXCEPT ![S] = @ - lot]
      /\ levelQty' = [levelQty EXCEPT ![S][P] = @ - lot]
      /\ \A o \in Orders : o # m => order'[o] = order[o]
  BY <1>1, <1>2 DEF FillMaker, TypeOK
<1>4. /\ DOMAIN tape = 1..Len(tape) /\ Len(tape) \in Nat
      /\ DOMAIN tape' = 1..n /\ (\A k \in 1..Len(tape) : tape'[k] = tape[k]) /\ tape'[n] = t
  BY <1>1, <1>2, TapeType
<1>5. \A o \in Orders : Makes(o)' = IF o = m THEN Makes(o) \cup {n} ELSE Makes(o)
  BY <1>2, <1>4 DEF Makes
<1>6. ASSUME NEW o \in Orders
      PROVE  Counted(o)' = Counted(o) + (IF o = m THEN -lot ELSE 0)
  <2> DEFINE q == [i \in DOMAIN tape' |-> tape'[i].quantity]
  <2>1. Makes(o) \subseteq DOMAIN tape
    BY DEF Makes
  <2>2. PICK a \in Nat : a = Traded(Makes(o))
    BY <1>1, <2>1, TradedType
  <2>3. SumOver(q, Makes(o)) = Traded(Makes(o)) /\ SumOver(q, Makes(o) \cup {n}) = Traded(Makes(o)) + lot
    BY <1>1, <1>2, <2>1, TradeAdds
  <2>4. (Traded(Makes(o)))' = SumOver(q, Makes(o)')
    BY DEF Traded
  <2> HIDE DEF q, n
  <2>5. (Traded(Makes(o)))' = IF o = m THEN a + lot ELSE a
    BY <1>5, <2>2, <2>3, <2>4
  <2>6. PICK b \in Nat : b = Quantity(o) /\ b = Quantity(o)'
    BY <1>1, <1>3, RemainingType DEF Quantity, Inv
  <2>7. Counted(o) = b - a /\ Counted(o)' = b - (Traded(Makes(o)))'
    BY <2>2, <2>6 DEF Counted
  <2>8. QED
    BY <1>3, <2>5, <2>7
<1>7. ASSUME NEW A, A \subseteq Orders, IsFiniteSet(A)
      PROVE  SumOver(counted', A) = SumOver(counted, A) + (IF m \in A THEN -lot ELSE 0)
  <2>1. \A o \in A : counted[o] \in Int /\ counted'[o] = counted[o] + (IF o = m THEN -lot ELSE 0)
    BY <1>6, <1>7, StatSets
  <2> HIDE DEF counted
  <2>2. CASE m \in A
    <3>1. /\ \A o \in A \ {m} : counted'[o] = counted[o]
          /\ counted'[m] = counted[m] + (-lot) /\ -lot \in Int
      BY <1>3, <2>1, <2>2
    <3>2. SumOver(counted', A) = SumOver(counted, A) + (-lot)
      BY <1>7, <2>1, <2>2, <3>1, SumOverChange
    <3>3. QED
      BY <2>2, <3>2
  <2>3. CASE m \notin A
    <3>1. \A o \in A : counted'[o] = counted[o]
      BY <2>1, <2>3
    <3>2. SumOver(counted', A) = SumOver(counted, A)
      BY <1>7, <3>1, SumOverEqual
    <3>3. SumOver(counted, A) \in Int
      BY <1>7, <2>1, SumOverType
    <3>4. QED
      BY <2>3, <3>2, <3>3
  <2>4. QED
    BY <2>2, <2>3
<1>8. ASSUME NEW s \in Sides, NEW p \in Prices
      PROVE  levelQty'[s][p] = SumOver(counted', Listed(s, p)')
  <2>1. Listed(s, p)' = Listed(s, p)
    BY <1>3 DEF Listed
  <2>2. PICK a \in Int : a = levelQty[s][p] /\ a = SumOver(counted, Listed(s, p))
    BY <1>1, QueueType DEF StatsInv
  <2>3. m \in Listed(s, p) <=> s = S /\ p = P
    BY <1>1, <1>2, ListedOnce
  <2>4. levelQty'[s][p] = IF s = S /\ p = P THEN a - lot ELSE a
    BY <1>1, <1>3, <2>2 DEF TypeOK
  <2> HIDE DEF counted
  <2>5. SumOver(counted', Listed(s, p)) = a + (IF m \in Listed(s, p) THEN -lot ELSE 0)
    BY <1>7, <2>2, StatSets
  <2>6. QED
    BY <1>3, <2>1, <2>3, <2>4, <2>5
<1>9. ASSUME NEW s \in Sides
      PROVE  total'[s] = SumOver(counted', Rested(s)')
  <2>1. \A o \in Orders : o # m => (Open(o)' <=> Open(o)) /\ Makes(o)' = Makes(o)
    BY <1>3, <1>5 DEF Open, IsDone
  <2>2. Makes(m)' # {} /\ Open(m)
    BY <1>2, <1>5 DEF Open
  <2>3. Rested(s)' = Rested(s) /\ (m \in Rested(s) <=> s = S)
    BY <1>2, <1>3, <2>1, <2>2 DEF Rested
  <2>4. PICK a \in Int : a = total[s] /\ a = SumOver(counted, Rested(s))
    BY <1>1 DEF StatsInv, TypeOK
  <2>5. total'[s] = IF s = S THEN a - lot ELSE a
    BY <1>1, <1>3, <2>4 DEF TypeOK
  <2> HIDE DEF counted
  <2>6. SumOver(counted', Rested(s)) = a + (IF m \in Rested(s) THEN -lot ELSE 0)
    BY <1>7, <2>4, StatSets
  <2>7. QED
    BY <1>3, <2>3, <2>5, <2>6
<1>10. QED
  BY <1>3, <1>8, <1>9 DEF StatsInv

\* An order that rests is counted whole: it has not sold anything as a maker.
LEMMA RestStats ==
    ASSUME BookAssumption, IInv, StatsInv, Rest
    PROVE  StatsInv'
<1> DEFINE counted == [o \in Orders |-> Counted(o)]
<1>1. TypeOK /\ TapeInv /\ OpenOrdersRest /\ OrdersInv
  BY DEF IInv, Inv
<1>2. PICK x \in Orders, S \in Sides, P \in Prices :
        /\ x = taker /\ x \in processed /\ ~IsDone(x)
        /\ request[x].type = "Limit" /\ S = request[x].side
        /\ queue' = [queue EXCEPT ![S][P] = Append(@, x)]
        /\ levelQty' = [levelQty EXCEPT ![S][P] = @ + Quantity(x)]
        /\ total' = [total EXCEPT ![S] = @ + Quantity(x)]
  <2>1. taker \in Orders /\ taker \in processed
    BY <1>1 DEF Rest, Return, TypeOK, BookAssumption
  <2>2. QED
    BY <1>1, <2>1, JoinedLevel DEF Rest
<1>3. UNCHANGED <<request, order, processed, tape>> /\ taker' = NoOrder /\ NoOrder \notin Orders
  BY DEF Rest, Return, BookAssumption
<1>4. /\ \A o \in Orders : Counted(o)' = Counted(o) /\ Makes(o)' = Makes(o)
      /\ counted' = counted
  <2>1. \A o \in Orders : Counted(o)' = Counted(o) /\ Makes(o)' = Makes(o)
    BY <1>3 DEF Counted, Quantity, Traded, Makes
  <2>2. QED
    BY <2>1
<1>5. Counted(x) = Quantity(x) /\ Makes(x) = {} /\ Quantity(x) \in Int
  <2>1. Makes(x) = {}
    BY <1>1, <1>2 DEF TapeInv, Makes
  <2>2. Traded(Makes(x)) = 0
    BY <2>1, SumOverNothing DEF Traded
  <2>3. Quantity(x) \in Nat
    BY <1>1, RemainingType
  <2>4. QED
    BY <2>1, <2>2, <2>3 DEF Counted
<1>6. ASSUME NEW A, A \subseteq Orders, IsFiniteSet(A), x \notin A
      PROVE  SumOver(counted, A \cup {x}) = SumOver(counted, A) + Quantity(x)
  <2>1. (\A o \in A : counted[o] \in Int) /\ counted[x] = Quantity(x)
    BY <1>5, <1>6, StatSets
  <2> HIDE DEF counted
  <2>2. \A o \in A : counted[o] \in Int /\ counted[o] = counted[o]
    BY <2>1
  <2>3. counted[x] \in Int
    BY <1>5, <2>1
  <2>4. SumOver(counted, A \cup {x}) = SumOver(counted, A) + counted[x]
    BY <1>6, <2>2, <2>3, SumOverAdd
  <2>5. QED
    BY <2>1, <2>4
<1>7. ASSUME NEW s \in Sides, NEW p \in Prices
      PROVE  levelQty'[s][p] = SumOver(counted', Listed(s, p)')
  <2>1. levelQty[s][p] = SumOver(counted, Listed(s, p))
    BY DEF StatsInv
  <2> HIDE DEF counted
  <2>2. CASE s = S /\ p = P
    <3>1. /\ queue[s][p] \in Seq(Orders) /\ queue'[s][p] = Append(queue[s][p], x)
          /\ levelQty'[s][p] = levelQty[s][p] + Quantity(x)
      BY <1>1, <1>2, <2>2, QueueType DEF TypeOK
    <3>2. /\ Len(queue[s][p]) \in Nat /\ Len(queue'[s][p]) = Len(queue[s][p]) + 1
          /\ \A j \in 1..Len(queue[s][p]) : queue'[s][p][j] = queue[s][p][j]
          /\ queue'[s][p][Len(queue[s][p]) + 1] = x
      BY <3>1, AppendFacts
    <3>3. Listed(s, p)' = Listed(s, p) \cup {x}
      <4>1. ASSUME NEW o \in Listed(s, p)' PROVE o \in Listed(s, p) \cup {x}
        <5>1. PICK j \in 1..(Len(queue[s][p]) + 1) : queue'[s][p][j] = o /\ o \in Orders
          BY <3>2 DEF Listed
        <5>2. CASE j = Len(queue[s][p]) + 1
          BY <3>2, <5>1, <5>2
        <5>3. CASE j # Len(queue[s][p]) + 1
          <6>1. j \in 1..Len(queue[s][p])
            BY <3>2, <5>3
          <6>2. QED
            BY <3>2, <5>1, <6>1 DEF Listed
        <5>4. QED
          BY <5>2, <5>3
      <4>2. ASSUME NEW o \in Listed(s, p) PROVE o \in Listed(s, p)'
        <5>1. PICK j \in 1..Len(queue[s][p]) : queue[s][p][j] = o /\ o \in Orders
          BY DEF Listed
        <5>2. j \in 1..Len(queue'[s][p]) /\ queue'[s][p][j] = o
          BY <3>2, <5>1, SMTT(30)
        <5>3. QED
          BY <5>1, <5>2 DEF Listed
      <4>3. x \in Listed(s, p)'
        BY <3>2 DEF Listed
      <4>4. QED
        BY <4>1, <4>2, <4>3 DEF Listed
    <3>4. x \notin Listed(s, p)
      BY <1>1, <1>2 DEF Listed, OpenOrdersRest, InPlace
    <3>5. QED
      BY <1>4, <1>6, <2>1, <3>1, <3>3, <3>4, StatSets
  <2>3. CASE ~(s = S /\ p = P)
    <3>1. queue'[s][p] = queue[s][p] /\ levelQty'[s][p] = levelQty[s][p]
      BY <1>1, <1>2, <2>3 DEF TypeOK
    <3>2. Listed(s, p)' = Listed(s, p)
      BY <3>1 DEF Listed
    <3>3. QED
      BY <1>4, <2>1, <3>1, <3>2
  <2>4. QED
    BY <2>2, <2>3
<1>8. ASSUME NEW s \in Sides
      PROVE  total'[s] = SumOver(counted', Rested(s)')
  <2>1. total[s] = SumOver(counted, Rested(s))
    BY DEF StatsInv
  <2> HIDE DEF counted
  <2>2. /\ \A o \in Orders : o # x => (Open(o)' <=> Open(o))
        /\ ~Open(x) /\ Open(x)'
    BY <1>2, <1>3 DEF Open, IsDone
  <2>3. Rested(s)' = IF s = S THEN Rested(s) \cup {x} ELSE Rested(s)
    <3>1. \A o \in Orders : o \in Rested(s)' <=> request[o].side = s /\ (o = x \/ Open(o) \/ Makes(o) # {})
      BY <1>3, <1>4, <2>2 DEF Rested
    <3>2. QED
      BY <1>2, <3>1 DEF Rested
  <2>4. x \notin Rested(s)
    BY <1>5, <2>2 DEF Rested
  <2>5. total'[s] = IF s = S THEN total[s] + Quantity(x) ELSE total[s]
    BY <1>1, <1>2 DEF TypeOK
  <2>6. QED
    BY <1>4, <1>6, <2>1, <2>3, <2>4, <2>5, StatSets
<1>9. QED
  BY <1>3, <1>7, <1>8 DEF StatsInv

LEMMA StatsStep ==
    ASSUME BookAssumption, IInv, StatsInv, [Next]_vars
    PROVE  StatsInv'
BY ProcessStats, MatchStats, FillMakerStats, SweepStats, DropStats, RestStats DEF Next, Work

LEMMA InitStats == BookAssumption /\ Init => StatsInv
<1> SUFFICES ASSUME BookAssumption, Init PROVE StatsInv
  OBVIOUS
<1>1. /\ processed = {} /\ tape = <<>>
      /\ \A s \in Sides : total[s] = 0
      /\ \A s \in Sides, p \in Prices : queue[s][p] = <<>> /\ levelQty[s][p] = 0
  BY DEF Init
<1>2. \A s \in Sides, p \in Prices : Listed(s, p) = {}
  BY <1>1 DEF Listed
<1>3. \A s \in Sides : Rested(s) = {}
  BY <1>1 DEF Rested, Open, Makes
<1>4. QED
  BY <1>1, <1>2, <1>3, SumOverNothing, FS_EmptySet DEF StatsInv

LEMMA StatsInvariance == Spec => []StatsInv
<1>1. Init => StatsInv
  BY InitStats, BookAssumption
<1>2. IInv /\ StatsInv /\ [Next]_vars => StatsInv'
  BY StatsStep, BookAssumption
<1>3. QED
  BY <1>1, <1>2, Invariance, PTL DEF Spec

\* What GetDepth and GetStats report is the whole quantity of every order that
\* rests, less what it sold since: never less than what is open.  The sum of a
\* side is over all orders that ever rested on it, gone or not, so what an order sold
\* before it rested stays in its side's total for ever.
THEOREM DepthAddsUp == Spec => []DepthAccounting
<1>1. IInv /\ StatsInv /\ CountedCovers => DepthAccounting
  <2> SUFFICES ASSUME IInv, StatsInv, CountedCovers PROVE DepthAccounting
    OBVIOUS
  <2>1. \A s \in Sides, p \in Prices : \A i \in 1..Len(queue[s][p]) : queue[s][p][i] \in Orders
    BY QueueType DEF IInv, Inv
  <2>2. QED
    BY <2>1 DEF StatsInv, CountedCovers, DepthAccounting
<1>2. IInv /\ FillSums => CountedCovers
  BY Covers, BookAssumption
<1>3. QED
  BY <1>1, <1>2, Invariance, FillSumsInvariance, StatsInvariance, PTL


-----------------------------------------------------------------------------
(* The loops of matchOrders end *)

\* While a level is swept, what the loops still have before them: finitely many
\* orders, the level's apart from the others.
LEMMA LoopSets ==
    ASSUME BookAssumption, IInv, IsFiniteSet(processed), pc # "idle"
    PROVE  /\ MakerSide \in Sides
           /\ IsFiniteSet(OnSide)
           /\ \A p \in Prices : \A o \in Listed(MakerSide, p) : o \in OnSide
           /\ \A p, r \in Prices : \A o \in Listed(MakerSide, p) :
                  o \in Listed(MakerSide, r) => p = r
           /\ \A o \in OnSide : \E p \in Prices : o \in Listed(MakerSide, p)
<1>1. TypeOK /\ OpenOrdersRest
  BY DEF IInv, Inv
<1>2. taker \in Orders
  BY <1>1 DEF TypeOK
<1>3. MakerSide \in Sides
  BY <1>1, <1>2, RequestType DEF MakerSide, TypeOK, Sides, Opposite
<1>4. ASSUME NEW p \in Prices, NEW o \in Listed(MakerSide, p)
      PROVE  o \in processed
  <2>1. PICK i \in 1..Len(queue[MakerSide][p]) : queue[MakerSide][p][i] = o
    BY DEF Listed
  <2>2. InPlace(MakerSide, p)
    BY <1>1, <1>3 DEF OpenOrdersRest
  <2>3. QED
    BY <2>1, <2>2 DEF InPlace
<1>5. OnSide \subseteq processed
  BY <1>4 DEF OnSide
<1>6. IsFiniteSet(OnSide)
  BY <1>5, FS_Subset
<1>7. \A p, r \in Prices : \A o \in Listed(MakerSide, p) :
          o \in Listed(MakerSide, r) => p = r
  BY <1>1, <1>3, ListedOnce
<1>8. QED
  BY <1>3, <1>6, <1>7 DEF OnSide

\* Inside a level: those elsewhere, and its own that were not passed.
LEMMA LevelSets ==
    ASSUME BookAssumption, IInv, IsFiniteSet(processed), pc \in {"scan", "fillMaker", "sweep"}
    PROVE  /\ level \in Prices /\ MakerSide \in Sides
           /\ IsFiniteSet(Elsewhere) /\ Cardinality(Elsewhere) \in Nat
           /\ Len(LevelOrders) \in Nat
           /\ pc # "sweep" => IsFiniteSet(NotPassed) /\ Cardinality(NotPassed) \in Nat
<1>1. TypeOK /\ pc # "idle"
  BY DEF IInv, Inv
<1>2. level \in Prices /\ index \in Nat
  BY <1>1 DEF TypeOK
<1>3. MakerSide \in Sides /\ IsFiniteSet(OnSide)
  BY <1>1, LoopSets
<1>4. Elsewhere \subseteq OnSide
  BY DEF Elsewhere, OnSide
<1>5. queue[MakerSide][level] \in Seq(Orders)
  BY <1>1, <1>2, <1>3, QueueType
<1>6. Len(LevelOrders) \in Nat /\ \A i \in 1..Len(LevelOrders) : LevelOrders[i] \in Orders
  BY <1>5 DEF LevelOrders
<1>7. ASSUME pc # "sweep" PROVE NotPassed \subseteq OnSide
  <2>1. index > 0
    BY <1>1, <1>7 DEF TypeOK
  <2>2. \A i \in index..Len(LevelOrders) : i \in 1..Len(LevelOrders)
    BY <1>2, <1>6, <2>1
  <2>3. QED
    BY <1>2, <1>6, <2>2 DEF NotPassed, OnSide, Listed, LevelOrders
<1>8. QED
  BY <1>2, <1>3, <1>4, <1>6, <1>7, FS_Subset, FS_CardinalityType

\* Whoever the scan stands at is the first that is not passed, and then passed.
LEMMA Passing ==
    ASSUME BookAssumption, IInv, IsFiniteSet(processed), pc \in {"scan", "fillMaker"},
           index <= Len(LevelOrders)
    PROVE  /\ Cardinality(NotPassed) \in Nat /\ Cardinality(NotPassed) > 0
           /\ Cardinality({LevelOrders[i] : i \in index + 1..Len(LevelOrders)})
                  = Cardinality(NotPassed) - 1
<1>1. /\ Len(LevelOrders) \in Nat /\ level \in Prices /\ MakerSide \in Sides
      /\ IsFiniteSet(NotPassed) /\ Cardinality(NotPassed) \in Nat
  BY LevelSets
<1>2. index \in 1..Len(LevelOrders)
  BY MakerFacts DEF IInv
<1>3. \A i, j \in 1..Len(LevelOrders) : i # j => LevelOrders[i] # LevelOrders[j]
  BY <1>1 DEF IInv, Inv, OpenOrdersRest, InPlace, LevelOrders
<1>4. /\ Maker \in NotPassed
      /\ {LevelOrders[i] : i \in index + 1..Len(LevelOrders)} = NotPassed \ {Maker}
  <2>1. \A i \in index..Len(LevelOrders) : i \in 1..Len(LevelOrders)
    BY <1>1, <1>2
  <2>2. index \in index..Len(LevelOrders)
    BY <1>1, <1>2
  <2>3. \A i : i \in index + 1..Len(LevelOrders) <=> i \in index..Len(LevelOrders) /\ i # index
    BY <1>1, <1>2
  <2> DEFINE n == Len(LevelOrders)
             q == LevelOrders
  <2>4. /\ \A i, j \in 1..n : i # j => q[i] # q[j]
        /\ NotPassed = {q[i] : i \in index..n} /\ Maker = q[index] /\ index \in 1..n
    BY <1>2, <1>3 DEF NotPassed, Maker
  <2> HIDE DEF n, q
  <2>5. Maker \in NotPassed /\ {q[i] : i \in index + 1..n} = NotPassed \ {Maker}
    BY <2>1, <2>2, <2>3, <2>4 DEF n
  <2>6. QED
    BY <2>5 DEF n, q
<1>5. NotPassed # {} /\ Cardinality(NotPassed \ {Maker}) = Cardinality(NotPassed) - 1
  BY <1>1, <1>4, FS_RemoveElement
<1>6. Cardinality(NotPassed) > 0
  BY <1>1, <1>5, FS_EmptySet
<1>7. QED
  BY <1>1, <1>4, <1>5, <1>6

\* A level that is entered has all its orders before it, and so one at least: it is
\* split off the side.
LEMMA EnterAdvances ==
    ASSUME BookAssumption, IInv, IsFiniteSet(processed), EnterLevel
    PROVE  StepsLeft' \in Nat /\ StepsLeft' < StepsLeft
<1>1. /\ pc = "level" /\ pc' = "scan" /\ index' = 1 /\ level' \in Levels(MakerSide)
      /\ UNCHANGED <<request, queue, taker>>
  BY DEF EnterLevel, IsMin, bookVars
<1>2. TypeOK /\ MakerSide \in Sides /\ IsFiniteSet(OnSide)
  BY <1>1, LoopSets DEF IInv, Inv
<1> DEFINE P == level'
           inLevel == Listed(MakerSide, P)
           others == UNION {Listed(MakerSide, p) : p \in Prices \ {P}}
<1>3. P \in Prices /\ queue[MakerSide][P] # <<>>
  BY <1>1 DEF Levels
<1>4. queue[MakerSide][P] \in Seq(Orders)
  BY <1>2, <1>3, QueueType
<1>5. OnSide = inLevel \cup others /\ inLevel \cap others = {}
  <2>1. /\ \A p \in Prices : \A o \in Listed(MakerSide, p) : o \in OnSide
        /\ \A p, r \in Prices : \A o \in Listed(MakerSide, p) :
               o \in Listed(MakerSide, r) => p = r
    BY <1>1, LoopSets
  <2>2. \A o \in OnSide : \E p \in Prices : o \in Listed(MakerSide, p)
    BY <1>1, LoopSets
  <2>3. QED
    BY <1>3, <2>1, <2>2
<1>6. inLevel # {}
  <2>1. queue[MakerSide][P][1] \in Orders /\ 1 \in 1..Len(queue[MakerSide][P])
    BY <1>3, <1>4
  <2>2. QED
    BY <2>1 DEF Listed
<1>7. MakerSide' = MakerSide
  BY <1>1 DEF MakerSide
<1>8. Elsewhere' = others
  BY <1>1, <1>7 DEF Elsewhere, Listed
<1>9. NotPassed' = inLevel
  <2>1. NotPassed' = {queue[MakerSide][P][i] : i \in 1..Len(queue[MakerSide][P])}
    BY <1>1, <1>7 DEF NotPassed, LevelOrders
  <2>2. \A i \in 1..Len(queue[MakerSide][P]) : queue[MakerSide][P][i] \in Orders
    BY <1>4
  <2>3. QED
    BY <2>1, <2>2 DEF Listed
<1> HIDE DEF P, inLevel, others
<1>10. /\ IsFiniteSet(inLevel) /\ IsFiniteSet(others)
       /\ Cardinality(inLevel) \in Nat /\ Cardinality(others) \in Nat
       /\ Cardinality(inLevel) > 0
  <2>1. IsFiniteSet(inLevel) /\ IsFiniteSet(others)
    BY <1>2, <1>5, FS_Subset
  <2>2. Cardinality(inLevel) # 0
    BY <1>6, <2>1, FS_EmptySet
  <2>3. QED
    BY <2>1, <2>2, FS_CardinalityType
<1>11. Cardinality(OnSide) = Cardinality(inLevel) + Cardinality(others)
  <2>1. Cardinality(OnSide)
            = Cardinality(inLevel) + Cardinality(others) - Cardinality(inLevel \cap others)
    BY <1>5, <1>10, FS_Union
  <2>2. Cardinality(inLevel \cap others) = 0
    BY <1>5, FS_EmptySet
  <2>3. \A a, b \in Nat : a + b - 0 = a + b
    OBVIOUS
  <2>4. QED
    BY <1>10, <2>1, <2>2, <2>3
<1>12. StepsLeft = 2 + 5 * Cardinality(OnSide)
  BY <1>1 DEF StepsLeft
<1>13. StepsLeft' = 4 + 5 * Cardinality(others) + 2 * Cardinality(inLevel)
  BY <1>1, <1>8, <1>9 DEF StepsLeft
<1>14. QED
  BY <1>10, <1>11, <1>12, <1>13

\* The steps of the inner loop pass an order or end the loop.
LEMMA ScanAdvances ==
    ASSUME BookAssumption, IInv, IsFiniteSet(processed),
           SkipDone \/ FillTaker \/ FillMaker \/ EndScan
    PROVE  StepsLeft' \in Nat /\ StepsLeft' < StepsLeft
<1>1. /\ pc \in {"scan", "fillMaker"} /\ UNCHANGED <<request, queue, taker, level>>
      /\ TypeOK
  BY DEF SkipDone, FillTaker, FillMaker, EndScan, bookVars, scanVars, IInv, Inv
<1>2. Elsewhere' = Elsewhere /\ LevelOrders' = LevelOrders /\ MakerSide' = MakerSide
  BY <1>1 DEF Elsewhere, LevelOrders, MakerSide, Listed
<1>3. PICK e \in Nat, n \in Nat : e = Cardinality(Elsewhere) /\ n = Cardinality(NotPassed)
  BY <1>1, LevelSets
<1>4. CASE EndScan
  <2>1. pc = "scan" /\ pc' = "sweep"
    BY <1>4 DEF EndScan
  <2>2. /\ StepsLeft = 4 + 5 * e + 2 * n
        /\ StepsLeft' = 3 + 5 * e
    BY <1>2, <1>3, <2>1 DEF StepsLeft
  <2>3. QED
    BY <1>3, <2>2
<1>5. CASE FillTaker
  <2>1. pc = "scan" /\ pc' = "fillMaker" /\ index' = index
    BY <1>5 DEF FillTaker
  <2>2. NotPassed' = NotPassed
    BY <1>2, <2>1 DEF NotPassed
  <2>3. /\ StepsLeft = 4 + 5 * e + 2 * n
        /\ StepsLeft' = 3 + 5 * e + 2 * n
    BY <1>2, <1>3, <2>1, <2>2 DEF StepsLeft
  <2>4. QED
    BY <1>3, <2>3
<1>6. CASE SkipDone \/ FillMaker
  <2>1. index <= Len(LevelOrders)
    BY <1>1, <1>6 DEF SkipDone, FillMaker, TypeOK
  <2>2. /\ n > 0
        /\ Cardinality({LevelOrders[i] : i \in index + 1..Len(LevelOrders)})
               = n - 1
    BY <1>1, <1>3, <2>1, Passing
  <2>3. PICK steps \in Nat : steps = StepsLeft /\ steps >= 3 + 5 * e + 2 * n
    BY <1>1, <1>3 DEF StepsLeft
  <2>4. CASE pc' = "scan" /\ index' = index + 1
    <3>1. NotPassed' = {LevelOrders[i] : i \in index + 1..Len(LevelOrders)}
      BY <1>2, <2>4 DEF NotPassed
    <3>2. StepsLeft' = 4 + 5 * e + 2 * (n - 1)
      BY <1>2, <1>3, <2>2, <2>4, <3>1 DEF StepsLeft
    <3>3. n > 0 /\ steps >= 3 + 5 * e + 2 * n
      BY <2>2, <2>3
    <3>4. 4 + 5 * e + 2 * (n - 1) \in Nat /\ 4 + 5 * e + 2 * (n - 1) < steps
      BY <3>3
    <3>5. QED
      BY <2>3, <3>2, <3>4
  <2>5. CASE pc' = "sweep"
    <3>1. StepsLeft' = 3 + 5 * e
      BY <1>2, <1>3, <2>5 DEF StepsLeft
    <3>2. n > 0 /\ steps >= 3 + 5 * e + 2 * n
      BY <2>2, <2>3
    <3>3. 3 + 5 * e \in Nat /\ 3 + 5 * e < steps
      BY <3>2
    <3>4. QED
      BY <2>3, <3>1, <3>3
  <2>6. (pc' = "scan" /\ index' = index + 1) \/ pc' = "sweep"
    BY <1>1, <1>6 DEF SkipDone, FillMaker
  <2>7. QED
    BY <2>4, <2>5, <2>6
<1>7. QED
  BY <1>4, <1>5, <1>6

\* A taker that is not done when a level is swept has made all its orders done, so
\* that the level is deleted and what is left on the side is elsewhere.
LEMMA SweepAdvances ==
    ASSUME BookAssumption, IInv, IsFiniteSet(processed), SweepLevel
    PROVE  StepsLeft' \in Nat /\ StepsLeft' < StepsLeft
<1>1. /\ pc = "sweep" /\ UNCHANGED <<request, taker, level>>
      /\ TypeOK /\ ScanInv
  BY DEF SweepLevel, scanVars, IInv, Inv
<1>2. level \in Prices /\ MakerSide \in Sides /\ Cardinality(Elsewhere) \in Nat
  BY <1>1, LevelSets
<1>3. StepsLeft = 3 + 5 * Cardinality(Elsewhere)
  BY <1>1 DEF StepsLeft
<1>4. CASE IsDone(taker)
  <2>1. StepsLeft' = 1
    BY <1>4 DEF SweepLevel, StepsLeft
  <2>2. QED
    BY <1>2, <1>3, <2>1
<1>5. CASE ~IsDone(taker)
  <2>1. LevelSwept
    BY <1>1, <1>5 DEF ScanInv, LevelSwept
  <2>2. pc' = "level" /\ queue' = [queue EXCEPT ![MakerSide][level] = <<>>]
    BY <1>5, <2>1 DEF SweepLevel
  <2>3. MakerSide' = MakerSide
    BY <1>1 DEF MakerSide
  <2>4. /\ queue'[MakerSide][level] = <<>>
        /\ \A p \in Prices \ {level} : queue'[MakerSide][p] = queue[MakerSide][p]
    BY <1>1, <1>2, <2>2 DEF TypeOK
  <2>5. ASSUME NEW p \in Prices
        PROVE  Listed(MakerSide, p)' = IF p = level THEN {} ELSE Listed(MakerSide, p)
    <3>1. CASE p = level
      <4>1. Listed(MakerSide, p)' = {o \in Orders : \E i \in 1..Len(<<>>) : <<>>[i] = o}
        BY <1>1, <2>3, <2>4, <3>1 DEF Listed
      <4>2. QED
        BY <3>1, <4>1
    <3>2. CASE p # level
      BY <2>3, <2>4, <3>2 DEF Listed
    <3>3. QED
      BY <3>1, <3>2
  <2>6. OnSide' = Elsewhere
    BY <2>5 DEF OnSide, Elsewhere
  <2>7. StepsLeft' = 2 + 5 * Cardinality(Elsewhere)
    BY <2>2, <2>6 DEF StepsLeft
  <2>8. QED
    BY <1>2, <1>3, <2>7
<1>6. QED
  BY <1>4, <1>5

\* The match is over, or the order dealt with.
LEMMA EndAdvances ==
    ASSUME BookAssumption, IInv, IsFiniteSet(processed),
           EndMatch \/ RejectMarket \/ Forget \/ Rest
    PROVE  StepsLeft' \in Nat /\ StepsLeft' < StepsLeft
<1>1. CASE EndMatch
  <2>1. pc = "level" /\ pc' = "matched"
    BY <1>1 DEF EndMatch
  <2>2. Cardinality(OnSide) \in Nat
    BY <2>1, LoopSets, FS_CardinalityType
  <2>3. StepsLeft = 2 + 5 * Cardinality(OnSide) /\ StepsLeft' = 1
    BY <2>1 DEF StepsLeft
  <2>4. QED
    BY <2>2, <2>3
<1>2. CASE RejectMarket \/ Forget \/ Rest
  <2>1. pc = "matched" /\ pc' = "idle"
    BY <1>2 DEF RejectMarket, Forget, Rest, Return
  <2>2. QED
    BY <2>1 DEF StepsLeft
<1>3. QED
  BY <1>1, <1>2

\* processOrder needs no more than five steps for each order on the other side, and
\* so ends, whatever rests there: no level is swept twice (MatchAdvances).
THEOREM EveryMatchEnds == Spec => MatchAdvances
<1>1. IInv /\ StatsInv /\ [Next]_vars
          => [Work => StepsLeft' \in Nat /\ StepsLeft' < StepsLeft]_vars
  BY BookAssumption, EnterAdvances, ScanAdvances, SweepAdvances, EndAdvances
  DEF Work, StatsInv
<1>2. QED
  BY <1>1, Invariance, StatsInvariance, PTL DEF Spec, MatchAdvances

=================================================================================
