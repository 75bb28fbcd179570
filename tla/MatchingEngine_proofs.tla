-------------------------- MODULE MatchingEngine_proofs --------------------------
(***************************************************************************)
(* The engine runs the book as OrderBook specifies, so what is proved of   *)
(* the book holds in the engine; and what the channels guarantee, for      *)
(* buffers of every size.                                                  *)
(***************************************************************************)
EXTENDS MatchingEngine, OrderBookTotals_proofs

\* The engine exits between two orders only, and the trade channel is closed
\* after that.
StopInv ==
    /\ engine = "exited" => pc = "idle"
    /\ TradesClosed => engine = "exited"

\* The types that the order of acceptance depends on.
AcceptType ==
    /\ call \in [Orders -> {"none", "waiting"} \cup Outcomes]
    /\ accepted \in Seq(Orders)
    /\ orderCh \in Seq(Orders)

AcceptInv == AcceptType /\ AcceptedOrdersInTurn

-----------------------------------------------------------------------------

\* A step of the book other than Process takes up no order, and there is none
\* when the engine is idle.
LEMMA WorkFacts ==
    ASSUME Work
    PROVE  UNCHANGED processed /\ pc # "idle"
BY DEF Work, EnterLevel, EndMatch, SkipDone, FillTaker, FillMaker, EndScan, SweepLevel,
       RejectMarket, Forget, Rest, Return

\* What each action that is not listed here leaves alone.
LEMMA OtherSteps ==
    ASSUME OfferTrade \/ Match \/ Exit \/ Cancel \/ CloseTrades \/ CloseOrders
               \/ StartDrain \/ Drain \/ UNCHANGED engineVars
    PROVE  UNCHANGED <<call, accepted, orderCh, processed>>
<1>1. CASE Match
  BY <1>1, WorkFacts DEF Match, chVars
<1>2. CASE OfferTrade \/ Exit \/ Cancel \/ CloseTrades \/ CloseOrders \/ StartDrain
  BY <1>2 DEF OfferTrade, Exit, Cancel, CloseTrades, CloseOrders, StartDrain, vars
<1>3. CASE Drain
  BY <1>3 DEF Drain, Receive, ReceiveNil, EndDrain, vars
<1>4. CASE UNCHANGED engineVars
  BY <1>4 DEF engineVars, chVars, vars
<1>5. QED
  BY <1>1, <1>2, <1>3, <1>4

\* An order joins the accepted ones when it joins the channel, and has not been
\* among them before.
LEMMA AcceptStep ==
    ASSUME AcceptInv, NEW o \in Orders, Accept(o)
    PROVE  AcceptInv'
<1>1. /\ call \in [Orders -> {"none", "waiting"} \cup Outcomes]
      /\ accepted \in Seq(Orders) /\ orderCh \in Seq(Orders)
  BY DEF AcceptInv, AcceptType
<1>2. /\ call[o] = "waiting" /\ call' = [call EXCEPT ![o] = "accepted"]
      /\ orderCh' = Append(orderCh, o) /\ accepted' = Append(accepted, o)
      /\ processed' = processed
  BY DEF Accept, Outcome, vars
<1>3. /\ \A x \in Orders : call[x] = "accepted" <=> \E i \in 1..Len(accepted) : accepted[i] = x
      /\ \A i, j \in 1..Len(accepted) : i # j => accepted[i] # accepted[j]
      /\ TakenUp \in Nat
      /\ \A i \in 1..Len(orderCh) : orderCh[i] = accepted[TakenUp + i]
      /\ processed = {accepted[i] : i \in 1..TakenUp}
  BY DEF AcceptInv, AcceptedOrdersInTurn
<1>4. AcceptType'
  BY <1>1, <1>2 DEF AcceptType, Outcomes
<1>5. /\ Len(accepted) \in Nat /\ Len(orderCh) \in Nat
      /\ Len(accepted') = Len(accepted) + 1 /\ Len(orderCh') = Len(orderCh) + 1
      /\ accepted'[Len(accepted) + 1] = o /\ orderCh'[Len(orderCh) + 1] = o
      /\ \A i \in 1..Len(accepted) : accepted'[i] = accepted[i]
      /\ \A i \in 1..Len(orderCh) : orderCh'[i] = orderCh[i]
  BY <1>1, <1>2
<1>6. TakenUp' = TakenUp /\ TakenUp + Len(orderCh) = Len(accepted)
  BY <1>3, <1>5 DEF TakenUp
<1>7. ASSUME NEW x \in Orders
      PROVE  call'[x] = "accepted" <=> \E i \in 1..Len(accepted') : accepted'[i] = x
  <2>1. CASE x = o
    BY <1>1, <1>2, <1>5, <2>1
  <2>2. CASE x # o
    BY <1>1, <1>2, <1>3, <1>5, <2>2
  <2>3. QED
    BY <2>1, <2>2
<1>8. \A i, j \in 1..Len(accepted') : i # j => accepted'[i] # accepted'[j]
  BY <1>2, <1>3, <1>5
<1>9. \A i \in 1..Len(orderCh') : orderCh'[i] = accepted'[TakenUp' + i]
  <2> SUFFICES ASSUME NEW i \in 1..Len(orderCh')
               PROVE  orderCh'[i] = accepted'[TakenUp + i]
    BY <1>6
  <2>1. CASE i \in 1..Len(orderCh)
    <3>1. TakenUp + i \in 1..Len(accepted)
      BY <1>3, <1>5, <1>6, <2>1
    <3>2. QED
      BY <1>3, <1>5, <2>1, <3>1
  <2>2. CASE i = Len(orderCh) + 1
    BY <1>3, <1>5, <1>6, <2>2
  <2>3. QED
    BY <1>5, <2>1, <2>2
<1>10. processed' = {accepted'[i] : i \in 1..TakenUp'}
  <2>1. \A i \in 1..TakenUp : i \in 1..Len(accepted)
    BY <1>3, <1>5, <1>6
  <2>2. QED
    BY <1>2, <1>3, <1>5, <1>6, <2>1
<1>11. QED
  BY <1>3, <1>4, <1>6, <1>7, <1>8, <1>9, <1>10 DEF AcceptInv, AcceptedOrdersInTurn

\* The order the engine takes is the first that it had not taken.
LEMMA TakeStep ==
    ASSUME AcceptInv, TakeOrder
    PROVE  AcceptInv'
<1>1. /\ call \in [Orders -> {"none", "waiting"} \cup Outcomes]
      /\ accepted \in Seq(Orders) /\ orderCh \in Seq(Orders)
  BY DEF AcceptInv, AcceptType
<1>2. /\ orderCh # <<>> /\ orderCh' = Tail(orderCh)
      /\ processed' = processed \cup {Head(orderCh)}
      /\ call' = call /\ accepted' = accepted
  BY DEF TakeOrder, Process
<1>3. /\ TakenUp \in Nat
      /\ \A i \in 1..Len(orderCh) : orderCh[i] = accepted[TakenUp + i]
      /\ processed = {accepted[i] : i \in 1..TakenUp}
  BY DEF AcceptInv, AcceptedOrdersInTurn
<1>4. AcceptType'
  BY <1>1, <1>2 DEF AcceptType
<1>5. /\ Len(accepted) \in Nat /\ Len(orderCh) \in Nat \ {0}
      /\ Len(orderCh') = Len(orderCh) - 1
      /\ Head(orderCh) = orderCh[1]
      /\ \A i \in 1..Len(orderCh') : orderCh'[i] = orderCh[i + 1]
  BY <1>1, <1>2
<1>6. TakenUp' = TakenUp + 1
  BY <1>2, <1>3, <1>5 DEF TakenUp
<1>7. \A i \in 1..Len(orderCh') : orderCh'[i] = accepted'[TakenUp' + i]
  <2> SUFFICES ASSUME NEW i \in 1..Len(orderCh')
               PROVE  orderCh'[i] = accepted[TakenUp' + i]
    BY <1>2
  <2>1. i + 1 \in 1..Len(orderCh) /\ TakenUp' + i = TakenUp + (i + 1)
    BY <1>3, <1>5, <1>6
  <2>2. QED
    BY <1>3, <1>5, <2>1
<1>8. processed' = {accepted'[i] : i \in 1..TakenUp'}
  <2>1. Head(orderCh) = accepted[TakenUp + 1]
    BY <1>3, <1>5
  <2>2. \A i : i \in 1..TakenUp' <=> i \in 1..TakenUp \/ i = TakenUp + 1
    BY <1>3, <1>6
  <2>3. QED
    BY <1>2, <1>3, <2>1, <2>2
<1>9. TakenUp' \in Nat
  BY <1>3, <1>6
<1>10. AcceptedOrdersInTurn'
  <2>1. AcceptedOrdersInTurn
    BY DEF AcceptInv
  <2>2. QED
    BY <1>2, <1>7, <1>8, <1>9, <2>1 DEF AcceptedOrdersInTurn
<1>11. QED
  BY <1>4, <1>10 DEF AcceptInv

\* The order of acceptance is an invariant.
LEMMA NextAcceptInv == ASSUME AcceptInv, [EngineNext]_engineVars PROVE AcceptInv'
<1>1. ASSUME UNCHANGED <<call, accepted, orderCh, processed>> PROVE AcceptInv'
  BY <1>1 DEF AcceptInv, AcceptType, AcceptedOrdersInTurn, TakenUp
<1>2. ASSUME NEW o \in Orders, Call(o) \/ TimeOut(o) \/ RefuseStopped(o) \/ SendOnClosed(o)
      PROVE  AcceptInv'
  <2>1. /\ UNCHANGED <<accepted, orderCh, processed>>
        /\ call[o] \in {"none", "waiting"}
        /\ \E result \in {"waiting", "ErrOrderChannelFull", "ErrEngineStopped", "panic"} :
               call' = [call EXCEPT ![o] = result]
    BY <1>2 DEF Call, TimeOut, RefuseStopped, SendOnClosed, Outcome, vars
  <2>2. AcceptType
    BY DEF AcceptInv
  <2>3. /\ call' \in [Orders -> {"none", "waiting"} \cup Outcomes]
        /\ \A x \in Orders : call'[x] = "accepted" <=> call[x] = "accepted"
    BY <2>1, <2>2 DEF AcceptType, Outcomes
  <2>4. QED
    BY <2>1, <2>2, <2>3 DEF AcceptInv, AcceptType, AcceptedOrdersInTurn, TakenUp
<1>3. QED
  BY <1>1, <1>2, AcceptStep, TakeStep, OtherSteps DEF EngineNext, EndCall, EngineStep

\* Every step of the system is a step of the book or leaves it alone.
LEMMA EngineStepIsBookStep ==
    ASSUME AcceptInv, [EngineNext]_engineVars
    PROVE  [Next]_vars
<1>1. CASE \E o \in Orders : Call(o) \/ EndCall(o)
  BY <1>1 DEF Call, EndCall, Accept, TimeOut, RefuseStopped, SendOnClosed, Outcome
<1>2. CASE EngineStep
  <2>1. CASE TakeOrder
    <3>1. Process(Head(orderCh)) /\ orderCh # <<>>
      BY <2>1 DEF TakeOrder
    <3>2. Head(orderCh) \in Orders
      BY <3>1 DEF AcceptInv, AcceptType
    <3>3. QED
      BY <3>1, <3>2 DEF Next
  <2>2. CASE OfferTrade \/ Exit
    BY <2>2 DEF OfferTrade, Exit
  <2>3. CASE Match
    BY <2>3 DEF Match, Next
  <2>4. QED
    BY <1>2, <2>1, <2>2, <2>3 DEF EngineStep
<1>3. CASE Cancel \/ CloseTrades \/ CloseOrders \/ StartDrain \/ Drain
  BY <1>3 DEF Cancel, CloseTrades, CloseOrders, StartDrain, Drain, Receive, ReceiveNil, EndDrain
<1>4. CASE UNCHANGED engineVars
  BY <1>4 DEF engineVars
<1>5. QED
  BY <1>1, <1>2, <1>3, <1>4 DEF EngineNext

\* The engine never sends on a closed channel.
LEMMA NextStopInv == ASSUME StopInv, [EngineNext]_engineVars PROVE StopInv'
<1> USE DEF StopInv, TradesClosed
<1>1. CASE \E o \in Orders : Call(o) \/ EndCall(o)
  BY <1>1 DEF Call, EndCall, Accept, TimeOut, RefuseStopped, SendOnClosed, Outcome, vars
<1>2. CASE TakeOrder \/ OfferTrade \/ Exit
  BY <1>2 DEF TakeOrder, OfferTrade, Exit, vars
<1>3. CASE Match
  BY <1>3, WorkFacts DEF Match, chVars
<1>4. CASE Cancel \/ CloseTrades \/ CloseOrders
  BY <1>4 DEF Cancel, CloseTrades, CloseOrders, vars
<1>5. CASE StartDrain \/ Drain
  BY <1>5 DEF StartDrain, Drain, Receive, ReceiveNil, EndDrain, vars
<1>6. CASE UNCHANGED engineVars
  BY <1>6 DEF engineVars, chVars, vars
<1>7. QED
  BY <1>1, <1>2, <1>3, <1>4, <1>5, <1>6 DEF EngineNext, EngineStep

-----------------------------------------------------------------------------
(* The trade channel *)

\* The types of what the engine, Stop and GetTrades share, and the buffers' limits.
ChannelType ==
    /\ Len(orderCh) <= OrderCap
    /\ tradeCh \in Seq(Nat) /\ Len(tradeCh) <= TradeCap
    /\ offered \in 0..Len(tape) /\ dropped \subseteq 1..offered
    /\ engine \in {"running", "exited"}
    /\ stop \in {"running", "cancelled", "tradesClosed", "closed"}
    /\ reader \in {"idle", "draining"}
    /\ received \in Seq(Nat)

ChannelInv == ChannelType /\ TradesPublishedInTurn

\* The ends of a sequence.
LEMMA EndFacts ==
    ASSUME NEW T, NEW q \in Seq(T)
    PROVE  /\ Len(q) \in Nat /\ DOMAIN q = 1..Len(q)
           /\ \A i \in 1..Len(q) : q[i] \in T
           /\ \A x \in T : /\ Append(q, x) \in Seq(T)
                           /\ Len(Append(q, x)) = Len(q) + 1
           /\ q # <<>> => /\ Head(q) \in T /\ Tail(q) \in Seq(T)
                          /\ Len(Tail(q)) = Len(q) - 1
OBVIOUS

\* Only FillMaker writes the tape, and processOrder ends from pc = "matched" only.
LEMMA TapeGrows ==
    ASSUME TypeOK, Work
    PROVE  /\ Len(tape) \in Nat /\ Len(tape') \in Nat /\ Len(tape) <= Len(tape')
           /\ pc' = "idle" => pc = "matched" /\ tape' = tape
<1>1. Len(tape) \in Nat
  BY TapeType
<1>2. CASE FillMaker
  <2> DEFINE t == [taker |-> taker, maker |-> Maker, price |-> request[Maker].price, quantity |-> lot]
  <2>1. tape' = Append(tape, t) /\ pc' # "idle"
    BY <1>2 DEF FillMaker
  <2>2. Len(Append(tape, t)) = Len(tape) + 1
    BY DEF TypeOK
  <2>3. QED
    BY <1>1, <2>1, <2>2
<1>3. CASE ~FillMaker
  <2>1. tape' = tape /\ (pc' = "idle" => pc = "matched")
    BY <1>3 DEF Work, EnterLevel, EndMatch, SkipDone, FillTaker, EndScan, SweepLevel,
                RejectMarket, Forget, Rest, Return
  <2>2. QED
    BY <1>1, <2>1
<1>4. QED
  BY <1>2, <1>3

\* A step of the engine on a trade, ...
LEMMA OfferStep ==
    ASSUME EngineAssumption, TypeOK, ChannelInv, OfferTrade
    PROVE  ChannelInv'
<1>1. /\ offered' = offered + 1 /\ offered < Len(tape) /\ pc = "matched"
      /\ UNCHANGED <<tape, pc, orderCh, engine, stop, reader, received>>
      /\ \/ /\ Len(tradeCh) < TradeCap
            /\ tradeCh' = Append(tradeCh, offered + 1) /\ dropped' = dropped
         \/ dropped' = dropped \cup {offered + 1} /\ tradeCh' = tradeCh
  BY DEF OfferTrade, vars
<1>2. /\ offered \in Nat /\ offered \in 0..Len(tape) /\ Len(tape) \in Nat
      /\ tradeCh \in Seq(Nat) /\ received \in Seq(Nat) /\ TradeCap \in Nat
      /\ Published \cup dropped = 1..offered /\ Published \cap dropped = {}
      /\ \A i, j \in DOMAIN Flow : i < j /\ Flow[j] # NilTrade => Flow[i] < Flow[j]
  BY TapeType DEF ChannelInv, ChannelType, TradesPublishedInTurn, EngineAssumption
<1>3. ChannelType'
  <2>1. offered + 1 \in 0..Len(tape) /\ 1..offered \subseteq 1..(offered + 1)
        /\ offered + 1 \in 1..(offered + 1) /\ offered + 1 \in Nat
    BY <1>1, <1>2
  <2>2. dropped' \subseteq 1..(offered + 1)
    BY <1>1, <2>1 DEF ChannelInv, ChannelType
  <2>3. tradeCh' \in Seq(Nat) /\ Len(tradeCh') <= TradeCap
    <3>1. Len(tradeCh) <= TradeCap /\ Len(tradeCh) \in Nat
      BY <1>2, EndFacts DEF ChannelInv, ChannelType
    <3>2. /\ Append(tradeCh, offered + 1) \in Seq(Nat)
          /\ Len(Append(tradeCh, offered + 1)) = Len(tradeCh) + 1
      BY <1>2, <2>1, EndFacts
    <3>3. CASE tradeCh' = tradeCh
      BY <1>2, <3>1, <3>3
    <3>4. CASE Len(tradeCh) < TradeCap /\ tradeCh' = Append(tradeCh, offered + 1)
      BY <1>2, <3>1, <3>2, <3>4
    <3>5. QED
      BY <1>1, <3>3, <3>4
  <2>4. QED
    BY <1>1, <2>1, <2>2, <2>3 DEF ChannelInv, ChannelType
<1>4. /\ Flow \in Seq(Nat) /\ Len(Flow) \in Nat /\ DOMAIN Flow = 1..Len(Flow)
      /\ \A i \in 1..Len(Flow) : Flow[i] \in Nat
  BY <1>2 DEF Flow
<1>5. ASSUME NEW i \in DOMAIN Flow PROVE Flow[i] <= offered
  <2>1. CASE Flow[i] = NilTrade
    BY <1>2, <2>1 DEF NilTrade
  <2>2. CASE Flow[i] # NilTrade
    <3>1. Flow[i] \in Published
      BY <2>2 DEF Published
    <3>2. QED
      BY <1>2, <3>1
  <2>3. QED
    BY <2>1, <2>2
<1>6. CASE tradeCh' = Append(tradeCh, offered + 1) /\ dropped' = dropped
  <2>1. Flow' = Append(Flow, offered + 1)
    BY <1>1, <1>2, <1>6 DEF Flow
  <2>2. /\ DOMAIN Flow' = 1..(Len(Flow) + 1) /\ Flow'[Len(Flow) + 1] = offered + 1
        /\ \A i \in 1..Len(Flow) : Flow'[i] = Flow[i]
    BY <1>4, <2>1
  <2>3. \A i, j \in DOMAIN Flow' : i < j /\ Flow'[j] # NilTrade => Flow'[i] < Flow'[j]
    <3> SUFFICES ASSUME NEW i \in 1..(Len(Flow) + 1), NEW j \in 1..(Len(Flow) + 1),
                        i < j, Flow'[j] # NilTrade
                 PROVE  Flow'[i] < Flow'[j]
      BY <2>2
    <3>1. i \in DOMAIN Flow /\ Flow'[i] = Flow[i]
      BY <1>4, <2>2
    <3>2. CASE j \in 1..Len(Flow)
      BY <1>2, <1>4, <2>2, <3>1, <3>2
    <3>3. CASE j = Len(Flow) + 1
      <4>1. Flow[i] <= offered /\ Flow[i] \in Nat
        BY <1>4, <1>5, <3>1
      <4>2. QED
        BY <1>2, <2>2, <3>1, <3>3, <4>1
    <3>4. QED
      BY <1>4, <3>2, <3>3
  <2>4. Published' = Published \cup {offered + 1}
    <3>1. offered + 1 # NilTrade
      BY <1>2 DEF NilTrade
    <3>2. {Flow'[i] : i \in DOMAIN Flow'} = {Flow[i] : i \in DOMAIN Flow} \cup {offered + 1}
      BY <1>4, <2>2
    <3>3. QED
      BY <3>1, <3>2 DEF Published
  <2>5. QED
    BY <1>1, <1>2, <1>3, <1>6, <2>3, <2>4 DEF ChannelInv, TradesPublishedInTurn
<1>7. CASE dropped' = dropped \cup {offered + 1} /\ tradeCh' = tradeCh
  <2>1. Flow' = Flow /\ Published' = Published
    BY <1>1, <1>7 DEF Flow, Published
  <2>2. QED
    BY <1>1, <1>2, <1>3, <1>7, <2>1 DEF ChannelInv, TradesPublishedInTurn
<1>8. QED
  BY <1>1, <1>6, <1>7

\* ... of GetTrades, which moves the boundary between what it has taken and what
\* it will take, or adds a nil trade at the end, ...
LEMMA DrainStep ==
    ASSUME EngineAssumption, ChannelInv, Drain
    PROVE  ChannelInv'
<1>1. /\ UNCHANGED <<tape, pc, orderCh, offered, dropped, engine, stop>>
      /\ reader' \in {"idle", "draining"}
  BY DEF Drain, Receive, ReceiveNil, EndDrain, vars
<1>2. /\ offered \in Nat /\ tradeCh \in Seq(Nat) /\ received \in Seq(Nat)
      /\ TradesPublishedInTurn /\ ChannelType /\ NilTrade \in Nat
  BY DEF ChannelInv, ChannelType, NilTrade
<1>3. CASE Receive
  <2>1. tradeCh # <<>> /\ received' = Append(received, Head(tradeCh)) /\ tradeCh' = Tail(tradeCh)
    BY <1>3 DEF Receive
  <2>2. Flow' = Flow
    BY <1>2, <2>1 DEF Flow
  <2>3. ChannelType'
    <3>1. /\ received' \in Seq(Nat)
          /\ tradeCh' \in Seq(Nat) /\ Len(tradeCh') <= Len(tradeCh)
          /\ Len(tradeCh) \in Nat /\ Len(tradeCh') \in Nat
      BY <1>2, <2>1, EndFacts
    <3>2. QED
      BY <1>1, <1>2, <3>1 DEF ChannelType, EngineAssumption
  <2>4. QED
    BY <1>1, <1>2, <2>2, <2>3 DEF ChannelInv, TradesPublishedInTurn, Published
<1>4. CASE ReceiveNil
  <2>1. tradeCh = <<>> /\ tradeCh' = tradeCh
        /\ (received' = Append(received, NilTrade) \/ received' = received)
    BY <1>4 DEF ReceiveNil
  <2>2. ChannelType'
    <3>1. received' \in Seq(Nat)
      BY <1>2, <2>1, EndFacts
    <3>2. QED
      BY <1>1, <1>2, <2>1, <3>1 DEF ChannelType
  <2>3. CASE received' = received
    BY <1>1, <1>2, <2>1, <2>2, <2>3 DEF ChannelInv, TradesPublishedInTurn, Published, Flow
  <2>4. CASE received' = Append(received, NilTrade)
    <3>1. Flow = received /\ Flow' = Append(Flow, NilTrade)
      BY <1>2, <2>1, <2>4 DEF Flow
    <3>2. /\ DOMAIN Flow = 1..Len(Flow) /\ Len(Flow) \in Nat
          /\ DOMAIN Flow' = 1..(Len(Flow) + 1) /\ Flow'[Len(Flow) + 1] = NilTrade
          /\ \A i \in 1..Len(Flow) : Flow'[i] = Flow[i]
      BY <1>2, <3>1
    <3>3. \A i, j \in DOMAIN Flow' : i < j /\ Flow'[j] # NilTrade => Flow'[i] < Flow'[j]
      <4> SUFFICES ASSUME NEW i \in DOMAIN Flow', NEW j \in DOMAIN Flow',
                          i < j, Flow'[j] # NilTrade
                   PROVE Flow'[i] < Flow'[j]
        OBVIOUS
      <4>1. i \in DOMAIN Flow /\ j \in DOMAIN Flow
        BY <3>2
      <4>2. Flow'[i] = Flow[i] /\ Flow'[j] = Flow[j]
        BY <3>2, <4>1
      <4> QED
        BY <1>2, <4>1, <4>2 DEF TradesPublishedInTurn
    <3>4. Published' = Published
      BY <3>2 DEF Published
    <3>5. QED
      BY <1>1, <1>2, <2>2, <3>3, <3>4 DEF ChannelInv, TradesPublishedInTurn
  <2>5. QED
    BY <2>1, <2>3, <2>4
<1>5. CASE EndDrain
  <2>1. UNCHANGED <<tradeCh, received>>
    BY <1>5 DEF EndDrain
  <2>2. QED
    BY <1>1, <1>2, <2>1 DEF ChannelInv, ChannelType, TradesPublishedInTurn, Published, Flow
<1>6. QED
  BY <1>3, <1>4, <1>5 DEF Drain

\* ... and all others, of which only Match ends an order.
LEMMA NextChannelInv ==
    ASSUME EngineAssumption, BookAssumption, TypeOK, AcceptInv, ChannelInv, [EngineNext]_engineVars
    PROVE  ChannelInv'
<1>1. ChannelType /\ TradesPublishedInTurn /\ orderCh \in Seq(Orders) /\ Len(tape) \in Nat
      /\ OrderCap \in Nat
  BY TapeType DEF ChannelInv, AcceptInv, AcceptType, EngineAssumption
<1>2. CASE OfferTrade
  BY <1>2, OfferStep
<1>3. CASE Drain
  BY <1>3, DrainStep
<1>4. CASE Match
  <2>1. /\ UNCHANGED <<orderCh, tradeCh, offered, dropped, engine, stop, reader, received>>
        /\ Work /\ (pc = "matched" => offered = Len(tape))
    BY <1>4 DEF Match, chVars
  <2>2. /\ Len(tape') \in Nat /\ Len(tape) <= Len(tape')
        /\ pc' = "idle" => pc = "matched" /\ tape' = tape
    BY <2>1, TapeGrows
  <2>3. ChannelType'
    BY <1>1, <2>1, <2>2 DEF ChannelType
  <2>4. QED
    BY <1>1, <2>1, <2>2, <2>3 DEF ChannelInv, TradesPublishedInTurn, Published, Flow
<1>5. CASE TakeOrder
  <2>1. /\ UNCHANGED <<tape, tradeCh, offered, dropped, engine, stop, reader, received>>
        /\ orderCh # <<>> /\ orderCh' = Tail(orderCh) /\ pc' # "idle"
    BY <1>5 DEF TakeOrder, Process
  <2>2. Len(Tail(orderCh)) <= OrderCap
    BY <1>1, <2>1, EndFacts DEF ChannelType
  <2>3. QED
    BY <1>1, <2>1, <2>2 DEF ChannelInv, ChannelType, TradesPublishedInTurn, Published, Flow
<1>6. ASSUME NEW o \in Orders, Accept(o) PROVE ChannelInv'
  <2>1. /\ UNCHANGED <<tape, pc, tradeCh, offered, dropped, engine, stop, reader, received>>
        /\ orderCh' = Append(orderCh, o) /\ Len(orderCh) < OrderCap
    BY <1>6 DEF Accept, Outcome, vars
  <2>2. Len(Append(orderCh, o)) <= OrderCap
    BY <1>1, <2>1, EndFacts
  <2>3. QED
    BY <1>1, <2>1, <2>2 DEF ChannelInv, ChannelType, TradesPublishedInTurn, Published, Flow
<1>7. CASE \/ Exit \/ Cancel \/ CloseTrades \/ CloseOrders \/ StartDrain \/ UNCHANGED engineVars
           \/ \E o \in Orders : Call(o) \/ TimeOut(o) \/ RefuseStopped(o) \/ SendOnClosed(o)
  <2>1. /\ UNCHANGED <<tape, pc, orderCh, tradeCh, offered, dropped, received>>
        /\ engine' \in {engine, "exited"}
        /\ stop' \in {stop, "cancelled", "tradesClosed", "closed"}
        /\ reader' \in {reader, "draining"}
    BY <1>7 DEF Exit, Cancel, CloseTrades, CloseOrders, StartDrain, Call, TimeOut, RefuseStopped,
                SendOnClosed, Outcome, engineVars, chVars, vars
  <2>2. QED
    BY <1>1, <2>1 DEF ChannelInv, ChannelType, TradesPublishedInTurn, Published, Flow
<1>8. QED
  BY <1>2, <1>3, <1>4, <1>5, <1>6, <1>7 DEF EngineNext, EndCall, EngineStep

-----------------------------------------------------------------------------

\* SubmitOrder, the channel and the engine's loop deal with each accepted order
\* once, in the order of acceptance, and with no other (AcceptedOrdersInTurn).
THEOREM AcceptedInTurn == EngineSpec => []AcceptedOrdersInTurn
<1>1. EngineInit => AcceptInv
  BY DEF EngineInit, Init, AcceptInv, AcceptType, AcceptedOrdersInTurn, TakenUp
<1>2. AcceptInv /\ [EngineNext]_engineVars => AcceptInv'
  BY NextAcceptInv
<1>3. AcceptInv => AcceptedOrdersInTurn
  BY DEF AcceptInv
<1>4. QED
  BY <1>1, <1>2, <1>3, PTL DEF EngineSpec

\* An action of this module is an action of OrderBook or leaves its variables alone, as
\* it is defined: what is proved of the book may be used of the engine.
LEMMA RunsTheBook == EngineSpec => Spec
<1>1. EngineInit => AcceptInv /\ Init
  BY DEF EngineInit, Init, AcceptInv, AcceptType, AcceptedOrdersInTurn, TakenUp
<1>2. AcceptInv /\ [EngineNext]_engineVars => AcceptInv' /\ [Next]_vars
  BY NextAcceptInv, EngineStepIsBookStep
<1>3. QED
  BY <1>1, <1>2, PTL DEF EngineSpec, Spec

LEMMA StopInvariance == EngineSpec => []StopInv
<1>1. EngineInit => StopInv
  BY DEF EngineInit, Init, StopInv, TradesClosed
<1>2. StopInv /\ [EngineNext]_engineVars => StopInv'
  BY NextStopInv
<1>3. QED
  BY <1>1, <1>2, PTL DEF EngineSpec

\* Stop waits for the engine before it closes the channel the engine sends on
\* (NoSendOnClosedTrades).
THEOREM ClosesInOrder == EngineSpec => []NoSendOnClosedTrades
<1>1. StopInv => NoSendOnClosedTrades
  BY DEF StopInv, NoSendOnClosedTrades
<1>2. QED
  BY <1>1, StopInvariance, PTL

\* What the book guarantees it guarantees in the engine: first come, first served
\* at each price, every open order rests, the fills are those of the trades, and
\* the statistics count what rests (TimePriority, OpenOrdersRest, FillsMatchTape and
\* DepthAccounting).
THEOREM BookHoldsInEngine ==
    EngineSpec => [](TimePriority /\ OpenOrdersRest /\ FillsMatchTape /\ DepthAccounting)
<1>1. EngineSpec => Spec
  BY RunsTheBook
<1>2. QED
  BY <1>1, FirstComeFirstServed, NoLostLiquidity, FillsAddUp, DepthAddsUp, PTL

\* Whatever callers, readers and Stop do in between, every step of Match and of what
\* processOrder does with the rest brings the engine nearer to its end, and nothing
\* they do brings it back (MatchAdvances).
THEOREM MatchesEndInEngine == EngineSpec => MatchAdvances
<1>1. EngineSpec => Spec
  BY RunsTheBook
<1>2. QED
  BY <1>1, EveryMatchEnds, PTL

\* With its callers, its channel and Stop the engine still does only what the
\* market of module Exchange does (KeepsPromise).
THEOREM EngineKeepsPromise == EngineSpec => KeepsPromise
<1>1. EngineSpec => Spec
  BY RunsTheBook
<1>2. QED
  BY <1>1, BookKeepsPromise, PTL

\* The book's invariant and those of the channels, together.
LEMMA ChannelInvariance == EngineSpec => [](TypeOK /\ AcceptInv /\ ChannelInv)
<1>1. EngineInit => AcceptInv /\ ChannelInv
  <2> SUFFICES ASSUME EngineInit PROVE AcceptInv /\ ChannelInv
    OBVIOUS
  <2>1. /\ tradeCh = <<>> /\ received = <<>> /\ orderCh = <<>> /\ dropped = {} /\ offered = 0
        /\ tape = <<>> /\ engine = "running" /\ stop = "running" /\ reader = "idle"
        /\ OrderCap \in Nat /\ TradeCap \in Nat
    BY EngineAssumption DEF EngineInit, Init, EngineAssumption
  <2>2. ChannelType
    BY <2>1 DEF ChannelType
  <2>3. Flow = <<>>
    BY <2>1 DEF Flow
  <2>4. TradesPublishedInTurn
    BY <2>1, <2>3 DEF TradesPublishedInTurn, Published
  <2>5. AcceptInv
    BY DEF EngineInit, Init, AcceptInv, AcceptType, AcceptedOrdersInTurn, TakenUp
  <2>6. QED
    BY <2>2, <2>4, <2>5 DEF ChannelInv
<1>2. AcceptInv /\ [EngineNext]_engineVars => AcceptInv'
  BY NextAcceptInv
<1>3. TypeOK /\ AcceptInv /\ ChannelInv /\ [EngineNext]_engineVars => ChannelInv'
  BY NextChannelInv, EngineAssumption, BookAssumption
<1>4. EngineSpec => Spec
  BY RunsTheBook
<1>5. QED
  BY <1>1, <1>2, <1>3, <1>4, TypeCorrect, PTL DEF EngineSpec

\* Every variable of the engine keeps its type, the channels hold no more than their
\* buffers, of whatever size, and the engine exits between two orders (EngineTypeOK).
THEOREM EngineTypes == EngineSpec => []EngineTypeOK
<1>1. TypeOK /\ AcceptInv /\ ChannelInv /\ StopInv => EngineTypeOK
  <2> SUFFICES ASSUME TypeOK, AcceptInv, ChannelInv, StopInv PROVE EngineTypeOK
    OBVIOUS
  <2>1. engine = "exited" => taker = NoOrder
    BY DEF StopInv, TypeOK
  <2>2. QED
    BY <2>1 DEF EngineTypeOK, AcceptInv, AcceptType, ChannelInv, ChannelType
<1>2. QED
  BY <1>1, ChannelInvariance, StopInvariance, PTL

\* GetTrades sees the trades in the order they were made, each once, and misses
\* those only that the engine dropped at a full channel (TradesPublishedInTurn).
THEOREM PublishesInTurn == EngineSpec => []TradesPublishedInTurn
<1>1. TypeOK /\ AcceptInv /\ ChannelInv => TradesPublishedInTurn
  BY DEF ChannelInv
<1>2. QED
  BY <1>1, ChannelInvariance, PTL

=================================================================================
