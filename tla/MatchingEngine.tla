----------------------------- MODULE MatchingEngine -----------------------------
(***************************************************************************)
(* engine/matching.go around the order book: SubmitOrder, called by any    *)
(* number of request handlers, the engine's loop, GetTrades, called by the *)
(* broadcaster of cmd/server/main.go, and Stop.  They meet in two buffered *)
(* channels and a context.                                                 *)
(*                                                                         *)
(* A channel is the sequence of what it buffers.  A trade is named by its  *)
(* position on the tape of OrderBook.                                      *)
(***************************************************************************)
EXTENDS OrderBook

CONSTANTS
    OrderCap,   \* cap(orderCh), 50000 in the code
    TradeCap,   \* cap(tradeCh), 50000 in the code
    MaxNils     \* bound of the model: trades GetTrades takes from a closed channel

ASSUME EngineAssumption ==
    /\ OrderCap \in Nat \ {0}
    /\ TradeCap \in Nat \ {0}
    /\ MaxNils \in Nat \ {0}

\* What GetTrades appends when it receives from the closed channel.
NilTrade == 0

VARIABLES
    call,      \* SubmitOrder, one call per order: not made, waiting, or its outcome
    orderCh,   \* orders submitted and not taken up
    tradeCh,   \* trades published and not collected
    offered,   \* how many trades of the tape the engine has offered to tradeCh
    dropped,   \* the trades offered when tradeCh was full
    engine,    \* the engine's goroutine: "running" or "exited"
    stop,      \* how far Stop is
    reader,    \* GetTrades: "idle" or "draining"
    received,  \* history: what GetTrades has taken from the channel, in order
    accepted   \* history: the orders SubmitOrder has accepted, in order

chVars == <<call, orderCh, tradeCh, offered, dropped, engine, stop, reader, received, accepted>>
engineVars == <<vars, chVars>>

Outcomes == {"accepted", "ErrOrderChannelFull", "ErrEngineStopped", "panic"}

\* The context is cancelled; the channels are closed.
Cancelled == stop # "running"
TradesClosed == stop \in {"tradesClosed", "closed"}
OrdersClosed == stop = "closed"

EngineInit ==
    /\ Init
    /\ call = [o \in Orders |-> "none"]
    /\ orderCh = <<>> /\ tradeCh = <<>>
    /\ offered = 0 /\ dropped = {}
    /\ engine = "running" /\ stop = "running" /\ reader = "idle"
    /\ received = <<>> /\ accepted = <<>>

(* SubmitOrder *)

Call(o) ==
    /\ call[o] = "none"
    /\ call' = [call EXCEPT ![o] = "waiting"]
    /\ UNCHANGED <<vars, orderCh, tradeCh, offered, dropped, engine, stop, reader, received, accepted>>

Outcome(o, result) ==
    /\ call[o] = "waiting"
    /\ call' = [call EXCEPT ![o] = result]
    /\ UNCHANGED <<vars, tradeCh, offered, dropped, engine, stop, reader, received>>

\* The send is possible as long as the channel is open and not full, also after
\* the cancellation: select chooses among what is ready.
Accept(o) ==
    /\ Outcome(o, "accepted")
    /\ ~OrdersClosed /\ Len(orderCh) < OrderCap
    /\ orderCh' = Append(orderCh, o)
    /\ accepted' = Append(accepted, o)

\* Mutant: a goroutine of its own sends the order, and sends it after the timeout too.
TimeOutSending(o) ==
    /\ Outcome(o, "ErrOrderChannelFull")
    /\ ~OrdersClosed /\ Len(orderCh) < OrderCap
    /\ orderCh' = Append(orderCh, o)
    /\ UNCHANGED accepted

\* The channel was full for 100ms.
TimeOut(o) ==
    /\ Outcome(o, "ErrOrderChannelFull")
    /\ ~OrdersClosed /\ Len(orderCh) = OrderCap
    /\ UNCHANGED <<orderCh, accepted>>

RefuseStopped(o) ==
    /\ Outcome(o, "ErrEngineStopped")
    /\ Cancelled
    /\ UNCHANGED <<orderCh, accepted>>

\* On a closed channel the send is ready too, and panics.
SendOnClosed(o) ==
    /\ Outcome(o, "panic")
    /\ OrdersClosed
    /\ UNCHANGED <<orderCh, accepted>>

EndCall(o) == Accept(o) \/ TimeOut(o) \/ RefuseStopped(o) \/ SendOnClosed(o)

(* The engine *)

\* run takes an order from the channel.
TakeOrder ==
    /\ engine = "running"
    /\ orderCh # <<>>
    /\ Process(Head(orderCh))
    /\ orderCh' = Tail(orderCh)
    /\ UNCHANGED <<call, tradeCh, offered, dropped, engine, stop, reader, received, accepted>>

\* Mutant: the send has no default case, so the engine waits for room.
OfferBlocking ==
    /\ pc = "matched"
    /\ offered < Len(tape)
    /\ Len(tradeCh) < TradeCap
    /\ offered' = offered + 1
    /\ tradeCh' = Append(tradeCh, offered')
    /\ UNCHANGED <<vars, call, orderCh, dropped, engine, stop, reader, received, accepted>>

\* Mutant: a full channel gives up its oldest trade unrecorded.
OfferReplacing ==
    /\ pc = "matched"
    /\ offered < Len(tape)
    /\ offered' = offered + 1
    /\ tradeCh' = Append(IF Len(tradeCh) < TradeCap THEN tradeCh ELSE Tail(tradeCh), offered')
    /\ UNCHANGED <<vars, call, orderCh, dropped, engine, stop, reader, received, accepted>>

\* processOrder after Match: each trade is sent, or dropped if the channel is full.
OfferTrade ==
    /\ pc = "matched"
    /\ offered < Len(tape)
    /\ offered' = offered + 1
    /\ IF Len(tradeCh) < TradeCap
       THEN tradeCh' = Append(tradeCh, offered') /\ UNCHANGED dropped
       ELSE dropped' = dropped \cup {offered'} /\ UNCHANGED tradeCh
    /\ UNCHANGED <<vars, call, orderCh, engine, stop, reader, received, accepted>>

\* The matching itself, and what follows once the trades have been offered.
Match ==
    /\ Work
    /\ pc = "matched" => offered = Len(tape)
    /\ UNCHANGED chVars

\* Mutant: the cancellation is seen in the middle of an order.
ExitHolding ==
    /\ engine = "running"
    /\ Cancelled
    /\ engine' = "exited"
    /\ UNCHANGED <<vars, call, orderCh, tradeCh, offered, dropped, stop, reader, received, accepted>>

\* run sees the cancellation, between two orders.
Exit ==
    /\ engine = "running"
    /\ pc = "idle"
    /\ Cancelled
    /\ engine' = "exited"
    /\ UNCHANGED <<vars, call, orderCh, tradeCh, offered, dropped, stop, reader, received, accepted>>

EngineStep == TakeOrder \/ OfferTrade \/ Match \/ Exit

(* Stop *)

Cancel ==
    /\ stop = "running"
    /\ stop' = "cancelled"
    /\ UNCHANGED <<vars, call, orderCh, tradeCh, offered, dropped, engine, reader, received, accepted>>

\* Mutant: Stop does not wait for the engine.
CloseAtOnce ==
    /\ stop = "cancelled"
    /\ stop' = "tradesClosed"
    /\ UNCHANGED <<vars, call, orderCh, tradeCh, offered, dropped, engine, reader, received, accepted>>

\* wg.Wait has returned.
CloseTrades ==
    /\ stop = "cancelled"
    /\ engine = "exited"
    /\ stop' = "tradesClosed"
    /\ UNCHANGED <<vars, call, orderCh, tradeCh, offered, dropped, engine, reader, received, accepted>>

CloseOrders ==
    /\ stop = "tradesClosed"
    /\ stop' = "closed"
    /\ UNCHANGED <<vars, call, orderCh, tradeCh, offered, dropped, engine, reader, received, accepted>>

(* GetTrades *)

StartDrain ==
    /\ reader = "idle"
    /\ reader' = "draining"
    /\ UNCHANGED <<vars, call, orderCh, tradeCh, offered, dropped, engine, stop, received, accepted>>

Receive ==
    /\ reader = "draining"
    /\ tradeCh # <<>>
    /\ received' = Append(received, Head(tradeCh))
    /\ tradeCh' = Tail(tradeCh)
    /\ UNCHANGED <<vars, call, orderCh, offered, dropped, engine, stop, reader, accepted>>

Nils == {i \in DOMAIN received : received[i] = NilTrade}

\* A closed channel always has something to receive: the default case is never
\* taken and nil trades are appended.
ReceiveNil ==
    /\ reader = "draining"
    /\ tradeCh = <<>> /\ TradesClosed
    /\ received' = IF Cardinality(Nils) < MaxNils THEN Append(received, NilTrade) ELSE received
    /\ UNCHANGED <<vars, call, orderCh, tradeCh, offered, dropped, engine, stop, reader, accepted>>

EndDrain ==
    /\ reader = "draining"
    /\ tradeCh = <<>> /\ ~TradesClosed
    /\ reader' = "idle"
    /\ UNCHANGED <<vars, call, orderCh, tradeCh, offered, dropped, engine, stop, received, accepted>>

Drain == Receive \/ ReceiveNil \/ EndDrain

EngineNext ==
    \/ \E o \in Orders : Call(o) \/ EndCall(o)
    \/ EngineStep
    \/ Cancel \/ CloseTrades \/ CloseOrders
    \/ StartDrain \/ Drain

EngineSpec == EngineInit /\ [][EngineNext]_engineVars

\* The goroutines that are not blocked run: the engine, Stop once it has begun,
\* the callers (a timer or the channel ends their wait) and the drain.
EngineFairness ==
    /\ WF_engineVars(EngineStep)
    /\ WF_engineVars(CloseTrades) /\ WF_engineVars(CloseOrders)
    /\ \A o \in Orders : WF_engineVars(EndCall(o))
    /\ WF_engineVars(Drain)

-----------------------------------------------------------------------------
(* Properties *)

\* Every variable has its type, the channels keep within their buffers, and an engine
\* that has exited holds no order.
EngineTypeOK ==
    /\ TypeOK
    /\ call \in [Orders -> {"none", "waiting"} \cup Outcomes]
    /\ orderCh \in Seq(Orders) /\ Len(orderCh) <= OrderCap
    /\ tradeCh \in Seq(Nat) /\ Len(tradeCh) <= TradeCap
    /\ offered \in 0..Len(tape) /\ dropped \subseteq 1..offered
    /\ engine \in {"running", "exited"}
    /\ engine = "exited" => taker = NoOrder
    /\ stop \in {"running", "cancelled", "tradesClosed", "closed"}
    /\ reader \in {"idle", "draining"}
    /\ received \in Seq(Nat) /\ accepted \in Seq(Orders)

\* How many orders have come out of the order channel.
TakenUp == Len(accepted) - Len(orderCh)

\* An order is matched exactly once, in the order of acceptance, if SubmitOrder
\* returned nil, and never if it returned an error or panicked: a handler that
\* reports an error need not fear that the order comes alive later.
AcceptedOrdersInTurn ==
    /\ \A o \in Orders : call[o] = "accepted" <=> \E i \in 1..Len(accepted) : accepted[i] = o
    /\ \A i, j \in 1..Len(accepted) : i # j => accepted[i] # accepted[j]
    /\ TakenUp \in Nat
    /\ \A i \in 1..Len(orderCh) : orderCh[i] = accepted[TakenUp + i]
    /\ processed = {accepted[i] : i \in 1..TakenUp}

\* What GetTrades has taken and what it will take next.
Flow == received \o tradeCh
Published == {Flow[i] : i \in DOMAIN Flow} \ {NilTrade}

\* Each trade the engine has offered is published once or was dropped at a full
\* channel, GetTrades sees the published ones in the order they were made, whatever
\* nil trades come between, and the engine turns to the next order only when it has
\* offered them all.
TradesPublishedInTurn ==
    /\ \A i, j \in DOMAIN Flow : i < j /\ Flow[j] # NilTrade => Flow[i] < Flow[j]
    /\ Published \cup dropped = 1..offered
    /\ Published \cap dropped = {}
    /\ pc = "idle" => offered = Len(tape)

\* Stop closes the trade channel only when the engine cannot send on it any more:
\* it has exited, between two orders.
NoSendOnClosedTrades == TradesClosed => engine = "exited" /\ pc = "idle"

\* The engine is through with o.
DealtWith(o) == o \in processed /\ taker # o

\* An accepted order is dealt with, though nobody need ever call GetTrades,
\* unless the engine is stopped first.
AcceptedIsDealtWith ==
    \A o \in Orders : call[o] = "accepted" ~> DealtWith(o) \/ Cancelled

\* Stop returns.
StopReturns == Cancelled ~> stop = "closed"

\* matching.go:271 "Engine has been stopped": that error is what SubmitOrder
\* gives the caller who comes after Stop.
StoppedIsAnError == \A o \in Orders : call[o] # "panic"

\* matching.go:166 "获取成交记录" (GetTrades gets the trade records): everything it
\* returns is a trade.
OnlyTradesReceived == \A i \in DOMAIN received : received[i] # NilTrade

=================================================================================
