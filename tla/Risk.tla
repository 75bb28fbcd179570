---------------------------------- MODULE Risk ----------------------------------
(***************************************************************************)
(* The futures positions of one symbol under the risk package: the margin  *)
(* engine's map of positions, the mark price, liquidation, funding, and    *)
(* ClosePosition of the futures handler.                                   *)
(*                                                                         *)
(* Five goroutines share the Position pointers.  The server starts two of  *)
(* them, the market simulator and the handlers; AddPosition,               *)
(* CheckAndLiquidate and the funding cycle are called by the package's     *)
(* clients (its tests), so the model takes them at any time.  Their locks: *)
(* le.mu is shared by UpdateAllLiquidationPrices and held alone by         *)
(* CheckAndLiquidate; each method of Position takes the position's own;    *)
(* SettleFunding reads a position without it.  Positions of other symbols  *)
(* are passed over before anything is done to them, and ClosePosition is   *)
(* taken to be asked of the handler of the symbol it names.                *)
(*                                                                         *)
(* Numbers.  A money amount counts 1/400 of a unit of price, the funding   *)
(* rate 1/400, a liquidation price 1/(200*leverage): with these, 0.5%,     *)
(* 0.75% and 1/leverage are exact.  A mark price, which may be 5% off a    *)
(* last trade price, is whole because prices are multiples of 20.          *)
(***************************************************************************)
EXTENDS Integers, FiniteSets

CONSTANTS
    Positions,       \* the positions that may be added
    Users,
    Prices,          \* entry prices
    Quotes,          \* prices of the exchanges
    Deals,           \* prices of the futures book's trades; 0: it has not traded
    Quantities,
    Leverages,
    NoPosition,
    MaxTicks,        \* bound of the model: how often the simulator ticks
    MaxSettlements   \* bound of the model: how often funding is settled

ASSUME RiskAssumption ==
    /\ \A p \in Prices \cup Quotes : p \in Nat \ {0} /\ p % 20 = 0
    /\ \A p \in Deals : p \in Nat /\ p % 20 = 0
    /\ Quantities \subseteq Nat \ {0}
    /\ \A l \in Leverages : l \in 1..100 /\ 400 % l = 0   \* CreateOrder: 1 to MaxLeverage
    /\ NoPosition \notin Positions
    /\ MaxTicks \in Nat /\ MaxSettlements \in Nat

\* What NewPosition fixes.
Terms == [user : Users, side : {"Long", "Short"}, quantity : Quantities,
          entry : Prices, leverage : Leverages]

VARIABLES
    terms,        \* the fixed part of each position
    pos,          \* the part that the goroutines change
    added,        \* the positions AddPosition has been called with
    watched,      \* MarginEngine.positions: by user and side
    market,       \* MarkPriceEngine: index, mark and last trade price; 0: none yet
    rate,         \* FundingRateEngine.fundingRate
    simulator,    \* startFuturesMarketSimulator in UpdateAllLiquidationPrices
    liquidator,   \* CheckAndLiquidate
    funder,       \* SettleFunding
    closer,       \* ClosePosition
    count,        \* how often the simulator has ticked and funding has been settled
    exit,         \* history: at what price and how each position first ended
    late          \* history: how often it was charged a fee after that

vars == <<terms, pos, added, watched, market, rate, simulator, liquidator, funder, closer,
          count, exit, late>>

Key(p) == <<terms[p].user, terms[p].side>>
Keys == Users \X {"Long", "Short"}
Watched == {watched[k] : k \in Keys} \ {NoPosition}     \* GetPositions("")

(* Formulas *)

\* Gain per unit of price for one side, in 1/400.
Profit(side, quantity, entry, price) ==
    400 * quantity * (IF side = "Long" THEN price - entry ELSE entry - price)

\* CalculateInitialMargin, and what a client of NewPosition passes for the margin.
InitialMargin(t) == (400 \div t.leverage) * t.entry * t.quantity

\* Mutant: the sides are swapped.
LiquidationPriceSwapped(t) ==
    IF t.side = "Short" THEN t.entry * (200 * t.leverage - 200 + t.leverage)
                        ELSE t.entry * (200 * t.leverage + 200 - t.leverage)

\* CalculateLiquidationPrice: entry * (1 -+ 1/leverage +- 0.005), in 1/(200*leverage).
LiquidationPrice(t) ==
    IF t.side = "Long" THEN t.entry * (200 * t.leverage - 200 + t.leverage)
                       ELSE t.entry * (200 * t.leverage + 200 - t.leverage)

\* CheckLiquidation: a liquidation price that was never computed is 0.
MustLiquidate(p, price) ==
    LET scaled == 200 * terms[p].leverage * price
    IN  IF terms[p].side = "Long" THEN scaled <= pos[p].liquidation
                                  ELSE scaled >= pos[p].liquidation

\* The mark price is the index price kept within 5% of the last trade price.
MarkPrice(index, last) ==
    LET high == (last \div 20) * 21
        low == (last \div 20) * 19
    IN  IF last = 0 \/ index \in low..high THEN index
        ELSE IF index > high THEN high ELSE low

\* CalculateFundingRate: the index's lead over the mark price, within 0.75%.
FundingRate(index, mark) ==
    LET base == (400 * (index - mark)) \div index
    IN  IF index = 0 THEN rate ELSE IF base > 3 THEN 3 ELSE IF base < -3 THEN -3 ELSE base

\* SettleFunding's fee, taken off the margin by AddFundingFee.
FundingFee(p) ==
    LET fee == pos[p].quantity * pos[p].mark * rate
    IN  IF terms[p].side = "Long" THEN -fee ELSE fee

NewPosition(t) ==
    [quantity |-> t.quantity, mark |-> t.entry, liquidation |-> 0, margin |-> InitialMargin(t),
     unrealized |-> 0, realized |-> 0, funding |-> 0, status |-> "Open"]

\* Mutant: the quantity is left as it was.
EndedKeeping(p, price, status) ==
    [pos[p] EXCEPT !.realized = @ + Profit(terms[p].side, pos[p].quantity, terms[p].entry, price),
                   !.status = status]

\* Position.Close and Position.Liquidate.
Ended(p, price, status) ==
    [pos[p] EXCEPT !.realized = @ + Profit(terms[p].side, pos[p].quantity, terms[p].entry, price),
                   !.status = status,
                   !.quantity = 0]

IsOpen(p) == p \in added /\ pos[p].quantity > 0

\* Close or Liquidate p; exit notes the first time.
End(p, price, status) ==
    /\ pos' = [pos EXCEPT ![p] = Ended(p, price, status)]
    /\ exit' = IF exit[p].how = "none" THEN [exit EXCEPT ![p] = [how |-> status, price |-> price]]
               ELSE exit

-----------------------------------------------------------------------------

Idle == [at |-> NoPosition, todo |-> {}, price |-> 0, pc |-> "idle"]

Init ==
    /\ terms \in [Positions -> Terms]
    /\ pos = [p \in Positions |-> NewPosition(terms[p])]
    /\ added = {}
    /\ watched = [k \in Keys |-> NoPosition]
    /\ market = [index |-> 0, mark |-> 0, last |-> 0]
    /\ rate = 0
    /\ simulator = Idle /\ liquidator = Idle /\ funder = Idle /\ closer = Idle
    /\ count = [ticks |-> 0, settlements |-> 0]
    /\ exit = [p \in Positions |-> [how |-> "none", price |-> 0]]
    /\ late = [p \in Positions |-> 0]

\* AddPosition overwrites whatever position it finds under the key.  Bound of the model:
\* it is called once with each position.
AddPosition(p) ==
    /\ p \notin added
    /\ added' = added \cup {p}
    /\ watched' = [watched EXCEPT ![Key(p)] = p]
    /\ UNCHANGED <<terms, pos, market, rate, simulator, liquidator, funder, closer,
                   count, exit, late>>

(* The market simulator *)

\* A tick: three SetExchangePrice around price, whose average it is and which nobody
\* else reads, and CalculateMarkPrice with no premium, ...
Tick(price) ==
    /\ simulator.pc = "idle" /\ count.ticks < MaxTicks
    /\ count' = [count EXCEPT !.ticks = @ + 1]
    /\ market' = [market EXCEPT !.index = price, !.mark = MarkPrice(price, market.last)]
    /\ simulator' = [simulator EXCEPT !.pc = "quoted", !.price = price]
    /\ UNCHANGED <<terms, pos, added, watched, rate, liquidator, funder, closer,
                   exit, late>>

\* ... then UpdateLastTradePrice, if the futures book has traded.
FollowTrades(traded) ==
    /\ simulator.pc = "quoted"
    /\ market' = IF traded > 0 THEN [market EXCEPT !.last = traded] ELSE market
    /\ simulator' = [simulator EXCEPT !.pc = "update"]
    /\ UNCHANGED <<terms, pos, added, watched, rate, liquidator, funder, closer,
                   count, exit, late>>

\* UpdateAllLiquidationPrices takes le.mu and a snapshot of the positions; its price is
\* the exchanges', not the mark price.
BeginUpdate ==
    /\ simulator.pc = "update"
    /\ liquidator.pc = "idle"
    /\ simulator' = [simulator EXCEPT !.pc = "next", !.todo = Watched]
    /\ UNCHANGED <<terms, pos, added, watched, market, rate, liquidator, funder, closer,
                   count, exit, late>>

\* For one position: LiquidationPrice and UpdateMarkPrice, ...
Reprice(p) ==
    /\ simulator.pc = "next" /\ p \in simulator.todo
    /\ pos' = [pos EXCEPT ![p].liquidation = LiquidationPrice(terms[p]),
                          ![p].mark = simulator.price]
    /\ simulator' = [simulator EXCEPT !.pc = "revalue", !.at = p]
    /\ UNCHANGED <<terms, added, watched, market, rate, liquidator, funder, closer,
                   count, exit, late>>

\* Mutant: the profit is worked out at the mark price.
RevalueStale ==
    LET p == simulator.at
    IN  /\ simulator.pc = "revalue"
        /\ pos' = [pos EXCEPT ![p].unrealized =
                Profit(terms[p].side, pos[p].quantity, terms[p].entry, market.mark)]
        /\ simulator' = [simulator EXCEPT !.pc = "next", !.at = NoPosition, !.todo = @ \ {p}]
        /\ UNCHANGED <<terms, added, watched, market, rate, liquidator, funder, closer,
                       count, exit, late>>

\* ... then UpdateUnrealizedPNL.
Revalue ==
    LET p == simulator.at
    IN  /\ simulator.pc = "revalue"
        /\ pos' = [pos EXCEPT ![p].unrealized =
                Profit(terms[p].side, pos[p].quantity, terms[p].entry, pos[p].mark)]
        /\ simulator' = [simulator EXCEPT !.pc = "next", !.at = NoPosition, !.todo = @ \ {p}]
        /\ UNCHANGED <<terms, added, watched, market, rate, liquidator, funder, closer,
                       count, exit, late>>

EndUpdate ==
    /\ simulator.pc = "next" /\ simulator.todo = {}
    /\ simulator' = Idle
    /\ UNCHANGED <<terms, pos, added, watched, market, rate, liquidator, funder, closer,
                   count, exit, late>>

(* Liquidation *)

\* Mutant: le.mu is not taken.
BeginCheckUnlocked(user) ==
    /\ liquidator.pc = "idle"
    /\ liquidator' = [liquidator EXCEPT !.pc = "next", !.price = market.mark,
                                        !.todo = {p \in Watched : terms[p].user = user}]
    /\ UNCHANGED <<terms, pos, added, watched, market, rate, simulator, funder, closer,
                   count, exit, late>>

\* CheckAndLiquidate at the mark price takes le.mu alone and a snapshot of the user's
\* positions.
BeginCheck(user) ==
    /\ liquidator.pc = "idle"
    /\ simulator.pc \in {"idle", "quoted", "update"}
    /\ liquidator' = [liquidator EXCEPT !.pc = "next", !.price = market.mark,
                                        !.todo = {p \in Watched : terms[p].user = user}]
    /\ UNCHANGED <<terms, pos, added, watched, market, rate, simulator, funder, closer,
                   count, exit, late>>

\* CheckLiquidation says no; a margin call is only logged.
Spare(p) ==
    /\ liquidator.pc = "next" /\ p \in liquidator.todo
    /\ ~MustLiquidate(p, liquidator.price)
    /\ liquidator' = [liquidator EXCEPT !.todo = @ \ {p}]
    /\ UNCHANGED <<terms, pos, added, watched, market, rate, simulator, funder, closer,
                   count, exit, late>>

\* It says yes: Position.Liquidate ...
Liquidate(p) ==
    /\ liquidator.pc = "next" /\ p \in liquidator.todo
    /\ MustLiquidate(p, liquidator.price)
    /\ End(p, liquidator.price, "Liquidated")
    /\ liquidator' = [liquidator EXCEPT !.pc = "remove", !.at = p]
    /\ UNCHANGED <<terms, added, watched, market, rate, simulator, funder, closer,
                   count, late>>

\* ... then RemovePosition, by key: what is under it now goes, also if it is another
\* position that was added meanwhile.
RemovePosition ==
    /\ liquidator.pc = "remove"
    /\ watched' = [watched EXCEPT ![Key(liquidator.at)] = NoPosition]
    /\ liquidator' = [liquidator EXCEPT !.pc = "next", !.at = NoPosition,
                                        !.todo = @ \ {liquidator.at}]
    /\ UNCHANGED <<terms, pos, added, market, rate, simulator, funder, closer,
                   count, exit, late>>

EndCheck ==
    /\ liquidator.pc = "next" /\ liquidator.todo = {}
    /\ liquidator' = Idle
    /\ UNCHANGED <<terms, pos, added, watched, market, rate, simulator, funder, closer,
                   count, exit, late>>

(* Funding: StartFundingCycle calculates the rate, then settles *)

\* CalculateFundingRate reads the index price, ...
AskIndex ==
    /\ funder.pc = "idle" /\ count.settlements < MaxSettlements
    /\ funder' = [funder EXCEPT !.pc = "rate", !.price = market.index]
    /\ UNCHANGED <<terms, pos, added, watched, market, rate, simulator, liquidator, closer,
                   count, exit, late>>

\* ... then the mark price, which may be of a later tick.
CalculateRate ==
    /\ funder.pc = "rate"
    /\ rate' = FundingRate(funder.price, market.mark)
    /\ funder' = [funder EXCEPT !.pc = "settle", !.price = 0]
    /\ UNCHANGED <<terms, pos, added, watched, market, simulator, liquidator, closer,
                   count, exit, late>>

BeginSettlement ==
    /\ funder.pc = "settle"
    /\ funder' = [funder EXCEPT !.pc = "next", !.todo = Watched]
    /\ UNCHANGED <<terms, pos, added, watched, market, rate, simulator, liquidator, closer,
                   count, exit, late>>

\* The fee is worked out from one reading of the position, without its lock, ...
ComputeFee(p) ==
    /\ funder.pc = "next" /\ p \in funder.todo
    /\ funder' = [funder EXCEPT !.pc = "charge", !.at = p, !.price = FundingFee(p)]
    /\ UNCHANGED <<terms, pos, added, watched, market, rate, simulator, liquidator, closer,
                   count, exit, late>>

\* ... and charged whatever has become of it since.
AddFundingFee ==
    LET p == funder.at
    IN  /\ funder.pc = "charge"
        /\ pos' = [pos EXCEPT ![p].funding = @ + funder.price, ![p].margin = @ - funder.price]
        /\ late' = IF exit[p].how # "none" /\ funder.price # 0
                   THEN [late EXCEPT ![p] = @ + 1] ELSE late
        /\ funder' = [funder EXCEPT !.pc = "next", !.at = NoPosition, !.price = 0,
                                    !.todo = @ \ {p}]
        /\ UNCHANGED <<terms, added, watched, market, rate, simulator, liquidator, closer,
                       count, exit>>

EndSettlement ==
    /\ funder.pc = "next" /\ funder.todo = {}
    /\ funder' = Idle
    /\ count' = [count EXCEPT !.settlements = @ + 1]
    /\ UNCHANGED <<terms, pos, added, watched, market, rate, simulator, liquidator, closer,
                   exit, late>>

(* ClosePosition: GetPosition, GetMarkPrice and Close *)

Find(k) ==
    /\ closer.pc = "idle"
    /\ watched[k] # NoPosition
    /\ closer' = [closer EXCEPT !.pc = "found", !.at = watched[k]]
    /\ UNCHANGED <<terms, pos, added, watched, market, rate, simulator, liquidator, funder,
                   count, exit, late>>

AskPrice ==
    /\ closer.pc = "found"
    /\ closer' = [closer EXCEPT !.pc = "priced", !.price = market.mark]
    /\ UNCHANGED <<terms, pos, added, watched, market, rate, simulator, liquidator, funder,
                   count, exit, late>>

\* The position stays in the margin engine.
Close ==
    /\ closer.pc = "priced"
    /\ End(closer.at, closer.price, "Closed")
    /\ closer' = Idle
    /\ UNCHANGED <<terms, added, watched, market, rate, simulator, liquidator, funder,
                   count, late>>

Next ==
    \/ \E p \in Positions : AddPosition(p)
    \/ (\E price \in Quotes : Tick(price)) \/ (\E traded \in Deals : FollowTrades(traded))
    \/ BeginUpdate \/ (\E p \in Positions : Reprice(p)) \/ Revalue \/ EndUpdate
    \/ \E user \in Users : BeginCheck(user)
    \/ \E p \in Positions : Spare(p) \/ Liquidate(p)
    \/ RemovePosition \/ EndCheck
    \/ AskIndex \/ CalculateRate \/ BeginSettlement \/ (\E p \in Positions : ComputeFee(p))
    \/ AddFundingFee \/ EndSettlement
    \/ (\E k \in Keys : Find(k)) \/ AskPrice \/ Close

Spec == Init /\ [][Next]_vars

-----------------------------------------------------------------------------
(* Properties *)

PositionState ==
    [quantity : Nat, mark : Nat, liquidation : Nat, margin : Int, unrealized : Int,
     realized : Int, funding : Int, status : {"Open", "Closed", "Liquidated"}]

Actor(places) == [at : Positions \cup {NoPosition}, todo : SUBSET Positions, price : Int, pc : places]

\* Every variable has its type, only added positions are in anyone's hands, and le.mu
\* keeps the liquidator and the simulator's update apart.
TypeOK ==
    /\ terms \in [Positions -> Terms]
    /\ pos \in [Positions -> PositionState]
    /\ watched \in [Keys -> added \cup {NoPosition}] /\ added \subseteq Positions
    /\ market \in [index : Nat, mark : Nat, last : Nat] /\ rate \in -3..3
    /\ exit \in [Positions -> [how : {"none", "Closed", "Liquidated"}, price : Nat]]
    /\ late \in [Positions -> Nat] /\ count \in [ticks : Nat, settlements : Nat]
    /\ simulator \in Actor({"idle", "quoted", "update", "next", "revalue"})
    /\ liquidator \in Actor({"idle", "next", "remove"})
    /\ funder \in Actor({"idle", "rate", "settle", "next", "charge"})
    /\ closer \in Actor({"idle", "found", "priced"})
    /\ liquidator.pc = "idle" \/ simulator.pc \in {"idle", "quoted", "update"}
    /\ simulator.todo \cup liquidator.todo \cup funder.todo \subseteq added

\* What the position of p first ended with, in 1/400.
FirstProfit(p) == Profit(terms[p].side, terms[p].quantity, terms[p].entry, exit[p].price)

\* The profit of a position is booked once, however its close, its liquidation and stale
\* pointers to it interleave: at the price of whoever came first, and never again; and at
\* most the settlement that was under way still charges it a fee.  Not its status: a
\* latecomer who finds nothing left to book writes his own all the same.
EndsOnce ==
    \A p \in Positions :
        /\ exit[p].how = "none" => pos[p].quantity = terms[p].quantity /\ pos[p].realized = 0
        /\ exit[p].how # "none" => pos[p].quantity = 0 /\ pos[p].realized = FirstProfit(p)
        /\ late[p] <= 1

\* A position whose liquidation price has been worked out is only liquidated when the
\* loss booked for it leaves no more of its initial margin than the maintenance margin,
\* 0.5% of its value at entry.  Nothing is said of a short that is checked before its
\* first update, which is liquidated at any price, nor of what funding has left of the
\* margin and of the margin rate of DESIGN_DERIVATIVES.md 6.3, which nothing computes.
LossUsesUpMargin ==
    \A p \in Positions : exit[p].how = "Liquidated" /\ pos[p].liquidation # 0 =>
        InitialMargin(terms[p]) + pos[p].realized <= 2 * terms[p].entry * terms[p].quantity

\* When the simulator is through with a tick, the profit shown for an open position is
\* that at the price shown with it.
OpenPnlIsCurrent ==
    simulator.pc \in {"idle", "quoted", "update"} =>
        \A p \in Positions : IsOpen(p) =>
            pos[p].unrealized = Profit(terms[p].side, pos[p].quantity, terms[p].entry, pos[p].mark)

\* funding_rate.go:76 "多头支付资金费用给空头(当资金费率为正时)" (the longs pay the funding
\* fee to the shorts when the rate is positive).
LongsPayShorts ==
    [][\A p \in Positions : rate > 0 /\ pos'[p].margin # pos[p].margin =>
        IF terms[p].side = "Long" THEN pos'[p].margin < pos[p].margin
                                  ELSE pos'[p].margin > pos[p].margin]_vars

=================================================================================
