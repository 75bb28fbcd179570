------------------------------- MODULE Risk_proofs -------------------------------
(***************************************************************************)
(* What the risk package guarantees of the positions of one symbol, for    *)
(* any positions and users, and any prices, quantities and leverages.      *)
(***************************************************************************)
EXTENDS Risk, TLAPS

\* Who is at work on a position has one that was added, prices are naturals, and the
\* simulator has nobody left to see to between two updates.
PlaceInv ==
    /\ simulator.pc = "revalue" => simulator.at \in added
    /\ liquidator.pc = "remove" => liquidator.at \in added
    /\ funder.pc = "charge" => funder.at \in added
    /\ closer.pc # "idle" => closer.at \in added
    /\ simulator.price \in Nat /\ liquidator.price \in Nat /\ closer.price \in Nat
    /\ funder.pc = "rate" => funder.price \in Nat
    /\ simulator.pc \in {"idle", "quoted", "update"} => simulator.todo = {}

-----------------------------------------------------------------------------
(* Numbers *)

LEMMA TermsAreNumbers ==
    ASSUME NEW t \in Terms
    PROVE  /\ t.side \in {"Long", "Short"} /\ t.user \in Users
           /\ t.entry \in Nat \ {0} /\ t.quantity \in Nat \ {0}
           /\ t.leverage \in 1..100
<1>1. /\ t.side \in {"Long", "Short"} /\ t.user \in Users
      /\ t.entry \in Prices /\ t.quantity \in Quantities /\ t.leverage \in Leverages
  BY DEF Terms
<1>2. t.entry \in Nat \ {0}
  BY <1>1, RiskAssumption, Zenon
<1>3. t.quantity \in Nat \ {0}
  BY <1>1, RiskAssumption, Zenon
<1>4. t.leverage \in 1..100
  BY <1>1, RiskAssumption, Zenon
<1>5. QED
  BY <1>1, <1>2, <1>3, <1>4

LEMMA ProfitIsANumber ==
    ASSUME NEW side, NEW q \in Int, NEW e \in Int, NEW x \in Int
    PROVE  Profit(side, q, e, x) \in Int
BY DEF Profit

\* Nothing is gained on nothing, ...
LEMMA NothingOnNothing ==
    ASSUME NEW side, NEW e \in Int, NEW x \in Int
    PROVE  Profit(side, 0, e, x) = 0
BY DEF Profit

\* ... nor at the price paid.
LEMMA NothingAtEntry ==
    ASSUME NEW side, NEW q \in Int, NEW e \in Int
    PROVE  Profit(side, q, e, e) = 0
BY DEF Profit

LEMMA MarginIsANumber ==
    ASSUME NEW t \in Terms
    PROVE  InitialMargin(t) \in Int
<1>1. 400 \div t.leverage \in Int
  BY TermsAreNumbers
<1>2. QED
  BY <1>1, TermsAreNumbers DEF InitialMargin

LEMMA LiquidationPriceIsNatural ==
    ASSUME NEW t \in Terms
    PROVE  LiquidationPrice(t) \in Nat
<1>1. \A a, b \in Nat : a * b \in Nat
  OBVIOUS
<1>2. /\ 200 * t.leverage - 200 + t.leverage \in Nat
      /\ 200 * t.leverage + 200 - t.leverage \in Nat
  BY TermsAreNumbers
<1>3. t.entry \in Nat
  BY TermsAreNumbers
<1>4. QED
  BY <1>1, <1>2, <1>3 DEF LiquidationPrice

LEMMA MarkPriceIsNatural ==
    ASSUME NEW i \in Nat, NEW l \in Nat
    PROVE  MarkPrice(i, l) \in Nat
<1>1. l \div 20 \in Nat
  OBVIOUS
<1>2. QED
  BY <1>1 DEF MarkPrice

LEMMA RateIsBounded ==
    ASSUME rate \in -3..3, NEW i \in Nat, NEW m \in Nat
    PROVE  FundingRate(i, m) \in -3..3
<1>1. i # 0 => (400 * (i - m)) \div i \in Int
  OBVIOUS
<1>2. QED
  BY <1>1 DEF FundingRate

LEMMA FeeIsANumber ==
    ASSUME TypeOK, NEW p \in Positions
    PROVE  FundingFee(p) \in Int
<1>1. /\ pos[p].quantity \in Int /\ pos[p].mark \in Int /\ rate \in Int
  BY DEF TypeOK, PositionState
<1>2. \A a, b \in Int : a * b \in Int
  OBVIOUS
<1>3. pos[p].quantity * pos[p].mark * rate \in Int
  BY <1>1, <1>2
<1>4. QED
  BY <1>3 DEF FundingFee

-----------------------------------------------------------------------------
(* Types and places *)

TypeInv == TypeOK /\ PlaceInv

\* What Close and Liquidate leave is a position.
LEMMA EndTypes ==
    ASSUME TypeOK, NEW p \in Positions, NEW price \in Nat,
           NEW status \in {"Closed", "Liquidated"}, End(p, price, status)
    PROVE  /\ pos' \in [Positions -> PositionState]
           /\ exit' \in [Positions -> [how : {"none", "Closed", "Liquidated"}, price : Nat]]
<1>1. Profit(terms[p].side, pos[p].quantity, terms[p].entry, price) \in Int
  BY TermsAreNumbers, ProfitIsANumber DEF TypeOK, PositionState
<1>2. Ended(p, price, status) \in PositionState
  <2>1. pos[p] \in PositionState
    BY DEF TypeOK
  <2>2. pos[p].realized + Profit(terms[p].side, pos[p].quantity, terms[p].entry, price) \in Int
    BY <1>1, <2>1 DEF PositionState
  <2>3. QED
    BY <2>1, <2>2 DEF Ended, PositionState
<1>3. QED
  BY <1>2 DEF End, TypeOK

\* An actor that moves on is still an actor, ...
LEMMA ActorMoves ==
    ASSUME NEW S, NEW a \in Actor(S), NEW pc \in S, NEW price \in Int
    PROVE  [a EXCEPT !.pc = pc, !.price = price] \in Actor(S)
BY DEF Actor

\* ... and so is one whose work list changes.
LEMMA ActorTurns ==
    ASSUME NEW S, NEW a \in Actor(S), NEW pc \in S, NEW price \in Int, NEW todo \in SUBSET Positions
    PROVE  /\ [a EXCEPT !.pc = pc, !.price = price, !.todo = todo] \in Actor(S)
           /\ [a EXCEPT !.pc = pc, !.at = NoPosition, !.price = price, !.todo = todo] \in Actor(S)
<1>1. [a EXCEPT !.pc = pc, !.price = price, !.todo = todo] \in Actor(S)
  BY DEF Actor
<1>2. [a EXCEPT !.pc = pc, !.at = NoPosition, !.price = price, !.todo = todo] \in Actor(S)
  BY DEF Actor
<1>3. QED
  BY <1>1, <1>2

\* What a fee leaves is a position.
LEMMA FeeTypes ==
    ASSUME NEW s \in PositionState, NEW f \in Int, NEW m \in Int
    PROVE  [s EXCEPT !.funding = f, !.margin = m] \in PositionState
BY DEF PositionState

LEMMA TypeInit == Init => TypeInv
<1>1. SUFFICES ASSUME Init PROVE TypeInv
  OBVIOUS
<1>2. \A p \in Positions : NewPosition(terms[p]) \in PositionState
  <2>1. TAKE p \in Positions
  <2>2. terms[p] \in Terms
    BY <1>1 DEF Init
  <2>3. QED
    BY <2>2, TermsAreNumbers, MarginIsANumber DEF NewPosition, PositionState
<1>3. pos \in [Positions -> PositionState]
  BY <1>1, <1>2 DEF Init
<1>4. /\ watched \in [Keys -> added \cup {NoPosition}] /\ added \subseteq Positions
      /\ exit \in [Positions -> [how : {"none", "Closed", "Liquidated"}, price : Nat]]
      /\ late \in [Positions -> Nat] /\ terms \in [Positions -> Terms]
  BY <1>1 DEF Init
<1>5. QED
  BY <1>1, <1>3, <1>4 DEF Init, TypeInv, TypeOK, PlaceInv, Actor, Idle

LEMMA TypeStep == TypeInv /\ [Next]_vars => TypeInv'
<1>1. SUFFICES ASSUME TypeInv, [Next]_vars PROVE TypeInv'
  OBVIOUS
<1>. USE <1>1
<1>2. ASSUME NEW p \in Positions, AddPosition(p) PROVE TypeInv'
  <2>1. watched' \in [Keys -> added' \cup {NoPosition}] /\ added' \subseteq Positions
    BY <1>2 DEF AddPosition, TypeInv, TypeOK
  <2>2. QED
    BY <1>2, <2>1 DEF AddPosition, TypeInv, TypeOK, PlaceInv, Actor
<1>3. ASSUME NEW price \in Quotes, Tick(price) PROVE TypeInv'
  <2>1. price \in Nat
    BY RiskAssumption
  <2>2. MarkPrice(price, market.last) \in Nat
    BY <2>1, MarkPriceIsNatural DEF TypeInv, TypeOK
  <2>3. market' \in [index : Nat, mark : Nat, last : Nat]
    BY <1>3, <2>1, <2>2 DEF Tick, TypeInv, TypeOK
  <2>4. simulator' \in Actor({"idle", "quoted", "update", "next", "revalue"})
    <3>1. simulator \in Actor({"idle", "quoted", "update", "next", "revalue"})
      BY DEF TypeInv, TypeOK
    <3>2. simulator' = [simulator EXCEPT !.pc = "quoted", !.price = price]
      BY <1>3 DEF Tick
    <3>3. "quoted" \in {"idle", "quoted", "update", "next", "revalue"} /\ price \in Int
      BY <2>1
    <3>4. QED
      BY <3>1, <3>2, <3>3, ActorMoves
  <2>5. count' \in [ticks : Nat, settlements : Nat]
    BY <1>3 DEF Tick, TypeInv, TypeOK
  <2>6. simulator'.pc = "quoted" /\ simulator'.price \in Nat /\ simulator'.todo = {}
    BY <1>3, <2>1 DEF Tick, TypeInv, TypeOK, PlaceInv, Actor
  <2>7. TypeOK'
    BY <1>3, <2>3, <2>4, <2>5, <2>6 DEF Tick, TypeInv, TypeOK
  <2>8. PlaceInv'
    BY <1>3, <2>6 DEF Tick, TypeInv, PlaceInv
  <2>9. QED
    BY <2>7, <2>8 DEF TypeInv
<1>24. ASSUME NEW traded \in Deals, FollowTrades(traded) PROVE TypeInv'
  <2>1. traded \in Nat
    BY RiskAssumption
  <2>2. market' \in [index : Nat, mark : Nat, last : Nat]
    BY <1>24, <2>1 DEF FollowTrades, TypeInv, TypeOK
  <2>3. simulator' \in Actor({"idle", "quoted", "update", "next", "revalue"})
    <3>1. simulator \in Actor({"idle", "quoted", "update", "next", "revalue"})
      BY DEF TypeInv, TypeOK
    <3>2. simulator' = [simulator EXCEPT !.pc = "update"]
      BY <1>24 DEF FollowTrades
    <3>3. QED
      BY <3>1, <3>2 DEF Actor
  <2>4. /\ simulator'.pc = "update" /\ simulator'.price = simulator.price
        /\ simulator'.todo = {}
    BY <1>24 DEF FollowTrades, TypeInv, TypeOK, PlaceInv, Actor
  <2>5. TypeOK'
    BY <1>24, <2>2, <2>3, <2>4 DEF FollowTrades, TypeInv, TypeOK
  <2>6. PlaceInv'
    BY <1>24, <2>4 DEF FollowTrades, TypeInv, PlaceInv
  <2>7. QED
    BY <2>5, <2>6 DEF TypeInv
<1>4. CASE BeginUpdate
  <2>1. Watched \subseteq added
    BY DEF Watched, TypeInv, TypeOK
  <2>2. QED
    BY <1>4, <2>1 DEF BeginUpdate, TypeInv, TypeOK, PlaceInv, Actor
<1>5. ASSUME NEW p \in Positions, Reprice(p) PROVE TypeInv'
  <2>1. LiquidationPrice(terms[p]) \in Nat /\ simulator.price \in Nat
    BY LiquidationPriceIsNatural DEF TypeInv, TypeOK, PlaceInv
  <2>2. pos' \in [Positions -> PositionState]
    <3>1. pos \in [Positions -> PositionState]
      BY DEF TypeInv, TypeOK
    <3>2. [pos[p] EXCEPT !.liquidation = LiquidationPrice(terms[p]), !.mark = simulator.price]
            \in PositionState
      BY <2>1, <3>1 DEF PositionState
    <3>3. pos' = [pos EXCEPT ![p] = [pos[p] EXCEPT !.liquidation = LiquidationPrice(terms[p]),
                                                  !.mark = simulator.price]]
      BY <1>5, <3>1 DEF Reprice, PositionState
    <3>4. QED
      BY <3>1, <3>2, <3>3
  <2>3. QED
    BY <1>5, <2>2 DEF Reprice, TypeInv, TypeOK, PlaceInv, Actor
<1>6. CASE Revalue
  <2>1. simulator.at \in Positions
    BY <1>6 DEF Revalue, TypeInv, TypeOK, PlaceInv
  <2>2. Profit(terms[simulator.at].side, pos[simulator.at].quantity,
               terms[simulator.at].entry, pos[simulator.at].mark) \in Int
    BY <2>1, TermsAreNumbers, ProfitIsANumber DEF TypeInv, TypeOK, PositionState
  <2>3. pos' \in [Positions -> PositionState]
    <3>1. pos \in [Positions -> PositionState]
      BY DEF TypeInv, TypeOK
    <3>2. [pos[simulator.at] EXCEPT !.unrealized =
              Profit(terms[simulator.at].side, pos[simulator.at].quantity,
                     terms[simulator.at].entry, pos[simulator.at].mark)] \in PositionState
      BY <2>1, <2>2, <3>1 DEF PositionState
    <3>3. QED
      BY <1>6, <2>1, <3>1, <3>2 DEF Revalue
  <2>4. QED
    BY <1>6, <2>3 DEF Revalue, TypeInv, TypeOK, PlaceInv, Actor
<1>7. CASE EndUpdate
  BY <1>7 DEF EndUpdate, TypeInv, TypeOK, PlaceInv, Actor, Idle
<1>8. ASSUME NEW user \in Users, BeginCheck(user) PROVE TypeInv'
  <2>1. Watched \subseteq added
    BY DEF Watched, TypeInv, TypeOK
  <2>2. /\ liquidator' \in Actor({"idle", "next", "remove"})
        /\ liquidator'.pc = "next" /\ liquidator'.price \in Nat /\ liquidator'.todo \subseteq added
    <3>1. liquidator \in Actor({"idle", "next", "remove"}) /\ market.mark \in Nat
          /\ added \subseteq Positions
      BY DEF TypeInv, TypeOK
    <3>2. liquidator' = [liquidator EXCEPT !.pc = "next", !.price = market.mark,
                                           !.todo = {p \in Watched : terms[p].user = user}]
      BY <1>8 DEF BeginCheck
    <3>3. {p \in Watched : terms[p].user = user} \subseteq added
      BY <2>1
    <3>4. {p \in Watched : terms[p].user = user} \in SUBSET Positions /\ market.mark \in Int
      BY <3>1, <3>3
    <3>5. liquidator' \in Actor({"idle", "next", "remove"})
      BY <3>1, <3>2, <3>4, ActorTurns
    <3>6. QED
      BY <3>1, <3>2, <3>3, <3>5 DEF Actor
  <2>3. TypeOK'
    BY <1>8, <2>2 DEF BeginCheck, TypeInv, TypeOK
  <2>4. PlaceInv'
    BY <1>8, <2>2 DEF BeginCheck, TypeInv, PlaceInv
  <2>5. QED
    BY <2>3, <2>4 DEF TypeInv
<1>9. ASSUME NEW p \in Positions, Spare(p) PROVE TypeInv'
  <2>1. /\ liquidator' \in Actor({"idle", "next", "remove"})
        /\ liquidator'.pc = "next" /\ liquidator'.price = liquidator.price
        /\ liquidator'.todo \subseteq liquidator.todo
    BY <1>9 DEF Spare, TypeInv, TypeOK, Actor
  <2>2. TypeOK'
    BY <1>9, <2>1 DEF Spare, TypeInv, TypeOK
  <2>3. PlaceInv'
    BY <1>9, <2>1 DEF Spare, TypeInv, PlaceInv
  <2>4. QED
    BY <2>2, <2>3 DEF TypeInv
<1>10. ASSUME NEW p \in Positions, Liquidate(p) PROVE TypeInv'
  <2>1. /\ pos' \in [Positions -> PositionState]
        /\ exit' \in [Positions -> [how : {"none", "Closed", "Liquidated"}, price : Nat]]
    BY <1>10, EndTypes DEF Liquidate, TypeInv, PlaceInv
  <2>2. /\ liquidator' \in Actor({"idle", "next", "remove"})
        /\ liquidator'.pc = "remove" /\ liquidator'.at = p /\ p \in added
        /\ liquidator'.price = liquidator.price /\ liquidator'.todo = liquidator.todo
    BY <1>10 DEF Liquidate, TypeInv, TypeOK, Actor
  <2>3. TypeOK'
    BY <1>10, <2>1, <2>2 DEF Liquidate, TypeInv, TypeOK
  <2>4. PlaceInv'
    BY <1>10, <2>2 DEF Liquidate, TypeInv, PlaceInv
  <2>5. QED
    BY <2>3, <2>4 DEF TypeInv
<1>11. CASE RemovePosition
  <2>1. Key(liquidator.at) \in Keys
    BY <1>11, TermsAreNumbers DEF RemovePosition, Key, Keys, TypeInv, TypeOK, PlaceInv
  <2>2. watched' \in [Keys -> added \cup {NoPosition}]
    BY <1>11, <2>1 DEF RemovePosition, TypeInv, TypeOK
  <2>3. /\ liquidator' \in Actor({"idle", "next", "remove"})
        /\ liquidator'.pc = "next" /\ liquidator'.price = liquidator.price
        /\ liquidator'.todo \subseteq liquidator.todo
    BY <1>11 DEF RemovePosition, TypeInv, TypeOK, Actor
  <2>4. TypeOK'
    BY <1>11, <2>2, <2>3 DEF RemovePosition, TypeInv, TypeOK
  <2>5. PlaceInv'
    BY <1>11, <2>3 DEF RemovePosition, TypeInv, PlaceInv
  <2>6. QED
    BY <2>4, <2>5 DEF TypeInv
<1>12. CASE EndCheck
  BY <1>12 DEF EndCheck, TypeInv, TypeOK, PlaceInv, Actor, Idle
<1>13. CASE AskIndex
  <2>1. /\ funder' \in Actor({"idle", "rate", "settle", "next", "charge"})
        /\ funder'.pc = "rate" /\ funder'.price \in Nat /\ funder'.todo = funder.todo
    <3>1. funder \in Actor({"idle", "rate", "settle", "next", "charge"})
      BY DEF TypeInv, TypeOK
    <3>2. /\ funder' = [funder EXCEPT !.pc = "rate", !.price = market.index]
          /\ market.index \in Nat
      BY <1>13 DEF AskIndex, TypeInv, TypeOK
    <3>3. "rate" \in {"idle", "rate", "settle", "next", "charge"} /\ market.index \in Int
      BY <3>2
    <3>4. funder' \in Actor({"idle", "rate", "settle", "next", "charge"})
      BY <3>1, <3>2, <3>3, ActorMoves
    <3>5. QED
      BY <3>1, <3>2, <3>3, <3>4 DEF Actor
  <2>2. TypeOK'
    BY <1>13, <2>1 DEF AskIndex, TypeInv, TypeOK
  <2>3. PlaceInv'
    BY <1>13, <2>1 DEF AskIndex, TypeInv, PlaceInv
  <2>4. QED
    BY <2>2, <2>3 DEF TypeInv
<1>14. CASE CalculateRate
  <2>1. rate' \in -3..3
    BY <1>14, RateIsBounded DEF CalculateRate, TypeInv, TypeOK, PlaceInv
  <2>2. /\ funder' \in Actor({"idle", "rate", "settle", "next", "charge"})
        /\ funder'.pc = "settle" /\ funder'.todo = funder.todo
    <3>1. funder \in Actor({"idle", "rate", "settle", "next", "charge"})
      BY DEF TypeInv, TypeOK
    <3>2. funder' = [funder EXCEPT !.pc = "settle", !.price = 0]
      BY <1>14 DEF CalculateRate
    <3>3. "settle" \in {"idle", "rate", "settle", "next", "charge"} /\ 0 \in Int
      OBVIOUS
    <3>4. funder' \in Actor({"idle", "rate", "settle", "next", "charge"})
      BY <3>1, <3>2, <3>3, ActorMoves
    <3>5. QED
      BY <3>1, <3>2, <3>3, <3>4 DEF Actor
  <2>3. TypeOK'
    BY <1>14, <2>1, <2>2 DEF CalculateRate, TypeInv, TypeOK
  <2>4. PlaceInv'
    BY <1>14, <2>2 DEF CalculateRate, TypeInv, PlaceInv
  <2>5. QED
    BY <2>3, <2>4 DEF TypeInv
<1>15. CASE BeginSettlement
  <2>1. Watched \subseteq added
    BY DEF Watched, TypeInv, TypeOK
  <2>2. QED
    BY <1>15, <2>1 DEF BeginSettlement, TypeInv, TypeOK, PlaceInv, Actor
<1>16. ASSUME NEW p \in Positions, ComputeFee(p) PROVE TypeInv'
  <2>1. FundingFee(p) \in Int
    BY FeeIsANumber DEF TypeInv
  <2>2. QED
    BY <1>16, <2>1 DEF ComputeFee, TypeInv, TypeOK, PlaceInv, Actor
<1>17. CASE AddFundingFee
  <2>1. funder.at \in Positions /\ funder.price \in Int
    BY <1>17 DEF AddFundingFee, TypeInv, TypeOK, PlaceInv, Actor
  <2>2. /\ pos' \in [Positions -> PositionState]
        /\ late' \in [Positions -> Nat]
    <3>1. pos \in [Positions -> PositionState] /\ late \in [Positions -> Nat]
      BY DEF TypeInv, TypeOK
    <3>2. [pos[funder.at] EXCEPT !.funding = @ + funder.price, !.margin = @ - funder.price]
            \in PositionState
      <4>1. pos[funder.at] \in PositionState
        BY <2>1, <3>1
      <4>2. /\ pos[funder.at].funding + funder.price \in Int
            /\ pos[funder.at].margin - funder.price \in Int
        BY <2>1, <4>1 DEF PositionState
      <4>3. QED
        BY <4>1, <4>2, FeeTypes
    <3>3. pos' = [pos EXCEPT ![funder.at] =
                    [pos[funder.at] EXCEPT !.funding = @ + funder.price, !.margin = @ - funder.price]]
      BY <1>17, <2>1, <3>1 DEF AddFundingFee, PositionState
    <3>4. late' \in [Positions -> Nat]
      BY <1>17, <2>1, <3>1 DEF AddFundingFee
    <3>5. QED
      BY <2>1, <3>1, <3>2, <3>3, <3>4
  <2>3. /\ funder' \in Actor({"idle", "rate", "settle", "next", "charge"})
    <3>1. funder \in Actor({"idle", "rate", "settle", "next", "charge"})
      BY DEF TypeInv, TypeOK
    <3>2. funder' = [funder EXCEPT !.pc = "next", !.at = NoPosition, !.price = 0,
                                   !.todo = @ \ {funder.at}]
      BY <1>17 DEF AddFundingFee
    <3>3. funder.todo \ {funder.at} \in SUBSET Positions
      BY <3>1 DEF Actor
    <3>4. "next" \in {"idle", "rate", "settle", "next", "charge"} /\ 0 \in Int
      OBVIOUS
    <3>5. QED
      BY <3>1, <3>2, <3>3, <3>4, ActorTurns
  <2>4. TypeOK'
    BY <1>17, <2>2, <2>3 DEF AddFundingFee, TypeInv, TypeOK
  <2>5. PlaceInv'
    BY <1>17, <2>3 DEF AddFundingFee, TypeInv, PlaceInv
  <2>6. QED
    BY <2>4, <2>5 DEF TypeInv
<1>18. CASE EndSettlement
  BY <1>18 DEF EndSettlement, TypeInv, TypeOK, PlaceInv, Actor, Idle
<1>19. ASSUME NEW k \in Keys, Find(k) PROVE TypeInv'
  <2>1. watched[k] \in added /\ watched[k] \in Positions
    BY <1>19 DEF Find, TypeInv, TypeOK
  <2>2. /\ closer' \in Actor({"idle", "found", "priced"})
        /\ closer'.at \in added /\ closer'.price = closer.price
    BY <1>19, <2>1 DEF Find, TypeInv, TypeOK, Actor
  <2>3. TypeOK'
    BY <1>19, <2>2 DEF Find, TypeInv, TypeOK
  <2>4. PlaceInv'
    BY <1>19, <2>2 DEF Find, TypeInv, PlaceInv
  <2>5. QED
    BY <2>3, <2>4 DEF TypeInv
<1>20. CASE AskPrice
  <2>1. /\ closer' \in Actor({"idle", "found", "priced"})
        /\ closer'.at = closer.at /\ closer'.price \in Nat /\ closer'.pc = "priced"
    <3>1. closer \in Actor({"idle", "found", "priced"}) /\ market.mark \in Nat
      BY DEF TypeInv, TypeOK
    <3>2. closer' = [closer EXCEPT !.pc = "priced", !.price = market.mark]
      BY <1>20 DEF AskPrice
    <3>3. "priced" \in {"idle", "found", "priced"} /\ market.mark \in Int
      BY <3>1
    <3>4. closer' \in Actor({"idle", "found", "priced"})
      BY <3>1, <3>2, <3>3, ActorMoves
    <3>5. QED
      BY <3>1, <3>2, <3>3, <3>4 DEF Actor
  <2>2. TypeOK'
    BY <1>20, <2>1 DEF AskPrice, TypeInv, TypeOK
  <2>3. PlaceInv'
    BY <1>20, <2>1 DEF AskPrice, TypeInv, PlaceInv
  <2>4. QED
    BY <2>2, <2>3 DEF TypeInv
<1>21. CASE Close
  <2>1. /\ pos' \in [Positions -> PositionState]
        /\ exit' \in [Positions -> [how : {"none", "Closed", "Liquidated"}, price : Nat]]
    BY <1>21, EndTypes DEF Close, TypeInv, TypeOK, PlaceInv
  <2>2. QED
    BY <1>21, <2>1 DEF Close, TypeInv, TypeOK, PlaceInv, Actor, Idle
<1>22. CASE UNCHANGED vars
  BY <1>22 DEF vars, TypeInv, TypeOK, PlaceInv, Key, Keys
<1>23. QED
  BY <1>2, <1>3, <1>4, <1>5, <1>6, <1>7, <1>8, <1>9, <1>10, <1>11, <1>12, <1>13, <1>14,
     <1>15, <1>16, <1>17, <1>18, <1>19, <1>20, <1>21, <1>22, <1>24 DEF Next

-----------------------------------------------------------------------------
(* The inductive invariants of the three properties *)

\* A position is as it was opened until it ends, and has nothing left after that.
BookInv ==
    \A p \in Positions :
        /\ exit[p].how = "none" => pos[p].quantity = terms[p].quantity /\ pos[p].realized = 0
        /\ exit[p].how # "none" => pos[p].quantity = 0 /\ pos[p].realized = FirstProfit(p)

\* Only a fee worked out before the end can be charged after it, and there is one at most.
LateInv ==
    \A p \in Positions :
        /\ late[p] <= 1
        /\ exit[p].how = "none" => late[p] = 0
        /\ funder.pc = "charge" /\ funder.at = p /\ funder.price # 0 => late[p] = 0

\* What is liquidated does not come back into the hands of UpdateAllLiquidationPrices.
GoneInv ==
    \A p \in Positions :
        /\ exit[p].how # "none" => p \in added
        /\ exit[p].how = "Liquidated" =>
                /\ p \notin simulator.todo
                /\ p \notin Watched \/ (liquidator.pc = "remove" /\ liquidator.at = p)

\* At price, the initial margin and the profit of p come to no more than 0.5% of its
\* value at entry, all times 400*200*leverage/quantity.
Due(p, price) ==
    200 * terms[p].leverage * Profit(terms[p].side, 1, terms[p].entry, price)
        + 400 * 200 * terms[p].entry <= 400 * terms[p].leverage * terms[p].entry

KeyInv == \A k \in Keys : watched[k] # NoPosition => Key(watched[k]) = k

PriceInv == \A p \in Positions : pos[p].liquidation \in {0, LiquidationPrice(terms[p])}

\* What is liquidated at a price that was worked out is liquidated when it is due.
DueInv ==
    \A p \in Positions : exit[p].how = "Liquidated" /\ pos[p].liquidation # 0 =>
        Due(p, exit[p].price)

\* The profit shown goes with the price shown but for the position being revalued.
PnlInv ==
    \A p \in Positions :
        pos[p].quantity > 0 /\ ~(simulator.pc = "revalue" /\ simulator.at = p) =>
            pos[p].unrealized = Profit(terms[p].side, pos[p].quantity, terms[p].entry, pos[p].mark)

\* Which actions change the state of a position.
LEMMA WhoChangesPositions ==
    ASSUME [Next]_vars
    PROVE  /\ terms' = terms
           /\ \/ UNCHANGED <<pos, exit>>
              \/ \E p \in Positions : Reprice(p)
              \/ Revalue
              \/ \E p \in Positions : Liquidate(p)
              \/ AddFundingFee
              \/ Close
BY DEF Next, vars, AddPosition, Tick, FollowTrades, BeginUpdate, Reprice, Revalue, EndUpdate,
       BeginCheck,
       Spare, Liquidate, RemovePosition, EndCheck, AskIndex, CalculateRate, BeginSettlement,
       ComputeFee, AddFundingFee, EndSettlement, Find, AskPrice, Close

\* A step leaves the quantity, the profit and the exit of a position alone, or ends it.
LEMMA StepOrEnd ==
    ASSUME TypeInv, [Next]_vars, NEW p \in Positions
    PROVE  /\ terms' = terms
           /\ \/ /\ exit'[p] = exit[p]
                 /\ pos'[p].quantity = pos[p].quantity /\ pos'[p].realized = pos[p].realized
              \/ \E price \in Nat, status \in {"Closed", "Liquidated"} :
                    /\ p \in added
                    /\ pos'[p] = Ended(p, price, status)
                    /\ exit'[p] = IF exit[p].how = "none" THEN [how |-> status, price |-> price]
                                  ELSE exit[p]
<1>1. terms' = terms
  BY WhoChangesPositions
<1>2. /\ pos \in [Positions -> PositionState]
      /\ exit \in [Positions -> [how : {"none", "Closed", "Liquidated"}, price : Nat]]
      /\ added \subseteq Positions
  BY DEF TypeInv, TypeOK
<1>3. CASE UNCHANGED <<pos, exit>>
  BY <1>1, <1>3
<1>4. ASSUME NEW q \in Positions, Reprice(q)
      PROVE  exit'[p] = exit[p] /\ pos'[p].quantity = pos[p].quantity
                /\ pos'[p].realized = pos[p].realized
  BY <1>2, <1>4 DEF Reprice, PositionState
<1>5. CASE Revalue
  BY <1>1, <1>2, <1>5 DEF Revalue, PositionState
<1>6. ASSUME NEW q \in Positions, NEW price \in Nat, NEW status \in {"Closed", "Liquidated"},
             q \in added, End(q, price, status)
      PROVE  \/ /\ exit'[p] = exit[p]
                /\ pos'[p].quantity = pos[p].quantity /\ pos'[p].realized = pos[p].realized
             \/ /\ p \in added
                /\ pos'[p] = Ended(p, price, status)
                /\ exit'[p] = IF exit[p].how = "none" THEN [how |-> status, price |-> price]
                              ELSE exit[p]
  <2>1. CASE p = q
    BY <1>2, <1>6, <2>1 DEF End
  <2>2. CASE p # q
    BY <1>2, <1>6, <2>2 DEF End
  <2>3. QED
    BY <2>1, <2>2
<1>7. ASSUME NEW q \in Positions, Liquidate(q)
      PROVE  q \in added /\ liquidator.price \in Nat /\ End(q, liquidator.price, "Liquidated")
  BY <1>7 DEF Liquidate, TypeInv, TypeOK, PlaceInv
<1>8. CASE AddFundingFee
  BY <1>1, <1>2, <1>8 DEF AddFundingFee, PositionState
<1>9. CASE Close
  <2>1. closer.at \in added /\ closer.price \in Nat /\ End(closer.at, closer.price, "Closed")
    BY <1>9 DEF Close, TypeInv, PlaceInv
  <2>2. QED
    BY <1>1, <1>2, <1>6, <2>1
<1>10. QED
  BY <1>1, <1>3, <1>4, <1>5, <1>6, <1>7, <1>8, <1>9, WhoChangesPositions

LEMMA BookInit == Init => BookInv
BY DEF Init, BookInv, NewPosition

LEMMA BookStep == TypeInv /\ BookInv /\ [Next]_vars => BookInv'
<1>1. SUFFICES ASSUME TypeInv, BookInv, [Next]_vars, NEW p \in Positions
               PROVE  /\ exit'[p].how = "none" =>
                            pos'[p].quantity = terms'[p].quantity /\ pos'[p].realized = 0
                      /\ exit'[p].how # "none" =>
                            pos'[p].quantity = 0 /\ pos'[p].realized = FirstProfit(p)'
  BY DEF BookInv
<1>2. terms' = terms
  BY <1>1, StepOrEnd
<1>3. CASE /\ exit'[p] = exit[p]
           /\ pos'[p].quantity = pos[p].quantity /\ pos'[p].realized = pos[p].realized
  BY <1>1, <1>2, <1>3 DEF BookInv, FirstProfit
<1>4. ASSUME NEW price \in Nat, NEW status \in {"Closed", "Liquidated"},
             pos'[p] = Ended(p, price, status),
             exit'[p] = IF exit[p].how = "none" THEN [how |-> status, price |-> price] ELSE exit[p]
      PROVE  /\ exit'[p].how # "none" /\ pos'[p].quantity = 0
             /\ pos'[p].realized = FirstProfit(p)'
  <2>1. /\ terms[p] \in Terms /\ pos[p] \in PositionState
        /\ exit[p] \in [how : {"none", "Closed", "Liquidated"}, price : Nat]
    BY <1>1 DEF TypeInv, TypeOK
  <2>2. /\ pos'[p].quantity = 0
        /\ pos'[p].realized = pos[p].realized
              + Profit(terms[p].side, pos[p].quantity, terms[p].entry, price)
    BY <1>4, <2>1 DEF Ended, PositionState
  <2>3. CASE exit[p].how = "none"
    <3>1. exit'[p].how = status /\ exit'[p].price = price
      BY <1>4, <2>3
    <3>2. pos[p].quantity = terms[p].quantity /\ pos[p].realized = 0
      BY <1>1, <2>3 DEF BookInv
    <3>3. Profit(terms[p].side, terms[p].quantity, terms[p].entry, price) \in Int
      BY <2>1, TermsAreNumbers, ProfitIsANumber
    <3>4. QED
      BY <1>2, <2>2, <3>1, <3>2, <3>3 DEF FirstProfit
  <2>4. CASE exit[p].how # "none"
    <3>1. exit'[p] = exit[p] /\ pos[p].quantity = 0 /\ pos[p].realized = FirstProfit(p)
      BY <1>1, <1>4, <2>4 DEF BookInv
    <3>2. Profit(terms[p].side, 0, terms[p].entry, price) = 0
      BY <2>1, TermsAreNumbers, NothingOnNothing
    <3>3. pos[p].realized \in Int
      BY <2>1 DEF PositionState
    <3>4. pos'[p].realized = pos[p].realized
      BY <2>2, <3>1, <3>2, <3>3
    <3>5. QED
      BY <1>2, <2>2, <2>4, <3>1, <3>4 DEF FirstProfit
  <2>5. QED
    BY <2>3, <2>4
<1>5. QED
  BY <1>1, <1>3, <1>4, StepOrEnd

LEMMA LateInit == Init => LateInv
BY DEF Init, LateInv, Idle

LEMMA LateStep == TypeInv /\ BookInv /\ LateInv /\ [Next]_vars => LateInv'
<1>1. SUFFICES ASSUME TypeInv, BookInv, LateInv, [Next]_vars, NEW p \in Positions
               PROVE  /\ late'[p] <= 1
                      /\ exit'[p].how = "none" => late'[p] = 0
                      /\ funder'.pc = "charge" /\ funder'.at = p /\ funder'.price # 0 =>
                            late'[p] = 0
  BY DEF LateInv
<1>2. exit'[p].how = "none" => exit[p].how = "none"
  BY <1>1, StepOrEnd
<1>3. /\ late[p] <= 1
      /\ exit[p].how = "none" => late[p] = 0
      /\ funder.pc = "charge" /\ funder.at = p /\ funder.price # 0 => late[p] = 0
      /\ late \in [Positions -> Nat]
      /\ funder \in Actor({"idle", "rate", "settle", "next", "charge"})
  BY <1>1 DEF LateInv, TypeInv, TypeOK
<1>4. CASE UNCHANGED <<late, funder>>
  BY <1>2, <1>3, <1>4
<1>5. CASE late' = late /\ funder'.pc # "charge"
  BY <1>2, <1>3, <1>5
<1>6. ASSUME NEW q \in Positions, ComputeFee(q)
      PROVE  /\ late' = late
             /\ funder'.at = p /\ exit[p].how # "none" => funder'.price = 0
  <2>1. late' = late /\ funder'.at = q /\ funder'.price = FundingFee(q)
    BY <1>3, <1>6 DEF ComputeFee, Actor
  <2>2. ASSUME q = p, exit[p].how # "none" PROVE FundingFee(q) = 0
    <3>1. pos[q].quantity = 0 /\ pos[q].mark \in Int /\ rate \in Int
      BY <1>1, <2>2 DEF BookInv, TypeInv, TypeOK, PositionState
    <3>2. \A a, b \in Int : 0 * a * b = 0
      OBVIOUS
    <3>3. pos[q].quantity * pos[q].mark * rate = 0
      BY <3>1, <3>2
    <3>4. QED
      BY <3>3 DEF FundingFee
  <2>3. QED
    BY <2>1, <2>2
<1>7. CASE AddFundingFee
  <2>1. funder'.pc = "next" /\ exit' = exit /\ funder.pc = "charge"
    BY <1>3, <1>7 DEF AddFundingFee, Actor
  <2>2. CASE exit[funder.at].how # "none" /\ funder.price # 0 /\ funder.at = p
    <3>1. late[p] = 0 /\ late' = [late EXCEPT ![p] = late[p] + 1]
      BY <1>3, <1>7, <2>1, <2>2 DEF AddFundingFee
    <3>2. late'[p] = 1
      BY <1>3, <3>1
    <3>3. QED
      BY <2>1, <2>2, <3>2
  <2>3. CASE ~(exit[funder.at].how # "none" /\ funder.price # 0 /\ funder.at = p)
    <3>1. late'[p] = late[p]
      BY <1>3, <1>7, <2>3 DEF AddFundingFee
    <3>2. QED
      BY <1>2, <1>3, <2>1, <3>1
  <2>4. QED
    BY <2>2, <2>3
<1>8. \/ UNCHANGED <<late, funder>>
      \/ late' = late /\ funder'.pc # "charge"
      \/ \E q \in Positions : ComputeFee(q)
      \/ AddFundingFee
  <2>1. CASE AskIndex \/ CalculateRate \/ BeginSettlement \/ EndSettlement
    <3>1. CASE AskIndex
      BY <1>3, <3>1 DEF AskIndex, Actor
    <3>2. CASE CalculateRate
      BY <1>3, <3>2 DEF CalculateRate, Actor
    <3>3. CASE BeginSettlement
      BY <1>3, <3>3 DEF BeginSettlement, Actor
    <3>4. CASE EndSettlement
      BY <3>4 DEF EndSettlement, Idle
    <3>5. QED
      BY <2>1, <3>1, <3>2, <3>3, <3>4
  <2>2. CASE ~(AskIndex \/ CalculateRate \/ BeginSettlement \/ EndSettlement)
    BY <1>1, <2>2 DEF Next, vars, AddPosition, Tick, FollowTrades, BeginUpdate, Reprice, Revalue, EndUpdate,
       BeginCheck, Spare, Liquidate, RemovePosition, EndCheck, Find, AskPrice, Close
  <2>3. QED
    BY <2>1, <2>2
<1>9. QED
  BY <1>2, <1>3, <1>4, <1>5, <1>6, <1>7, <1>8

\* The quantity of a position never grows.
LEMMA QuantityStep ==
    ASSUME TypeInv, [Next]_vars, NEW p \in Positions, pos'[p].quantity > 0
    PROVE  pos'[p].quantity = pos[p].quantity
<1>1. pos[p] \in PositionState
  BY DEF TypeInv, TypeOK
<1>2. ASSUME NEW price \in Nat, NEW status \in {"Closed", "Liquidated"}
      PROVE  Ended(p, price, status).quantity = 0
  BY <1>1 DEF Ended, PositionState
<1>3. ~ \E price \in Nat, status \in {"Closed", "Liquidated"} : pos'[p] = Ended(p, price, status)
  BY <1>2
<1>4. QED
  BY <1>3, StepOrEnd

\* The map of positions changes by AddPosition and RemovePosition only.
LEMMA WhoChangesWatched ==
    ASSUME [Next]_vars
    PROVE  \/ UNCHANGED <<added, watched>>
           \/ \E p \in Positions : AddPosition(p)
           \/ RemovePosition
BY DEF Next, vars, Tick, FollowTrades, BeginUpdate, Reprice, Revalue, EndUpdate,
       BeginCheck,
       Spare, Liquidate, EndCheck, AskIndex, CalculateRate, BeginSettlement,
       ComputeFee, AddFundingFee, EndSettlement, Find, AskPrice, Close

LEMMA PriceInit == Init => PriceInv
BY DEF Init, PriceInv, NewPosition

LEMMA PriceStep == TypeInv /\ PriceInv /\ [Next]_vars => PriceInv'
<1>1. SUFFICES ASSUME TypeInv, PriceInv, [Next]_vars, NEW p \in Positions
               PROVE  pos'[p].liquidation \in {0, LiquidationPrice(terms[p])}
  BY StepOrEnd DEF PriceInv
<1>2. /\ pos \in [Positions -> PositionState] /\ added \subseteq Positions
      /\ pos[p].liquidation \in {0, LiquidationPrice(terms[p])}
  BY <1>1 DEF PriceInv, TypeInv, TypeOK
<1>3. CASE UNCHANGED <<pos, exit>>
  BY <1>2, <1>3
<1>4. ASSUME NEW q \in Positions, Reprice(q)
      PROVE  pos'[p].liquidation \in {0, LiquidationPrice(terms[p])}
  <2>1. CASE p = q
    BY <1>2, <1>4, <2>1 DEF Reprice, PositionState
  <2>2. CASE p # q
    BY <1>2, <1>4, <2>2 DEF Reprice
  <2>3. QED
    BY <2>1, <2>2
<1>5. CASE Revalue
  BY <1>2, <1>5 DEF Revalue, PositionState
<1>6. ASSUME NEW q \in Positions, NEW price \in Nat, NEW status, End(q, price, status)
      PROVE  pos'[p].liquidation = pos[p].liquidation
  BY <1>2, <1>6 DEF End, Ended, PositionState
<1>7. ASSUME NEW q \in Positions, Liquidate(q)
      PROVE  liquidator.price \in Nat /\ End(q, liquidator.price, "Liquidated")
  BY <1>1, <1>7 DEF Liquidate, TypeInv, PlaceInv
<1>8. CASE AddFundingFee
  BY <1>2, <1>8 DEF AddFundingFee, PositionState
<1>9. CASE Close
  <2>1. closer.at \in Positions /\ closer.price \in Nat /\ End(closer.at, closer.price, "Closed")
    BY <1>1, <1>2, <1>9 DEF Close, TypeInv, PlaceInv
  <2>2. QED
    BY <1>2, <1>6, <2>1
<1>10. QED
  BY <1>1, <1>2, <1>3, <1>4, <1>5, <1>6, <1>7, <1>8, <1>9, WhoChangesPositions

LEMMA PnlInit == Init => PnlInv
<1>1. SUFFICES ASSUME Init, NEW p \in Positions
               PROVE  pos[p].unrealized
                        = Profit(terms[p].side, pos[p].quantity, terms[p].entry, pos[p].mark)
  BY DEF PnlInv
<1>2. terms[p] \in Terms /\ pos[p] = NewPosition(terms[p])
  BY <1>1 DEF Init
<1>3. QED
  BY <1>2, TermsAreNumbers, NothingAtEntry DEF NewPosition

LEMMA PnlStep == TypeInv /\ PnlInv /\ [Next]_vars => PnlInv'
<1>1. SUFFICES ASSUME TypeInv, PnlInv, [Next]_vars, NEW p \in Positions, pos'[p].quantity > 0,
                      ~(simulator'.pc = "revalue" /\ simulator'.at = p)
               PROVE  pos'[p].unrealized
                        = Profit(terms[p].side, pos'[p].quantity, terms[p].entry, pos'[p].mark)
  BY StepOrEnd DEF PnlInv
<1>2. /\ pos \in [Positions -> PositionState] /\ added \subseteq Positions
      /\ simulator \in Actor({"idle", "quoted", "update", "next", "revalue"})
      /\ pos[p].quantity > 0 /\ pos'[p].quantity = pos[p].quantity
  BY <1>1, QuantityStep DEF TypeInv, TypeOK
<1>3. ~(simulator.pc = "revalue" /\ simulator.at = p) =>
          pos[p].unrealized
            = Profit(terms[p].side, pos[p].quantity, terms[p].entry, pos[p].mark)
  BY <1>1, <1>2 DEF PnlInv
<1>4. CASE Revalue
  <2>1. simulator.at \in Positions /\ simulator.pc = "revalue"
    BY <1>1, <1>2, <1>4 DEF Revalue, TypeInv, PlaceInv
  <2>2. CASE simulator.at = p
    BY <1>2, <1>4, <2>1, <2>2 DEF Revalue, PositionState
  <2>3. CASE simulator.at # p
    <3>1. pos'[p] = pos[p]
      BY <1>2, <1>4, <2>1, <2>3 DEF Revalue
    <3>2. QED
      BY <1>3, <2>3, <3>1
  <2>4. QED
    BY <2>2, <2>3
<1>5. ASSUME NEW q \in Positions, Reprice(q) PROVE pos'[p] = pos[p] /\ simulator.pc = "next"
  <2>1. simulator'.pc = "revalue" /\ simulator'.at = q /\ simulator.pc = "next"
    BY <1>2, <1>5 DEF Reprice, Actor
  <2>2. QED
    BY <1>1, <1>2, <1>5, <2>1 DEF Reprice
<1>6. CASE ~Revalue /\ ~(\E q \in Positions : Reprice(q))
  <2>1. simulator.pc = "revalue" => simulator' = simulator
    BY <1>1, <1>6 DEF Next, vars, AddPosition, Tick, FollowTrades, BeginUpdate, EndUpdate, BeginCheck,
       Spare, Liquidate, RemovePosition, EndCheck, AskIndex, CalculateRate, BeginSettlement,
       ComputeFee, AddFundingFee, EndSettlement, Find, AskPrice, Close
  <2>2. pos'[p].unrealized = pos[p].unrealized /\ pos'[p].mark = pos[p].mark
    <3>1. CASE UNCHANGED <<pos, exit>>
      BY <3>1
    <3>2. ASSUME NEW q \in Positions, NEW price, NEW status, End(q, price, status)
          PROVE  pos'[p].unrealized = pos[p].unrealized /\ pos'[p].mark = pos[p].mark
      BY <1>2, <3>2 DEF End, Ended, PositionState
    <3>3. ASSUME NEW q \in Positions, Liquidate(q)
          PROVE  End(q, liquidator.price, "Liquidated")
      BY <3>3 DEF Liquidate
    <3>4. CASE AddFundingFee
      BY <1>2, <3>4 DEF AddFundingFee, PositionState
    <3>5. CASE Close
      <4>1. closer.at \in Positions /\ End(closer.at, closer.price, "Closed")
        BY <1>1, <1>2, <3>5 DEF Close, TypeInv, PlaceInv
      <4>2. QED
        BY <3>2, <4>1
    <3>6. QED
      BY <1>1, <1>6, <3>1, <3>2, <3>3, <3>4, <3>5, WhoChangesPositions
  <2>3. QED
    BY <1>1, <1>2, <1>3, <2>1, <2>2
<1>7. QED
  BY <1>3, <1>4, <1>5, <1>6

LEMMA KeyInit == Init => KeyInv
BY DEF Init, KeyInv

LEMMA KeyStep == TypeInv /\ KeyInv /\ [Next]_vars => KeyInv'
<1>1. SUFFICES ASSUME TypeInv, KeyInv, [Next]_vars, NEW k \in Keys, watched'[k] # NoPosition
               PROVE  Key(watched'[k]) = k
  BY WhoChangesPositions DEF KeyInv, Key
<1>2. watched \in [Keys -> added \cup {NoPosition}] /\ added \subseteq Positions
  BY <1>1 DEF TypeInv, TypeOK
<1>3. CASE watched'[k] = watched[k]
  BY <1>1, <1>3 DEF KeyInv
<1>4. ASSUME NEW r \in Positions, AddPosition(r), watched'[k] # watched[k]
      PROVE  Key(watched'[k]) = k
  <2>1. watched' = [watched EXCEPT ![Key(r)] = r]
    BY <1>4 DEF AddPosition
  <2>2. k = Key(r) /\ watched'[k] = r
    BY <1>2, <1>4, <2>1
  <2>3. QED
    BY <2>2
<1>5. CASE RemovePosition /\ watched'[k] # watched[k]
  <2>1. watched' = [watched EXCEPT ![Key(liquidator.at)] = NoPosition]
    BY <1>5 DEF RemovePosition
  <2>2. QED
    BY <1>1, <1>2, <1>5, <2>1
<1>6. QED
  BY <1>1, <1>3, <1>4, <1>5, WhoChangesWatched

\* Only Liquidate makes a liquidation the exit of a position.
LEMMA LiquidatedNow ==
    ASSUME TypeInv, [Next]_vars, NEW p \in Positions,
           exit'[p].how = "Liquidated", exit[p].how # "Liquidated"
    PROVE  Liquidate(p)
<1>1. /\ exit \in [Positions -> [how : {"none", "Closed", "Liquidated"}, price : Nat]]
      /\ added \subseteq Positions
  BY DEF TypeInv, TypeOK
<1>2. CASE UNCHANGED <<pos, exit>>
  BY <1>2
<1>3. ASSUME NEW q \in Positions, Reprice(q) PROVE FALSE
  BY <1>3 DEF Reprice
<1>4. CASE Revalue
  BY <1>4 DEF Revalue
<1>5. ASSUME NEW q \in Positions, Liquidate(q) PROVE Liquidate(p)
  BY <1>1, <1>5 DEF Liquidate, End
<1>6. CASE AddFundingFee
  BY <1>6 DEF AddFundingFee
<1>7. CASE Close
  BY <1>1, <1>7 DEF Close, End
<1>8. QED
  BY <1>2, <1>3, <1>4, <1>5, <1>6, <1>7, WhoChangesPositions

LEMMA GoneInit == Init => GoneInv
BY DEF Init, GoneInv

LEMMA GoneStep == TypeInv /\ KeyInv /\ GoneInv /\ [Next]_vars => GoneInv'
<1>1. SUFFICES ASSUME TypeInv, KeyInv, GoneInv, [Next]_vars, NEW p \in Positions
               PROVE  /\ exit'[p].how # "none" => p \in added'
                      /\ exit'[p].how = "Liquidated" =>
                            /\ p \notin simulator'.todo
                            /\ \/ p \notin Watched'
                               \/ liquidator'.pc = "remove" /\ liquidator'.at = p
  BY DEF GoneInv
<1>2. /\ watched \in [Keys -> added \cup {NoPosition}] /\ added \subseteq Positions
      /\ simulator \in Actor({"idle", "quoted", "update", "next", "revalue"})
      /\ liquidator \in Actor({"idle", "next", "remove"})
      /\ terms \in [Positions -> Terms] /\ NoPosition \notin Positions
  BY <1>1, RiskAssumption DEF TypeInv, TypeOK
<1>3. exit'[p].how # "none" => p \in added'
  <2>1. exit[p].how # "none" => p \in added
    BY <1>1 DEF GoneInv
  <2>2. added \subseteq added'
    BY <1>1, WhoChangesWatched DEF AddPosition, RemovePosition
  <2>3. QED
    BY <1>1, <2>1, <2>2, StepOrEnd
<1>4. ASSUME exit'[p].how = "Liquidated", exit[p].how # "Liquidated"
      PROVE  p \notin simulator'.todo /\ liquidator'.pc = "remove" /\ liquidator'.at = p
  <2>1. Liquidate(p)
    BY <1>1, <1>4, LiquidatedNow
  <2>2. simulator.pc \in {"idle", "quoted", "update"}
    BY <1>1, <2>1 DEF Liquidate, TypeInv, TypeOK
  <2>3. simulator' = simulator /\ simulator.todo = {}
    BY <1>1, <2>1, <2>2 DEF Liquidate, TypeInv, PlaceInv
  <2>4. QED
    BY <1>2, <2>1, <2>3 DEF Liquidate, Actor
<1>5. ASSUME exit[p].how = "Liquidated"
      PROVE  /\ p \notin simulator'.todo
             /\ \/ p \notin Watched'
                \/ liquidator'.pc = "remove" /\ liquidator'.at = p
  <2>1. /\ p \in added /\ p \notin simulator.todo
        /\ p \notin Watched \/ (liquidator.pc = "remove" /\ liquidator.at = p)
    BY <1>1, <1>5 DEF GoneInv
  <2>2. p \notin simulator'.todo
    <3>1. CASE BeginUpdate
      BY <1>2, <2>1, <3>1 DEF BeginUpdate, Actor
    <3>2. CASE Revalue
      BY <1>2, <2>1, <3>2 DEF Revalue, Actor
    <3>3. CASE EndUpdate
      BY <3>3 DEF EndUpdate, Idle
    <3>4. ASSUME NEW q \in Positions, Reprice(q) PROVE p \notin simulator'.todo
      BY <1>2, <2>1, <3>4 DEF Reprice, Actor
    <3>5. ASSUME NEW price \in Quotes, Tick(price) PROVE p \notin simulator'.todo
      BY <1>2, <2>1, <3>5 DEF Tick, Actor
    <3>10. ASSUME NEW traded \in Deals, FollowTrades(traded) PROVE p \notin simulator'.todo
      BY <1>2, <2>1, <3>10 DEF FollowTrades, Actor
    <3>6. CASE simulator' = simulator
      BY <2>1, <3>6
    <3>7. \/ BeginUpdate \/ Revalue \/ EndUpdate \/ (\E q \in Positions : Reprice(q))
          \/ (\E price \in Quotes : Tick(price)) \/ (\E traded \in Deals : FollowTrades(traded))
          \/ simulator' = simulator
      BY <1>1 DEF Next, vars, AddPosition, BeginCheck, Spare, Liquidate, RemovePosition, EndCheck,
         AskIndex, CalculateRate, BeginSettlement, ComputeFee, AddFundingFee, EndSettlement,
         Find, AskPrice, Close
    <3>8. QED
      BY <3>1, <3>2, <3>3, <3>4, <3>5, <3>6, <3>7, <3>10
  <2>3. CASE RemovePosition
    <3>1. watched' = [watched EXCEPT ![Key(liquidator.at)] = NoPosition]
      BY <2>3 DEF RemovePosition
    <3>2. CASE p \notin Watched
      <4>1. ASSUME NEW k \in Keys PROVE watched'[k] # p
        BY <1>2, <2>1, <3>1, <3>2 DEF Watched
      <4>2. QED
        BY <2>2, <4>1 DEF Watched
    <3>3. CASE liquidator.at = p
      <4>1. ASSUME NEW k \in Keys PROVE watched'[k] # p
        BY <1>1, <1>2, <3>1, <3>3 DEF KeyInv
      <4>2. QED
        BY <2>2, <4>1 DEF Watched
    <3>4. QED
      BY <2>1, <3>2, <3>3
  <2>4. CASE ~RemovePosition
    <3>1. liquidator.pc = "remove" => liquidator' = liquidator
      BY <1>1, <2>4 DEF Next, vars, AddPosition, Tick, FollowTrades, BeginUpdate, Reprice, Revalue, EndUpdate,
         BeginCheck, Spare, Liquidate, EndCheck, AskIndex, CalculateRate, BeginSettlement,
         ComputeFee, AddFundingFee, EndSettlement, Find, AskPrice, Close
    <3>2. CASE liquidator.pc = "remove" /\ liquidator.at = p
      BY <2>2, <3>1, <3>2
    <3>3. CASE p \notin Watched
      <4>1. ASSUME NEW r \in Positions, AddPosition(r), NEW k \in Keys PROVE watched'[k] # p
        <5>1. r # p /\ watched' = [watched EXCEPT ![Key(r)] = r]
          BY <2>1, <4>1 DEF AddPosition
        <5>2. watched[k] # p
          BY <1>2, <2>1, <3>3 DEF Watched
        <5>3. QED
          BY <1>2, <5>1, <5>2
      <4>2. (\E r \in Positions : AddPosition(r)) => p \notin Watched'
        BY <4>1 DEF Watched
      <4>3. watched' = watched => p \notin Watched'
        BY <3>3 DEF Watched
      <4>4. QED
        BY <1>1, <2>2, <2>4, <4>2, <4>3, WhoChangesWatched
    <3>4. QED
      BY <2>1, <3>2, <3>3
  <2>5. QED
    BY <2>3, <2>4
<1>6. QED
  BY <1>3, <1>4, <1>5

\* What CheckLiquidation finds due at a price that was worked out is due.
LEMMA FoundIsDue ==
    ASSUME NEW p \in Positions, terms[p] \in Terms, NEW price \in Nat,
           pos[p].liquidation = LiquidationPrice(terms[p]), MustLiquidate(p, price)
    PROVE  Due(p, price)
<1> DEFINE e == terms[p].entry
           l == terms[p].leverage
<1>1. e \in Nat /\ l \in Nat /\ terms[p].side \in {"Long", "Short"}
  BY TermsAreNumbers
<1>2. e * l \in Int /\ l * price \in Int
  BY <1>1
<1>3. CASE terms[p].side = "Long"
  <2>1. 200 * l * price <= LiquidationPrice(terms[p])
    BY <1>1, <1>3, LiquidationPriceIsNatural DEF MustLiquidate
  <2>2. LiquidationPrice(terms[p]) = 200 * (e * l) - 200 * e + e * l
    BY <1>1, <1>3 DEF LiquidationPrice
  <2>3. Profit(terms[p].side, 1, e, price) = 400 * price - 400 * e
    BY <1>1, <1>3 DEF Profit
  <2>4. 200 * l * (400 * price - 400 * e) = 80000 * (l * price) - 80000 * (e * l)
    BY <1>1
  <2>5. 200 * l * price = 200 * (l * price) /\ 400 * l * e = 400 * (e * l)
    BY <1>1
  <2>6. QED
    BY <1>1, <1>2, <2>1, <2>2, <2>3, <2>4, <2>5 DEF Due
<1>4. CASE terms[p].side = "Short"
  <2>1. 200 * l * price >= LiquidationPrice(terms[p])
    BY <1>4 DEF MustLiquidate
  <2>2. LiquidationPrice(terms[p]) = 200 * (e * l) + 200 * e - e * l
    BY <1>1, <1>4 DEF LiquidationPrice
  <2>3. Profit(terms[p].side, 1, e, price) = 400 * e - 400 * price
    BY <1>1, <1>4 DEF Profit
  <2>4. 200 * l * (400 * e - 400 * price) = 80000 * (e * l) - 80000 * (l * price)
    BY <1>1
  <2>5. 200 * l * price = 200 * (l * price) /\ 400 * l * e = 400 * (e * l)
    BY <1>1
  <2>6. QED
    BY <1>1, <1>2, <2>1, <2>2, <2>3, <2>4, <2>5 DEF Due
<1>5. QED
  BY <1>1, <1>3, <1>4

LEMMA DueInit == Init => DueInv
BY DEF Init, DueInv

LEMMA DueStep ==
    TypeInv /\ PriceInv /\ GoneInv /\ DueInv /\ [Next]_vars => DueInv'
<1>1. SUFFICES ASSUME TypeInv, PriceInv, GoneInv, DueInv, [Next]_vars, NEW p \in Positions,
                      exit'[p].how = "Liquidated", pos'[p].liquidation # 0
               PROVE  Due(p, exit'[p].price)
  BY WhoChangesPositions DEF DueInv, Due
<1>2. /\ pos \in [Positions -> PositionState] /\ added \subseteq Positions
      /\ exit \in [Positions -> [how : {"none", "Closed", "Liquidated"}, price : Nat]]
      /\ terms[p] \in Terms
  BY <1>1 DEF TypeInv, TypeOK
<1>3. CASE exit[p].how = "Liquidated"
  <2>1. pos[p].liquidation # 0 => Due(p, exit[p].price)
    BY <1>1, <1>3 DEF DueInv
  <2>2. exit'[p] = exit[p]
    BY <1>1, <1>3, StepOrEnd
  <2>3. pos'[p].liquidation = pos[p].liquidation
    <3>1. CASE UNCHANGED <<pos, exit>>
      BY <3>1
    <3>2. ASSUME NEW q \in Positions, Reprice(q)
          PROVE  pos'[p].liquidation = pos[p].liquidation
      <4>1. q # p
        BY <1>1, <1>3, <3>2 DEF Reprice, GoneInv
      <4>2. QED
        BY <1>2, <3>2, <4>1 DEF Reprice
    <3>3. CASE Revalue
      BY <1>2, <3>3 DEF Revalue, PositionState
    <3>4. ASSUME NEW q \in Positions, NEW price, NEW status, End(q, price, status)
          PROVE  pos'[p].liquidation = pos[p].liquidation
      BY <1>2, <3>4 DEF End, Ended, PositionState
    <3>5. ASSUME NEW q \in Positions, Liquidate(q)
          PROVE  End(q, liquidator.price, "Liquidated")
      BY <3>5 DEF Liquidate
    <3>6. CASE AddFundingFee
      BY <1>2, <3>6 DEF AddFundingFee, PositionState
    <3>7. CASE Close
      <4>1. closer.at \in Positions /\ End(closer.at, closer.price, "Closed")
        BY <1>1, <1>2, <3>7 DEF Close, TypeInv, PlaceInv
      <4>2. QED
        BY <3>4, <4>1
    <3>8. QED
      BY <1>1, <3>1, <3>2, <3>3, <3>4, <3>5, <3>6, <3>7, WhoChangesPositions
  <2>4. QED
    BY <1>1, <2>1, <2>2, <2>3
<1>4. CASE exit[p].how # "Liquidated"
  <2>1. Liquidate(p)
    BY <1>1, <1>4, LiquidatedNow
  <2>2. liquidator.price \in Nat /\ pos[p].liquidation \in {0, LiquidationPrice(terms[p])}
    BY <1>1 DEF TypeInv, PlaceInv, PriceInv
  <2>3. pos[p].liquidation # 0
    BY <1>1, <1>2, <2>1 DEF Liquidate, End, Ended, PositionState
  <2>4. Due(p, liquidator.price)
    BY <1>2, <2>1, <2>2, <2>3, FoundIsDue DEF Liquidate
  <2>5. exit'[p].price = liquidator.price
    BY <1>1, <1>2, <1>4, <2>1 DEF Liquidate, End
  <2>6. QED
    BY <2>4, <2>5
<1>5. QED
  BY <1>3, <1>4

\* The whole position has then used up its initial margin but for the maintenance margin.
LEMMA DueUsesUpMargin ==
    ASSUME NEW p \in Positions, terms[p] \in Terms, NEW price \in Nat, Due(p, price)
    PROVE  InitialMargin(terms[p])
             + Profit(terms[p].side, terms[p].quantity, terms[p].entry, price)
                <= 2 * terms[p].entry * terms[p].quantity
<1>1. PICK e \in Nat, l \in Nat, q \in Nat :
        /\ e = terms[p].entry /\ l = terms[p].leverage /\ q = terms[p].quantity
        /\ l > 0 /\ 400 % l = 0
  BY TermsAreNumbers, RiskAssumption DEF Terms
<1>2. PICK m \in Int : m = 400 \div l /\ m * l = 400
  BY <1>1
<1>3. PICK g \in Int : g = Profit(terms[p].side, 1, e, price)
  BY <1>1, ProfitIsANumber
<1>4. Profit(terms[p].side, q, e, price) = q * g
  BY <1>1, <1>3 DEF Profit
<1>5. InitialMargin(terms[p]) = m * e * q
  BY <1>1, <1>2 DEF InitialMargin
<1>6. PICK d \in Int : d = g + m * e - 2 * e
  BY <1>1, <1>2, <1>3
<1>7. 200 * l * g + 400 * 200 * e <= 400 * l * e
  BY <1>1, <1>3 DEF Due
<1>8. l * d <= 0
  <2>1. l * d = l * g + (m * l) * e - 2 * (l * e)
    <3>1. PICK x \in Int : x = m * e
      BY <1>1, <1>2
    <3>2. l * (g + x - 2 * e) = l * g + l * x - 2 * (l * e)
      BY <1>1, <1>3, <3>1
    <3>3. l * x = (m * l) * e
      BY <1>1, <1>2, <3>1
    <3>4. QED
      BY <1>6, <3>1, <3>2, <3>3
  <2>2. (m * l) * e = 400 * e
    BY <1>2
  <2>3. l * g \in Int /\ l * e \in Int /\ 200 * l * g = 200 * (l * g) /\ 400 * l * e = 400 * (l * e)
    BY <1>1, <1>3
  <2>4. QED
    BY <1>1, <1>7, <2>1, <2>2, <2>3
<1>9. d <= 0
  BY <1>1, <1>6, <1>8
<1>10. q * d <= 0
  BY <1>1, <1>6, <1>9
<1>11. q * d = q * g + m * e * q - 2 * e * q
  BY <1>1, <1>2, <1>3, <1>6
<1>12. QED
  BY <1>1, <1>2, <1>3, <1>4, <1>5, <1>6, <1>10, <1>11

-----------------------------------------------------------------------------
(* The theorems *)

LEMMA TypeAlways == Spec => []TypeInv
BY TypeInit, TypeStep, PTL DEF Spec

\* Whatever the simulator, the liquidator, the funding cycle and the handlers do in
\* between each other's steps, every variable keeps its type, nobody works on a
\* position that was not added, and le.mu keeps liquidation and the simulator's update
\* apart.
THEOREM TypeCorrect == Spec => []TypeOK
<1>1. TypeInv => TypeOK
  BY DEF TypeInv
<1>2. QED
  BY <1>1, TypeAlways, PTL

LEMMA BookAlways == Spec => []BookInv
BY BookInit, BookStep, TypeAlways, PTL DEF Spec

\* A position ends once: it books the profit at the price of whoever came first,
\* ClosePosition or CheckAndLiquidate, and one late funding fee at most.
THEOREM PositionsEndOnce == Spec => []EndsOnce
<1>1. Spec => []LateInv
  BY LateInit, LateStep, BookAlways, TypeAlways, PTL DEF Spec
<1>2. BookInv /\ LateInv => EndsOnce
  BY DEF BookInv, LateInv, EndsOnce
<1>3. QED
  BY <1>1, <1>2, BookAlways, PTL

\* A position that is liquidated at a price that was worked out has lost its initial margin
\* but for 0.5% of its value, by what was booked for it, whoever else had hold of it.
THEOREM LiquidationsUseUpMargin == Spec => []LossUsesUpMargin
<1>1. Spec => []PriceInv
  BY PriceInit, PriceStep, TypeAlways, PTL DEF Spec
<1>2. Spec => []KeyInv
  BY KeyInit, KeyStep, TypeAlways, PTL DEF Spec
<1>3. Spec => []GoneInv
  BY <1>2, GoneInit, GoneStep, TypeAlways, PTL DEF Spec
<1>4. Spec => []DueInv
  BY <1>1, <1>3, DueInit, DueStep, TypeAlways, PTL DEF Spec
<1>5. TypeInv /\ BookInv /\ DueInv => LossUsesUpMargin
  <2> SUFFICES ASSUME TypeInv, BookInv, DueInv, NEW p \in Positions,
                      exit[p].how = "Liquidated", pos[p].liquidation # 0
               PROVE  InitialMargin(terms[p]) + pos[p].realized
                        <= 2 * terms[p].entry * terms[p].quantity
    BY DEF LossUsesUpMargin
  <2>1. pos[p].realized = FirstProfit(p) /\ Due(p, exit[p].price)
    BY DEF BookInv, DueInv
  <2>2. terms[p] \in Terms /\ exit[p].price \in Nat
    BY DEF TypeInv, TypeOK
  <2>3. QED
    BY <2>1, <2>2, DueUsesUpMargin DEF FirstProfit
<1>6. QED
  BY <1>4, <1>5, BookAlways, TypeAlways, PTL

\* After UpdateAllLiquidationPrices the unrealized profit of every open position is the
\* one at its mark price, though its lock is released between the two.
THEOREM OpenPnlStaysCurrent == Spec => []OpenPnlIsCurrent
<1>1. Spec => []PnlInv
  BY PnlInit, PnlStep, TypeAlways, PTL DEF Spec
<1>2. PnlInv => OpenPnlIsCurrent
  BY DEF PnlInv, OpenPnlIsCurrent, IsOpen
<1>3. QED
  BY <1>1, <1>2, PTL

==================================================================================
