-------------------------------- MODULE Exchange --------------------------------
(***************************************************************************)
(* What a spot market promises its clients, without levels, lists, loops   *)
(* or statistics: orders arrive one at a time, trade with open orders of   *)
(* the other side that came before them, and then rest or are over.        *)
(*                                                                         *)
(* An order rests at the end of a queue of orders whose prices are its own *)
(* or nearly so, and a queue trades from its front.  Which of several      *)
(* queues an order trades with is left open (see PricePriority in          *)
(* OrderBook), and a limit is only kept up to the tolerance.               *)
(***************************************************************************)
EXTENDS Integers

CONSTANTS
    Orders, NoOrder,
    Tolerance   \* how far the key of a queue may be from the prices of its orders

VARIABLES
    wanted,   \* what each client asked for: side, type, price, quantity
    sold,     \* how much of each order has been traded
    fate,     \* what has become of each order
    current   \* the order being matched

\* An order is New, Matching, Open (it rests), Filled, Dropped or Rejected (the
\* unfilled rest of a market order).  An open order knows who rested before it.
VARIABLE before  \* pairs of open orders of one queue, in that order

abstractVars == <<wanted, sold, fate, current, before>>

Left(o) == wanted[o].quantity - sold[o]
Smaller(m, n) == IF m <= n THEN m ELSE n
OpenOrders == {o \in Orders : fate[o] = "Open"}

Alike(a, b) == wanted[a].side = wanted[b].side /\ wanted[a].price = wanted[b].price

\* Both may be in a queue with one key.
Close(a, b) ==
    /\ wanted[a].side = wanted[b].side
    /\ wanted[a].price - wanted[b].price <= 2 * Tolerance
    /\ wanted[b].price - wanted[a].price <= 2 * Tolerance

\* The limits of t and of the open order m allow a trade at m's price.
MayTrade(t, m) ==
    /\ wanted[t].side # wanted[m].side
    /\ \/ wanted[t].type = "Market"
       \/ wanted[t].side = "Buy" /\ wanted[m].price <= wanted[t].price + Tolerance
       \/ wanted[t].side = "Sell" /\ wanted[t].price <= wanted[m].price + Tolerance

\* The orders of one queue, all of them.
IsQueue(group) ==
    /\ \A a, b \in group : a = b \/ <<a, b>> \in before \/ <<b, a>> \in before
    /\ \A pair \in before : pair[1] \in group <=> pair[2] \in group

AbstractInit ==
    /\ sold = [o \in Orders |-> 0]
    /\ fate = [o \in Orders |-> "New"]
    /\ current = NoOrder
    /\ before = {}

Arrive(o) ==
    /\ current = NoOrder
    /\ fate[o] = "New"
    /\ current' = o
    /\ fate' = [fate EXCEPT ![o] = "Matching"]
    /\ UNCHANGED <<wanted, sold, before>>

\* The current order trades as much as it can with m, the first of its queue.
Trade(m) ==
    LET lot == Smaller(Left(current), Left(m))
    IN  /\ current # NoOrder /\ Left(current) > 0
        /\ fate[m] = "Open"
        /\ MayTrade(current, m)
        /\ \A o \in Orders : <<o, m>> \notin before
        /\ sold' = [o \in Orders |-> IF o \in {current, m} THEN sold[o] + lot ELSE sold[o]]
        /\ fate' = [fate EXCEPT ![m] = IF Left(m) = lot THEN "Filled" ELSE @]
        /\ before' = {pair \in before : Left(m) # lot \/ m \notin {pair[1], pair[2]}}
        /\ UNCHANGED <<wanted, current>>

\* The rest of a limit order queues up behind open orders close to it, and is the first
\* of its queue only if none is like it.
Rest ==
    /\ current # NoOrder /\ wanted[current].type = "Limit" /\ Left(current) > 0
    /\ fate' = [fate EXCEPT ![current] = "Open"]
    /\ \E group \in SUBSET {m \in OpenOrders : Close(m, current)} :
          /\ IsQueue(group)
          /\ group = {} => \A m \in OpenOrders : ~Alike(m, current)
          /\ before' = before \cup (group \X {current})
    /\ current' = NoOrder
    /\ UNCHANGED <<wanted, sold>>

\* An order that has nothing left is filled; a market order does not rest.
Finish ==
    /\ current # NoOrder
    /\ \/ Left(current) = 0 /\ fate' = [fate EXCEPT ![current] = "Filled"]
       \/ /\ Left(current) > 0 /\ wanted[current].type = "Market"
          /\ fate' = [fate EXCEPT ![current] = IF sold[current] = 0 THEN "Rejected" ELSE "Dropped"]
    /\ current' = NoOrder
    /\ UNCHANGED <<wanted, sold, before>>

AbstractNext ==
    \/ \E o \in Orders : Arrive(o) \/ Trade(o)
    \/ Rest \/ Finish

AbstractSpec == AbstractInit /\ [][AbstractNext]_abstractVars

=================================================================================
