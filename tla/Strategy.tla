---- MODULE Strategy ----
(***************************************************************************)
(* The trader of phase3: it goes through a feed of market updates and      *)
(* executions, keeps a snapshot of the market and its own orders, and runs *)
(* its strategy after every market update.  Each feed event is one step.   *)
(* How much the market bids or asks at a price is never used, only that    *)
(* it does.                                                                *)
(***************************************************************************)
EXTENDS Integers, Sequences, FiniteSets, FiniteSetsExt

CONSTANTS
    Prices,
    SellThreshold, BuyThreshold,  \* kSellThreshold and kBuyThreshold
    OrderQty,                     \* kOrderQty
    Fills,                        \* the quantities of executions
    MaxOrders                     \* bound: orders ever placed

ASSUME TraderAssumption ==
    /\ Prices \subseteq Int
    /\ SellThreshold \in Int /\ BuyThreshold \in Int
    /\ OrderQty \in Nat \ {0}
    /\ Fills \subseteq Nat
    /\ MaxOrders \in Nat

VARIABLES
    bids, asks,  \* the prices of the snapshot's levels
    orders,      \* orders_: the active orders by id
    nextId       \* next_id_

traderVars == <<bids, asks, orders, nextId>>

NewOrder(s, p) == [side |-> s, price |-> p, filled |-> 0]

TraderInit ==
    /\ bids = {} /\ asks = {}
    /\ orders = << >>
    /\ nextId = 1

----------------------------------------------------------------------------
(* OrderManager *)

HasActiveAt(p, s) == \E i \in DOMAIN orders : orders[i].side = s /\ orders[i].price = p

\* Fault: the id is the number of active orders plus one.
PlacedBySize(placed) ==
    [i \in DOMAIN orders \cup {Cardinality(DOMAIN orders) + k : k \in DOMAIN placed} |->
        IF i \in DOMAIN orders THEN orders[i] ELSE placed[i - Cardinality(DOMAIN orders)]]

\* The orders with those of the sequence placed added, under the next ids.
Placed(placed) ==
    [i \in DOMAIN orders \cup {nextId + k - 1 : k \in DOMAIN placed} |->
        IF i \in DOMAIN orders THEN orders[i] ELSE placed[i - nextId + 1]]

\* A fill that completes its order, or takes it past its quantity, removes it.
Filled(i, qty) ==
    IF orders[i].filled + qty >= OrderQty
    THEN [j \in DOMAIN orders \ {i} |-> orders[j]]
    ELSE [orders EXCEPT ![i].filled = @ + qty]

----------------------------------------------------------------------------
(* The strategy and the feed *)

\* What run_strategy places when the snapshot has the bids b and the asks a.
Wanted(b, a) ==
    LET sell == b # {} /\ Max(b) >= SellThreshold /\ ~HasActiveAt(Max(b), "Sell")
        buy  == a # {} /\ Min(a) <= BuyThreshold /\ ~HasActiveAt(Min(a), "Buy")
    IN  (IF sell THEN <<NewOrder("Sell", Max(b))>> ELSE <<>>)
            \o (IF buy THEN <<NewOrder("Buy", Min(a))>> ELSE <<>>)

RunStrategy(b, a) ==
    /\ orders' = Placed(Wanted(b, a))
    /\ nextId' = nextId + Len(Wanted(b, a))

Bounded == nextId + 1 <= MaxOrders

\* A quantity of 0 removes the level.
UpdateBid(p, gone) ==
    /\ Bounded
    /\ bids' = IF gone THEN bids \ {p} ELSE bids \cup {p}
    /\ RunStrategy(bids', asks)
    /\ UNCHANGED asks

UpdateAsk(p, gone) ==
    /\ Bounded
    /\ asks' = IF gone THEN asks \ {p} ELSE asks \cup {p}
    /\ RunStrategy(bids, asks')
    /\ UNCHANGED bids

\* handle_fill: an id that is not active, also one filled before, is ignored.
Execution(i, qty) ==
    /\ i \in DOMAIN orders
    /\ orders' = Filled(i, qty)
    /\ UNCHANGED <<bids, asks, nextId>>

TraderNext ==
    \/ \E p \in Prices, gone \in BOOLEAN : UpdateBid(p, gone) \/ UpdateAsk(p, gone)
    \/ \E i \in 1 .. MaxOrders, qty \in Fills : Execution(i, qty)

TraderSpec == TraderInit /\ [][TraderNext]_traderVars

----------------------------------------------------------------------------
(***************************************************************************)
(* There is never more than one active order on a side at a price, however *)
(* far one is filled and however often its price comes and goes.           *)
(***************************************************************************)
OneOrderPerQuote ==
    \A i, j \in DOMAIN orders :
        orders[i].side = orders[j].side /\ orders[i].price = orders[j].price => i = j

(***************************************************************************)
(* An order that is gone stays gone and its id is not given again, so that *)
(* a late or repeated execution reaches no other order.                    *)
(***************************************************************************)
GoneStaysGone ==
    [][\A i \in 1 .. nextId - 1 : i \notin DOMAIN orders => i \notin DOMAIN orders']_traderVars

(***************************************************************************)
(* After every market update a good best price has an order resting at it, *)
(* the new one or one from before: phase3/README.md's rule.                *)
(***************************************************************************)
RestsAt(os, price, side) == \E i \in DOMAIN os : os[i].price = price /\ os[i].side = side
QuotedAfterUpdate ==
    [][<<bids', asks'>> # <<bids, asks>> =>
          /\ bids' # {} /\ Max(bids') >= SellThreshold => RestsAt(orders', Max(bids'), "Sell")
          /\ asks' # {} /\ Min(asks') <= BuyThreshold => RestsAt(orders', Min(asks'), "Buy")]_traderVars

(***************************************************************************)
(* All that keeps the trader from quoting a price twice or not at all.     *)
(***************************************************************************)
QuotesEachGoodPriceOnce == []OneOrderPerQuote /\ GoneStaysGone /\ QuotedAfterUpdate
====
