---- MODULE IndexedBook ----
(***************************************************************************)
(* OrderBook of hw5/part4: the orders by id, and an index of them by side  *)
(* and price that makes the best price the first one.  Every add and       *)
(* cancel has to keep the two in step; a cancelled order leaves its level  *)
(* by having the level's last order put in its place.                      *)
(***************************************************************************)
EXTENDS Integers, Sequences, SequencesExt

CONSTANTS Ids, Prices, Quantities

ParameterAssumption == Prices \subseteq Nat \ {0} /\ Quantities \subseteq Nat

Sides == {"B", "S"}

Order == [price : Prices, qty : Quantities, side : Sides]

VARIABLES
    byId,   \* by_id_
    levels  \* bids_ and asks_: at each side a function from the prices in the map

vars == <<byId, levels>>

Init ==
    /\ byId = [id \in {} |-> 0]
    /\ levels = [s \in Sides |-> [p \in {} |-> <<>>]]

\* Callers add an id once: a second emplace would be ignored, but not the push_back.
Add(id, o) ==
    /\ id \notin DOMAIN byId
    /\ byId' = [i \in DOMAIN byId \cup {id} |-> IF i = id THEN o ELSE byId[i]]
    /\ LET side == levels[o.side]
           level == IF o.price \in DOMAIN side THEN side[o.price] ELSE <<>>
       IN  levels' = [levels EXCEPT ![o.side] =
              [p \in DOMAIN side \cup {o.price} |->
                  IF p = o.price THEN Append(level, id) ELSE side[p]]]

Modify(id, qty) ==
    /\ id \in DOMAIN byId
    /\ byId' = [byId EXCEPT ![id].qty = qty]
    /\ UNCHANGED levels

\* The cancelled order's place is taken by the last order of the level.
Without(level, id) ==
    LET at == CHOOSE k \in DOMAIN level : level[k] = id /\ \A j \in 1 .. k - 1 : level[j] # id
    IN  Front([level EXCEPT ![at] = Last(level)])

EraseIdAt(side, price, id) ==
    IF price \notin DOMAIN side \/ ~Contains(side[price], id) THEN side
    ELSE LET left == Without(side[price], id)
             stays == IF left = <<>> THEN DOMAIN side \ {price} ELSE DOMAIN side
         IN  [p \in stays |-> IF p = price THEN left ELSE side[p]]

Cancel(id) ==
    /\ id \in DOMAIN byId
    /\ levels' = [levels EXCEPT ![byId[id].side] = EraseIdAt(@, byId[id].price, id)]
    /\ byId' = [i \in DOMAIN byId \ {id} |-> byId[i]]

Next ==
    \E id \in Ids :
       \/ \E o \in Order : Add(id, o)
       \/ \E qty \in Quantities : Modify(id, qty)
       \/ Cancel(id)

Spec == Init /\ [][Next]_vars

\* best_bid and best_ask read the first level of the map.
Best(s) ==
    LET prices == DOMAIN levels[s]
    IN  IF prices = {} THEN 0
        ELSE CHOOSE p \in prices : \A r \in prices : IF s = "B" THEN r <= p ELSE p <= r

----------------------------------------------------------------------------
Rests(id, s, p) == p \in DOMAIN levels[s] /\ Contains(levels[s][p], id)

\* The book as the index tells it; only the quantities are taken from by_id_.
OrdersOfIndex ==
    LET side(id) == CHOOSE s \in Sides : \E p \in Prices : Rests(id, s, p)
        price(id) == CHOOSE p \in Prices : Rests(id, side(id), p)
    IN  [id \in {i \in Ids : \E s \in Sides, p \in Prices : Rests(i, s, p)} |->
            [price |-> price(id), side |-> side(id),
             qty |-> IF id \in DOMAIN byId THEN byId[id].qty ELSE 0]]

Flat == INSTANCE FlatBook WITH orders <- OrdersOfIndex
Scanned == INSTANCE FlatBook WITH orders <- byId

(***************************************************************************)
(* Read from the index, orders come, change and go as in the flat book, so *)
(* that no order of a level is lost or left behind.                        *)
(***************************************************************************)
StepsAsFlatBook == [Flat!Next]_OrdersOfIndex

(***************************************************************************)
(* The first level is the best price that a look at all the orders by id   *)
(* finds, also when the last order of a level has just gone.               *)
(***************************************************************************)
BestAsScanned == \A s \in Sides : Best(s) = Scanned!Best(s)
====
