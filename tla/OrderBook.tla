------------------------------ MODULE OrderBook ------------------------------
(***************************************************************************)
(* phase5's baseline book: every order is stored by value twice, in the    *)
(* map of its price level and in the lookup by id.  The public operations  *)
(* leave the two maps in agreement; this is also the specification the     *)
(* pooled book of OptimizedOrderBook is to implement.                      *)
(*                                                                         *)
(* Every caller adds an id only while the book does not contain it, and    *)
(* calls the other two for any id.                                         *)
(***************************************************************************)
CONSTANTS
    Ids,         \* order ids
    Prices,      \* map keys; doubles that are only compared
    Quantities

VARIABLES
    orderLevels, \* orderLevels_: price -> (id -> Order)
    orderLookup  \* orderLookup_: id -> Order

vars == <<orderLevels, orderLookup>>

\* std::map::emplace leaves a value that is already under the key.
Emplace(map, key, value) ==
    [k \in DOMAIN map \union {key} |-> IF k \in DOMAIN map THEN map[k] ELSE value]

Without(map, key) == [k \in DOMAIN map \ {key} |-> map[k]]

EmptyMap == [k \in {} |-> {}]

\* operator[] of a map: the value under a key, default-constructed if missing.
LevelAt(levels, p) == IF p \in DOMAIN levels THEN levels[p] ELSE EmptyMap

LevelsAfterAdd(levels, id, o) ==
    [p \in DOMAIN levels \union {o.price} |->
        IF p = o.price THEN Emplace(LevelAt(levels, p), id, o) ELSE levels[p]]

\* eraseFromLevel: the level goes with its last order.
LevelsAfterErase(levels, p, id) ==
    IF p \notin DOMAIN levels THEN levels
    ELSE IF Without(levels[p], id) = EmptyMap THEN Without(levels, p)
    ELSE [levels EXCEPT ![p] = Without(@, id)]

-----------------------------------------------------------------------------
Init ==
    /\ orderLevels = EmptyMap
    /\ orderLookup = EmptyMap

addOrder(id, p, q, isBuy) ==
    LET o == [price |-> p, quantity |-> q, isBuy |-> isBuy] IN
    /\ id \notin DOMAIN orderLookup
    /\ orderLevels' = LevelsAfterAdd(orderLevels, id, o)
    /\ orderLookup' = Emplace(orderLookup, id, o)

\* An unknown id is a call without effect, here and in deleteOrder.
modifyOrder(id, p, q) ==
    /\ id \in DOMAIN orderLookup
    /\ LET old == orderLookup[id]
           o == [price |-> p, quantity |-> q, isBuy |-> old.isBuy]
       IN /\ orderLevels' =
                LevelsAfterAdd(LevelsAfterErase(orderLevels, old.price, id), id, o)
          /\ orderLookup' = Emplace(Without(orderLookup, id), id, o)

deleteOrder(id) ==
    /\ id \in DOMAIN orderLookup
    /\ orderLevels' = LevelsAfterErase(orderLevels, orderLookup[id].price, id)
    /\ orderLookup' = Without(orderLookup, id)

Next ==
    \E id \in Ids :
        \/ \E p \in Prices, q \in Quantities, isBuy \in BOOLEAN : addOrder(id, p, q, isBuy)
        \/ \E p \in Prices, q \in Quantities : modifyOrder(id, p, q)
        \/ deleteOrder(id)

Spec == Init /\ [][Next]_vars

-----------------------------------------------------------------------------
(***************************************************************************)
(* The two copies of every order agree, each order is in the level of its  *)
(* own price and in no other, and no level is left empty: what deleteOrder *)
(* relies on when it takes the level from the lookup's copy, and what      *)
(* size() and levels() count.                                              *)
(***************************************************************************)
CopiesAgree ==
    /\ \A p \in DOMAIN orderLevels :
          /\ orderLevels[p] # EmptyMap
          /\ \A id \in DOMAIN orderLevels[p] :
                /\ id \in DOMAIN orderLookup
                /\ orderLevels[p][id] = orderLookup[id]
                /\ orderLookup[id].price = p
    /\ \A id \in DOMAIN orderLookup :
          LET p == orderLookup[id].price IN
          p \in DOMAIN orderLevels /\ id \in DOMAIN orderLevels[p]
=============================================================================
