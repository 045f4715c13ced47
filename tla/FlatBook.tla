---- MODULE FlatBook ----
(***************************************************************************)
(* FlatBook of hw5/part4: orders by id and nothing else, and the best      *)
(* price found by looking at all of them.  It is the comparison book of    *)
(* the benchmark, and here what OrderBook has to implement.                *)
(***************************************************************************)
EXTENDS Integers, FiniteSetsExt

CONSTANTS Ids, Prices, Quantities

Sides == {"B", "S"}

Order == [price : Prices, qty : Quantities, side : Sides]

VARIABLE orders  \* by_id_: a function from the ids that rest

Init == orders = [id \in {} |-> 0]

\* Callers add an id once.
Add(id, o) ==
    /\ id \notin DOMAIN orders
    /\ orders' = [i \in DOMAIN orders \cup {id} |-> IF i = id THEN o ELSE orders[i]]

Modify(id, qty) ==
    /\ id \in DOMAIN orders
    /\ orders' = [orders EXCEPT ![id].qty = qty]

Cancel(id) ==
    /\ id \in DOMAIN orders
    /\ orders' = [i \in DOMAIN orders \ {id} |-> orders[i]]

Next ==
    \E id \in Ids :
       \/ \E o \in Order : Add(id, o)
       \/ \E qty \in Quantities : Modify(id, qty)
       \/ Cancel(id)

Spec == Init /\ [][Next]_orders

\* best_bid and best_ask: prices are positive, and 0 says that the side is empty.
Best(s) ==
    LET prices == {orders[id].price : id \in {i \in DOMAIN orders : orders[i].side = s}}
    IN  IF prices = {} THEN 0 ELSE IF s = "B" THEN Max(prices) ELSE Min(prices)
====
