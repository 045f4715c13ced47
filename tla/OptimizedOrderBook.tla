------------------------- MODULE OptimizedOrderBook -------------------------
(***************************************************************************)
(* phase5's optimized book: nodes from a fixed MemoryPool, one intrusive   *)
(* doubly-linked list of nodes per price level, and a lookup from id to    *)
(* the node and its level.  It is to behave as the baseline OrderBook.     *)
(*                                                                         *)
(* A node is an index into the pool's buffer.  What release() has run the  *)
(* destructor on holds Destroyed, so alive_[n] is node[n] # Destroyed, and *)
(* a step that read or wrote a destroyed node would be seen.  acquire()    *)
(* answers Null when the pool is exhausted and addOrder writes through the *)
(* answer: nullWrite records it.  Callers size the pool for the orders     *)
(* they hold at once, and add an id only while the book does not have it.  *)
(*                                                                         *)
(* A ghost, arrivals, keeps the ids of a level in the order they reached   *)
(* it: the time priority the list is there to keep.                        *)
(***************************************************************************)
EXTENDS Integers, Sequences, FiniteSets

CONSTANTS Ids, Prices, Quantities,
    Capacity,   \* of the pool
    Null,       \* nullptr
    Destroyed   \* the contents of a slot with no object in it

Slots == 0 .. Capacity - 1
Pointer == Slots \union {Null}
Order == [id : Ids, price : Prices, quantity : Quantities, isBuy : BOOLEAN]
Node == [order : Order, prev : Pointer, next : Pointer]

ASSUME ConstantsAssumption ==
    /\ Capacity \in Nat
    /\ Null \notin Nat
    /\ IsFiniteSet(Ids)
    /\ Destroyed \notin Node

VARIABLES
    freeList,   \* MemoryPool::free_list_, its back last
    node,       \* MemoryPool::buffer_
    levels,     \* orderLevels_: price -> [head, tail]
    lookup,     \* lookup_: id -> [node, level]
    nullWrite,  \* a null pointer was written through
    arrivals    \* ghost: price -> ids in order of arrival

vars == <<freeList, node, levels, lookup, nullWrite, arrivals>>

Init ==
    /\ freeList = [i \in 1 .. Capacity |-> Capacity - i]
    /\ node = [n \in Slots |-> Destroyed]
    /\ levels = [p \in {} |-> Null]
    /\ lookup = [id \in {} |-> Null]
    /\ nullWrite = FALSE
    /\ arrivals = [p \in Prices |-> <<>>]

-----------------------------------------------------------------------------
(* The statements of an operation work on a record of the book's members.  *)

Book == [free |-> freeList, node |-> node, levels |-> levels, lookup |-> lookup,
         nullWrite |-> nullWrite]

Become(b) ==
    /\ freeList' = b.free
    /\ node' = b.node
    /\ levels' = b.levels
    /\ lookup' = b.lookup
    /\ nullWrite' = b.nullWrite

\* MemoryPool::release
Release(b, n) ==
    [b EXCEPT !.free = Append(@, n), !.node[n] = Destroyed]

\* n->prev->next = n->next and n->next->prev = n->prev, where there are such.
Spliced(b, nd) ==
    [n \in Slots |-> IF n = nd.prev THEN [b.node[n] EXCEPT !.next = nd.next]
                     ELSE IF n = nd.next THEN [b.node[n] EXCEPT !.prev = nd.prev]
                     ELSE b.node[n]]

\* The level's two ends once a node is out of its list.
LevelLeft(lvl, nd) ==
    [head |-> IF nd.prev = Null THEN nd.next ELSE lvl.head,
     tail |-> IF nd.next = Null THEN nd.prev ELSE lvl.tail]

\* Fault: the level of the last order stays in the map.
UnlinkKeepingLevel(b, slot) ==
    LET nd == b.node[slot.node] IN
    [b EXCEPT !.node = Spliced(b, nd), !.levels[slot.level] = LevelLeft(@, nd)]

Unlink(b, slot) ==
    LET nd == b.node[slot.node]
        lvl == LevelLeft(b.levels[slot.level], nd)
    IN [b EXCEPT
          !.node = Spliced(b, nd),
          !.levels = IF lvl.head = Null
                       THEN [p \in DOMAIN @ \ {slot.level} |-> @[p]]
                       ELSE [@ EXCEPT ![slot.level] = lvl]]

\* addOrder once acquire() has answered with slot n: link behind the tail.
Link(b, n, o) ==
    LET tail == IF o.price \in DOMAIN b.levels THEN b.levels[o.price].tail ELSE Null
        head == IF tail = Null THEN n ELSE b.levels[o.price].head
    IN [b EXCEPT
          !.node = [m \in Slots |->
                      IF m = n THEN [order |-> o, prev |-> tail, next |-> Null]
                      ELSE IF m = tail THEN [b.node[m] EXCEPT !.next = n]
                      ELSE b.node[m]],
          !.levels = [p \in DOMAIN @ \union {o.price} |->
                        IF p = o.price THEN [head |-> head, tail |-> n] ELSE @[p]],
          !.lookup = [id \in DOMAIN @ \union {o.id} |->
                        IF id \in DOMAIN @ THEN @[id]
                        ELSE [node |-> n, level |-> o.price]]]

Added(b, o) ==
    IF b.free = <<>>
      THEN [b EXCEPT !.nullWrite = TRUE]
      ELSE LET last == Len(b.free) IN
           Link([b EXCEPT !.free = SubSeq(@, 1, last - 1)], b.free[last], o)

\* Fault: the node does not go back to the pool.
RemovedLeaking(b, id) ==
    [Unlink(b, b.lookup[id]) EXCEPT !.lookup = [i \in DOMAIN @ \ {id} |-> @[i]]]

Removed(b, id) ==
    LET slot == b.lookup[id]
        c == Release(Unlink(b, slot), slot.node)
    IN [c EXCEPT !.lookup = [i \in DOMAIN @ \ {id} |-> @[i]]]

\* modifyOrder to another price: the old node is gone before the new one comes.
Relocated(b, id, p, q) ==
    Added(Removed(b, id), [id |-> id, price |-> p, quantity |-> q,
                           isBuy |-> b.node[b.lookup[id].node].order.isBuy])

\* modifyOrder keeps the node when the price does not change.
Modified(b, id, p, q) ==
    LET n == b.lookup[id].node IN
    IF b.node[n].order.price = p THEN [b EXCEPT !.node[n].order.quantity = q]
                                 ELSE Relocated(b, id, p, q)

-----------------------------------------------------------------------------
\* The ids of s but this one, which is there at most once.
Other(id, s) ==
    IF \A k \in DOMAIN s : s[k] # id THEN s
    ELSE LET at == CHOOSE k \in DOMAIN s : s[k] = id
         IN  [k \in 1 .. Len(s) - 1 |-> IF k < at THEN s[k] ELSE s[k + 1]]

addOrder(id, p, q, isBuy) ==
    /\ id \notin DOMAIN lookup
    /\ Cardinality(DOMAIN lookup) < Capacity
    /\ Become(Added(Book, [id |-> id, price |-> p, quantity |-> q, isBuy |-> isBuy]))
    /\ arrivals' = [arrivals EXCEPT ![p] = Append(@, id)]

modifyOrder(id, p, q) ==
    /\ id \in DOMAIN lookup
    /\ Become(Modified(Book, id, p, q))
    /\ arrivals' =
          IF node[lookup[id].node].order.price = p THEN arrivals
          ELSE [r \in Prices |-> IF r = p THEN Append(arrivals[r], id)
                                 ELSE Other(id, arrivals[r])]

deleteOrder(id) ==
    /\ id \in DOMAIN lookup
    /\ Become(Removed(Book, id))
    /\ arrivals' = [r \in Prices |-> Other(id, arrivals[r])]

Next ==
    \E id \in Ids :
        \/ \E p \in Prices, q \in Quantities, isBuy \in BOOLEAN : addOrder(id, p, q, isBuy)
        \/ \E p \in Prices, q \in Quantities : modifyOrder(id, p, q)
        \/ deleteOrder(id)

Spec == Init /\ [][Next]_vars

-----------------------------------------------------------------------------
Alive == {n \in Slots : node[n] # Destroyed}

(***************************************************************************)
(* A slot is free or holds the node of exactly one order in the book,      *)
(* never both and never neither: nothing leaks from the pool and nothing   *)
(* is released twice, whatever the sequence of calls.  Nor does a call run *)
(* out of slots while the callers hold no more orders than there are: also *)
(* modifyOrder, which builds a new node for an order of a book that is     *)
(* full.                                                                   *)
(***************************************************************************)
PoolPartition ==
    /\ ~nullWrite
    /\ \A i, j \in 1 .. Len(freeList) : i # j => freeList[i] # freeList[j]
    /\ Alive = Slots \ {freeList[i] : i \in 1 .. Len(freeList)}
    /\ Alive = {lookup[id].node : id \in DOMAIN lookup}
    /\ \A id \in DOMAIN lookup : node[lookup[id].node].order.id = id

\* The nodes of walk are the list of level p, from head to tail and back.
ListIs(walk, p) ==
    LET last == Len(arrivals[p]) IN
    /\ levels[p] = [head |-> walk[1], tail |-> walk[last]]
    /\ \A k \in 1 .. last :
          /\ node[walk[k]] # Destroyed
          /\ node[walk[k]].order.id = arrivals[p][k]
          /\ node[walk[k]].prev = IF k = 1 THEN Null ELSE walk[k - 1]
          /\ node[walk[k]].next = IF k = last THEN Null ELSE walk[k + 1]

(***************************************************************************)
(* Read from its head, and backwards from its tail, a level's list is the  *)
(* orders of that price in the order they arrived there; a change of the   *)
(* quantity alone keeps an order's place.                                  *)
(***************************************************************************)
ListsInArrivalOrder ==
    \A p \in Prices :
        IF arrivals[p] = <<>> THEN p \notin DOMAIN levels
        ELSE /\ p \in DOMAIN levels
             /\ \E walk \in [1 .. Len(arrivals[p]) -> Slots] : ListIs(walk, p)

-----------------------------------------------------------------------------
(* The baseline's two maps, one read off the lookup, the other off the     *)
(* levels and the nodes that are in use.                                   *)

OrderOf(n) ==
    LET o == node[n].order IN
    [price |-> o.price, quantity |-> o.quantity, isBuy |-> o.isBuy]

LookupMap == [id \in DOMAIN lookup |-> OrderOf(lookup[id].node)]

NodesAt(p) == {n \in Alive : node[n].order.price = p}

LevelMap ==
    [p \in DOMAIN levels |->
        [id \in {node[n].order.id : n \in NodesAt(p)} |->
            OrderOf(CHOOSE n \in NodesAt(p) : node[n].order.id = id)]]

Baseline == INSTANCE OrderBook WITH
    orderLevels <- LevelMap,
    orderLookup <- LookupMap

(***************************************************************************)
(* The optimized book is the baseline book to its callers: every operation *)
(* changes orders, sizes and price levels as the baseline's would.         *)
(***************************************************************************)
ImplementsBaseline == Baseline!Spec
=============================================================================
