---- MODULE BinaryHeap ----
(***************************************************************************)
(* BinaryHeap of hw5/part2: a binary tree in a vector, the best order at   *)
(* its root.  A push or a pop carries a value and a hole through the tree, *)
(* one level per step, and stores the value once, where the hole ends.     *)
(***************************************************************************)
EXTENDS Integers

CONSTANTS Prices, MaxPushes

ASSUME HeapAssumption == Prices \subseteq Int /\ MaxPushes \in Nat

VARIABLES
    data,   \* data_, indexed from 0
    size,   \* data_.size()
    pc,     \* "idle", "up" in sift_up_hole, "down" in sift_down_hole
    hole,   \* the arguments of the sift under way
    value,
    stamp   \* the timestamp of the next order pushed

heapVars == <<data, size, pc, hole, value, stamp>>

Order == [price : Prices, timestamp : Nat]

\* OrderLess: b is served before a.
Less(a, b) == IF a.price # b.price THEN a.price < b.price ELSE a.timestamp > b.timestamp

Indices == 0 .. size - 1

Parent(i) == (i - 1) \div 2

HeapInit ==
    /\ data = [i \in {} |-> 0]
    /\ size = 0
    /\ pc = "idle" /\ hole = 0 /\ value = 0
    /\ stamp = 0

\* push_back(T{}); what it puts there is overwritten and never read.
Push(p) ==
    /\ pc = "idle" /\ stamp < MaxPushes
    /\ value' = [price |-> p, timestamp |-> stamp]
    /\ data' = [i \in 0 .. size |-> IF i = size THEN value' ELSE data[i]]
    /\ size' = size + 1
    /\ pc' = "up" /\ hole' = size
    /\ stamp' = stamp + 1

\* The round of sift_up_hole that ends it.
PlaceUp ==
    /\ pc = "up"
    /\ hole > 0 => ~Less(data[Parent(hole)], value)
    /\ data' = [data EXCEPT ![hole] = value]
    /\ pc' = "idle"
    /\ UNCHANGED <<size, hole, value, stamp>>

\* A round that moves the parent into the hole.
MoveUp ==
    /\ pc = "up"
    /\ hole > 0 /\ Less(data[Parent(hole)], value)
    /\ data' = [data EXCEPT ![hole] = data[Parent(hole)]]
    /\ hole' = Parent(hole)
    /\ UNCHANGED <<size, pc, value, stamp>>

\* The caller pops only when the heap is not empty; the last order looks for a place.
Pop ==
    /\ pc = "idle" /\ size > 0
    /\ data' = [i \in 0 .. size - 2 |-> data[i]]
    /\ size' = size - 1
    /\ value' = data[size - 1]
    /\ hole' = 0
    /\ pc' = IF size = 1 THEN "idle" ELSE "down"
    /\ UNCHANGED stamp

\* The child of the hole that is served first.
Child ==
    LET c == 2 * hole + 1
    IN  IF c + 1 < size /\ Less(data[c], data[c + 1]) THEN c + 1 ELSE c

PlaceDown ==
    /\ pc = "down"
    /\ 2 * hole + 1 < size => ~Less(value, data[Child])
    /\ data' = [data EXCEPT ![hole] = value]
    /\ pc' = "idle"
    /\ UNCHANGED <<size, hole, value, stamp>>

\* Fault: the value is stored on the way, over an order not yet moved.
MoveDownStoring ==
    /\ pc = "down"
    /\ 2 * hole + 1 < size /\ Less(value, data[Child])
    /\ data' = [data EXCEPT ![hole] = value]
    /\ hole' = Child
    /\ UNCHANGED <<size, pc, value, stamp>>

MoveDown ==
    /\ pc = "down"
    /\ 2 * hole + 1 < size /\ Less(value, data[Child])
    /\ data' = [data EXCEPT ![hole] = data[Child]]
    /\ hole' = Child
    /\ UNCHANGED <<size, pc, value, stamp>>

HeapNext == (\E p \in Prices : Push(p)) \/ PlaceUp \/ MoveUp \/ Pop \/ PlaceDown \/ MoveDown

HeapSpec == HeapInit /\ [][HeapNext]_heapVars

----------------------------------------------------------------------------
\* The tree with the value under way in the hole.
Tree == [i \in Indices |-> IF pc # "idle" /\ i = hole THEN value ELSE data[i]]

Ordered(i) == ~Less(Tree[Parent(i)], Tree[i])

(***************************************************************************)
(* No order is served after one below it in the tree: between operations   *)
(* without exception, in a sift only where its hole is, and then the       *)
(* neighbours of the hole are in order with each other.                    *)
(***************************************************************************)
HeapOrder ==
    /\ \A i \in Indices \ {0} :
          \/ Ordered(i)
          \/ pc = "up" /\ i = hole
          \/ pc = "down" /\ Parent(i) = hole
    /\ pc # "idle" /\ hole > 0 =>
          \A i \in Indices \ {0} : Parent(i) = hole => ~Less(Tree[Parent(hole)], Tree[i])

Waiting == {Tree[i] : i \in Indices}

(***************************************************************************)
(* Pops come in the order of price and, at a price, of arrival; no order   *)
(* is lost or served twice.                                                *)
(***************************************************************************)
Queue == INSTANCE PriorityQueue WITH waiting <- Waiting
IsPriorityQueue == Queue!Spec
====
