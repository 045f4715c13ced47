---- MODULE PriorityQueue ----
(***************************************************************************)
(* What the heap of hw5/part2 promises: orders wait, and a pop takes the   *)
(* one with the highest price, of those the one that came first.           *)
(***************************************************************************)
EXTENDS Integers

CONSTANTS Prices, MaxPushes

VARIABLES waiting,  \* the orders
          stamp     \* the timestamp of the next one

vars == <<waiting, stamp>>

\* OrderLess: b is served before a.
Less(a, b) == IF a.price # b.price THEN a.price < b.price ELSE a.timestamp > b.timestamp

Init == waiting = {} /\ stamp = 0

Push(p) ==
    /\ stamp < MaxPushes
    /\ waiting' = waiting \cup {[price |-> p, timestamp |-> stamp]}
    /\ stamp' = stamp + 1

Pop ==
    /\ \E best \in waiting :
          /\ \A o \in waiting \ {best} : Less(o, best)
          /\ waiting' = waiting \ {best}
    /\ UNCHANGED stamp

Next == (\E p \in Prices : Push(p)) \/ Pop

Spec == Init /\ [][Next]_vars
====
