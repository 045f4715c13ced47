---- MODULE FlatOrderBook ----
(***************************************************************************)
(* FlatOrderBook of phase4: the same book with the levels of a side in a   *)
(* vector, best first, which an add searches from the front.               *)
(***************************************************************************)
EXTENDS Integers, Sequences, SequencesExt

CONSTANTS Ids, Prices

PricesAssumption == Prices \subseteq Int

Sides == {"Buy", "Sell"}

VARIABLES levels,  \* bids_ and asks_: a sequence of [price, q]
          dead     \* the orders that are filled or cancelled

vars == <<levels, dead>>

Init ==
    /\ levels = [s \in Sides |-> <<>>]
    /\ dead = {}

Better(s, p, r) == IF s = "Buy" THEN p > r ELSE p < r

Live(i) == i \notin dead

Booked(i) == \E s \in Sides : \E k \in DOMAIN levels[s] : Contains(levels[s][k].q, i)

\* The first k of 1 .. n with Test(k), or n + 1: where a scan from the front stops.
FirstOf(n, Test(_)) ==
    CHOOSE k \in 1 .. n + 1 : (k = n + 1 \/ Test(k)) /\ \A j \in 1 .. k - 1 : ~Test(j)

\* Fault: the scan passes a level of the same price.
AddAtPast(L, s, p) == FirstOf(Len(L), LAMBDA k : Better(s, p, L[k].price))

\* Where the scan of add stops: at the first level not better than p.
AddAt(L, s, p) == FirstOf(Len(L), LAMBDA k : ~Better(s, L[k].price, p))

\* add(): the matcher posts what is left of a live order, once.
Add(i, s, p) ==
    LET L == levels[s]
        k == AddAt(L, s, p)
    IN  /\ Live(i) /\ ~Booked(i)
        /\ levels' = [levels EXCEPT ![s] =
              IF k <= Len(L) /\ L[k].price = p
              THEN [L EXCEPT ![k].q = Append(@, i)]
              ELSE InsertAt(L, k, [price |-> p, q |-> <<i>>])]
        /\ UNCHANGED dead

\* best(): only asked of a side that is not empty.
Best(s) == Head(levels[s][1].q)

WithoutFrontOrder(L) ==
    IF Len(L[1].q) = 1 THEN Tail(L) ELSE [L EXCEPT ![1].q = Tail(@)]

PopBest(s) ==
    /\ levels[s] # <<>>
    /\ levels' = [levels EXCEPT ![s] = WithoutFrontOrder(@)]
    /\ UNCHANGED dead

\* Levels of dead orders go, and the dead front of the first other level.
Pruned(L) ==
    LET k == FirstOf(Len(L), LAMBDA j : \E i \in DOMAIN L[j].q : Live(L[j].q[i]))
    IN  IF k > Len(L) THEN <<>>
        ELSE LET q == L[k].q
                 i == FirstOf(Len(q), LAMBDA j : Live(q[j]))
             IN  <<[L[k] EXCEPT !.q = SubSeq(q, i, Len(q))]>> \o SubSeq(L, k + 1, Len(L))

PruneFront(s) ==
    /\ levels' = [levels EXCEPT ![s] = Pruned(@)]
    /\ UNCHANGED dead

\* The matcher fills the order or the order manager cancels it.
Die(i) ==
    /\ dead' = dead \cup {i}
    /\ UNCHANGED levels

Next ==
    \/ \E s \in Sides :
          \/ \E i \in Ids, p \in Prices : Add(i, s, p)
          \/ PopBest(s)
          \/ PruneFront(s)
    \/ \E i \in Ids : Die(i)

Spec == Init /\ [][Next]_vars

----------------------------------------------------------------------------
\* The queue at each price, wherever its level is.
Queue ==
    [s \in Sides |-> [p \in Prices |->
        LET here == {k \in DOMAIN levels[s] : levels[s][k].price = p}
        IN  IF here = {} THEN <<>> ELSE levels[s][CHOOSE k \in here : TRUE].q]]

MapBook == INSTANCE PriceTimeBook WITH queue <- Queue

(***************************************************************************)
(* The vector book does what the map book does, add by add, pop by pop and *)
(* prune by prune: swapping the books does not change what the matcher     *)
(* trades.                                                                 *)
(***************************************************************************)
StepsAsMapBook == [MapBook!Next]_<<Queue, dead>>

(***************************************************************************)
(* After a prune the best order, which best() reads unchecked, is live and *)
(* no live order of its side that was in the book has a better price: what *)
(* submit trades against.                                                  *)
(***************************************************************************)
PruneFindsBest ==
    \A s \in Sides :
        LET left == Pruned(levels[s])
        IN  left # <<>> =>
              /\ Live(Head(left[1].q))
              /\ \A k \in DOMAIN levels[s] :
                    (\E j \in DOMAIN levels[s][k].q : Live(levels[s][k].q[j]))
                        => ~Better(s, levels[s][k].price, left[1].price)
====
