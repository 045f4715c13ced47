---- MODULE PriceTimeBook ----
(***************************************************************************)
(* What a book of phase4 promises the matcher, which is a template over    *)
(* it: one queue per side and price, in order of arrival, and a best order *)
(* at the front of the best price.  An order dies elsewhere (filled by the *)
(* matcher or cancelled by the order manager) and stays in its queue until *)
(* it is pruned.                                                           *)
(***************************************************************************)
EXTENDS Integers, Sequences, SequencesExt

CONSTANTS Ids,     \* orders
          Prices   \* what they may ask or bid

Sides == {"Buy", "Sell"}

VARIABLES queue,  \* the orders at each side and price
          dead    \* the orders that are filled or cancelled

vars == <<queue, dead>>

Init ==
    /\ queue = [s \in Sides |-> [p \in Prices |-> <<>>]]
    /\ dead = {}

\* The comparators of the two maps.
Better(s, p, r) == IF s = "Buy" THEN p > r ELSE p < r

Levels(s) == {p \in Prices : queue[s][p] # <<>>}

IsBest(s, p) == p \in Levels(s) /\ \A r \in Levels(s) \ {p} : Better(s, p, r)

Live(i) == i \notin dead

FirstLive(q) == CHOOSE k \in DOMAIN q : Live(q[k]) /\ \A j \in 1 .. k - 1 : ~Live(q[j])

Add(i, s, p) ==
    /\ Live(i)
    /\ \A t \in Sides, r \in Prices : ~Contains(queue[t][r], i)
    /\ queue' = [queue EXCEPT ![s][p] = Append(@, i)]
    /\ UNCHANGED dead

PopBest(s) ==
    /\ \E p \in Prices : IsBest(s, p) /\ queue' = [queue EXCEPT ![s][p] = Tail(@)]
    /\ UNCHANGED dead

\* Nothing at a price better than the first one with a live order remains.
PruneFront(s) ==
    LET alive == {p \in Prices : \E k \in DOMAIN queue[s][p] : Live(queue[s][p][k])}
        kept(p) == IF \E r \in alive : Better(s, r, p) THEN queue[s][p]
                   ELSE IF p \notin alive THEN <<>>
                   ELSE SubSeq(queue[s][p], FirstLive(queue[s][p]), Len(queue[s][p]))
    IN  /\ queue' = [queue EXCEPT ![s] = [p \in Prices |-> kept(p)]]
        /\ UNCHANGED dead

Die(i) ==
    /\ dead' = dead \cup {i}
    /\ UNCHANGED queue

Next ==
    \/ \E s \in Sides :
          \/ \E i \in Ids, p \in Prices : Add(i, s, p)
          \/ PopBest(s)
          \/ PruneFront(s)
    \/ \E i \in Ids : Die(i)

Spec == Init /\ [][Next]_vars
====
