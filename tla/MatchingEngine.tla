--------------------------- MODULE MatchingEngine ---------------------------
(***************************************************************************)
(* The single-threaded core of phase4: the order manager (OrderManager),   *)
(* the two-sided price-time book (OrderBook), the matcher's submit loop    *)
(* (MatchingEngine) and its append-only tape (TradeLogger).                *)
(*                                                                         *)
(* The order manager and the book hold shared_ptrs to the same Order, so   *)
(* there is one variable, order, that both see; the book only holds ids.   *)
(* A side of the book is a std::map from price to a deque: levels[s] is    *)
(* the map's key set and queue[s][p] the deque under key p.  That a key    *)
(* has a non-empty deque is not built in: it is what best() relies on.     *)
(*                                                                         *)
(* A submit is unrolled into one step per iteration of its while loop; no  *)
(* other operation runs while one is under way (pc = "matching").          *)
(***************************************************************************)
EXTENDS Integers, Sequences, RunningSum

CONSTANTS
    MaxOrders,  \* bound: how many orders are ever placed
    MaxQty,     \* bound: largest quantity of an order
    Prices      \* the prices orders may carry

ASSUME ConstantsAssumption ==
    /\ MaxOrders \in Nat
    /\ MaxQty \in Nat
    /\ Prices \subseteq Int

VARIABLES
    nextId,    \* OrderManager::next_id_
    order,     \* the Order objects; ids not yet handed out hold Order()
    active,    \* keys of OrderManager::active_
    levels,    \* keys of OrderBook::bids_ and asks_
    queue,     \* the deque of each key
    tape,      \* TradeLogger::buf_
    pc,        \* "idle", or "matching" inside MatchingEngine::submit
    incoming   \* the order being submitted

vars == <<nextId, order, active, levels, queue, tape, pc, incoming>>

Ids == 1 .. MaxOrders
Sides == {"Buy", "Sell"}
OrdState == {"New", "PartiallyFilled", "Filled", "Cancelled"}

Order == [price : Prices \union {0}, quantity : 0 .. MaxQty, filled : 0 .. MaxQty,
          side : Sides, state : OrdState]

Trade == [buy_id : Ids, sell_id : Ids, price : Prices, quantity : 1 .. MaxQty]

\* What Order() leaves in the fields: the value of an id not handed out yet.
DefaultOrder == [price |-> 0, quantity |-> 0, filled |-> 0, side |-> "Buy", state |-> "New"]

NewOrder(s, p, q) ==
    [price |-> p, quantity |-> q, filled |-> 0, side |-> s, state |-> "New"]

Opposite(s) == IF s = "Buy" THEN "Sell" ELSE "Buy"

-----------------------------------------------------------------------------
(* Order *)

Remaining(i) == order[i].quantity - order[i].filled

Live(i) == order[i].state \in {"New", "PartiallyFilled"}

\* The fill of n units: both the counter and the state the counter implies.
ExecuteKeepingState(o, n) ==
    [o EXCEPT !.filled = @ + n,
              !.state = IF o.filled = o.quantity THEN "Filled" ELSE "PartiallyFilled"]

Execute(o, n) ==
    [o EXCEPT !.filled = @ + n,
              !.state = IF o.filled + n = o.quantity THEN "Filled" ELSE "PartiallyFilled"]

-----------------------------------------------------------------------------
(* OrderBook *)

\* The comparators of the two maps: std::greater for bids, std::less for asks.
Better(s, p, r) == IF s = "Buy" THEN p > r ELSE p < r

HasLive(s, p) == \E k \in DOMAIN queue[s][p] : Live(queue[s][p][k])

\* prune_front erases the levels before the first one that has a live order,
\* all of them when none has.
KeptLevels(s) ==
    {p \in levels[s] : \E r \in levels[s] : HasLive(s, r) /\ (r = p \/ Better(s, r, p))}

\* After prune_front, begin() is the best level that has a live order.
BestLevel(s) ==
    {p \in levels[s] : /\ HasLive(s, p)
                       /\ \A r \in levels[s] : HasLive(s, r) => r = p \/ Better(s, p, r)}

\* The deque at begin(), without the dead orders at its front.
FrontOrder(q) == 1

FirstLive(q) == CHOOSE k \in DOMAIN q : Live(q[k]) /\ \A j \in 1 .. k - 1 : ~Live(q[j])

WithoutDeadFront(q) == SubSeq(q, FirstLive(q), Len(q))

Pruned(s) ==
    [p \in Prices |->
        IF p \notin KeptLevels(s) THEN <<>>
        ELSE IF p \in BestLevel(s) THEN WithoutDeadFront(queue[s][p])
        ELSE queue[s][p]]

PostedAtFront(q, i) == <<i>> \o q

\* add() joins the back of the deque of its price.
Posted(q, i) == Append(q, i)

AfterPop(L, p, rest) == IF rest = <<>> THEN L \ {p} ELSE L

-----------------------------------------------------------------------------
(* MatchingEngine *)

CrossesStrictly(taker, maker) ==
    IF order[taker].side = "Buy" THEN order[taker].price > order[maker].price
                                 ELSE order[taker].price < order[maker].price

Crosses(taker, maker) ==
    IF order[taker].side = "Buy" THEN order[taker].price >= order[maker].price
                                 ELSE order[taker].price <= order[maker].price

TradeQty(taker, maker) ==
    IF Remaining(taker) < Remaining(maker) THEN Remaining(taker) ELSE Remaining(maker)

MakeTradeOfWholeOrder(taker, maker, n) ==
    [buy_id |-> IF order[taker].side = "Buy" THEN taker ELSE maker,
     sell_id |-> IF order[taker].side = "Sell" THEN taker ELSE maker,
     price |-> order[maker].price, quantity |-> order[maker].quantity]

\* The taker pays the maker's price.
MakeTrade(taker, maker, n) ==
    [buy_id |-> IF order[taker].side = "Buy" THEN taker ELSE maker,
     sell_id |-> IF order[taker].side = "Sell" THEN taker ELSE maker,
     price |-> order[maker].price, quantity |-> n]

Init ==
    /\ nextId = 1
    /\ order = [i \in Ids |-> DefaultOrder]
    /\ active = {}
    /\ levels = [s \in Sides |-> {}]
    /\ queue = [s \in Sides |-> [p \in Prices |-> <<>>]]
    /\ tape = <<>>
    /\ pc = "idle"
    /\ incoming = 0

\* A tick: the driver places an order and submits it straight away.
PlaceAndSubmit(s, p, q) ==
    /\ pc = "idle"
    /\ nextId <= MaxOrders
    /\ order' = [order EXCEPT ![nextId] = NewOrder(s, p, q)]
    /\ active' = active \union {nextId}
    /\ nextId' = nextId + 1
    /\ incoming' = nextId
    /\ pc' = "matching"
    /\ UNCHANGED <<levels, queue, tape>>

\* One iteration of the loop that trades with the front of the best level p.
Fill(p) ==
    LET s == Opposite(order[incoming].side)
        q == Pruned(s)[p]
        maker == Head(q)
        n == TradeQty(incoming, maker)
        rest == IF n = Remaining(maker) THEN Tail(q) ELSE q
    IN  /\ pc = "matching"
        /\ Remaining(incoming) > 0
        /\ p \in BestLevel(s)
        /\ Crosses(incoming, maker)
        /\ order' = [order EXCEPT ![incoming] = Execute(@, n), ![maker] = Execute(@, n)]
        /\ tape' = Append(tape, MakeTrade(incoming, maker, n))
        /\ queue' = [queue EXCEPT ![s] = [Pruned(s) EXCEPT ![p] = rest]]
        /\ levels' = [levels EXCEPT ![s] = AfterPop(KeptLevels(s), p, rest)]
        /\ UNCHANGED <<nextId, active, pc, incoming>>

\* submit returns: the taker is filled.
ReturnFilled ==
    /\ pc = "matching"
    /\ Remaining(incoming) = 0
    /\ pc' = "idle"
    /\ UNCHANGED <<nextId, order, active, levels, queue, tape, incoming>>

\* submit returns: nothing left to cross, the remainder is posted.  The loop
\* has pruned the opposite side before it gave up.
Post ==
    LET o == order[incoming]
        s == Opposite(o.side)
    IN  /\ pc = "matching"
        /\ Remaining(incoming) > 0
        /\ \A p \in BestLevel(s) : ~Crosses(incoming, Head(Pruned(s)[p]))
        /\ queue' = [queue EXCEPT ![s] = Pruned(s),
                                  ![o.side][o.price] = Posted(@, incoming)]
        /\ levels' = [levels EXCEPT ![s] = KeptLevels(s), ![o.side] = @ \union {o.price}]
        /\ pc' = "idle"
        /\ UNCHANGED <<nextId, order, active, tape, incoming>>

-----------------------------------------------------------------------------
(* OrderManager *)

MayCancel(i) == i \in active /\ Live(i)

\* A cancel only marks the order: the book drops it when it reaches a front.
Cancel(i) ==
    /\ pc = "idle"
    /\ MayCancel(i)
    /\ order' = [order EXCEPT ![i].state = "Cancelled"]
    /\ UNCHANGED <<nextId, active, levels, queue, tape, pc, incoming>>

ReapedUntouched == {i \in active : order[i].state # "New"}

Reaped == {i \in active : ~Live(i)}

Reap ==
    /\ pc = "idle"
    /\ active' = active \ Reaped
    /\ UNCHANGED <<nextId, order, levels, queue, tape, pc, incoming>>

Next ==
    \/ \E s \in Sides, p \in Prices, q \in 1 .. MaxQty : PlaceAndSubmit(s, p, q)
    \/ \E p \in Prices : Fill(p)
    \/ ReturnFilled
    \/ Post
    \/ \E i \in Ids : Cancel(i)
    \/ Reap

Spec == Init /\ [][Next]_vars

-----------------------------------------------------------------------------
(* Properties *)

TypeOK ==
    /\ nextId \in 1 .. MaxOrders + 1
    /\ order \in [Ids -> Order]
    /\ active \subseteq 1 .. nextId - 1
    /\ levels \in [Sides -> SUBSET Prices]
    /\ queue \in [Sides -> [Prices -> Seq(Ids)]]
    /\ tape \in Seq(Trade)
    /\ pc \in {"idle", "matching"}
    /\ incoming \in 0 .. nextId - 1
    /\ pc = "matching" => incoming \in Ids

\* The orders whose submit has returned, as ids.
Submitted == {i \in 1 .. nextId - 1 : pc = "idle" \/ i # incoming}

\* begin()->second.front() is read without a check of the deque: every key of
\* the maps has a non-empty deque, whatever was pruned, popped and posted.
NoEmptyLevel ==
    \A s \in Sides, p \in Prices : p \in levels[s] <=> queue[s][p] # <<>>

RestsAt(i, s, p, k) == k \in DOMAIN queue[s][p] /\ queue[s][p][k] = i

\* No order is lost and none is in the book twice: every live order whose
\* submit has returned rests at exactly one place, on its own side and at its
\* own price, and the order manager still knows it.  No price stays behind
\* without an order.
LiveOrdersRest ==
    /\ NoEmptyLevel
    /\ \A i \in Submitted : Live(i) =>
          /\ i \in active
          /\ \E k \in Ids : RestsAt(i, order[i].side, order[i].price, k)
          /\ \A s \in Sides, p \in Prices, k, j \in Ids :
                RestsAt(i, order[i].side, order[i].price, k) /\ RestsAt(i, s, p, j) =>
                    s = order[i].side /\ p = order[i].price /\ j = k

\* A returned submit leaves no live bid at or above a live ask: whatever the
\* cancels left in the book in between, the matcher consumed what it could.
NeverCrossed ==
    \A i, j \in Submitted :
        Live(i) /\ Live(j) /\ order[i].side = "Buy" /\ order[j].side = "Sell"
            => order[i].price < order[j].price

\* A state is never stale: it is what the quantities say, for both parties of
\* every fill, and no order is filled beyond its quantity.
StateMatchesFill ==
    \A i \in 1 .. nextId - 1 :
        /\ order[i].filled <= order[i].quantity
        /\ order[i].state = "New" => order[i].filled = 0
        /\ order[i].state = "PartiallyFilled"
              => order[i].filled \in 1 .. order[i].quantity - 1
        /\ order[i].state = "Filled" <=> order[i].filled = order[i].quantity

\* The units of order i in trade t, and those that the tape has printed.
Units(i, t) == IF i \in {t.buy_id, t.sell_id} THEN t.quantity ELSE 0

Printed(i) == SumTo([k \in DOMAIN tape |-> Units(i, tape[k])], Len(tape))

\* The tape and the orders agree: what an order has filled is what the trades
\* that name it add up to, and no trade names an order twice.
TapeConservesFills ==
    /\ \A i \in 1 .. nextId - 1 : order[i].filled = Printed(i)
    /\ \A k \in DOMAIN tape : tape[k].buy_id # tape[k].sell_id

\* Every trade printed is between the taker and the order a price-time
\* priority book owes it: no live order of the other side has a better price,
\* or the same price and an earlier id; the price is the maker's and within
\* the taker's limit.
PriceTimePriority ==
    [][Len(tape') > Len(tape) =>
        LET t == tape'[Len(tape')]
            maker == IF t.buy_id = incoming THEN t.sell_id ELSE t.buy_id
            s == order[maker].side
        IN  /\ incoming \in {t.buy_id, t.sell_id}
            /\ order[t.buy_id].side = "Buy" /\ order[t.sell_id].side = "Sell"
            /\ order[t.buy_id].price >= t.price /\ t.price >= order[t.sell_id].price
            /\ t.price = order[maker].price
            /\ Live(maker)
            /\ \A j \in Submitted :
                  Live(j) /\ order[j].side = s /\ j # maker =>
                      \/ s = "Buy" /\ order[maker].price > order[j].price
                      \/ s = "Sell" /\ order[maker].price < order[j].price
                      \/ order[maker].price = order[j].price /\ maker < j]_vars

\* Filled and Cancelled are final: an order that reached one is never traded,
\* resurrected or marked again, even while the book still holds it.
DeadIsFinal ==
    [][\A i \in 1 .. nextId - 1 : ~Live(i) => order'[i] = order[i]]_vars

=============================================================================
