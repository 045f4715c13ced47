----------------------- MODULE MatchingEngineProofs -----------------------
(***************************************************************************)
(* Theorems about MatchingEngine for every number of orders, quantity and  *)
(* set of prices.                                                          *)
(***************************************************************************)
EXTENDS MatchingEngine, NumberFacts, SequenceTheorems

\* An id that was handed out carries the arguments of place().
Placed ==
    \A i \in 1 .. nextId - 1 : order[i].quantity >= 1 /\ order[i].price \in Prices

\* The book holds submitted orders only, each under its own side and price.
Indexed ==
    \A s \in Sides, p \in Prices : \A k \in 1 .. Len(queue[s][p]) :
        /\ queue[s][p][k] \in Submitted
        /\ order[queue[s][p][k]].side = s
        /\ order[queue[s][p][k]].price = p

\* The taker is the newest order and nobody can cancel it.
Taker ==
    pc = "matching" => incoming = nextId - 1 /\ order[incoming].state # "Cancelled"

IInv == TypeOK /\ Placed /\ StateMatchesFill /\ Indexed /\ Taker

-----------------------------------------------------------------------------
(* Facts about what prune_front leaves. *)

\* The scan for the first live order of a deque that has one ends at a live
\* order, and the dead front it drops is no more than a prefix.
LEMMA WithoutDeadFrontOK ==
    ASSUME NEW q \in Seq(Ids), \E k \in 1 .. Len(q) : Live(q[k])
    PROVE  /\ WithoutDeadFront(q) \in Seq(Ids)
           /\ WithoutDeadFront(q) # <<>>
           /\ Live(Head(WithoutDeadFront(q)))
           /\ \A k \in 1 .. Len(WithoutDeadFront(q)) :
                \E j \in 1 .. Len(q) : WithoutDeadFront(q)[k] = q[j]
<1> DEFINE T == {k \in 1 .. Len(q) : Live(q[k])}
           f == FirstLive(q)
<1>1. Len(q) \in Nat /\ DOMAIN q = 1 .. Len(q)
  BY LenProperties
<1>2. PICK m \in T : \A j \in T : m <= j
  BY <1>1, LeastPosition
<1>3. m \in DOMAIN q /\ Live(q[m]) /\ \A j \in 1 .. m - 1 : ~Live(q[j])
  BY <1>1, <1>2
<1>4. f \in 1 .. Len(q) /\ Live(q[f])
  BY <1>1, <1>3 DEF FirstLive
<1> HIDE DEF f
<1>5. WithoutDeadFront(q) = SubSeq(q, f, Len(q))
  BY DEF WithoutDeadFront, f
<1>6. /\ SubSeq(q, f, Len(q)) \in Seq(Ids)
      /\ Len(SubSeq(q, f, Len(q))) = Len(q) - f + 1
      /\ \A i \in 1 .. Len(q) - f + 1 : SubSeq(q, f, Len(q))[i] = q[f + i - 1]
  <2>1. \A i \in f .. Len(q) : q[i] \in Ids
    BY <1>1, <1>4, ElementOfSeq
  <2> QED BY <1>1, <1>4, <2>1, SubSeqProperties
<1>7. Head(SubSeq(q, f, Len(q))) = q[f]
  BY <1>1, <1>4, HeadTailOfSubSeq
<1>8. SubSeq(q, f, Len(q)) # <<>>
  <2>1. Len(SubSeq(q, f, Len(q))) # 0
    BY <1>1, <1>4, <1>6
  <2>2. Len(<<>>) = 0
    OBVIOUS
  <2> QED BY <2>1, <2>2, Zenon
<1>9. ASSUME NEW k \in 1 .. Len(SubSeq(q, f, Len(q)))
      PROVE  \E j \in 1 .. Len(q) : SubSeq(q, f, Len(q))[k] = q[j]
  <2>1. f + k - 1 \in 1 .. Len(q)
    BY <1>1, <1>4, <1>6
  <2> QED BY <1>6, <2>1, <1>1, <1>4
<1> QED BY <1>4, <1>5, <1>6, <1>7, <1>8, <1>9

\* prune_front invents nothing, and leaves a live order at the front of the
\* level that begin() names.
LEMMA PrunedOK ==
    ASSUME queue \in [Sides -> [Prices -> Seq(Ids)]], NEW s \in Sides
    PROVE  /\ Pruned(s) \in [Prices -> Seq(Ids)]
           /\ \A p \in Prices : \A k \in 1 .. Len(Pruned(s)[p]) :
                \E j \in 1 .. Len(queue[s][p]) : Pruned(s)[p][k] = queue[s][p][j]
           /\ \A p \in BestLevel(s) : p \in Prices =>
                Pruned(s)[p] # <<>> /\ Live(Head(Pruned(s)[p]))
<1>1. ASSUME NEW p \in Prices, p \in BestLevel(s)
      PROVE  /\ p \in KeptLevels(s)
             /\ WithoutDeadFront(queue[s][p]) \in Seq(Ids)
             /\ WithoutDeadFront(queue[s][p]) # <<>>
             /\ Live(Head(WithoutDeadFront(queue[s][p])))
             /\ \A k \in 1 .. Len(WithoutDeadFront(queue[s][p])) :
                  \E j \in 1 .. Len(queue[s][p]) :
                     WithoutDeadFront(queue[s][p])[k] = queue[s][p][j]
  <2>1. queue[s][p] \in Seq(Ids)
    OBVIOUS
  <2>2. DOMAIN queue[s][p] = 1 .. Len(queue[s][p])
    BY <2>1, LenProperties
  <2>3. \E k \in 1 .. Len(queue[s][p]) : Live(queue[s][p][k])
    BY <1>1, <2>2 DEF BestLevel, HasLive
  <2>4. p \in KeptLevels(s)
    BY <1>1 DEF BestLevel, KeptLevels
  <2> QED BY <2>1, <2>3, <2>4, WithoutDeadFrontOK
<1>2. <<>> \in Seq(Ids) /\ Len(<<>>) = 0
  BY EmptySeq
<1>3. ASSUME NEW p \in Prices
      PROVE  /\ Pruned(s)[p] \in Seq(Ids)
             /\ \A k \in 1 .. Len(Pruned(s)[p]) :
                  \E j \in 1 .. Len(queue[s][p]) : Pruned(s)[p][k] = queue[s][p][j]
             /\ p \in BestLevel(s) => Pruned(s)[p] # <<>> /\ Live(Head(Pruned(s)[p]))
  <2>1. CASE p \notin KeptLevels(s)
    <3>1. Pruned(s)[p] = <<>>
      BY <2>1 DEF Pruned
    <3> QED BY <2>1, <3>1, <1>1, <1>2
  <2>2. CASE p \in KeptLevels(s) /\ p \in BestLevel(s)
    <3>1. Pruned(s)[p] = WithoutDeadFront(queue[s][p])
      BY <2>2 DEF Pruned
    <3>2. /\ WithoutDeadFront(queue[s][p]) \in Seq(Ids)
          /\ WithoutDeadFront(queue[s][p]) # <<>>
          /\ Live(Head(WithoutDeadFront(queue[s][p])))
          /\ \A k \in 1 .. Len(WithoutDeadFront(queue[s][p])) :
               \E j \in 1 .. Len(queue[s][p]) :
                  WithoutDeadFront(queue[s][p])[k] = queue[s][p][j]
      BY <2>2, <1>1
    <3> HIDE DEF WithoutDeadFront
    <3> QED BY <3>1, <3>2, Zenon
  <2>3. CASE p \in KeptLevels(s) /\ p \notin BestLevel(s)
    <3>1. Pruned(s)[p] = queue[s][p]
      BY <2>3 DEF Pruned
    <3> QED BY <2>3, <3>1
  <2> QED BY <2>1, <2>2, <2>3
<1>4. Pruned(s) = [p \in Prices |-> Pruned(s)[p]]
  BY DEF Pruned
<1> QED BY <1>3, <1>4

-----------------------------------------------------------------------------
(* The invariant, action by action. *)

\* The parties of a fill: two different live orders, neither asked for more
\* than it has left.
LEMMA FillParties ==
    ASSUME IInv, NEW p \in Prices, Fill(p)
    PROVE  LET s == Opposite(order[incoming].side)
               maker == Head(Pruned(s)[p])
               n == TradeQty(incoming, maker)
           IN  /\ pc = "matching"
               /\ incoming \in 1 .. nextId - 1 /\ Live(incoming)
               /\ maker \in 1 .. nextId - 1 /\ Live(maker) /\ maker # incoming
               /\ s \in Sides /\ s # order[incoming].side
               /\ order[maker].side = s /\ order[maker].price = p
               /\ Pruned(s)[p] \in Seq(Ids) /\ Pruned(s)[p] # <<>>
               /\ n \in 1 .. MaxQty
               /\ n <= Remaining(incoming) /\ n <= Remaining(maker)
<1> DEFINE s == Opposite(order[incoming].side)
           q == Pruned(s)[p]
           maker == Head(q)
           n == TradeQty(incoming, maker)
<1>1. pc = "matching" /\ Remaining(incoming) > 0 /\ p \in BestLevel(s)
  BY DEF Fill
<1>2. incoming \in 1 .. nextId - 1 /\ 1 .. nextId - 1 \subseteq Ids
  BY <1>1, ConstantsAssumption DEF IInv, TypeOK, Ids
<1>3. s \in Sides /\ s # order[incoming].side
  BY <1>2 DEF IInv, TypeOK, Order, Sides, Opposite
<1>4. Live(incoming)
  BY <1>1, <1>2 DEF IInv, TypeOK, Taker, StateMatchesFill, Live, Remaining, Order, OrdState
<1>5. queue \in [Sides -> [Prices -> Seq(Ids)]]
  BY DEF IInv, TypeOK
<1>6. q \in Seq(Ids) /\ q # <<>> /\ Live(maker)
  <2> HIDE DEF s
  <2> QED BY <1>1, <1>3, <1>5, PrunedOK
<1>7. PICK j \in 1 .. Len(queue[s][p]) : maker = queue[s][p][j]
  <2>1. 1 \in 1 .. Len(q) /\ maker = q[1]
    <3> HIDE DEF q
    <3> QED BY <1>6
  <2> HIDE DEF s
  <2> QED BY <2>1, <1>3, <1>5, PrunedOK
<1>8. maker \in Submitted /\ order[maker].side = s /\ order[maker].price = p
  <2> HIDE DEF s, q, maker
  <2> QED BY <1>3, <1>7 DEF IInv, Indexed
<1>9. maker \in 1 .. nextId - 1 /\ maker # incoming
  <2> HIDE DEF maker
  <2> QED BY <1>1, <1>8 DEF Submitted
<1>10. n \in 1 .. MaxQty /\ n <= Remaining(incoming) /\ n <= Remaining(maker)
  <2> HIDE DEF maker
  <2>1. /\ order[maker].filled \in 0 .. MaxQty /\ order[maker].quantity \in 0 .. MaxQty
        /\ order[incoming].filled \in 0 .. MaxQty /\ order[incoming].quantity \in 0 .. MaxQty
    BY <1>2, <1>9 DEF IInv, TypeOK, Order
  <2>2. order[maker].filled < order[maker].quantity
    BY <1>2, <1>6, <1>9, <2>1 DEF IInv, StateMatchesFill, Live
  <2>3. Remaining(maker) \in 1 .. MaxQty
    BY <2>1, <2>2, ConstantsAssumption DEF Remaining
  <2>4. Remaining(incoming) > 0
    BY <1>1
  <2>5. Remaining(incoming) \in 1 .. MaxQty
    BY <2>1, <2>4, ConstantsAssumption DEF Remaining
  <2> QED BY <2>3, <2>5, ConstantsAssumption DEF TradeQty
<1> HIDE DEF n, maker, q, s
<1>11. QED
  BY <1>1, <1>2, <1>3, <1>4, <1>6, <1>8, <1>9, <1>10 DEF n, maker, q, s

\* A fill of n units moves the counter by n, and the state with it.
LEMMA ExecuteOK ==
    ASSUME NEW o \in Order, NEW n \in 1 .. MaxQty, o.filled + n <= o.quantity
    PROVE  /\ Execute(o, n) \in Order
           /\ Execute(o, n).side = o.side
           /\ Execute(o, n).price = o.price
           /\ Execute(o, n).quantity = o.quantity
           /\ Execute(o, n).filled = o.filled + n
           /\ Execute(o, n).state = IF o.filled + n = o.quantity
                                    THEN "Filled" ELSE "PartiallyFilled"
<1> DEFINE st == IF o.filled + n = o.quantity THEN "Filled" ELSE "PartiallyFilled"
<1>1. o.filled + n \in 0 .. MaxQty
  BY ConstantsAssumption DEF Order
<1>2. st \in OrdState
  BY DEF OrdState
<1>3. Execute(o, n) = [o EXCEPT !.filled = o.filled + n, !.state = st]
  BY DEF Execute
<1> HIDE DEF st
<1>4. /\ Execute(o, n) \in Order
      /\ Execute(o, n).side = o.side
      /\ Execute(o, n).price = o.price
      /\ Execute(o, n).quantity = o.quantity
      /\ Execute(o, n).filled = o.filled + n
      /\ Execute(o, n).state = st
  BY <1>1, <1>2, <1>3 DEF Order
<1> QED BY <1>4 DEF st

LEMMA InitIInv == Init => IInv
<1> SUFFICES ASSUME Init PROVE IInv
  OBVIOUS
<1>1. DefaultOrder \in Order
  BY ConstantsAssumption DEF DefaultOrder, Order, Sides, OrdState
<1>2. TypeOK
  BY <1>1, ConstantsAssumption DEF Init, TypeOK, Ids
<1>3. 1 .. nextId - 1 = {}
  BY DEF Init
<1>4. \A s \in Sides, p \in Prices : Len(queue[s][p]) = 0
  BY DEF Init
<1> QED BY <1>2, <1>3, <1>4 DEF Init, IInv, Placed, StateMatchesFill, Indexed, Taker

LEMMA PlacePreservesIInv ==
    ASSUME IInv, NEW s \in Sides, NEW p \in Prices, NEW q \in 1 .. MaxQty,
           PlaceAndSubmit(s, p, q)
    PROVE  IInv'
<1> USE ConstantsAssumption
<1>1. nextId \in Ids /\ nextId' = nextId + 1 /\ 1 .. nextId' - 1 = (1 .. nextId - 1) \union {nextId}
  BY DEF PlaceAndSubmit, IInv, TypeOK, Ids
<1>2. NewOrder(s, p, q) \in Order
  BY DEF NewOrder, Order, OrdState
<1>3. /\ order'[nextId] = NewOrder(s, p, q)
      /\ \A i \in 1 .. nextId - 1 : order'[i] = order[i]
      /\ order' \in [Ids -> Order]
  BY <1>1, <1>2 DEF PlaceAndSubmit, IInv, TypeOK, Ids
<1>4. TypeOK'
  BY <1>1, <1>3 DEF PlaceAndSubmit, IInv, TypeOK, Ids
<1>5. Placed'
  BY <1>1, <1>3 DEF IInv, Placed, NewOrder
<1>6. StateMatchesFill'
  BY <1>1, <1>3 DEF IInv, StateMatchesFill, NewOrder
<1>7. Submitted = 1 .. nextId - 1 /\ Submitted' = 1 .. nextId - 1
  BY <1>1 DEF PlaceAndSubmit, Submitted, IInv, TypeOK
<1>8. Indexed'
  BY <1>3, <1>7 DEF PlaceAndSubmit, IInv, Indexed
<1>9. Taker'
  BY <1>1, <1>3 DEF PlaceAndSubmit, Taker, NewOrder
<1> QED BY <1>4, <1>5, <1>6, <1>8, <1>9 DEF IInv

LEMMA CancelPreservesIInv ==
    ASSUME IInv, NEW i \in Ids, Cancel(i)
    PROVE  IInv'
<1> USE ConstantsAssumption
<1>1. i \in 1 .. nextId - 1 /\ Live(i) /\ nextId' = nextId /\ 1 .. nextId - 1 \subseteq Ids
  BY DEF Cancel, MayCancel, IInv, TypeOK, Ids
<1>2. /\ order' \in [Ids -> Order]
      /\ order'[i].state = "Cancelled"
      /\ \A j \in Ids : j # i => order'[j] = order[j]
      /\ \A j \in Ids : /\ order'[j].side = order[j].side
                         /\ order'[j].price = order[j].price
                         /\ order'[j].quantity = order[j].quantity
                         /\ order'[j].filled = order[j].filled
  BY DEF Cancel, IInv, TypeOK, Order, OrdState
<1>3. TypeOK'
  BY <1>2 DEF Cancel, IInv, TypeOK
<1>4. Placed'
  BY <1>1, <1>2 DEF IInv, Placed
<1>5. StateMatchesFill'
  BY <1>1, <1>2 DEF IInv, StateMatchesFill, Live
<1>6. Submitted' = Submitted /\ Submitted \subseteq Ids
  BY <1>1 DEF Cancel, Submitted
<1>7. Indexed'
  BY <1>2, <1>6 DEF Cancel, IInv, Indexed
<1>8. Taker'
  BY DEF Cancel, Taker
<1> QED BY <1>3, <1>4, <1>5, <1>7, <1>8 DEF IInv

LEMMA ReapPreservesIInv ==
    ASSUME IInv, Reap
    PROVE  IInv'
<1>1. TypeOK'
  BY DEF Reap, IInv, TypeOK
<1>2. Placed' /\ StateMatchesFill' /\ Taker'
  BY DEF Reap, IInv, Placed, StateMatchesFill, Taker
<1>3. Submitted' = Submitted
  BY DEF Reap, Submitted
<1>4. Indexed'
  BY <1>3 DEF Reap, IInv, Indexed
<1> QED BY <1>1, <1>2, <1>4 DEF IInv

LEMMA ReturnPreservesIInv ==
    ASSUME IInv, ReturnFilled
    PROVE  IInv'
<1>1. TypeOK'
  BY DEF ReturnFilled, IInv, TypeOK
<1>2. Placed' /\ StateMatchesFill' /\ Taker'
  BY DEF ReturnFilled, IInv, Placed, StateMatchesFill, Taker
<1>3. Submitted \subseteq Submitted'
  BY DEF ReturnFilled, Submitted
<1>4. Indexed'
  BY <1>3 DEF ReturnFilled, IInv, Indexed
<1> QED BY <1>1, <1>2, <1>4 DEF IInv

\* A side pruned is indexed like the side it was pruned from.
LEMMA PrunedIndexed ==
    ASSUME IInv, NEW s \in Sides, NEW p \in Prices, NEW k \in 1 .. Len(Pruned(s)[p])
    PROVE  /\ Pruned(s)[p][k] \in Submitted
           /\ order[Pruned(s)[p][k]].side = s
           /\ order[Pruned(s)[p][k]].price = p
<1>1. queue \in [Sides -> [Prices -> Seq(Ids)]]
  BY DEF IInv, TypeOK
<1>2. PICK j \in 1 .. Len(queue[s][p]) : Pruned(s)[p][k] = queue[s][p][j]
  BY <1>1, PrunedOK
<1> QED BY <1>2 DEF IInv, Indexed

LEMMA PostPreservesIInv ==
    ASSUME IInv, Post
    PROVE  IInv'
<1> DEFINE o == order[incoming]
           s == Opposite(o.side)
<1>1. pc = "matching" /\ pc' = "idle" /\ UNCHANGED <<nextId, order, active, tape, incoming>>
  BY DEF Post
<1>2. incoming \in Ids /\ incoming \in 1 .. nextId - 1 /\ o \in Order
  BY <1>1, ConstantsAssumption DEF IInv, TypeOK, Ids
<1>3. s \in Sides /\ o.side \in Sides /\ s # o.side
  BY <1>2 DEF Opposite, Order, Sides
<1>4. o.price \in Prices
  BY <1>2 DEF IInv, Placed
<1>5. queue \in [Sides -> [Prices -> Seq(Ids)]] /\ levels \in [Sides -> SUBSET Prices]
  BY DEF IInv, TypeOK
<1>6. Pruned(s) \in [Prices -> Seq(Ids)] /\ KeptLevels(s) \in SUBSET Prices
  <2>1. KeptLevels(s) \subseteq levels[s]
    BY DEF KeptLevels
  <2> HIDE DEF s
  <2> QED BY <2>1, <1>3, <1>5, PrunedOK
<1> HIDE DEF s
<1>7. /\ queue' = [queue EXCEPT ![s] = Pruned(s), ![o.side][o.price] = Posted(@, incoming)]
      /\ levels' = [levels EXCEPT ![s] = KeptLevels(s), ![o.side] = @ \union {o.price}]
  BY DEF Post, s
<1> HIDE DEF o
<1>8. /\ queue'[s] = Pruned(s)
      /\ queue'[o.side][o.price] = Append(queue[o.side][o.price], incoming)
      /\ \A p \in Prices : p # o.price => queue'[o.side][p] = queue[o.side][p]
  BY <1>3, <1>4, <1>5, <1>6, <1>7 DEF Posted
<1>9. Append(queue[o.side][o.price], incoming) \in Seq(Ids)
  BY <1>2, <1>3, <1>4, <1>5
<1>10. queue' \in [Sides -> [Prices -> Seq(Ids)]]
  <2> DEFINE row == [queue[o.side] EXCEPT ![o.price] = Append(queue[o.side][o.price], incoming)]
  <2>1. row \in [Prices -> Seq(Ids)]
    BY <1>3, <1>4, <1>5, <1>9
  <2>2. queue' = [queue EXCEPT ![s] = Pruned(s), ![o.side] = row]
    BY <1>3, <1>5, <1>7 DEF Posted
  <2> HIDE DEF row
  <2> QED BY <1>5, <1>6, <2>1, <2>2
<1>11. levels' \in [Sides -> SUBSET Prices]
  BY <1>3, <1>4, <1>5, <1>6, <1>7
<1>12. TypeOK'
  BY <1>1, <1>10, <1>11 DEF IInv, TypeOK
<1>13. Placed' /\ StateMatchesFill' /\ Taker'
  BY <1>1 DEF IInv, Placed, StateMatchesFill, Taker
<1>14. Submitted \subseteq Submitted' /\ incoming \in Submitted'
  BY <1>1, <1>2 DEF Submitted
<1>15. ASSUME NEW r \in Sides, NEW p \in Prices, NEW k \in 1 .. Len(queue'[r][p])
       PROVE  /\ queue'[r][p][k] \in Submitted'
              /\ order'[queue'[r][p][k]].side = r
              /\ order'[queue'[r][p][k]].price = p
  <2>1. CASE r = s
    BY <2>1, <1>1, <1>3, <1>8, <1>14, PrunedIndexed
  <2>2. CASE r = o.side /\ p # o.price
    BY <2>2, <1>1, <1>8, <1>14 DEF IInv, Indexed
  <2>3. CASE r = o.side /\ p = o.price
    <3>1. queue[r][p] \in Seq(Ids) /\ queue'[r][p] = Append(queue[r][p], incoming)
      BY <2>3, <1>5, <1>8
    <3>2. CASE k = Len(queue[r][p]) + 1
      <4>1. queue'[r][p][k] = incoming
        BY <3>1, <3>2
      <4>2. order'[incoming] = o
        BY <1>1 DEF o
      <4> QED BY <4>1, <4>2, <2>3, <1>14
    <3>3. CASE k \in 1 .. Len(queue[r][p])
      <4>1. queue'[r][p][k] = queue[r][p][k]
        BY <3>1, <3>3
      <4> QED BY <4>1, <3>3, <1>1, <1>14 DEF IInv, Indexed
    <3> QED BY <3>1, <3>2, <3>3
  <2> QED BY <2>1, <2>2, <2>3, <1>3 DEF Sides
<1>16. Indexed'
  BY <1>15 DEF Indexed
<1> QED BY <1>12, <1>13, <1>16 DEF IInv

\* A fill touches its two parties and nobody else.
LEMMA FillOrders ==
    ASSUME IInv, NEW p \in Prices, Fill(p)
    PROVE  LET maker == Head(Pruned(Opposite(order[incoming].side))[p])
           IN  /\ order' \in [Ids -> Order]
               /\ \A i \in Ids : /\ order'[i].side = order[i].side
                                  /\ order'[i].price = order[i].price
                                  /\ order'[i].quantity = order[i].quantity
               /\ \A i \in Ids : i \notin {incoming, maker} => order'[i] = order[i]
               /\ \A i \in {incoming, maker} :
                     /\ order'[i].filled \in 1 .. order[i].quantity
                     /\ order'[i].filled = order[i].filled + TradeQty(incoming, maker)
                     /\ order'[i].state = IF order'[i].filled = order[i].quantity
                                          THEN "Filled" ELSE "PartiallyFilled"
<1> DEFINE maker == Head(Pruned(Opposite(order[incoming].side))[p])
           n == TradeQty(incoming, maker)
<1>1. /\ incoming \in 1 .. nextId - 1 /\ maker \in 1 .. nextId - 1 /\ maker # incoming
      /\ n \in 1 .. MaxQty /\ n <= Remaining(incoming) /\ n <= Remaining(maker)
  BY FillParties
<1>2. order' = [order EXCEPT ![incoming] = Execute(@, n), ![maker] = Execute(@, n)]
  BY DEF Fill
<1> HIDE DEF n, maker
<1>3. incoming \in Ids /\ maker \in Ids /\ order \in [Ids -> Order]
  BY <1>1, ConstantsAssumption DEF IInv, TypeOK, Ids
<1>4. ASSUME NEW i \in {incoming, maker}
      PROVE  /\ order[i] \in Order
             /\ order[i].filled + n <= order[i].quantity
             /\ order[i].filled + n \in 1 .. order[i].quantity
  <2>1. order[i] \in Order
    BY <1>3
  <2>2. order[i].filled \in 0 .. MaxQty /\ order[i].quantity \in 0 .. MaxQty
    BY <2>1 DEF Order
  <2> QED BY <1>1, <2>1, <2>2, ConstantsAssumption DEF Remaining
<1>5. /\ order' \in [Ids -> Order]
      /\ order'[incoming] = Execute(order[incoming], n)
      /\ order'[maker] = Execute(order[maker], n)
      /\ \A i \in Ids : i \notin {incoming, maker} => order'[i] = order[i]
  <2>1. Execute(order[incoming], n) \in Order /\ Execute(order[maker], n) \in Order
    BY <1>1, <1>4, ExecuteOK
  <2>2. order' = [order EXCEPT ![incoming] = Execute(order[incoming], n),
                               ![maker] = Execute(order[maker], n)]
    BY <1>1, <1>2, <1>3
  <2> QED BY <1>1, <1>3, <2>1, <2>2
<1>6. ASSUME NEW i \in {incoming, maker}
      PROVE  /\ order'[i].side = order[i].side
             /\ order'[i].price = order[i].price
             /\ order'[i].quantity = order[i].quantity
             /\ order'[i].filled = order[i].filled + n
             /\ order'[i].state = IF order[i].filled + n = order[i].quantity
                                  THEN "Filled" ELSE "PartiallyFilled"
  BY <1>1, <1>4, <1>5, ExecuteOK
<1>7. QED
  BY <1>3, <1>4, <1>5, <1>6 DEF maker, n

LEMMA FillPreservesIInv ==
    ASSUME IInv, NEW p \in Prices, Fill(p)
    PROVE  IInv'
<1> DEFINE s == Opposite(order[incoming].side)
           q == Pruned(s)[p]
           maker == Head(q)
           n == TradeQty(incoming, maker)
           rest == IF n = Remaining(maker) THEN Tail(q) ELSE q
           trade == MakeTrade(incoming, maker, n)
<1>1. /\ pc = "matching" /\ incoming \in 1 .. nextId - 1
      /\ maker \in 1 .. nextId - 1 /\ maker # incoming
      /\ s \in Sides /\ order[maker].side = s /\ order[maker].price = p
      /\ q \in Seq(Ids) /\ q # <<>> /\ n \in 1 .. MaxQty
  BY FillParties
<1>2. /\ order' \in [Ids -> Order]
      /\ \A i \in Ids : /\ order'[i].side = order[i].side
                         /\ order'[i].price = order[i].price
                         /\ order'[i].quantity = order[i].quantity
      /\ \A i \in Ids : i \notin {incoming, maker} => order'[i] = order[i]
      /\ \A i \in {incoming, maker} :
            /\ order'[i].filled \in 1 .. order[i].quantity
            /\ order'[i].state = IF order'[i].filled = order[i].quantity
                                 THEN "Filled" ELSE "PartiallyFilled"
  BY FillOrders
<1>3. /\ tape' = Append(tape, trade)
      /\ queue' = [queue EXCEPT ![s] = [Pruned(s) EXCEPT ![p] = rest]]
      /\ levels' = [levels EXCEPT ![s] = AfterPop(KeptLevels(s), p, rest)]
      /\ UNCHANGED <<nextId, active, pc, incoming>>
  BY DEF Fill
<1>4. 1 .. nextId - 1 \subseteq Ids /\ incoming \in Ids /\ maker \in Ids
  BY <1>1, ConstantsAssumption DEF IInv, TypeOK, Ids
<1>5. trade \in Trade
  BY <1>1, <1>4 DEF MakeTrade, Trade
<1>6. Pruned(s) \in [Prices -> Seq(Ids)]
  <2>1. queue \in [Sides -> [Prices -> Seq(Ids)]]
    BY DEF IInv, TypeOK
  <2> HIDE DEF s
  <2> QED BY <2>1, <1>1, PrunedOK
<1>7. /\ rest \in Seq(Ids)
      /\ \A k \in 1 .. Len(rest) : \E j \in 1 .. Len(q) : rest[k] = q[j]
  <2> HIDE DEF q, n, maker
  <2>1. CASE n = Remaining(maker)
    <3>1. Tail(q) \in Seq(Ids) /\ Len(Tail(q)) = Len(q) - 1 /\ Len(q) \in Nat
          /\ \A k \in 1 .. Len(Tail(q)) : Tail(q)[k] = q[k + 1]
      BY <1>1, HeadTailProperties, LenProperties
    <3>2. ASSUME NEW k \in 1 .. Len(Tail(q)) PROVE k + 1 \in 1 .. Len(q)
      BY <3>1
    <3> QED BY <2>1, <3>1, <3>2
  <2>2. CASE n # Remaining(maker)
    BY <2>2, <1>1
  <2> QED BY <2>1, <2>2
<1>8. KeptLevels(s) \in SUBSET Prices
  <2>1. KeptLevels(s) \subseteq levels[s]
    BY DEF KeptLevels
  <2> QED BY <2>1, <1>1 DEF IInv, TypeOK
<1> HIDE DEF rest, trade, n, maker, s
<1>9. TypeOK'
  <2>1. queue' \in [Sides -> [Prices -> Seq(Ids)]]
    BY <1>1, <1>3, <1>6, <1>7 DEF IInv, TypeOK
  <2>2. levels' \in [Sides -> SUBSET Prices]
    BY <1>1, <1>3, <1>8 DEF IInv, TypeOK, AfterPop
  <2>3. tape' \in Seq(Trade)
    BY <1>3, <1>5 DEF IInv, TypeOK
  <2> QED BY <1>2, <1>3, <2>1, <2>2, <2>3 DEF IInv, TypeOK
<1>10. Placed'
  BY <1>2, <1>3, <1>4 DEF IInv, Placed
<1>11. StateMatchesFill'
  <2> SUFFICES ASSUME NEW i \in 1 .. nextId - 1
               PROVE  /\ order'[i].filled <= order'[i].quantity
                      /\ order'[i].state = "New" => order'[i].filled = 0
                      /\ order'[i].state = "PartiallyFilled"
                            => order'[i].filled \in 1 .. order'[i].quantity - 1
                      /\ order'[i].state = "Filled" <=> order'[i].filled = order'[i].quantity
    BY <1>3 DEF StateMatchesFill
  <2>1. order[i] \in Order /\ order'[i].quantity = order[i].quantity
    BY <1>2, <1>4 DEF IInv, TypeOK
  <2>2. order[i].quantity \in Nat
    BY <2>1, ConstantsAssumption DEF Order
  <2>3. CASE i \in {incoming, maker}
    BY <2>1, <2>2, <2>3, <1>2
  <2>4. CASE i \notin {incoming, maker}
    BY <2>4, <1>2, <1>4 DEF IInv, StateMatchesFill
  <2> QED BY <2>3, <2>4
<1>12. Submitted' = Submitted
  BY <1>3 DEF Submitted
<1>13. ASSUME NEW r \in Sides, NEW pp \in Prices, NEW k \in 1 .. Len(queue'[r][pp])
       PROVE  /\ queue'[r][pp][k] \in Submitted
              /\ order[queue'[r][pp][k]].side = r
              /\ order[queue'[r][pp][k]].price = pp
  <2>1. CASE r # s
    <3>1. queue'[r] = queue[r]
      BY <2>1, <1>1, <1>3 DEF IInv, TypeOK
    <3> QED BY <3>1 DEF IInv, Indexed
  <2>2. CASE r = s /\ pp # p
    <3>1. queue'[r][pp] = Pruned(s)[pp]
      BY <2>2, <1>1, <1>3, <1>6 DEF IInv, TypeOK
    <3> QED BY <2>2, <3>1, PrunedIndexed
  <2>3. CASE r = s /\ pp = p
    <3>1. queue'[r][pp] = rest
      BY <2>3, <1>1, <1>3, <1>6 DEF IInv, TypeOK
    <3>2. PICK j \in 1 .. Len(Pruned(s)[p]) : queue'[r][pp][k] = Pruned(s)[p][j]
      BY <3>1, <1>7
    <3> QED BY <2>3, <3>2, PrunedIndexed
  <2> QED BY <2>1, <2>2, <2>3
<1>14. Indexed'
  <2>1. Submitted \subseteq Ids
    BY <1>4 DEF Submitted
  <2> QED BY <1>2, <1>12, <1>13, <2>1 DEF Indexed
<1>15. Taker'
  BY <1>1, <1>2, <1>3 DEF IInv, Taker
<1> QED BY <1>9, <1>10, <1>11, <1>14, <1>15 DEF IInv

LEMMA NextPreservesIInv == IInv /\ [Next]_vars => IInv'
<1> SUFFICES ASSUME IInv, [Next]_vars PROVE IInv'
  OBVIOUS
<1>1. ASSUME NEW s \in Sides, NEW p \in Prices, NEW q \in 1 .. MaxQty, PlaceAndSubmit(s, p, q)
      PROVE  IInv'
  BY <1>1, PlacePreservesIInv
<1>2. ASSUME NEW p \in Prices, Fill(p) PROVE IInv'
  BY <1>2, FillPreservesIInv
<1>3. CASE ReturnFilled
  BY <1>3, ReturnPreservesIInv
<1>4. CASE Post
  BY <1>4, PostPreservesIInv
<1>5. ASSUME NEW i \in Ids, Cancel(i) PROVE IInv'
  BY <1>5, CancelPreservesIInv
<1>6. CASE Reap
  BY <1>6, ReapPreservesIInv
<1>7. CASE UNCHANGED vars
  BY <1>7 DEF vars, IInv, TypeOK, Placed, StateMatchesFill, Indexed, Taker, Submitted
<1> QED BY <1>1, <1>2, <1>3, <1>4, <1>5, <1>6, <1>7 DEF Next

LEMMA Invariance == Spec => []IInv
<1>1. QED BY InitIInv, NextPreservesIInv, PTL DEF Spec

-----------------------------------------------------------------------------

\* Every variable keeps its type: no fill takes a counter out of its range,
\* no pruning or posting puts anything but an order in the book.
THEOREM TypeCorrect == Spec => []TypeOK
<1>1. IInv => TypeOK
  BY DEF IInv
<1> QED BY <1>1, Invariance, PTL

\* MatchingEngine::submit keeps the state field of both parties of every fill
\* in step with their counters, and never overfills an order.
THEOREM StatesMatchFills == Spec => []StateMatchesFill
<1>1. IInv => StateMatchesFill
  BY DEF IInv
<1> QED BY <1>1, Invariance, PTL

\* Whatever was cancelled while it rested in the book, a filled or cancelled
\* order is never traded or marked again: prune_front runs before best().
THEOREM DeadStaysDead == Spec => DeadIsFinal
<1>1. ASSUME IInv, [Next]_vars
      PROVE  [\A i \in 1 .. nextId - 1 : ~Live(i) => order'[i] = order[i]]_vars
  <2> SUFFICES ASSUME NEW i \in 1 .. nextId - 1, ~Live(i), vars' # vars
               PROVE  order'[i] = order[i]
    OBVIOUS
  <2>1. 1 .. nextId - 1 \subseteq Ids /\ order \in [Ids -> Order]
    BY <1>1, ConstantsAssumption DEF IInv, TypeOK, Ids
  <2>2. ASSUME NEW s \in Sides, NEW p \in Prices, NEW q \in 1 .. MaxQty, PlaceAndSubmit(s, p, q)
        PROVE  order'[i] = order[i]
    <3>1. nextId # i /\ i \in Ids
      BY <1>1, <2>1 DEF IInv, TypeOK
    <3> QED BY <2>1, <2>2, <3>1 DEF PlaceAndSubmit
  <2>3. ASSUME NEW p \in Prices, Fill(p) PROVE order'[i] = order[i]
    <3> DEFINE maker == Head(Pruned(Opposite(order[incoming].side))[p])
    <3>1. Live(incoming) /\ Live(maker)
      BY <1>1, <2>3, FillParties
    <3>2. i \notin {incoming, maker} => order'[i] = order[i]
      BY <1>1, <2>1, <2>3, FillOrders
    <3> HIDE DEF maker
    <3> QED BY <3>1, <3>2
  <2>4. ASSUME NEW j \in Ids, Cancel(j) PROVE order'[i] = order[i]
    <3>1. Live(j) /\ order' = [order EXCEPT ![j].state = "Cancelled"]
      BY <2>4 DEF Cancel, MayCancel
    <3>2. i # j /\ i \in Ids
      BY <3>1, <2>1
    <3> QED BY <3>1, <3>2, <2>1
  <2>5. CASE ReturnFilled \/ Post \/ Reap
    BY <2>5 DEF ReturnFilled, Post, Reap
  <2>6. Next
    BY <1>1
  <2> QED BY <2>2, <2>3, <2>4, <2>5, <2>6 DEF Next
<1> QED BY <1>1, Invariance, PTL DEF Spec, DeadIsFinal

-----------------------------------------------------------------------------
(* The deques under the maps' keys. *)

\* prune_front keeps keys and deques in step.
LEMMA PrunedKeepsNoEmptyLevel ==
    ASSUME IInv, NoEmptyLevel, NEW s \in Sides, NEW p \in Prices
    PROVE  p \in KeptLevels(s) <=> Pruned(s)[p] # <<>>
<1>1. CASE p \notin KeptLevels(s)
  BY <1>1 DEF Pruned
<1>2. CASE p \in BestLevel(s)
  <2>1. p \in KeptLevels(s)
    BY <1>2 DEF BestLevel, KeptLevels
  <2>2. Pruned(s)[p] # <<>>
    BY <1>2, PrunedOK DEF IInv, TypeOK
  <2> QED BY <2>1, <2>2
<1>3. CASE p \in KeptLevels(s) /\ p \notin BestLevel(s)
  <2>1. p \in levels[s] /\ Pruned(s)[p] = queue[s][p]
    BY <1>3 DEF KeptLevels, Pruned
  <2> QED BY <1>3, <2>1 DEF NoEmptyLevel
<1> QED BY <1>1, <1>2, <1>3

LEMMA FillPreservesNoEmptyLevel ==
    ASSUME IInv, NoEmptyLevel, NEW p \in Prices, Fill(p)
    PROVE  NoEmptyLevel'
<1> DEFINE s == Opposite(order[incoming].side)
           q == Pruned(s)[p]
           n == TradeQty(incoming, Head(q))
           rest == IF n = Remaining(Head(q)) THEN Tail(q) ELSE q
<1>1. s \in Sides /\ q # <<>>
  BY FillParties
<1>2. p \in KeptLevels(s)
  BY DEF Fill, BestLevel, KeptLevels
<1>3. /\ queue' = [queue EXCEPT ![s] = [Pruned(s) EXCEPT ![p] = rest]]
      /\ levels' = [levels EXCEPT ![s] = AfterPop(KeptLevels(s), p, rest)]
  BY DEF Fill
<1>4. Pruned(s) \in [Prices -> Seq(Ids)]
  <2> HIDE DEF s
  <2> QED BY <1>1, PrunedOK DEF IInv, TypeOK
<1> HIDE DEF s, rest
<1>5. ASSUME NEW r \in Sides, NEW pp \in Prices
      PROVE  pp \in levels'[r] <=> queue'[r][pp] # <<>>
  <2>1. CASE r # s
    BY <2>1, <1>1, <1>3 DEF IInv, TypeOK, NoEmptyLevel
  <2>2. CASE r = s /\ pp # p
    <3>1. queue'[r][pp] = Pruned(s)[pp] /\ levels'[r] = AfterPop(KeptLevels(s), p, rest)
      BY <2>2, <1>1, <1>3, <1>4 DEF IInv, TypeOK
    <3>2. pp \in KeptLevels(s) <=> Pruned(s)[pp] # <<>>
      BY <1>1, PrunedKeepsNoEmptyLevel
    <3> QED BY <2>2, <3>1, <3>2 DEF AfterPop
  <2>3. CASE r = s /\ pp = p
    <3>1. queue'[r][pp] = rest /\ levels'[r] = AfterPop(KeptLevels(s), p, rest)
      BY <2>3, <1>1, <1>3, <1>4 DEF IInv, TypeOK
    <3> QED BY <2>3, <3>1, <1>2 DEF AfterPop
  <2> QED BY <2>1, <2>2, <2>3
<1> QED BY <1>5 DEF NoEmptyLevel

LEMMA PostPreservesNoEmptyLevel ==
    ASSUME IInv, NoEmptyLevel, Post
    PROVE  NoEmptyLevel'
<1> DEFINE o == order[incoming]
           s == Opposite(o.side)
<1>1. /\ queue' = [queue EXCEPT ![s] = Pruned(s), ![o.side][o.price] = Posted(@, incoming)]
      /\ levels' = [levels EXCEPT ![s] = KeptLevels(s), ![o.side] = @ \union {o.price}]
  BY DEF Post
<1>2. incoming \in Ids /\ incoming \in 1 .. nextId - 1 /\ o \in Order
  BY ConstantsAssumption DEF Post, IInv, TypeOK, Ids
<1>3. s \in Sides /\ o.side \in Sides /\ s # o.side
  BY <1>2 DEF Opposite, Order, Sides
<1>4. o.price \in Prices
  BY <1>2 DEF IInv, Placed
<1>5. queue \in [Sides -> [Prices -> Seq(Ids)]] /\ levels \in [Sides -> SUBSET Prices]
  BY DEF IInv, TypeOK
<1> HIDE DEF s, o
<1>6. /\ queue'[s] = Pruned(s) /\ levels'[s] = KeptLevels(s)
      /\ levels'[o.side] = levels[o.side] \union {o.price}
      /\ queue'[o.side][o.price] = Append(queue[o.side][o.price], incoming)
      /\ \A p \in Prices : p # o.price => queue'[o.side][p] = queue[o.side][p]
  BY <1>1, <1>3, <1>4, <1>5 DEF Posted
<1>7. Append(queue[o.side][o.price], incoming) # <<>>
  <2> DEFINE w == queue[o.side][o.price]
  <2>1. w \in Seq(Ids)
    BY <1>3, <1>4, <1>5
  <2> HIDE DEF w
  <2>2. Len(Append(w, incoming)) = Len(w) + 1 /\ Len(w) \in Nat
    BY <2>1, <1>2, AppendProperties, LenProperties
  <2>3. Len(<<>>) = 0 /\ Len(Append(w, incoming)) # 0
    BY <2>2
  <2>4. Append(w, incoming) # <<>>
    BY <2>3, Zenon
  <2> QED BY <2>4 DEF w
<1>8. ASSUME NEW r \in Sides, NEW p \in Prices
      PROVE  p \in levels'[r] <=> queue'[r][p] # <<>>
  <2>1. CASE r = s
    BY <2>1, <1>3, <1>6, PrunedKeepsNoEmptyLevel
  <2>2. CASE r = o.side
    BY <2>2, <1>6, <1>7 DEF NoEmptyLevel
  <2> QED BY <2>1, <2>2, <1>3 DEF Sides
<1> QED BY <1>8 DEF NoEmptyLevel

\* begin()->second.front() is always defined: prune, pop and post never leave
\* a key of either map with an empty deque.
THEOREM LevelsNeverEmpty == Spec => []NoEmptyLevel
<1>1. Init => NoEmptyLevel
  BY DEF Init, NoEmptyLevel
<1>2. ASSUME IInv, NoEmptyLevel, [Next]_vars PROVE NoEmptyLevel'
  <2>1. ASSUME NEW p \in Prices, Fill(p) PROVE NoEmptyLevel'
    BY <1>2, <2>1, FillPreservesNoEmptyLevel
  <2>2. CASE Post
    BY <1>2, <2>2, PostPreservesNoEmptyLevel
  <2>3. CASE UNCHANGED <<levels, queue>>
    BY <1>2, <2>3 DEF NoEmptyLevel
  <2>4. ASSUME Next, ~Post, \A p \in Prices : ~Fill(p) PROVE UNCHANGED <<levels, queue>>
    BY <2>4 DEF Next, PlaceAndSubmit, ReturnFilled, Cancel, Reap
  <2> QED BY <1>2, <2>1, <2>2, <2>3, <2>4 DEF vars
<1> QED BY <1>1, <1>2, Invariance, PTL DEF Spec

-----------------------------------------------------------------------------
(* What the deques hold: every live order, once, in order of arrival.      *)

\* A deque is in order of arrival; an id is never below its position.
InOrder(q) ==
    /\ \A k, j \in 1 .. Len(q) : k < j => q[k] < q[j]
    /\ \A k \in 1 .. Len(q) : k <= q[k]

Sorted == \A s \in Sides, p \in Prices : InOrder(queue[s][p])

\* Every live order is known to the order manager, and rests under its own
\* side and price once its submit has returned.
Resting ==
    /\ \A i \in 1 .. nextId - 1 : Live(i) => i \in active
    /\ \A i \in Submitted : Live(i) =>
          \E k \in 1 .. Len(queue[order[i].side][order[i].price]) :
              queue[order[i].side][order[i].price][k] = i

BookInv == NoEmptyLevel /\ Sorted /\ Resting /\ NeverCrossed

\* r is q without a prefix in which nothing is live.
Trimmed(r, q) ==
    \E d \in 0 .. Len(q) :
        /\ Len(r) = Len(q) - d
        /\ \A k \in 1 .. Len(r) : r[k] = q[k + d]
        /\ \A k \in 1 .. d : ~Live(q[k])

LEMMA TrimmedDeadFront ==
    ASSUME NEW q \in Seq(Ids), \E k \in 1 .. Len(q) : Live(q[k])
    PROVE  Trimmed(WithoutDeadFront(q), q)
<1> DEFINE T == {k \in 1 .. Len(q) : Live(q[k])}
           f == FirstLive(q)
<1>1. Len(q) \in Nat /\ DOMAIN q = 1 .. Len(q)
  BY LenProperties
<1>2. PICK m \in T : \A j \in T : m <= j
  BY <1>1, LeastPosition
<1>3. m \in DOMAIN q /\ Live(q[m]) /\ \A j \in 1 .. m - 1 : ~Live(q[j])
  BY <1>1, <1>2
<1>4. f \in 1 .. Len(q) /\ \A j \in 1 .. f - 1 : ~Live(q[j])
  BY <1>1, <1>3 DEF FirstLive
<1> HIDE DEF f
<1>5. WithoutDeadFront(q) = SubSeq(q, f, Len(q))
  BY DEF WithoutDeadFront, f
<1>6. /\ Len(SubSeq(q, f, Len(q))) = Len(q) - f + 1
      /\ \A i \in 1 .. Len(q) - f + 1 : SubSeq(q, f, Len(q))[i] = q[f + i - 1]
  <2>1. \A i \in f .. Len(q) : q[i] \in Ids
    BY <1>1, <1>4, ElementOfSeq
  <2> QED BY <1>1, <1>4, <2>1, SubSeqProperties
<1> DEFINE d == f - 1
           r == SubSeq(q, f, Len(q))
<1>7. /\ d \in 0 .. Len(q)
      /\ Len(r) = Len(q) - d
      /\ \A k \in 1 .. d : ~Live(q[k])
  BY <1>1, <1>4, <1>6
<1>8. ASSUME NEW k \in 1 .. Len(r) PROVE r[k] = q[k + d]
  <2>1. k \in 1 .. Len(q) - f + 1 /\ f + k - 1 = k + d
    BY <1>1, <1>4, <1>6
  <2> QED BY <2>1, <1>6
<1> HIDE DEF d, r
<1>9. Trimmed(r, q)
  BY <1>7, <1>8 DEF Trimmed
<1> QED BY <1>5, <1>9 DEF r

\* prune_front drops dead orders only, and only from the front of a deque.
LEMMA PrunedIsTrimmed ==
    ASSUME IInv, NoEmptyLevel, NEW s \in Sides, NEW p \in Prices
    PROVE  Trimmed(Pruned(s)[p], queue[s][p])
<1> DEFINE q == queue[s][p]
<1>1. q \in Seq(Ids)
  BY DEF IInv, TypeOK
<1>2. Len(q) \in Nat /\ DOMAIN q = 1 .. Len(q)
  BY <1>1, LenProperties
<1>3. CASE p \notin KeptLevels(s)
  <2>1. Pruned(s)[p] = <<>>
    BY <1>3 DEF Pruned
  <2>2. \A k \in 1 .. Len(q) : ~Live(q[k])
    <3>1. CASE p \in levels[s]
      BY <1>2, <1>3, <3>1 DEF KeptLevels, HasLive
    <3>2. CASE p \notin levels[s]
      BY <3>2, EmptySeq DEF NoEmptyLevel
    <3> QED BY <3>1, <3>2
  <2> HIDE DEF q
  <2> DEFINE n == Len(q)
             r == Pruned(s)[p]
  <2>3. Len(r) = 0
    BY <2>1
  <2> HIDE DEF r
  <2>4. /\ n \in 0 .. Len(q)
        /\ Len(r) = Len(q) - n
        /\ \A k \in 1 .. Len(r) : r[k] = q[k + n]
        /\ \A k \in 1 .. n : ~Live(q[k])
    BY <1>2, <2>2, <2>3
  <2> HIDE DEF n
  <2>5. Trimmed(r, q)
    BY <2>4 DEF Trimmed
  <2> QED BY <2>5 DEF q, r
<1>4. CASE p \in KeptLevels(s) /\ p \in BestLevel(s)
  <2>1. Pruned(s)[p] = WithoutDeadFront(q)
    BY <1>4 DEF Pruned
  <2>2. \E k \in 1 .. Len(q) : Live(q[k])
    BY <1>2, <1>4 DEF BestLevel, HasLive
  <2> HIDE DEF q
  <2>3. Trimmed(WithoutDeadFront(q), q)
    BY <1>1, <2>2, TrimmedDeadFront
  <2> QED BY <2>1, <2>3 DEF q
<1>5. CASE p \in KeptLevels(s) /\ p \notin BestLevel(s)
  <2>1. Pruned(s)[p] = q
    BY <1>5 DEF Pruned
  <2> HIDE DEF q
  <2> DEFINE n == 0
  <2>2. /\ n \in 0 .. Len(q)
        /\ Len(q) = Len(q) - n
        /\ \A k \in 1 .. Len(q) : q[k] = q[k + n]
        /\ \A k \in 1 .. n : ~Live(q[k])
    BY <1>2
  <2> HIDE DEF n
  <2>3. Trimmed(q, q)
    BY <2>2 DEF Trimmed
  <2> QED BY <2>1, <2>3 DEF q
<1> QED BY <1>3, <1>4, <1>5

\* What the rest of the proof needs of a trimmed deque: it is still in order,
\* and no live order is missing.
LEMMA TrimmedKeeps ==
    ASSUME NEW q \in Seq(Ids), NEW r \in Seq(Ids), Trimmed(r, q), InOrder(q)
    PROVE  /\ InOrder(r)
           /\ \A k \in 1 .. Len(q) : Live(q[k]) => \E j \in 1 .. Len(r) : r[j] = q[k]
<1>1. PICK d \in 0 .. Len(q) :
        /\ Len(r) = Len(q) - d
        /\ \A k \in 1 .. Len(r) : r[k] = q[k + d]
        /\ \A k \in 1 .. d : ~Live(q[k])
  BY DEF Trimmed
<1>2. Len(q) \in Nat /\ Len(r) \in Nat
  BY LenProperties
<1>3. \A k \in 1 .. Len(r) : k + d \in 1 .. Len(q) /\ r[k] = q[k + d]
  BY <1>1, <1>2
<1>4. ASSUME NEW k \in 1 .. Len(r), NEW j \in 1 .. Len(r), k < j
      PROVE  r[k] < r[j]
  <2>1. k + d \in 1 .. Len(q) /\ j + d \in 1 .. Len(q) /\ k + d < j + d
    BY <1>3, <1>4, <1>2
  <2> QED BY <2>1, <1>3 DEF InOrder
<1>5. ASSUME NEW k \in 1 .. Len(r) PROVE k <= r[k]
  <2>1. k + d \in 1 .. Len(q) /\ k + d <= q[k + d] /\ r[k] = q[k + d]
    BY <1>3 DEF InOrder
  <2>2. q[k + d] \in Int
    BY <2>1, ElementOfSeq, ConstantsAssumption DEF Ids
  <2> QED BY <2>1, <2>2, <1>2
<1>6. ASSUME NEW k \in 1 .. Len(q), Live(q[k])
      PROVE  \E j \in 1 .. Len(r) : r[j] = q[k]
  <2>1. k \notin 1 .. d
    BY <1>1, <1>6
  <2>2. k - d \in 1 .. Len(r) /\ (k - d) + d = k
    BY <2>1, <1>1, <1>2
  <2> QED BY <2>2, <1>3
<1> QED BY <1>4, <1>5, <1>6 DEF InOrder

\* The two facts for a side as prune_front leaves it.
LEMMA PrunedKeeps ==
    ASSUME IInv, BookInv, NEW s \in Sides, NEW p \in Prices
    PROVE  /\ InOrder(Pruned(s)[p])
           /\ \A k \in 1 .. Len(queue[s][p]) : Live(queue[s][p][k]) =>
                \E j \in 1 .. Len(Pruned(s)[p]) : Pruned(s)[p][j] = queue[s][p][k]
<1>1. queue \in [Sides -> [Prices -> Seq(Ids)]]
  BY DEF IInv, TypeOK
<1>2. queue[s][p] \in Seq(Ids) /\ Pruned(s)[p] \in Seq(Ids)
  BY <1>1, PrunedOK
<1>3. Trimmed(Pruned(s)[p], queue[s][p])
  BY PrunedIsTrimmed DEF BookInv
<1>4. InOrder(queue[s][p])
  BY DEF BookInv, Sorted
<1> HIDE DEF Pruned
<1> QED BY <1>2, <1>3, <1>4, TrimmedKeeps

\* Order i is live once the step is done.
LiveAfter(i) == order'[i].state \in {"New", "PartiallyFilled"}

LEMMA TailKeeps ==
    ASSUME NEW q \in Seq(Ids), q # <<>>, InOrder(q)
    PROVE  /\ InOrder(Tail(q))
           /\ \A k \in 1 .. Len(q) : q[k] = Head(q) \/ \E j \in 1 .. Len(Tail(q)) : Tail(q)[j] = q[k]
           /\ \A k \in 1 .. Len(q) : q[k] = Head(q) \/ Head(q) < q[k]
<1>1. /\ Len(Tail(q)) = Len(q) - 1 /\ Tail(q) \in Seq(Ids)
      /\ \A k \in 1 .. Len(Tail(q)) : Tail(q)[k] = q[k + 1]
  BY HeadTailProperties
<1>2. Len(q) \in Nat /\ Len(q) # 0 /\ Head(q) = q[1] /\ \A k \in 1 .. Len(q) : q[k] \in Int
  BY LenProperties, ElementOfSeq, ConstantsAssumption DEF Ids
<1> DEFINE t == Tail(q)
<1> HIDE DEF t
<1>3. \A k \in 1 .. Len(t) : k + 1 \in 1 .. Len(q) /\ t[k] = q[k + 1]
  BY <1>1, <1>2 DEF t
<1>4. InOrder(t)
  <2>1. ASSUME NEW k \in 1 .. Len(t), NEW j \in 1 .. Len(t), k < j PROVE t[k] < t[j]
    BY <1>3, <2>1 DEF InOrder
  <2>2. ASSUME NEW k \in 1 .. Len(t) PROVE k <= t[k]
    BY <1>2, <1>3 DEF InOrder
  <2> QED BY <2>1, <2>2 DEF InOrder
<1>5. ASSUME NEW k \in 1 .. Len(q), k # 1
      PROVE  /\ \E j \in 1 .. Len(t) : t[j] = q[k]
             /\ Head(q) < q[k]
  <2>1. k - 1 \in 1 .. Len(t) /\ (k - 1) + 1 = k /\ 1 < k /\ 1 \in 1 .. Len(q)
    BY <1>1, <1>2, <1>5 DEF t
  <2>2. t[k - 1] = q[k]
    BY <2>1, <1>3
  <2> QED BY <2>1, <2>2, <1>2 DEF InOrder
<1> QED BY <1>2, <1>4, <1>5 DEF t

\* The deque of the level that a fill leaves: in order, and without the maker
\* only if the maker is filled.
LEMMA FillRest ==
    ASSUME IInv, BookInv, NEW p \in Prices, Fill(p)
    PROVE  LET s == Opposite(order[incoming].side)
               q == Pruned(s)[p]
               rest == queue'[s][p]
           IN  /\ InOrder(rest)
               /\ \A r \in Sides, pp \in Prices :
                     queue'[r][pp] = IF r # s THEN queue[r][pp]
                                     ELSE IF pp # p THEN Pruned(s)[pp]
                                     ELSE rest
               /\ \A k \in 1 .. Len(q) : LiveAfter(q[k]) => \E j \in 1 .. Len(rest) : rest[j] = q[k]
<1> DEFINE s == Opposite(order[incoming].side)
           q == Pruned(s)[p]
           maker == Head(q)
           n == TradeQty(incoming, maker)
           rest == IF n = Remaining(maker) THEN Tail(q) ELSE q
<1>1. s \in Sides /\ q \in Seq(Ids) /\ q # <<>> /\ maker \in Ids
  <2>1. s \in Sides /\ q \in Seq(Ids) /\ q # <<>> /\ maker \in 1 .. nextId - 1
    BY FillParties
  <2> QED BY <2>1, ConstantsAssumption DEF IInv, TypeOK, Ids
<1>2. queue' = [queue EXCEPT ![s] = [Pruned(s) EXCEPT ![p] = rest]]
  BY DEF Fill
<1>3. Pruned(s) \in [Prices -> Seq(Ids)]
  <2> HIDE DEF s
  <2> QED BY <1>1, PrunedOK DEF IInv, TypeOK
<1>4. InOrder(q)
  <2> HIDE DEF s
  <2> QED BY <1>1, PrunedKeeps
<1>5. n = Remaining(maker) => ~LiveAfter(maker)
  <2>1. /\ order'[maker].state = IF order'[maker].filled = order[maker].quantity
                                 THEN "Filled" ELSE "PartiallyFilled"
        /\ order'[maker].filled = order[maker].filled + n
    BY FillOrders
  <2>2. order[maker].filled \in Int /\ order[maker].quantity \in Int
    <3> HIDE DEF maker
    <3> QED BY <1>1, ConstantsAssumption DEF IInv, TypeOK, Order
  <2> HIDE DEF maker, n
  <2> QED BY <2>1, <2>2 DEF Remaining, LiveAfter
<1> HIDE DEF n, s
<1>6. InOrder(rest) /\ \A k \in 1 .. Len(q) : LiveAfter(q[k]) => \E j \in 1 .. Len(rest) : rest[j] = q[k]
  <2> HIDE DEF q
  <2>1. CASE n = Remaining(maker)
    <3>1. rest = Tail(q)
      BY <2>1
    <3>2. ASSUME NEW k \in 1 .. Len(q), LiveAfter(q[k]) PROVE q[k] # maker
      BY <2>1, <3>2, <1>5
    <3> HIDE DEF rest
    <3>3. InOrder(rest)
      BY <1>1, <1>4, <3>1, TailKeeps
    <3> QED BY <1>1, <1>4, <3>1, <3>2, <3>3, TailKeeps
  <2>2. CASE n # Remaining(maker)
    BY <2>2, <1>4
  <2> QED BY <2>1, <2>2
<1> HIDE DEF rest
<1>7. /\ queue'[s][p] = rest
      /\ \A r \in Sides, pp \in Prices :
            queue'[r][pp] = IF r # s THEN queue[r][pp]
                            ELSE IF pp # p THEN Pruned(s)[pp] ELSE rest
  BY <1>1, <1>2, <1>3 DEF IInv, TypeOK
<1> HIDE DEF q
<1> QED BY <1>6, <1>7 DEF s, q

LEMMA FillPreservesBook ==
    ASSUME IInv, BookInv, NEW p \in Prices, Fill(p)
    PROVE  BookInv'
<1> DEFINE s == Opposite(order[incoming].side)
           maker == Head(Pruned(s)[p])
<1>1. UNCHANGED <<nextId, active, pc, incoming>> /\ Submitted' = Submitted
  BY DEF Fill, Submitted
<1>2. /\ incoming \in 1 .. nextId - 1 /\ Live(incoming)
      /\ maker \in 1 .. nextId - 1 /\ Live(maker)
      /\ s \in Sides
  BY FillParties
<1>3. 1 .. nextId - 1 \subseteq Ids /\ Submitted \subseteq 1 .. nextId - 1
  BY <1>2, ConstantsAssumption DEF IInv, TypeOK, Ids, Submitted
<1>4. /\ \A i \in Ids : order'[i].side = order[i].side /\ order'[i].price = order[i].price
      /\ \A i \in Ids : i \notin {incoming, maker} => order'[i] = order[i]
  BY FillOrders
<1>5. /\ InOrder(queue'[s][p])
      /\ \A r \in Sides, pp \in Prices :
            queue'[r][pp] = IF r # s THEN queue[r][pp]
                            ELSE IF pp # p THEN Pruned(s)[pp]
                            ELSE queue'[s][p]
      /\ \A k \in 1 .. Len(Pruned(s)[p]) : LiveAfter(Pruned(s)[p][k]) =>
            \E j \in 1 .. Len(queue'[s][p]) : queue'[s][p][j] = Pruned(s)[p][k]
  BY FillRest
<1> HIDE DEF s, maker
<1>6. \A i \in 1 .. nextId - 1 : LiveAfter(i) => Live(i)
  BY <1>2, <1>3, <1>4 DEF Live, LiveAfter
<1>7. NoEmptyLevel'
  BY FillPreservesNoEmptyLevel DEF BookInv
<1>8. Sorted'
  <2> SUFFICES ASSUME NEW r \in Sides, NEW pp \in Prices PROVE InOrder(queue'[r][pp])
    BY DEF Sorted, InOrder
  <2>1. CASE r # s
    BY <2>1, <1>5 DEF BookInv, Sorted
  <2>2. CASE r = s /\ pp # p
    BY <2>2, <1>5, PrunedKeeps
  <2>3. CASE r = s /\ pp = p
    BY <2>3, <1>5
  <2> QED BY <2>1, <2>2, <2>3
<1>9. Resting'
  <2>1. \A i \in 1 .. nextId - 1 : LiveAfter(i) => i \in active
    BY <1>6 DEF BookInv, Resting
  <2>2. ASSUME NEW i \in Submitted, LiveAfter(i),
               NEW r, r = order[i].side, NEW pp, pp = order[i].price
        PROVE  \E k \in 1 .. Len(queue'[r][pp]) : queue'[r][pp][k] = i
    <3>1. i \in Ids /\ Live(i)
      BY <2>2, <1>3, <1>6
    <3>2. r \in Sides /\ pp \in Prices
      BY <2>2, <1>3, <3>1 DEF IInv, TypeOK, Order, Placed
    <3>3. PICK k \in 1 .. Len(queue[r][pp]) : queue[r][pp][k] = i
      BY <2>2, <3>1 DEF BookInv, Resting
    <3>4. PICK j \in 1 .. Len(Pruned(r)[pp]) : Pruned(r)[pp][j] = i
      <4>1. \A l \in 1 .. Len(queue[r][pp]) : Live(queue[r][pp][l]) =>
                \E j \in 1 .. Len(Pruned(r)[pp]) : Pruned(r)[pp][j] = queue[r][pp][l]
        BY <3>2, PrunedKeeps
      <4> QED BY <4>1, <3>1, <3>3
    <3>5. CASE r # s
      BY <3>2, <3>3, <3>5, <1>5
    <3>6. CASE r = s /\ pp # p
      BY <3>2, <3>4, <3>6, <1>5
    <3>7. CASE r = s /\ pp = p
      BY <2>2, <3>4, <3>7, <1>5
    <3> QED BY <3>5, <3>6, <3>7
  <2>3. \A i \in Submitted : order'[i].side = order[i].side /\ order'[i].price = order[i].price
    BY <1>3, <1>4
  <2> QED BY <1>1, <2>1, <2>2, <2>3 DEF Resting, Live, LiveAfter
<1>10. NeverCrossed'
  BY <1>1, <1>3, <1>4, <1>6 DEF BookInv, NeverCrossed, Live, LiveAfter
<1> QED BY <1>7, <1>8, <1>9, <1>10 DEF BookInv

\* begin() is the best price of the live orders of a side, and there is one as
\* soon as the side has a live order.
LEMMA BestLevelExists ==
    ASSUME IInv, BookInv, NEW i \in Submitted, Live(i)
    PROVE  /\ \E p \in BestLevel(order[i].side) : p \in Prices
           /\ \A p \in BestLevel(order[i].side) :
                p = order[i].price \/ Better(order[i].side, p, order[i].price)
<1> DEFINE s == order[i].side
           T == {p \in levels[s] : HasLive(s, p)}
<1>1. i \in 1 .. nextId - 1 /\ i \in Ids
  BY ConstantsAssumption DEF Submitted, IInv, TypeOK, Ids
<1>2. s \in Sides /\ order[i].price \in Prices /\ levels[s] \subseteq Prices
  BY <1>1 DEF IInv, TypeOK, Order, Placed
<1>3. \A p \in Prices : queue[s][p] \in Seq(Ids)
  BY <1>2 DEF IInv, TypeOK
<1> HIDE DEF s
<1>4. order[i].price \in T
  <2> DEFINE q == queue[s][order[i].price]
  <2>1. q \in Seq(Ids)
    BY <1>2, <1>3
  <2>2. PICK k \in 1 .. Len(q) : q[k] = i
    BY DEF BookInv, Resting, s
  <2>3. k \in DOMAIN q
    BY <2>1, LenProperties
  <2>4. HasLive(s, order[i].price)
    BY <2>2, <2>3 DEF HasLive
  <2>5. q # <<>>
    <3> HIDE DEF q
    <3>1. Len(q) # 0
      BY <2>1, <2>2, LenProperties
    <3> QED BY <3>1, EmptySeq
  <2> QED BY <1>2, <2>4, <2>5 DEF BookInv, NoEmptyLevel
<1>5. T \in SUBSET Int /\ T # {}
  BY <1>2, <1>4, ConstantsAssumption
<1>6. IsFiniteSet(T)
  <2> DEFINE price == [j \in Ids |-> order[j].price]
             V == {price[j] : j \in Ids}
  <2>1. IsFiniteSet(Ids)
    BY FS_Interval, ConstantsAssumption DEF Ids
  <2>2. IsFiniteSet(V)
    <3> HIDE DEF price
    <3> QED BY <2>1, FiniteImage
  <2>3. ASSUME NEW p \in T PROVE p \in V
    <3>1. PICK k \in DOMAIN queue[s][p] : Live(queue[s][p][k])
      BY DEF HasLive
    <3>2. p \in Prices /\ k \in 1 .. Len(queue[s][p]) /\ queue[s][p][k] \in Ids
      BY <1>2, <1>3, <3>1, LenProperties, ElementOfSeq
    <3>3. order[queue[s][p][k]].price = p
      BY <1>2, <3>2 DEF IInv, Indexed
    <3> QED BY <3>2, <3>3
  <2> HIDE DEF V, T
  <2> QED BY <2>2, <2>3, FS_Subset
<1>7. PICK p \in T : \A r \in T : r = p \/ Better(s, p, r)
  <2> HIDE DEF T
  <2>1. CASE s = "Buy"
    BY <1>5, <1>6, <2>1, GreatestNumber DEF Better
  <2>2. CASE s # "Buy"
    BY <1>5, <1>6, <2>2, LeastNumber DEF Better
  <2> QED BY <2>1, <2>2
<1>8. p \in BestLevel(s) /\ p \in Prices
  BY <1>2, <1>7 DEF BestLevel
<1>9. \A r \in BestLevel(s) : r = order[i].price \/ Better(s, r, order[i].price)
  BY <1>4 DEF BestLevel
<1> QED BY <1>8, <1>9 DEF s

\* What Post does to the deques.
LEMMA PostQueues ==
    ASSUME IInv, Post
    PROVE  LET o == order[incoming]
               s == Opposite(o.side)
           IN  /\ o.side \in Sides /\ s \in Sides /\ s # o.side /\ o.price \in Prices
               /\ \A p \in Prices : queue'[s][p] = Pruned(s)[p]
               /\ queue'[o.side][o.price] = Append(queue[o.side][o.price], incoming)
               /\ \A p \in Prices : p # o.price => queue'[o.side][p] = queue[o.side][p]
<1> DEFINE o == order[incoming]
           s == Opposite(o.side)
<1>1. queue' = [queue EXCEPT ![s] = Pruned(s), ![o.side][o.price] = Posted(@, incoming)]
  BY DEF Post
<1>2. incoming \in Ids /\ incoming \in 1 .. nextId - 1 /\ o \in Order
  BY ConstantsAssumption DEF Post, IInv, TypeOK, Ids
<1>3. s \in Sides /\ o.side \in Sides /\ s # o.side
  BY <1>2 DEF Opposite, Order, Sides
<1>4. o.price \in Prices
  BY <1>2 DEF IInv, Placed
<1>5. queue \in [Sides -> [Prices -> Seq(Ids)]]
  BY DEF IInv, TypeOK
<1> HIDE DEF s, o
<1>6. /\ queue'[s] = Pruned(s)
      /\ queue'[o.side][o.price] = Append(queue[o.side][o.price], incoming)
      /\ \A p \in Prices : p # o.price => queue'[o.side][p] = queue[o.side][p]
  BY <1>1, <1>3, <1>4, <1>5 DEF Posted
<1> QED BY <1>3, <1>4, <1>6 DEF s, o

\* The newest order joins the back of a deque: it stays in order.
LEMMA AppendKeeps ==
    ASSUME NEW q \in Seq(Ids), NEW i \in Ids, InOrder(q), \A k \in 1 .. Len(q) : q[k] < i
    PROVE  /\ InOrder(Append(q, i))
           /\ \A k \in 1 .. Len(q) : Append(q, i)[k] = q[k] /\ k \in 1 .. Len(Append(q, i))
           /\ Len(Append(q, i)) \in 1 .. Len(Append(q, i))
           /\ Append(q, i)[Len(Append(q, i))] = i
<1> DEFINE r == Append(q, i)
<1>1. /\ Len(q) \in Nat /\ Len(r) = Len(q) + 1
      /\ \A k \in 1 .. Len(q) : r[k] = q[k]
      /\ r[Len(q) + 1] = i
  BY LenProperties, AppendProperties
<1>2. \A k \in 1 .. Len(q) : q[k] \in Int
  BY ElementOfSeq, ConstantsAssumption DEF Ids
<1>3. i \in Int /\ i >= 1
  BY ConstantsAssumption DEF Ids
<1> HIDE DEF r
<1>4. ASSUME NEW k \in 1 .. Len(r), NEW j \in 1 .. Len(r), k < j PROVE r[k] < r[j]
  <2>1. CASE j = Len(q) + 1
    BY <1>1, <1>4, <2>1
  <2>2. CASE j # Len(q) + 1
    BY <1>1, <1>4, <2>2 DEF InOrder
  <2> QED BY <2>1, <2>2
<1>5. ASSUME NEW k \in 1 .. Len(r) PROVE k <= r[k]
  <2>1. CASE k = Len(q) + 1
    <3>1. CASE Len(q) = 0
      BY <1>1, <1>3, <2>1, <3>1
    <3>2. CASE Len(q) # 0
      <4>1. Len(q) \in 1 .. Len(q)
        BY <1>1, <3>2
      <4>2. Len(q) <= q[Len(q)] /\ q[Len(q)] < i /\ q[Len(q)] \in Int
        BY <4>1, <1>2 DEF InOrder
      <4> QED BY <4>2, <1>1, <1>3, <2>1
    <3> QED BY <3>1, <3>2
  <2>2. CASE k # Len(q) + 1
    BY <1>1, <2>2 DEF InOrder
  <2> QED BY <2>1, <2>2
<1>6. InOrder(r)
  BY <1>4, <1>5 DEF InOrder
<1> QED BY <1>1, <1>6 DEF r

LEMMA PostPreservesBook ==
    ASSUME IInv, BookInv, Post
    PROVE  BookInv'
<1> DEFINE o == order[incoming]
           s == Opposite(o.side)
<1>1. /\ pc = "matching" /\ pc' = "idle" /\ Remaining(incoming) > 0
      /\ UNCHANGED <<nextId, order, active, tape, incoming>>
      /\ \A p \in BestLevel(s) : ~Crosses(incoming, Head(Pruned(s)[p]))
  BY DEF Post
<1>2. /\ incoming \in Ids /\ incoming \in 1 .. nextId - 1 /\ incoming = nextId - 1
      /\ 1 .. nextId - 1 \subseteq Ids /\ nextId \in Nat
  BY <1>1, ConstantsAssumption DEF IInv, TypeOK, Taker, Ids
<1>3. /\ o.side \in Sides /\ s \in Sides /\ s # o.side /\ o.price \in Prices
      /\ \A p \in Prices : queue'[s][p] = Pruned(s)[p]
      /\ queue'[o.side][o.price] = Append(queue[o.side][o.price], incoming)
      /\ \A p \in Prices : p # o.price => queue'[o.side][p] = queue[o.side][p]
  BY PostQueues
<1>4. Submitted = (1 .. nextId - 1) \ {incoming} /\ Submitted' = 1 .. nextId - 1
  BY <1>1 DEF Submitted
<1>5. queue \in [Sides -> [Prices -> Seq(Ids)]]
  BY DEF IInv, TypeOK
<1>6. NoEmptyLevel'
  BY PostPreservesNoEmptyLevel DEF BookInv
<1> DEFINE old == queue[o.side][o.price]
<1>7. old \in Seq(Ids) /\ InOrder(old) /\ \A k \in 1 .. Len(old) : old[k] < incoming
  <2>1. old \in Seq(Ids) /\ InOrder(old)
    BY <1>3, <1>5 DEF BookInv, Sorted
  <2>2. \A k \in 1 .. Len(old) : old[k] \in Submitted
    BY <1>3 DEF IInv, Indexed
  <2> HIDE DEF old
  <2>3. \A k \in 1 .. Len(old) : old[k] < incoming
    BY <1>2, <1>4, <2>2
  <2> QED BY <2>1, <2>3
<1> HIDE DEF s
<1>8. Sorted'
  <2> SUFFICES ASSUME NEW r \in Sides, NEW p \in Prices PROVE InOrder(queue'[r][p])
    BY DEF Sorted, InOrder
  <2>1. CASE r = s
    BY <2>1, <1>3, PrunedKeeps
  <2>2. CASE r = o.side /\ p # o.price
    BY <2>2, <1>3 DEF BookInv, Sorted
  <2>3. CASE r = o.side /\ p = o.price
    <3> HIDE DEF old
    <3>1. InOrder(Append(old, incoming))
      BY <1>2, <1>7, AppendKeeps
    <3> QED BY <3>1, <2>3, <1>3 DEF old
  <2> QED BY <2>1, <2>2, <2>3, <1>3 DEF Sides
<1>9. Resting'
  <2>1. ASSUME NEW i \in Submitted', Live(i), NEW r, r = order[i].side, NEW p, p = order[i].price
        PROVE  \E k \in 1 .. Len(queue'[r][p]) : queue'[r][p][k] = i
    <3>1. r \in Sides /\ p \in Prices
      BY <2>1, <1>2, <1>4 DEF IInv, TypeOK, Order, Placed
    <3>2. CASE i = incoming
      <4> HIDE DEF old
      <4>1. \E k \in 1 .. Len(Append(old, incoming)) : Append(old, incoming)[k] = incoming
        BY <1>2, <1>7, AppendKeeps
      <4> QED BY <4>1, <3>2, <2>1, <1>3 DEF old
    <3>3. CASE i # incoming
      <4>1. PICK k \in 1 .. Len(queue[r][p]) : queue[r][p][k] = i
        BY <2>1, <3>3, <1>4 DEF BookInv, Resting
      <4>2. CASE r = s
        <5>1. \A l \in 1 .. Len(queue[r][p]) : Live(queue[r][p][l]) =>
                  \E j \in 1 .. Len(Pruned(r)[p]) : Pruned(r)[p][j] = queue[r][p][l]
          BY <3>1, PrunedKeeps
        <5> QED BY <2>1, <3>1, <4>1, <4>2, <5>1, <1>3
      <4>3. CASE r = o.side /\ p # o.price
        BY <3>1, <4>1, <4>3, <1>3
      <4>4. CASE r = o.side /\ p = o.price
        <5> HIDE DEF old
        <5>1. \A l \in 1 .. Len(old) : Append(old, incoming)[l] = old[l]
                                       /\ l \in 1 .. Len(Append(old, incoming))
          BY <1>2, <1>7, AppendKeeps
        <5> QED BY <4>1, <4>4, <5>1, <1>3 DEF old
      <4> QED BY <3>1, <4>2, <4>3, <4>4, <1>3 DEF Sides
    <3> QED BY <3>2, <3>3
  <2>2. \A i \in 1 .. nextId - 1 : Live(i) => i \in active
    BY DEF BookInv, Resting
  <2> QED BY <2>1, <2>2, <1>1 DEF Resting, Live
<1>10. ASSUME NEW i \in Submitted, Live(i), order[i].side = s
       PROVE  IF s = "Sell" THEN o.price < order[i].price ELSE o.price > order[i].price
  <2>1. PICK p \in BestLevel(s) : p \in Prices /\ (p = order[i].price \/ Better(s, p, order[i].price))
    BY <1>10, BestLevelExists
  <2> DEFINE q == Pruned(s)[p]
             maker == Head(q)
  <2>2. q \in Seq(Ids) /\ q # <<>>
    BY <1>3, <1>5, <2>1, PrunedOK
  <2>3. order[maker].price = p
    <3>1. 1 \in 1 .. Len(q) /\ maker = q[1]
      <4> HIDE DEF q
      <4> QED BY <2>2
    <3>2. \A k \in 1 .. Len(q) : order[q[k]].price = p
      BY <1>3, <2>1, PrunedIndexed
    <3> HIDE DEF q, maker
    <3> QED BY <3>1, <3>2
  <2> HIDE DEF maker
  <2>4. ~Crosses(incoming, maker)
    BY <1>1, <2>1 DEF s, maker
  <2>5. o.price \in Int /\ p \in Int /\ order[i].price \in Int
    BY <1>2, <1>3, <1>4, <2>1, ConstantsAssumption DEF IInv, Placed
  <2>6. s = IF o.side = "Buy" THEN "Sell" ELSE "Buy"
    BY DEF s, Opposite
  <2> QED BY <2>1, <2>3, <2>4, <2>5, <2>6 DEF Crosses, Better
<1>11. NeverCrossed'
  <2>1. ASSUME NEW i \in 1 .. nextId - 1, NEW j \in 1 .. nextId - 1, Live(i), Live(j),
               order[i].side = "Buy", order[j].side = "Sell"
        PROVE  order[i].price < order[j].price
    <3>1. order[i].price \in Int /\ order[j].price \in Int /\ o.price \in Int
      BY <1>2, ConstantsAssumption DEF IInv, Placed
    <3>2. s = IF o.side = "Buy" THEN "Sell" ELSE "Buy"
      BY DEF s, Opposite
    <3>3. CASE i = incoming
      BY <2>1, <3>1, <3>2, <3>3, <1>4, <1>10
    <3>4. CASE j = incoming
      BY <2>1, <3>1, <3>2, <3>4, <1>4, <1>10
    <3>5. CASE i # incoming /\ j # incoming
      BY <2>1, <3>5, <1>4 DEF BookInv, NeverCrossed
    <3> QED BY <3>3, <3>4, <3>5
  <2> QED BY <2>1, <1>1, <1>4 DEF NeverCrossed, Live
<1> QED BY <1>6, <1>8, <1>9, <1>11 DEF BookInv

LEMMA PlacePreservesBook ==
    ASSUME IInv, BookInv, NEW s \in Sides, NEW p \in Prices, NEW q \in 1 .. MaxQty,
           PlaceAndSubmit(s, p, q)
    PROVE  BookInv'
<1>1. /\ nextId' = nextId + 1 /\ nextId \in Nat
      /\ UNCHANGED <<levels, queue>>
      /\ active' = active \union {nextId}
      /\ nextId \in Ids
  BY ConstantsAssumption DEF PlaceAndSubmit, IInv, TypeOK, Ids
<1>2. Submitted = 1 .. nextId - 1 /\ Submitted' = 1 .. nextId - 1
  BY <1>1 DEF PlaceAndSubmit, Submitted
<1>3. \A i \in 1 .. nextId - 1 : order'[i] = order[i]
  BY <1>1 DEF PlaceAndSubmit, IInv, TypeOK
<1>4. NoEmptyLevel' /\ Sorted'
  BY <1>1 DEF BookInv, NoEmptyLevel, Sorted, InOrder
<1>5. Resting'
  <2>1. ASSUME NEW i \in 1 .. nextId' - 1, Live(i)' PROVE i \in active'
    <3>1. CASE i = nextId
      BY <3>1, <1>1
    <3>2. CASE i # nextId
      <4>1. i \in 1 .. nextId - 1
        BY <3>2, <1>1
      <4> QED BY <2>1, <4>1, <1>1, <1>3 DEF BookInv, Resting, Live
    <3> QED BY <3>1, <3>2
  <2>2. ASSUME NEW i \in 1 .. nextId - 1, Live(i)'
        PROVE  \E k \in 1 .. Len(queue'[order'[i].side][order'[i].price]) :
                  queue'[order'[i].side][order'[i].price][k] = i
    BY <2>2, <1>1, <1>2, <1>3 DEF BookInv, Resting, Live
  <2> QED BY <2>1, <2>2, <1>2 DEF Resting
<1>6. NeverCrossed'
  BY <1>2, <1>3 DEF BookInv, NeverCrossed, Live
<1> QED BY <1>4, <1>5, <1>6 DEF BookInv

\* Nothing that only takes orders out of the live ones disturbs the book.
LEMMA DyingPreservesBook ==
    ASSUME BookInv, UNCHANGED <<nextId, levels, queue, pc, incoming>>,
           \A i \in 1 .. nextId - 1 : /\ order'[i].side = order[i].side
                                      /\ order'[i].price = order[i].price
                                      /\ LiveAfter(i) => Live(i) /\ i \in active'
    PROVE  BookInv'
<1>1. Submitted' = Submitted /\ Submitted \subseteq 1 .. nextId - 1
  BY DEF Submitted
<1>2. NoEmptyLevel' /\ Sorted'
  BY DEF BookInv, NoEmptyLevel, Sorted, InOrder
<1>3. Resting'
  BY <1>1 DEF BookInv, Resting, Live, LiveAfter
<1>4. NeverCrossed'
  BY <1>1 DEF BookInv, NeverCrossed, Live, LiveAfter
<1> QED BY <1>2, <1>3, <1>4 DEF BookInv

LEMMA ReturnPreservesBook ==
    ASSUME IInv, BookInv, ReturnFilled
    PROVE  BookInv'
<1>1. /\ pc = "matching" /\ pc' = "idle" /\ Remaining(incoming) = 0
      /\ UNCHANGED <<nextId, order, active, levels, queue, tape, incoming>>
  BY DEF ReturnFilled
<1>2. incoming \in 1 .. nextId - 1 /\ incoming \in Ids
  BY <1>1, ConstantsAssumption DEF IInv, TypeOK, Ids
<1>3. ~Live(incoming)
  <2>1. order[incoming] \in Order
    BY <1>2 DEF IInv, TypeOK
  <2>2. order[incoming].filled = order[incoming].quantity
    BY <1>1, <2>1, ConstantsAssumption DEF Remaining, Order
  <2> QED BY <1>2, <2>2 DEF IInv, StateMatchesFill, Live
<1>4. Submitted' = 1 .. nextId - 1 /\ Submitted = (1 .. nextId - 1) \ {incoming}
  BY <1>1 DEF Submitted
<1>5. NoEmptyLevel' /\ Sorted'
  BY <1>1 DEF BookInv, NoEmptyLevel, Sorted, InOrder
<1>6. Resting' /\ NeverCrossed'
  BY <1>1, <1>3, <1>4 DEF BookInv, Resting, NeverCrossed, Live
<1> QED BY <1>5, <1>6 DEF BookInv

LEMMA BookInvariance == Spec => []BookInv
<1>1. ASSUME Init PROVE BookInv
  <2>1. \A s \in Sides, p \in Prices : Len(queue[s][p]) = 0
    BY <1>1 DEF Init
  <2>2. Submitted = {} /\ 1 .. nextId - 1 = {}
    BY <1>1 DEF Init, Submitted
  <2>3. NoEmptyLevel
    BY <1>1 DEF Init, NoEmptyLevel
  <2>4. Sorted
    BY <2>1 DEF Sorted, InOrder
  <2> QED BY <2>2, <2>3, <2>4 DEF BookInv, Resting, NeverCrossed
<1>2. ASSUME IInv, BookInv, [Next]_vars PROVE BookInv'
  <2>1. ASSUME NEW s \in Sides, NEW p \in Prices, NEW q \in 1 .. MaxQty, PlaceAndSubmit(s, p, q)
        PROVE  BookInv'
    BY <1>2, <2>1, PlacePreservesBook
  <2>2. ASSUME NEW p \in Prices, Fill(p) PROVE BookInv'
    BY <1>2, <2>2, FillPreservesBook
  <2>3. CASE ReturnFilled
    BY <1>2, <2>3, ReturnPreservesBook
  <2>4. CASE Post
    BY <1>2, <2>4, PostPreservesBook
  <2>5. 1 .. nextId - 1 \subseteq Ids /\ order \in [Ids -> Order]
    BY <1>2, ConstantsAssumption DEF IInv, TypeOK, Ids
  <2>6. \A i \in 1 .. nextId - 1 : Live(i) => i \in active
    BY <1>2 DEF BookInv, Resting
  <2>7. ASSUME NEW j \in Ids, Cancel(j) PROVE BookInv'
    <3>1. UNCHANGED <<nextId, levels, queue, pc, incoming, active>>
      BY <2>7 DEF Cancel
    <3>2. ASSUME NEW i \in 1 .. nextId - 1
          PROVE  /\ order'[i].side = order[i].side /\ order'[i].price = order[i].price
                 /\ LiveAfter(i) => Live(i)
      <4>1. i \in Ids /\ order[i] \in Order /\ order[j] \in Order
        BY <2>5
      <4>2. order' = [order EXCEPT ![j].state = "Cancelled"]
        BY <2>7 DEF Cancel
      <4>3. CASE i = j
        BY <4>1, <4>2, <4>3, <2>5 DEF Order, LiveAfter
      <4>4. CASE i # j
        BY <4>1, <4>2, <4>4, <2>5 DEF LiveAfter, Live
      <4> QED BY <4>3, <4>4
    <3> QED BY <1>2, <2>6, <3>1, <3>2, DyingPreservesBook
  <2>8. CASE Reap
    <3>1. UNCHANGED <<nextId, levels, queue, pc, incoming, order>>
      BY <2>8 DEF Reap
    <3>2. \A i \in 1 .. nextId - 1 : Live(i) => i \in active'
      BY <2>6, <2>8 DEF Reap, Reaped
    <3> QED BY <1>2, <3>1, <3>2, DyingPreservesBook DEF Live, LiveAfter
  <2>9. CASE UNCHANGED vars
    BY <1>2, <2>6, <2>9, DyingPreservesBook DEF vars, Live, LiveAfter
  <2> QED BY <1>2, <2>1, <2>2, <2>3, <2>4, <2>7, <2>8, <2>9 DEF Next
<1> QED BY <1>1, <1>2, Invariance, PTL DEF Spec

\* After any submit has returned, and whatever was cancelled in between, no
\* live bid is at or above a live ask: MatchingEngine::submit leaves nothing
\* unmatched that it could have matched.
THEOREM BookIsNeverCrossed == Spec => []NeverCrossed
<1>1. BookInv => NeverCrossed
  BY DEF BookInv
<1> QED BY <1>1, BookInvariance, PTL

\* No live order is lost by prune_front, pop_best or reap, none is in the book
\* twice, and each is where OrderBook::add put it.
THEOREM LiveOrdersAreInTheBook == Spec => []LiveOrdersRest
<1>1. ASSUME IInv, BookInv PROVE LiveOrdersRest
  <2> SUFFICES ASSUME NEW i \in Submitted, Live(i)
               PROVE  /\ i \in active
                      /\ \E k \in Ids : RestsAt(i, order[i].side, order[i].price, k)
                      /\ \A s \in Sides, p \in Prices, k, j \in Ids :
                            RestsAt(i, order[i].side, order[i].price, k) /\ RestsAt(i, s, p, j) =>
                                s = order[i].side /\ p = order[i].price /\ j = k
    BY <1>1 DEF LiveOrdersRest, BookInv
  <2>1. i \in 1 .. nextId - 1 /\ i \in Ids
    BY <1>1, ConstantsAssumption DEF IInv, TypeOK, Submitted, Ids
  <2>2. order[i].side \in Sides /\ order[i].price \in Prices
    BY <1>1, <2>1 DEF IInv, TypeOK, Order, Placed
  <2>3. \A s \in Sides, p \in Prices : queue[s][p] \in Seq(Ids)
    BY <1>1 DEF IInv, TypeOK
  <2>4. ASSUME NEW s \in Sides, NEW p \in Prices, NEW k \in DOMAIN queue[s][p]
        PROVE  k \in 1 .. Len(queue[s][p]) /\ k \in Nat
    BY <2>3, LenProperties
  <2>5. i \in active
    BY <1>1, <2>1 DEF BookInv, Resting
  <2>6. \E k \in Ids : RestsAt(i, order[i].side, order[i].price, k)
    <3> DEFINE q == queue[order[i].side][order[i].price]
    <3>1. PICK k \in 1 .. Len(q) : q[k] = i
      BY <1>1 DEF BookInv, Resting
    <3>2. k <= i
      BY <1>1, <2>2, <3>1 DEF BookInv, Sorted, InOrder
    <3>3. Len(q) \in Nat /\ DOMAIN q = 1 .. Len(q)
      BY <2>2, <2>3, LenProperties
    <3>4. k \in Ids
      <4> HIDE DEF q
      <4> QED BY <2>1, <3>1, <3>2, <3>3, ConstantsAssumption DEF Ids
    <3> QED BY <3>1, <3>3, <3>4 DEF RestsAt
  <2>7. ASSUME NEW s \in Sides, NEW p \in Prices, NEW k \in Ids, NEW j \in Ids,
               RestsAt(i, order[i].side, order[i].price, k), RestsAt(i, s, p, j)
        PROVE  s = order[i].side /\ p = order[i].price /\ j = k
    <3>1. j \in 1 .. Len(queue[s][p]) /\ queue[s][p][j] = i
      BY <2>4, <2>7 DEF RestsAt
    <3>2. s = order[i].side /\ p = order[i].price
      BY <1>1, <3>1 DEF IInv, Indexed
    <3>3. k \in 1 .. Len(queue[s][p]) /\ queue[s][p][k] = i
      BY <2>4, <2>7, <3>2 DEF RestsAt
    <3>4. ~(k < j) /\ ~(j < k)
      BY <1>1, <2>1, <3>1, <3>3 DEF BookInv, Sorted, InOrder
    <3>5. k \in Int /\ j \in Int
      BY DEF Ids
    <3> QED BY <3>2, <3>4, <3>5
  <2> QED BY <2>5, <2>6, <2>7
<1> QED BY <1>1, Invariance, BookInvariance, PTL

\* Nothing live on the maker's side comes before the maker: prune_front stops
\* at the best level with a live order, and at its first live order.
LEMMA MakerIsFirst ==
    ASSUME IInv, BookInv, NEW p \in Prices, Fill(p),
           NEW j \in Submitted, Live(j), order[j].side = Opposite(order[incoming].side),
           j # Head(Pruned(Opposite(order[incoming].side))[p])
    PROVE  LET s == Opposite(order[incoming].side)
               maker == Head(Pruned(s)[p])
           IN  \/ Better(s, p, order[j].price)
               \/ p = order[j].price /\ maker < j
<1> DEFINE s == Opposite(order[incoming].side)
           q == Pruned(s)[p]
           maker == Head(q)
<1>1. s \in Sides /\ q \in Seq(Ids) /\ q # <<>>
  BY FillParties
<1>2. p \in BestLevel(s)
  BY DEF Fill
<1>3. p = order[j].price \/ Better(s, p, order[j].price)
  BY <1>2, BestLevelExists
<1>4. ASSUME p = order[j].price PROVE maker < j
  <2> HIDE DEF s
  <2>1. PICK k \in 1 .. Len(queue[s][p]) : queue[s][p][k] = j
    BY <1>4 DEF BookInv, Resting, s
  <2>2. PICK l \in 1 .. Len(q) : q[l] = j
    <3>1. \A m \in 1 .. Len(queue[s][p]) : Live(queue[s][p][m]) =>
              \E l \in 1 .. Len(Pruned(s)[p]) : Pruned(s)[p][l] = queue[s][p][m]
      BY <1>1, PrunedKeeps
    <3> QED BY <2>1, <3>1
  <2>3. InOrder(q)
    BY <1>1, PrunedKeeps
  <2>4. j # maker
    BY DEF s
  <2> HIDE DEF q
  <2>5. \A m \in 1 .. Len(q) : q[m] = Head(q) \/ Head(q) < q[m]
    BY <1>1, <2>3, TailKeeps
  <2> QED BY <2>2, <2>4, <2>5
<1> QED BY <1>3, <1>4

\* MatchingEngine::submit trades with the order that price-time priority owes
\* the taker, at that order's price and within the taker's limit, for any
\* number of orders and whatever was cancelled while it rested.
THEOREM PriorityIsKept == Spec => PriceTimePriority
<1> DEFINE Kept ==
       Len(tape') > Len(tape) =>
        LET t == tape'[Len(tape')]
            maker == IF t.buy_id = incoming THEN t.sell_id ELSE t.buy_id
            s == order[maker].side
        IN  /\ incoming \in {t.buy_id, t.sell_id}
            /\ order[t.buy_id].side = "Buy" /\ order[t.sell_id].side = "Sell"
            /\ order[t.buy_id].price >= t.price /\ t.price >= order[t.sell_id].price
            /\ t.price = order[maker].price
            /\ Live(maker)
            /\ \A j \in Submitted :
                  Live(j) /\ order[j].side = s /\ j # maker =>
                      \/ s = "Buy" /\ order[maker].price > order[j].price
                      \/ s = "Sell" /\ order[maker].price < order[j].price
                      \/ order[maker].price = order[j].price /\ maker < j
<1>1. ASSUME IInv, BookInv, NEW p \in Prices, Fill(p) PROVE Kept
  <2> DEFINE side == Opposite(order[incoming].side)
             head == Head(Pruned(side)[p])
             trade == MakeTrade(incoming, head, TradeQty(incoming, head))
  <2>1. /\ incoming \in 1 .. nextId - 1 /\ head \in 1 .. nextId - 1
        /\ Live(head) /\ head # incoming
        /\ side \in Sides /\ side # order[incoming].side
        /\ order[head].side = side /\ order[head].price = p
    BY <1>1, FillParties
  <2>2. tape' = Append(tape, trade) /\ Crosses(incoming, head)
    BY <1>1 DEF Fill
  <2>3. \A j \in Submitted :
           Live(j) /\ order[j].side = side /\ j # head =>
              \/ Better(side, p, order[j].price)
              \/ p = order[j].price /\ head < j
    BY <1>1, MakerIsFirst
  <2>4. side = IF order[incoming].side = "Buy" THEN "Sell" ELSE "Buy"
    BY DEF Opposite
  <2>5. order[incoming].side \in Sides /\ order[incoming].price \in Int /\ p \in Int
    <3>1. incoming \in Ids
      BY <1>1, <2>1, ConstantsAssumption DEF IInv, TypeOK, Ids
    <3> QED BY <1>1, <2>1, <3>1, ConstantsAssumption DEF IInv, TypeOK, Order, Placed
  <2> HIDE DEF side, head
  <2>6. /\ trade.buy_id = (IF order[incoming].side = "Buy" THEN incoming ELSE head)
        /\ trade.sell_id = (IF order[incoming].side = "Sell" THEN incoming ELSE head)
        /\ trade.price = p
    BY <2>1 DEF MakeTrade
  <2> HIDE DEF trade
  <2>7. tape'[Len(tape')] = trade
    <3>1. tape \in Seq(Trade) /\ tape' \in Seq(Trade)
      BY <1>1, FillPreservesIInv DEF IInv, TypeOK
    <3> QED BY <2>2, <3>1
  <2> DEFINE t == tape'[Len(tape')]
             maker == IF t.buy_id = incoming THEN t.sell_id ELSE t.buy_id
  <2>8. maker = head
    BY <2>1, <2>5, <2>6, <2>7 DEF Sides
  <2>9. /\ incoming \in {trade.buy_id, trade.sell_id}
        /\ order[trade.buy_id].side = "Buy" /\ order[trade.sell_id].side = "Sell"
        /\ order[trade.buy_id].price >= trade.price
        /\ trade.price >= order[trade.sell_id].price
    BY <2>1, <2>2, <2>4, <2>5, <2>6 DEF Sides, Crosses
  <2>10. \A j \in Submitted :
           Live(j) /\ order[j].side = side /\ j # head =>
              \/ side = "Buy" /\ p > order[j].price
              \/ side = "Sell" /\ p < order[j].price
              \/ p = order[j].price /\ head < j
    BY <2>1, <2>3 DEF Better, Sides
  <2> QED BY <2>1, <2>6, <2>7, <2>8, <2>9, <2>10
<1>2. ASSUME IInv, BookInv, [Next]_vars PROVE [Kept]_vars
  <2>1. ASSUME NEW p \in Prices, Fill(p) PROVE Kept
    BY <1>1, <1>2, <2>1
  <2> HIDE DEF Kept
  <2>2. ASSUME UNCHANGED tape PROVE Kept
    <3>1. ~(Len(tape') > Len(tape))
      <4>1. Len(tape) \in Nat
        BY <1>2, LenProperties DEF IInv, TypeOK
      <4> QED BY <2>2, <4>1
    <3> QED BY <3>1 DEF Kept
  <2>3. ASSUME Next, \A p \in Prices : ~Fill(p) PROVE UNCHANGED tape
    BY <2>3 DEF Next, PlaceAndSubmit, ReturnFilled, Post, Cancel, Reap
  <2> QED BY <1>2, <2>1, <2>2, <2>3
<1> QED BY <1>2, Invariance, BookInvariance, PTL DEF Spec, PriceTimePriority

\* Every trade printed is of at least one unit, of no more than either party
\* had left before it, and of all that one of them had left.
TradesFitBothParties ==
    [][Len(tape') > Len(tape) =>
        LET t == tape'[Len(tape')]
        IN  /\ t.quantity > 0
            /\ \A i \in {t.buy_id, t.sell_id} : i \in 1 .. nextId - 1 /\ t.quantity <= Remaining(i)
            /\ \E i \in {t.buy_id, t.sell_id} : t.quantity = Remaining(i)]_vars

\* The loop of MatchingEngine::submit never trades with an order that has
\* nothing left and never sells what is not there, and each of its rounds
\* finishes an order, whatever was filled, cancelled or reaped before.
THEOREM TradesFit == Spec => TradesFitBothParties
<1> DEFINE Fits ==
       Len(tape') > Len(tape) =>
        LET t == tape'[Len(tape')]
        IN  /\ t.quantity > 0
            /\ \A i \in {t.buy_id, t.sell_id} : i \in 1 .. nextId - 1 /\ t.quantity <= Remaining(i)
            /\ \E i \in {t.buy_id, t.sell_id} : t.quantity = Remaining(i)
<1>1. ASSUME IInv, NEW p \in Prices, Fill(p) PROVE Fits
  <2> DEFINE maker == Head(Pruned(Opposite(order[incoming].side))[p])
             n == TradeQty(incoming, maker)
             trade == MakeTrade(incoming, maker, n)
  <2>1. /\ incoming \in 1 .. nextId - 1 /\ maker \in 1 .. nextId - 1
        /\ order[maker].side = Opposite(order[incoming].side)
        /\ n \in 1 .. MaxQty /\ n <= Remaining(incoming) /\ n <= Remaining(maker)
    BY <1>1, FillParties
  <2>2. n = Remaining(incoming) \/ n = Remaining(maker)
    BY DEF TradeQty
  <2>3. tape' = Append(tape, trade)
    BY <1>1 DEF Fill
  <2>4. order[incoming].side \in Sides
    <3>1. incoming \in Ids
      BY <1>1, <2>1, ConstantsAssumption DEF IInv, TypeOK, Ids
    <3> QED BY <1>1, <2>1, <3>1 DEF IInv, TypeOK, Order, Placed
  <2> HIDE DEF maker, n
  <2>5. {trade.buy_id, trade.sell_id} = {incoming, maker} /\ trade.quantity = n
    BY <2>4 DEF MakeTrade, Sides
  <2> HIDE DEF trade
  <2>6. tape'[Len(tape')] = trade
    <3>1. tape \in Seq(Trade) /\ tape' \in Seq(Trade)
      BY <1>1, FillPreservesIInv DEF IInv, TypeOK
    <3> QED BY <2>3, <3>1
  <2>7. n > 0
    BY <2>1, ConstantsAssumption
  <2> QED BY <2>1, <2>2, <2>5, <2>6, <2>7
<1>2. ASSUME IInv, [Next]_vars PROVE [Fits]_vars
  <2>1. ASSUME NEW p \in Prices, Fill(p) PROVE Fits
    BY <1>1, <1>2, <2>1
  <2> HIDE DEF Fits
  <2>2. ASSUME UNCHANGED tape PROVE Fits
    <3>1. ~(Len(tape') > Len(tape))
      <4>1. Len(tape) \in Nat
        BY <1>2, LenProperties DEF IInv, TypeOK
      <4> QED BY <2>2, <4>1
    <3> QED BY <3>1 DEF Fits
  <2>3. ASSUME Next, \A p \in Prices : ~Fill(p) PROVE UNCHANGED tape
    BY <2>3 DEF Next, PlaceAndSubmit, ReturnFilled, Post, Cancel, Reap
  <2> QED BY <1>2, <2>1, <2>2, <2>3
<1> QED BY <1>2, Invariance, PTL DEF Spec, TradesFitBothParties

-----------------------------------------------------------------------------
(* The tape. *)

\* Appending a trade adds its units to the order's sum.
LEMMA PrintedGrows ==
    ASSUME NEW i, NEW s \in Seq(Trade), NEW t \in Trade
    PROVE  LET r == Append(s, t)
           IN  SumTo([k \in DOMAIN r |-> Units(i, r[k])], Len(r))
                 = SumTo([k \in DOMAIN s |-> Units(i, s[k])], Len(s)) + Units(i, t)
<1> DEFINE r == Append(s, t)
           u == [k \in DOMAIN r |-> Units(i, r[k])]
           v == [k \in DOMAIN s |-> Units(i, s[k])]
           n == Len(s)
<1>1. /\ n \in Nat /\ Len(r) = n + 1 /\ DOMAIN s = 1 .. n /\ DOMAIN r = 1 .. n + 1
      /\ r[n + 1] = t /\ \A k \in 1 .. n : r[k] = s[k]
  OBVIOUS
<1> HIDE DEF r, n
<1>2. u[n + 1] = Units(i, t) /\ \A k \in 1 .. n : v[k] = u[k]
  BY <1>1
<1>3. SumTo(u, n + 1) = SumTo(v, n) + u[n + 1]
  <2> HIDE DEF u, v
  <2> QED BY <1>1, <1>2, SumToNext
<1> QED BY <1>1, <1>2, <1>3 DEF r, n

\* And an id not handed out yet is in no trade.
TapeInv ==
    /\ TapeConservesFills
    /\ \A i \in nextId .. MaxOrders : Printed(i) = 0

LEMMA PrintedUnchanged ==
    ASSUME UNCHANGED tape, NEW i PROVE Printed(i)' = Printed(i)
BY DEF Printed

LEMMA FillPreservesTape ==
    ASSUME IInv, TapeInv, NEW p \in Prices, Fill(p) PROVE TapeInv'
<1> DEFINE maker == Head(Pruned(Opposite(order[incoming].side))[p])
           n == TradeQty(incoming, maker)
           t == MakeTrade(incoming, maker, n)
<1>1. /\ incoming \in 1 .. nextId - 1 /\ maker \in 1 .. nextId - 1 /\ maker # incoming
      /\ n \in 1 .. MaxQty /\ order[maker].side # order[incoming].side /\ order[maker].price = p
  BY FillParties
<1>2. /\ \A i \in Ids : i \notin {incoming, maker} => order'[i] = order[i]
      /\ \A i \in {incoming, maker} : order'[i].filled = order[i].filled + n
  BY FillOrders
<1>3. tape' = Append(tape, t) /\ nextId' = nextId
  BY DEF Fill
<1>4. 1 .. nextId - 1 \subseteq Ids /\ tape \in Seq(Trade) /\ nextId \in 1 .. MaxOrders + 1 /\ MaxOrders \in Nat
  BY ConstantsAssumption DEF IInv, TypeOK, Ids
<1>5. order[incoming].side \in Sides /\ order[maker].side \in Sides
  BY <1>1, <1>4 DEF IInv, TypeOK, Order
<1> HIDE DEF n, maker
<1>6. /\ t \in Trade /\ t.quantity = n /\ t.buy_id # t.sell_id
      /\ {t.buy_id, t.sell_id} = {incoming, maker}
  <2>1. /\ t.buy_id = IF order[incoming].side = "Buy" THEN incoming ELSE maker
        /\ t.sell_id = IF order[incoming].side = "Sell" THEN incoming ELSE maker
        /\ t.quantity = n /\ t.price = p
        /\ t = [buy_id |-> t.buy_id, sell_id |-> t.sell_id, price |-> t.price, quantity |-> t.quantity]
    BY <1>1 DEF MakeTrade
  <2> HIDE DEF t
  <2>2. \/ t.buy_id = incoming /\ t.sell_id = maker
        \/ t.buy_id = maker /\ t.sell_id = incoming
    BY <2>1, <1>1, <1>5 DEF Sides
  <2> QED BY <2>1, <2>2, <1>1, <1>4 DEF Trade
<1> HIDE DEF t
<1>7. ASSUME NEW i \in Ids PROVE Printed(i)' = Printed(i) + Units(i, t)
  BY <1>3, <1>4, <1>6, PrintedGrows DEF Printed
<1>8. \A i : Units(i, t) = IF i \in {incoming, maker} THEN n ELSE 0
  BY <1>6 DEF Units
<1>9. ASSUME NEW i \in 1 .. nextId - 1 PROVE order'[i].filled = Printed(i)'
  <2>1. order[i].filled = Printed(i) /\ order[i].filled \in Nat /\ i \in Ids
    BY <1>4, ConstantsAssumption DEF TapeInv, TapeConservesFills, IInv, TypeOK, Order
  <2>2. CASE i \in {incoming, maker}
    BY <2>1, <2>2, <1>2, <1>7, <1>8
  <2>3. CASE i \notin {incoming, maker}
    BY <2>1, <2>3, <1>2, <1>7, <1>8
  <2> QED BY <2>2, <2>3
<1>10. \A i \in nextId .. MaxOrders : Printed(i)' = 0
  BY <1>1, <1>4, <1>7, <1>8 DEF TapeInv, Ids
<1>11. \A k \in DOMAIN tape' : tape'[k].buy_id # tape'[k].sell_id
  <2>1. \A k \in DOMAIN tape' : (k \in DOMAIN tape /\ tape'[k] = tape[k]) \/ tape'[k] = t
    BY <1>3, <1>4, <1>6
  <2> QED BY <2>1, <1>6 DEF TapeInv, TapeConservesFills
<1> QED BY <1>3, <1>9, <1>10, <1>11 DEF TapeInv, TapeConservesFills

LEMMA PlacePreservesTape ==
    ASSUME IInv, TapeInv, NEW s \in Sides, NEW p \in Prices, NEW q \in 1 .. MaxQty,
           PlaceAndSubmit(s, p, q)
    PROVE  TapeInv'
<1>1. /\ nextId \in Ids /\ nextId' = nextId + 1 /\ tape' = tape
      /\ order \in [Ids -> Order] /\ order' = [order EXCEPT ![nextId] = NewOrder(s, p, q)]
  BY ConstantsAssumption DEF PlaceAndSubmit, IInv, TypeOK, Ids
<1>2. nextId \in 1 .. MaxOrders /\ MaxOrders \in Nat
  BY <1>1, ConstantsAssumption DEF Ids
<1>3. order'[nextId].filled = 0 /\ \A i \in Ids \ {nextId} : order'[i] = order[i]
  BY <1>1 DEF NewOrder
<1>4. \A i : Printed(i)' = Printed(i)
  BY <1>1, PrintedUnchanged
<1>5. \A i \in 1 .. nextId' - 1 : order'[i].filled = Printed(i)'
  BY <1>1, <1>2, <1>3, <1>4 DEF TapeInv, TapeConservesFills, Ids
<1>6. \A i \in nextId' .. MaxOrders : Printed(i)' = 0
  BY <1>1, <1>2, <1>4 DEF TapeInv
<1> QED BY <1>1, <1>5, <1>6 DEF TapeInv, TapeConservesFills

\* TradeLogger records every fill of phase4 once: what the trades of an order
\* add up to is what the order says it has filled, however often it was hit.
THEOREM TapeConserves == Spec => []TapeConservesFills
<1>1. ASSUME Init PROVE TapeInv
  <2>1. DOMAIN tape = {} /\ Len(tape) = 0 /\ nextId = 1 /\ 1 .. nextId - 1 = {}
    BY <1>1 DEF Init
  <2>2. \A i : Printed(i) = 0
    BY <2>1, SumToNone DEF Printed
  <2> QED BY <2>1, <2>2 DEF TapeInv, TapeConservesFills
<1>2. ASSUME IInv, TapeInv, [Next]_vars PROVE TapeInv'
  <2>1. ASSUME NEW s \in Sides, NEW p \in Prices, NEW q \in 1 .. MaxQty, PlaceAndSubmit(s, p, q)
        PROVE  TapeInv'
    BY <1>2, <2>1, PlacePreservesTape
  <2>2. ASSUME NEW p \in Prices, Fill(p) PROVE TapeInv'
    BY <1>2, <2>2, FillPreservesTape
  <2>3. ASSUME UNCHANGED <<nextId, tape>>,
               \A i \in 1 .. nextId - 1 : order'[i].filled = order[i].filled
        PROVE  TapeInv'
    <3>1. \A i : Printed(i)' = Printed(i)
      BY <2>3, PrintedUnchanged
    <3> QED BY <1>2, <2>3, <3>1 DEF TapeInv, TapeConservesFills
  <2>4. CASE ReturnFilled \/ Post \/ Reap \/ UNCHANGED vars
    BY <2>3, <2>4 DEF ReturnFilled, Post, Reap, vars
  <2>5. ASSUME NEW j \in Ids, Cancel(j) PROVE TapeInv'
    <3>1. order \in [Ids -> Order] /\ 1 .. nextId - 1 \subseteq Ids
      BY <1>2, ConstantsAssumption DEF IInv, TypeOK, Ids
    <3>2. \A i \in Ids : order'[i].filled = order[i].filled
      BY <3>1, <2>5 DEF Cancel, Order
    <3> QED BY <2>3, <2>5, <3>1, <3>2 DEF Cancel
  <2> QED BY <1>2, <2>1, <2>2, <2>4, <2>5 DEF Next
<1>3. TapeInv => TapeConservesFills
  BY DEF TapeInv
<1> QED BY <1>1, <1>2, <1>3, Invariance, PTL DEF Spec

===========================================================================
