-------------------------- MODULE OrderBookProofs --------------------------
(***************************************************************************)
(* The order books of phase5, phase4 and hw5, for every set of ids and     *)
(* prices and however many orders.  First the pooled book of phase5, for   *)
(* every capacity: BookOK is its inductive invariant, that the pool and    *)
(* the lookup partition the slots between them, every order in the lookup  *)
(* stands once in the arrivals of its level, and the pointers of a level   *)
(* follow its arrivals.  The links alone do not do: that n->prev is the    *)
(* node before n is lost unless no other node of any level is in that      *)
(* slot.  Then the books of Comparisons, which keep an index or a second   *)
(* copy of what a plain book finds by looking.                             *)
(***************************************************************************)
EXTENDS OptimizedOrderBook, Comparisons, NumberFacts, SequenceTheorems, FiniteSetTheorems, TLAPS

IsBook(b) ==
    b = [free |-> b.free, node |-> b.node, levels |-> b.levels, lookup |-> b.lookup,
         nullWrite |-> b.nullWrite]

BookTypes(b) ==
    /\ b.free \in Seq(Slots)
    /\ b.node \in [Slots -> Node \union {Destroyed}]
    /\ DOMAIN b.levels \subseteq Prices
    /\ b.levels \in [DOMAIN b.levels -> [head : Slots, tail : Slots]]
    /\ DOMAIN b.lookup \subseteq Ids
    /\ b.lookup \in [DOMAIN b.lookup -> [node : Slots, level : Prices]]
    /\ b.nullWrite = FALSE

\* A slot is free or one order's.
Pooled(b) ==
    /\ \A i, j \in 1 .. Len(b.free) : i # j => b.free[i] # b.free[j]
    /\ \A n \in Slots : b.node[n] = Destroyed <=> \E i \in 1 .. Len(b.free) : b.free[i] = n
    /\ \A n \in Slots : b.node[n] # Destroyed =>
          \E id \in DOMAIN b.lookup : b.lookup[id].node = n
    /\ \A id \in DOMAIN b.lookup :
          /\ b.node[b.lookup[id].node] # Destroyed
          /\ b.node[b.lookup[id].node].order.id = id
          /\ b.node[b.lookup[id].node].order.price = b.lookup[id].level

\* An order is once in the arrivals of its level and in no other.
Listed(b, ar) ==
    /\ ar \in [Prices -> Seq(Ids)]
    /\ \A p \in Prices : \A k \in 1 .. Len(ar[p]) :
          /\ ar[p][k] \in DOMAIN b.lookup
          /\ b.lookup[ar[p][k]].level = p
    /\ \A p \in Prices : \A j, k \in 1 .. Len(ar[p]) : j # k => ar[p][j] # ar[p][k]
    /\ \A id \in DOMAIN b.lookup :
          \E k \in 1 .. Len(ar[b.lookup[id].level]) : ar[b.lookup[id].level][k] = id

\* The node of the k-th order of level p.
At(b, ar, p, k) == b.lookup[ar[p][k]].node

Chained(b, ar, p) ==
    \A k \in 1 .. Len(ar[p]) :
        /\ b.node[At(b, ar, p, k)].prev = IF k = 1 THEN Null ELSE At(b, ar, p, k - 1)
        /\ b.node[At(b, ar, p, k)].next =
              IF k = Len(ar[p]) THEN Null ELSE At(b, ar, p, k + 1)

Ended(b, ar, p) ==
    /\ p \in DOMAIN b.levels <=> Len(ar[p]) # 0
    /\ p \in DOMAIN b.levels =>
          b.levels[p] = [head |-> At(b, ar, p, 1), tail |-> At(b, ar, p, Len(ar[p]))]

Linked(b, ar) == \A p \in Prices : Chained(b, ar, p) /\ Ended(b, ar, p)

BookOK(b, ar) == IsBook(b) /\ BookTypes(b) /\ Pooled(b) /\ Listed(b, ar) /\ Linked(b, ar)

-----------------------------------------------------------------------------
\* No two places of the lists are in the same slot.
LEMMA PlacesAreApart ==
    ASSUME NEW b, NEW ar, BookOK(b, ar),
           NEW p \in Prices, NEW r \in Prices,
           NEW k \in 1 .. Len(ar[p]), NEW i \in 1 .. Len(ar[r])
    PROVE  /\ At(b, ar, p, k) \in Slots
           /\ b.node[At(b, ar, p, k)] \in Node
           /\ At(b, ar, p, k) = At(b, ar, r, i) => p = r /\ k = i
<1>1. /\ ar[p][k] \in DOMAIN b.lookup /\ b.lookup[ar[p][k]].level = p
      /\ ar[r][i] \in DOMAIN b.lookup /\ b.lookup[ar[r][i]].level = r
  BY DEF BookOK, Listed
<1>2. /\ At(b, ar, p, k) \in Slots
      /\ b.node[At(b, ar, p, k)] \in Node
  BY <1>1 DEF BookOK, BookTypes, Pooled, At
<1>3. ASSUME At(b, ar, p, k) = At(b, ar, r, i) PROVE p = r /\ k = i
  <2>1. ar[p][k] = ar[r][i]
    BY <1>1, <1>3 DEF BookOK, Pooled, At
  <2>2. p = r
    BY <2>1, <1>1
  <2> QED BY <2>1, <2>2 DEF BookOK, Listed
<1> QED BY <1>2, <1>3

LEMMA OtherOfAbsent ==
    ASSUME NEW id, NEW s, \A k \in DOMAIN s : s[k] # id
    PROVE  Other(id, s) = s
BY DEF Other

LEMMA OtherOfPresent ==
    ASSUME NEW id, NEW s \in Seq(Ids), NEW j \in 1 .. Len(s), s[j] = id,
           \A i, k \in 1 .. Len(s) : i # k => s[i] # s[k]
    PROVE  /\ Other(id, s) \in Seq(Ids)
           /\ Len(Other(id, s)) = Len(s) - 1
           /\ \A k \in 1 .. Len(s) - 1 :
                 Other(id, s)[k] = IF k < j THEN s[k] ELSE s[k + 1]
<1> DEFINE at == CHOOSE k \in DOMAIN s : s[k] = id
           t == [k \in 1 .. Len(s) - 1 |-> IF k < at THEN s[k] ELSE s[k + 1]]
<1>1. DOMAIN s = 1 .. Len(s)
  OBVIOUS
<1>2. at \in 1 .. Len(s) /\ s[at] = id
  BY <1>1
<1>3. at = j
  BY <1>2
<1>4. Other(id, s) = t
  BY <1>1 DEF Other
<1>5. t \in [1 .. Len(s) - 1 -> Ids]
  <2>1. ASSUME NEW k \in 1 .. Len(s) - 1 PROVE s[k] \in Ids /\ s[k + 1] \in Ids
    OBVIOUS
  <2> HIDE DEF at
  <2> QED BY <2>1
<1>6. t \in Seq(Ids) /\ Len(t) = Len(s) - 1
  <2> HIDE DEF t
  <2>1. Len(s) - 1 \in Nat
    OBVIOUS
  <2>2. t \in Seq(Ids)
    BY <1>5, <2>1
  <2> QED BY <2>2, <1>5, <2>1
<1>7. \A k \in 1 .. Len(s) - 1 : t[k] = IF k < j THEN s[k] ELSE s[k + 1]
  BY <1>3
<1> HIDE DEF t
<1> QED BY <1>4, <1>6, <1>7

-----------------------------------------------------------------------------
(* Taking an order out.                                                    *)

\* The levels once the node of slot is out of its list.
LevelsLeft(b, slot) ==
    LET lvl == LevelLeft(b.levels[slot.level], b.node[slot.node])
    IN  IF lvl.head = Null
          THEN [p \in DOMAIN b.levels \ {slot.level} |-> b.levels[p]]
          ELSE [b.levels EXCEPT ![slot.level] = lvl]

NodesLeft(b, slot) ==
    [n \in Slots |-> IF n = slot.node THEN Destroyed ELSE Spliced(b, b.node[slot.node])[n]]

LEMMA RemovedFields ==
    ASSUME NEW b, NEW ar, BookOK(b, ar), NEW id \in DOMAIN b.lookup
    PROVE  /\ IsBook(Removed(b, id))
           /\ Removed(b, id).free = Append(b.free, b.lookup[id].node)
           /\ Removed(b, id).node = NodesLeft(b, b.lookup[id])
           /\ Removed(b, id).levels = LevelsLeft(b, b.lookup[id])
           /\ Removed(b, id).lookup = [i \in DOMAIN b.lookup \ {id} |-> b.lookup[i]]
           /\ Removed(b, id).nullWrite = FALSE
<1> DEFINE slot == b.lookup[id]
           nd == b.node[slot.node]
           lvl == LevelLeft(b.levels[slot.level], nd)
           lv == IF lvl.head = Null
                   THEN [p \in DOMAIN b.levels \ {slot.level} |-> b.levels[p]]
                   ELSE [b.levels EXCEPT ![slot.level] = lvl]
           sp == Spliced(b, nd)
           u == Unlink(b, slot)
           r == Release(u, slot.node)
<1>1. u = [free |-> b.free, node |-> sp, levels |-> lv, lookup |-> b.lookup,
           nullWrite |-> b.nullWrite]
  <2>1. u = [b EXCEPT !.node = sp, !.levels = lv]
    BY DEF Unlink
  <2> HIDE DEF u, lv, sp
  <2> QED BY <2>1 DEF BookOK, IsBook
<1>2. r = [free |-> Append(b.free, slot.node), node |-> [sp EXCEPT ![slot.node] = Destroyed],
           levels |-> lv, lookup |-> b.lookup, nullWrite |-> b.nullWrite]
  <2>1. r = [u EXCEPT !.free = Append(@, slot.node), !.node[slot.node] = Destroyed]
    BY DEF Release
  <2> HIDE DEF r, u, lv, sp
  <2> QED BY <1>1, <2>1
<1>3. Removed(b, id) = [r EXCEPT !.lookup = [i \in DOMAIN @ \ {id} |-> @[i]]]
  BY DEF Removed
<1>4. DOMAIN sp = Slots
  BY DEF Spliced
<1>5. [sp EXCEPT ![slot.node] = Destroyed]
         = [n \in Slots |-> IF n = slot.node THEN Destroyed ELSE sp[n]]
  <2> HIDE DEF sp
  <2> QED BY <1>4
<1>6. b.nullWrite = FALSE
  BY DEF BookOK, BookTypes
<1>7. Removed(b, id) = [free |-> Append(b.free, slot.node),
           node |-> [n \in Slots |-> IF n = slot.node THEN Destroyed ELSE sp[n]],
           levels |-> lv, lookup |-> [i \in DOMAIN b.lookup \ {id} |-> b.lookup[i]],
           nullWrite |-> FALSE]
  <2> DEFINE lk == [i \in DOMAIN b.lookup \ {id} |-> b.lookup[i]]
             fr == Append(b.free, slot.node)
             sd == [sp EXCEPT ![slot.node] = Destroyed]
  <2>1. r.lookup = b.lookup
    BY <1>2
  <2>2. Removed(b, id) = [r EXCEPT !.lookup = lk]
    BY <2>1, <1>3
  <2> HIDE DEF lk, fr, sd, r, lv, sp
  <2>3. r = [free |-> fr, node |-> sd, levels |-> lv, lookup |-> b.lookup,
             nullWrite |-> b.nullWrite]
    BY <1>2 DEF fr, sd
  <2>4. Removed(b, id) = [free |-> fr, node |-> sd, levels |-> lv, lookup |-> lk,
                          nullWrite |-> FALSE]
    BY <2>2, <2>3, <1>6
  <2> QED BY <2>4, <1>5 DEF fr, sd, lk
<1> HIDE DEF lv, sp
<1> QED BY <1>7 DEF IsBook, LevelsLeft, NodesLeft, lv, sp

\* The arrivals once an order is out of them.
Struck(ar, id) == [r \in Prices |-> Other(id, ar[r])]

\* The order struck was the j-th of level p; the arrivals and places after.
LEMMA StruckIs ==
    ASSUME NEW b, NEW ar, BookOK(b, ar), NEW id \in DOMAIN b.lookup,
           NEW j \in 1 .. Len(ar[b.lookup[id].level]), ar[b.lookup[id].level][j] = id
    PROVE  LET p == b.lookup[id].level
               br == Struck(ar, id)
           IN /\ br \in [Prices -> Seq(Ids)]
              /\ \A r \in Prices \ {p} : br[r] = ar[r]
              /\ Len(br[p]) = Len(ar[p]) - 1
              /\ \A k \in 1 .. Len(ar[p]) - 1 :
                    br[p][k] = IF k < j THEN ar[p][k] ELSE ar[p][k + 1]
              /\ \A r \in Prices : \A k \in 1 .. Len(br[r]) :
                    /\ br[r][k] # id
                    /\ At(Removed(b, id), br, r, k) = At(b, br, r, k)
<1> DEFINE p == b.lookup[id].level
           br == Struck(ar, id)
<1>1. p \in Prices /\ ar \in [Prices -> Seq(Ids)] /\ ar[p] \in Seq(Ids)
  BY DEF BookOK, BookTypes, Listed
<1>2. /\ Other(id, ar[p]) \in Seq(Ids)
      /\ Len(Other(id, ar[p])) = Len(ar[p]) - 1
      /\ \A k \in 1 .. Len(ar[p]) - 1 :
            Other(id, ar[p])[k] = IF k < j THEN ar[p][k] ELSE ar[p][k + 1]
  <2>1. \A i, k \in 1 .. Len(ar[p]) : i # k => ar[p][i] # ar[p][k]
    BY <1>1 DEF BookOK, Listed
  <2> QED BY <1>1, <2>1, OtherOfPresent
<1>3. \A r \in Prices : br[r] = Other(id, ar[r])
  BY DEF Struck
<1>4. ASSUME NEW r \in Prices, r # p PROVE br[r] = ar[r] /\ \A k \in 1 .. Len(ar[r]) : ar[r][k] # id
  <2>1. ar[r] \in Seq(Ids) /\ DOMAIN ar[r] = 1 .. Len(ar[r])
    BY <1>1
  <2>2. \A k \in 1 .. Len(ar[r]) : ar[r][k] # id
    BY <1>4 DEF BookOK, Listed
  <2> QED BY <2>1, <2>2, <1>3, OtherOfAbsent
<1>5. br \in [Prices -> Seq(Ids)]
  <2>1. ASSUME NEW r \in Prices PROVE Other(id, ar[r]) \in Seq(Ids)
    BY <1>1, <1>2, <1>3, <1>4
  <2> QED BY <2>1 DEF Struck
<1>6. ASSUME NEW r \in Prices, NEW k \in 1 .. Len(br[r])
      PROVE br[r][k] # id /\ br[r][k] \in DOMAIN b.lookup
  <2>1. CASE r # p
    BY <2>1, <1>4, <1>1 DEF BookOK, Listed
  <2>2. CASE r = p
    <3>1. k \in 1 .. Len(ar[p]) - 1 /\ k \in 1 .. Len(ar[p]) /\ k + 1 \in 1 .. Len(ar[p])
      BY <2>2, <1>2, <1>3, <1>1
    <3>2. br[p][k] = IF k < j THEN ar[p][k] ELSE ar[p][k + 1]
      BY <3>1, <1>2, <1>3, <1>1
    <3>3. (k < j => ar[p][k] # id) /\ (~(k < j) => ar[p][k + 1] # id)
      <4>1. \A i \in 1 .. Len(ar[p]) : i # j => ar[p][i] # ar[p][j]
        BY <1>1 DEF BookOK, Listed
      <4> QED BY <4>1, <3>1
    <3>4. ar[p][k] \in DOMAIN b.lookup /\ ar[p][k + 1] \in DOMAIN b.lookup
      BY <3>1, <1>1 DEF BookOK, Listed
    <3> QED BY <2>2, <3>2, <3>3, <3>4
  <2> QED BY <2>1, <2>2
<1>7. Removed(b, id).lookup = [i \in DOMAIN b.lookup \ {id} |-> b.lookup[i]]
  BY RemovedFields
<1>8. ASSUME NEW r \in Prices, NEW k \in 1 .. Len(br[r])
      PROVE At(Removed(b, id), br, r, k) = At(b, br, r, k)
  <2> HIDE DEF br
  <2> QED BY <1>6, <1>7 DEF At
<1>9. /\ Len(br[p]) = Len(ar[p]) - 1
      /\ \A k \in 1 .. Len(ar[p]) - 1 :
            br[p][k] = IF k < j THEN ar[p][k] ELSE ar[p][k + 1]
  BY <1>1, <1>2, <1>3
<1> HIDE DEF br, p
<1>10. /\ br \in [Prices -> Seq(Ids)]
       /\ \A r \in Prices \ {p} : br[r] = ar[r]
       /\ Len(br[p]) = Len(ar[p]) - 1
       /\ \A k \in 1 .. Len(ar[p]) - 1 :
             br[p][k] = IF k < j THEN ar[p][k] ELSE ar[p][k + 1]
       /\ \A r \in Prices : \A k \in 1 .. Len(br[r]) :
             /\ br[r][k] # id
             /\ At(Removed(b, id), br, r, k) = At(b, br, r, k)
  BY <1>4, <1>5, <1>6, <1>8, <1>9
<1> QED BY <1>10 DEF br, p

\* What splicing out the j-th node of level p does to every other place: only
\* its two neighbours change, each on the side of the gap.
LEMMA SplicedPlaces ==
    ASSUME NEW b, NEW ar, BookOK(b, ar),
           NEW p \in Prices, NEW j \in 1 .. Len(ar[p]),
           NEW r \in Prices, NEW i \in 1 .. Len(ar[r]), ~(r = p /\ i = j)
    PROVE  LET nd == b.node[At(b, ar, p, j)]
               m == At(b, ar, r, i)
               new == Spliced(b, nd)[m]
           IN /\ m \in Slots /\ m # At(b, ar, p, j)
              /\ new \in Node
              /\ new.order = b.node[m].order
              /\ new.prev = IF r = p /\ i = j + 1 THEN nd.prev ELSE b.node[m].prev
              /\ new.next = IF r = p /\ i = j - 1 THEN nd.next ELSE b.node[m].next
<1> DEFINE nd == b.node[At(b, ar, p, j)]
           m == At(b, ar, r, i)
           new == Spliced(b, nd)[m]
           old == b.node[m]
<1>1. m \in Slots /\ old \in Node /\ nd \in Node /\ m # At(b, ar, p, j)
  BY PlacesAreApart
<1>2. /\ Len(ar[p]) \in Nat
      /\ nd.prev = IF j = 1 THEN Null ELSE At(b, ar, p, j - 1)
      /\ nd.next = IF j = Len(ar[p]) THEN Null ELSE At(b, ar, p, j + 1)
  BY DEF BookOK, Linked, Chained, Listed
<1>3. new = IF m = nd.prev THEN [old EXCEPT !.next = nd.next]
            ELSE IF m = nd.next THEN [old EXCEPT !.prev = nd.prev] ELSE old
  BY <1>1 DEF Spliced
<1>4. m # Null
  BY <1>1, ConstantsAssumption DEF Slots
<1>5. m = nd.prev <=> r = p /\ i = j - 1
  <2>1. CASE j = 1
    BY <2>1, <1>2, <1>4
  <2>2. CASE j # 1
    <3>1. j - 1 \in 1 .. Len(ar[p])
      BY <2>2, <1>2
    <3>2. m = At(b, ar, p, j - 1) => r = p /\ i = j - 1
      BY <3>1, PlacesAreApart
    <3> QED BY <2>2, <3>2, <1>2
  <2> QED BY <2>1, <2>2
<1>6. m = nd.next <=> r = p /\ i = j + 1
  <2>1. CASE j = Len(ar[p])
    BY <2>1, <1>2, <1>4
  <2>2. CASE j # Len(ar[p])
    <3>1. j + 1 \in 1 .. Len(ar[p])
      BY <2>2, <1>2
    <3>2. m = At(b, ar, p, j + 1) => r = p /\ i = j + 1
      BY <3>1, PlacesAreApart
    <3> QED BY <2>2, <3>2, <1>2
  <2> QED BY <2>1, <2>2
<1>7. ~(i = j - 1 /\ i = j + 1)
  OBVIOUS
<1>8. nd.prev \in Pointer /\ nd.next \in Pointer
  BY <1>1 DEF Node
<1>9. /\ new \in Node /\ new.order = old.order
      /\ new.prev = IF r = p /\ i = j + 1 THEN nd.prev ELSE old.prev
      /\ new.next = IF r = p /\ i = j - 1 THEN nd.next ELSE old.next
  <2> HIDE DEF new, old, nd, m
  <2> QED BY <1>1, <1>3, <1>5, <1>6, <1>7, <1>8 DEF Node
<1> HIDE DEF new, old, nd, m
<1>10. /\ m \in Slots /\ m # At(b, ar, p, j)
       /\ new \in Node /\ new.order = old.order
       /\ new.prev = IF r = p /\ i = j + 1 THEN nd.prev ELSE old.prev
       /\ new.next = IF r = p /\ i = j - 1 THEN nd.next ELSE old.next
  BY <1>1, <1>9
<1> QED BY <1>10 DEF new, old, nd, m

\* Nodes of the pool that are in no list do not exist: each slot in use is a
\* place.
LEMMA InUseIsAPlace ==
    ASSUME NEW b, NEW ar, BookOK(b, ar), NEW id \in DOMAIN b.lookup
    PROVE  LET p == b.lookup[id].level IN
           /\ p \in Prices
           /\ \E k \in 1 .. Len(ar[p]) : ar[p][k] = id /\ At(b, ar, p, k) = b.lookup[id].node
BY DEF BookOK, BookTypes, Listed, At

\* Splicing neither makes nor destroys a node, and moves no order.
LEMMA SplicedSlots ==
    ASSUME NEW b, NEW ar, BookOK(b, ar),
           NEW p \in Prices, NEW j \in 1 .. Len(ar[p]),
           NEW m \in Slots, m # At(b, ar, p, j)
    PROVE  LET new == Spliced(b, b.node[At(b, ar, p, j)])[m] IN
           /\ b.node[m] = Destroyed => new = Destroyed
           /\ b.node[m] # Destroyed =>
                 new \in Node /\ new # Destroyed /\ new.order = b.node[m].order
<1> DEFINE nd == b.node[At(b, ar, p, j)]
           new == Spliced(b, nd)[m]
<1>1. ASSUME b.node[m] = Destroyed PROVE new = Destroyed
  <2>1. /\ Len(ar[p]) \in Nat
        /\ nd.prev = IF j = 1 THEN Null ELSE At(b, ar, p, j - 1)
        /\ nd.next = IF j = Len(ar[p]) THEN Null ELSE At(b, ar, p, j + 1)
    BY DEF BookOK, Linked, Chained, Listed
  <2>2. m # Null
    BY ConstantsAssumption DEF Slots
  <2>3. m # nd.prev
    <3>1. CASE j = 1
      BY <3>1, <2>1, <2>2
    <3>2. CASE j # 1
      <4>1. j - 1 \in 1 .. Len(ar[p])
        BY <3>2, <2>1
      <4>2. b.node[At(b, ar, p, j - 1)] \in Node
        BY <4>1, PlacesAreApart
      <4> QED BY <3>2, <4>2, <2>1, <1>1, ConstantsAssumption
    <3> QED BY <3>1, <3>2
  <2>4. m # nd.next
    <3>1. CASE j = Len(ar[p])
      BY <3>1, <2>1, <2>2
    <3>2. CASE j # Len(ar[p])
      <4>1. j + 1 \in 1 .. Len(ar[p])
        BY <3>2, <2>1
      <4>2. b.node[At(b, ar, p, j + 1)] \in Node
        BY <4>1, PlacesAreApart
      <4> QED BY <3>2, <4>2, <2>1, <1>1, ConstantsAssumption
    <3> QED BY <3>1, <3>2
  <2> QED BY <2>3, <2>4, <1>1 DEF Spliced
<1>2. ASSUME b.node[m] # Destroyed
      PROVE new \in Node /\ new # Destroyed /\ new.order = b.node[m].order
  <2>1. PICK id \in DOMAIN b.lookup : b.lookup[id].node = m
    BY <1>2 DEF BookOK, Pooled
  <2>2. PICK r \in Prices : \E k \in 1 .. Len(ar[r]) : At(b, ar, r, k) = m
    BY <2>1, InUseIsAPlace
  <2>3. PICK k \in 1 .. Len(ar[r]) : At(b, ar, r, k) = m
    BY <2>2
  <2>4. ~(r = p /\ k = j)
    BY <2>3
  <2> HIDE DEF new
  <2>5. new \in Node /\ new.order = b.node[m].order
    BY <2>3, <2>4, SplicedPlaces DEF new
  <2> QED BY <2>5, ConstantsAssumption
<1> HIDE DEF new
<1> QED BY <1>1, <1>2 DEF new

LEMMA RemovedKeepsPool ==
    ASSUME NEW b, NEW ar, BookOK(b, ar), NEW id \in DOMAIN b.lookup
    PROVE  BookTypes(Removed(b, id)) /\ Pooled(Removed(b, id))
<1> DEFINE c == Removed(b, id)
           slot == b.lookup[id]
           n == slot.node
           p == slot.level
           nd == b.node[n]
           lvl == LevelLeft(b.levels[p], nd)
<1>1. PICK j \in 1 .. Len(ar[p]) : ar[p][j] = id /\ At(b, ar, p, j) = n
  BY InUseIsAPlace
<1>2. p \in Prices /\ n \in Slots /\ nd \in Node /\ nd # Destroyed
  <2>1. slot \in [node : Slots, level : Prices] /\ nd # Destroyed
    BY DEF BookOK, BookTypes, Pooled
  <2>2. nd \in Node \union {Destroyed}
    BY <2>1 DEF BookOK, BookTypes
  <2> QED BY <2>1, <2>2
<1>3. /\ c.free = Append(b.free, n)
      /\ c.node = [m \in Slots |-> IF m = n THEN Destroyed ELSE Spliced(b, nd)[m]]
      /\ c.levels = LevelsLeft(b, slot)
      /\ c.lookup = [i \in DOMAIN b.lookup \ {id} |-> b.lookup[i]]
      /\ c.nullWrite = FALSE
  <2>1. c.node = [m \in Slots |-> IF m = n THEN Destroyed ELSE Spliced(b, nd)[m]]
    <3>1. c.node = NodesLeft(b, slot)
      BY RemovedFields
    <3> HIDE DEF c
    <3> QED BY <3>1 DEF NodesLeft
  <2>2. c.free = Append(b.free, n) /\ c.levels = LevelsLeft(b, slot) /\ c.nullWrite = FALSE
    BY RemovedFields
  <2>3. c.lookup = [i \in DOMAIN b.lookup \ {id} |-> b.lookup[i]]
    BY RemovedFields
  <2> QED BY <2>1, <2>2, <2>3
<1>4. ASSUME NEW m \in Slots, m # n
      PROVE  /\ b.node[m] = Destroyed => c.node[m] = Destroyed
             /\ b.node[m] # Destroyed =>
                   c.node[m] \in Node /\ c.node[m] # Destroyed /\ c.node[m].order = b.node[m].order
  <2>1. c.node[m] = Spliced(b, nd)[m]
    BY <1>3, <1>4
  <2> HIDE DEF c
  <2> QED BY <2>1, <1>1, <1>2, <1>4, SplicedSlots
<1>5. c.node[n] = Destroyed
  BY <1>2, <1>3
<1>6. c.free \in Seq(Slots) /\ b.free \in Seq(Slots)
  BY <1>2, <1>3 DEF BookOK, BookTypes
<1>7. c.node \in [Slots -> Node \union {Destroyed}]
  <2>1. \A m \in Slots : c.node[m] \in Node \union {Destroyed}
    BY <1>4, <1>5
  <2>2. DOMAIN c.node = Slots /\ c.node = [m \in Slots |-> c.node[m]]
    BY <1>3
  <2> HIDE DEF c
  <2> QED BY <2>1, <2>2
<1>8. /\ DOMAIN c.levels \subseteq Prices
      /\ c.levels \in [DOMAIN c.levels -> [head : Slots, tail : Slots]]
  <2>1. p \in DOMAIN b.levels /\ b.levels[p] \in [head : Slots, tail : Slots]
    <3>1. p \in DOMAIN b.levels
      <4>1. Len(ar[p]) # 0
        BY <1>1
      <4> QED BY <4>1, <1>2 DEF BookOK, Linked, Ended
    <3> QED BY <3>1 DEF BookOK, BookTypes
  <2>2. nd.prev \in Pointer /\ nd.next \in Pointer
    BY <1>2 DEF Node
  <2>3. lvl.head # Null => lvl \in [head : Slots, tail : Slots]
    BY <2>1, <2>2 DEF LevelLeft, Pointer
  <2>4. b.levels \in [DOMAIN b.levels -> [head : Slots, tail : Slots]] /\ DOMAIN b.levels \subseteq Prices
    BY DEF BookOK, BookTypes
  <2>5. c.levels = IF lvl.head = Null
                     THEN [r \in DOMAIN b.levels \ {p} |-> b.levels[r]]
                     ELSE [b.levels EXCEPT ![p] = lvl]
    BY <1>3 DEF LevelsLeft
  <2> HIDE DEF lvl, c
  <2> QED BY <2>1, <2>3, <2>4, <2>5
<1>9. BookTypes(c)
  <2>1. /\ DOMAIN c.lookup \subseteq Ids
        /\ c.lookup \in [DOMAIN c.lookup -> [node : Slots, level : Prices]]
    BY <1>3 DEF BookOK, BookTypes
  <2> HIDE DEF c
  <2> QED BY <1>3, <1>6, <1>7, <1>8, <2>1 DEF BookTypes
<1>10. ASSUME NEW i \in DOMAIN c.lookup
       PROVE  c.lookup[i] = b.lookup[i] /\ i \in DOMAIN b.lookup /\ i # id /\ b.lookup[i].node \in Slots /\ b.lookup[i].node # n
  <2>1. c.lookup[i] = b.lookup[i] /\ i \in DOMAIN b.lookup /\ i # id
    BY <1>3, <1>10
  <2>2. b.lookup[i].node # n
    BY <2>1 DEF BookOK, Pooled
  <2>3. b.lookup[i].node \in Slots
    BY <2>1 DEF BookOK, BookTypes
  <2> QED BY <2>1, <2>2, <2>3
<1>11. \A i, k \in 1 .. Len(c.free) : i # k => c.free[i] # c.free[k]
  <2>1. \A i \in 1 .. Len(b.free) : b.free[i] # n
    BY <1>2 DEF BookOK, Pooled
  <2>2. \A i, k \in 1 .. Len(b.free) : i # k => b.free[i] # b.free[k]
    BY DEF BookOK, Pooled
  <2> HIDE DEF c, n
  <2> QED BY <2>1, <2>2, <1>3, <1>6
<1>12. \A m \in Slots : c.node[m] = Destroyed <=> \E i \in 1 .. Len(c.free) : c.free[i] = m
  <2>1. /\ Len(c.free) = Len(b.free) + 1 /\ c.free[Len(b.free) + 1] = n
        /\ \A i \in 1 .. Len(b.free) : c.free[i] = b.free[i]
        /\ Len(b.free) \in Nat
    BY <1>3, <1>6, <1>2
  <2>2. \A m \in Slots : b.node[m] = Destroyed <=> \E i \in 1 .. Len(b.free) : b.free[i] = m
    BY DEF BookOK, Pooled
  <2>3. ASSUME NEW m \in Slots, m # n
        PROVE c.node[m] = Destroyed <=> \E i \in 1 .. Len(c.free) : c.free[i] = m
    <3>1. c.node[m] = Destroyed <=> b.node[m] = Destroyed
      BY <1>4, <2>3
    <3>2. (\E i \in 1 .. Len(c.free) : c.free[i] = m) <=> \E i \in 1 .. Len(b.free) : b.free[i] = m
      <4> HIDE DEF c, n
      <4>1. ASSUME NEW i \in 1 .. Len(c.free), c.free[i] = m PROVE i \in 1 .. Len(b.free)
        BY <4>1, <2>1, <2>3
      <4>2. \A i \in 1 .. Len(b.free) : i \in 1 .. Len(c.free)
        BY <2>1
      <4> QED BY <4>1, <4>2, <2>1
    <3> QED BY <3>1, <3>2, <2>2
  <2>4. \E i \in 1 .. Len(c.free) : c.free[i] = n
    BY <2>1
  <2> HIDE DEF c, n
  <2> QED BY <2>3, <2>4, <1>5
<1>13. ASSUME NEW m \in Slots, c.node[m] # Destroyed PROVE \E i \in DOMAIN c.lookup : c.lookup[i].node = m
  <2>1. m # n /\ b.node[m] # Destroyed
    BY <1>13, <1>4, <1>5
  <2>2. PICK i \in DOMAIN b.lookup : b.lookup[i].node = m
    BY <2>1 DEF BookOK, Pooled
  <2>3. i # id
    BY <2>1, <2>2
  <2> QED BY <2>2, <2>3, <1>3
<1>14. ASSUME NEW i \in DOMAIN c.lookup
       PROVE  /\ c.node[c.lookup[i].node] # Destroyed
              /\ c.node[c.lookup[i].node].order.id = i
              /\ c.node[c.lookup[i].node].order.price = c.lookup[i].level
  <2>1. /\ b.node[b.lookup[i].node] # Destroyed
        /\ b.node[b.lookup[i].node].order.id = i
        /\ b.node[b.lookup[i].node].order.price = b.lookup[i].level
    BY <1>10 DEF BookOK, Pooled
  <2> QED BY <2>1, <1>10, <1>4
<1> HIDE DEF c
<1>15. Pooled(c)
  BY <1>11, <1>12, <1>13, <1>14 DEF Pooled
<1> QED BY <1>9, <1>15 DEF c

LEMMA RemovedKeepsList ==
    ASSUME NEW b, NEW ar, BookOK(b, ar), NEW id \in DOMAIN b.lookup
    PROVE  Listed(Removed(b, id), Struck(ar, id))
<1> DEFINE c == Removed(b, id)
           br == Struck(ar, id)
           p == b.lookup[id].level
<1>1. PICK j \in 1 .. Len(ar[p]) : ar[p][j] = id
  BY InUseIsAPlace
<1>2. /\ br \in [Prices -> Seq(Ids)]
      /\ \A r \in Prices \ {p} : br[r] = ar[r]
      /\ Len(br[p]) = Len(ar[p]) - 1
      /\ \A k \in 1 .. Len(ar[p]) - 1 : br[p][k] = IF k < j THEN ar[p][k] ELSE ar[p][k + 1]
      /\ \A r \in Prices : \A k \in 1 .. Len(br[r]) : br[r][k] # id
  BY <1>1, StruckIs
<1>3. c.lookup = [i \in DOMAIN b.lookup \ {id} |-> b.lookup[i]]
  BY RemovedFields
<1>4. p \in Prices /\ Len(ar[p]) \in Nat
  BY DEF BookOK, BookTypes, Listed
<1>5. /\ \A r \in Prices : \A k \in 1 .. Len(ar[r]) :
            ar[r][k] \in DOMAIN b.lookup /\ b.lookup[ar[r][k]].level = r
      /\ \A r \in Prices : \A i, k \in 1 .. Len(ar[r]) : i # k => ar[r][i] # ar[r][k]
      /\ \A i \in DOMAIN b.lookup : b.lookup[i].level \in Prices
      /\ \A i \in DOMAIN b.lookup :
            \E k \in 1 .. Len(ar[b.lookup[i].level]) : ar[b.lookup[i].level][k] = i
  BY DEF BookOK, BookTypes, Listed
<1> HIDE DEF c, br, p
<1>6. ASSUME NEW r \in Prices, NEW k \in 1 .. Len(br[r])
      PROVE  br[r][k] \in DOMAIN c.lookup /\ c.lookup[br[r][k]].level = r
  <2>1. br[r][k] \in DOMAIN b.lookup /\ b.lookup[br[r][k]].level = r
    <3>1. CASE r # p
      BY <3>1, <1>2, <1>5
    <3>2. CASE r = p
      <4>1. k \in 1 .. Len(ar[p]) - 1 /\ k \in 1 .. Len(ar[p]) /\ k + 1 \in 1 .. Len(ar[p])
        BY <3>2, <1>2, <1>4
      <4>2. br[r][k] = ar[p][k] \/ br[r][k] = ar[p][k + 1]
        BY <3>2, <4>1, <1>2
      <4>3. \A i \in 1 .. Len(ar[p]) : ar[p][i] \in DOMAIN b.lookup /\ b.lookup[ar[p][i]].level = p
        BY <1>4, <1>5
      <4> QED BY <3>2, <4>1, <4>2, <4>3
    <3> QED BY <3>1, <3>2
  <2> QED BY <2>1, <1>2, <1>3
<1>7. ASSUME NEW r \in Prices, NEW i \in 1 .. Len(br[r]), NEW k \in 1 .. Len(br[r]), i # k
      PROVE  br[r][i] # br[r][k]
  <2>1. CASE r # p
    BY <2>1, <1>2, <1>5, <1>7
  <2>2. CASE r = p
    <3> DEFINE old(m) == IF m < j THEN m ELSE m + 1
    <3>1. /\ old(i) \in 1 .. Len(ar[p]) /\ br[p][i] = ar[p][old(i)]
          /\ old(k) \in 1 .. Len(ar[p]) /\ br[p][k] = ar[p][old(k)]
      BY <2>2, <1>2, <1>4
    <3>2. old(i) # old(k)
      BY <1>2, <1>4, <2>2, <1>7
    <3> HIDE DEF old
    <3> QED BY <3>1, <3>2, <1>4, <1>5, <2>2
  <2> QED BY <2>1, <2>2
<1>8. ASSUME NEW i \in DOMAIN c.lookup
      PROVE  \E k \in 1 .. Len(br[c.lookup[i].level]) : br[c.lookup[i].level][k] = i
  <2>1. i \in DOMAIN b.lookup /\ i # id /\ c.lookup[i] = b.lookup[i]
    BY <1>3, <1>8
  <2> DEFINE r == b.lookup[i].level
  <2>2. r \in Prices
    BY <2>1, <1>5
  <2>3. PICK k \in 1 .. Len(ar[r]) : ar[r][k] = i
    BY <2>1, <1>5
  <2> HIDE DEF r
  <2>4. \E m \in 1 .. Len(br[r]) : br[r][m] = i
    <3>1. CASE r # p
      BY <3>1, <2>2, <2>3, <1>2
    <3>2. CASE r = p
      <4> DEFINE m == IF k < j THEN k ELSE k - 1
      <4>1. k # j
        BY <2>1, <2>3, <1>1, <3>2 DEF p
      <4>2. m \in 1 .. Len(ar[p]) - 1 /\ br[p][m] = ar[p][k]
        BY <4>1, <1>2, <1>4, <3>2
      <4> HIDE DEF m
      <4> QED BY <4>2, <3>2, <2>3, <1>2
    <3> QED BY <3>1, <3>2
  <2> QED BY <2>1, <2>4 DEF r
<1>9. Listed(c, br)
  BY <1>2, <1>6, <1>7, <1>8 DEF Listed
<1> QED BY <1>9 DEF c, br

LEMMA RemovedKeepsChain ==
    ASSUME NEW b, NEW ar, BookOK(b, ar), NEW id \in DOMAIN b.lookup, NEW r \in Prices
    PROVE  Chained(Removed(b, id), Struck(ar, id), r)
<1> DEFINE c == Removed(b, id)
           br == Struck(ar, id)
           n == b.lookup[id].node
           p == b.lookup[id].level
           nd == b.node[n]
<1>1. PICK j \in 1 .. Len(ar[p]) : ar[p][j] = id /\ At(b, ar, p, j) = n
  BY InUseIsAPlace
<1>2. p \in Prices /\ Len(ar[p]) \in Nat /\ Len(ar[r]) \in Nat
  BY DEF BookOK, BookTypes, Listed
<1>3. /\ \A q \in Prices \ {p} : br[q] = ar[q]
      /\ Len(br[p]) = Len(ar[p]) - 1
      /\ \A k \in 1 .. Len(ar[p]) - 1 : br[p][k] = IF k < j THEN ar[p][k] ELSE ar[p][k + 1]
      /\ \A k \in 1 .. Len(br[r]) : At(c, br, r, k) = At(b, br, r, k)
  <2>1. \A q \in Prices \ {p} : br[q] = ar[q]
    BY <1>1, StruckIs
  <2>2. /\ Len(br[p]) = Len(ar[p]) - 1
        /\ \A k \in 1 .. Len(ar[p]) - 1 : br[p][k] = IF k < j THEN ar[p][k] ELSE ar[p][k + 1]
    BY <1>1, StruckIs
  <2>3. \A k \in 1 .. Len(br[r]) : At(c, br, r, k) = At(b, br, r, k)
    BY <1>1, StruckIs
  <2> QED BY <2>1, <2>2, <2>3
<1>4. /\ nd.prev = IF j = 1 THEN Null ELSE At(b, ar, p, j - 1)
      /\ nd.next = IF j = Len(ar[p]) THEN Null ELSE At(b, ar, p, j + 1)
  BY <1>1, <1>2 DEF BookOK, Linked, Chained
<1>5. ASSUME NEW i \in 1 .. Len(ar[r]), ~(r = p /\ i = j)
      PROVE  LET m == At(b, ar, r, i) IN
             /\ c.node[m].prev = IF r = p /\ i = j + 1 THEN nd.prev
                                 ELSE IF i = 1 THEN Null ELSE At(b, ar, r, i - 1)
             /\ c.node[m].next = IF r = p /\ i = j - 1 THEN nd.next
                                 ELSE IF i = Len(ar[r]) THEN Null ELSE At(b, ar, r, i + 1)
  <2> DEFINE m == At(b, ar, r, i)
             new == Spliced(b, nd)[m]
  <2>1. /\ m \in Slots /\ m # n
        /\ new.prev = IF r = p /\ i = j + 1 THEN nd.prev ELSE b.node[m].prev
        /\ new.next = IF r = p /\ i = j - 1 THEN nd.next ELSE b.node[m].next
    <3> HIDE DEF new
    <3> QED BY <1>1, <1>2, <1>5, SplicedPlaces DEF new
  <2>2. c.node = NodesLeft(b, b.lookup[id])
    BY RemovedFields
  <2>3. c.node[m] = new
    <3> HIDE DEF c, m
    <3> QED BY <2>1, <2>2 DEF NodesLeft
  <2>4. /\ b.node[m].prev = IF i = 1 THEN Null ELSE At(b, ar, r, i - 1)
        /\ b.node[m].next = IF i = Len(ar[r]) THEN Null ELSE At(b, ar, r, i + 1)
    BY DEF BookOK, Linked, Chained
  <2> HIDE DEF m, new, c, nd, p
  <2>5. /\ c.node[m].prev = IF r = p /\ i = j + 1 THEN nd.prev
                                 ELSE IF i = 1 THEN Null ELSE At(b, ar, r, i - 1)
        /\ c.node[m].next = IF r = p /\ i = j - 1 THEN nd.next
                                 ELSE IF i = Len(ar[r]) THEN Null ELSE At(b, ar, r, i + 1)
    BY <2>1, <2>3, <2>4
  <2> QED BY <2>5 DEF m
<1>6. CASE r # p
  <2>1. br[r] = ar[r] /\ \A k \in 1 .. Len(ar[r]) : At(c, br, r, k) = At(b, ar, r, k)
    BY <1>3, <1>2, <1>6 DEF At
  <2> HIDE DEF c, br, p, nd
  <2>2. ASSUME NEW k \in 1 .. Len(br[r])
        PROVE  /\ c.node[At(c, br, r, k)].prev = IF k = 1 THEN Null ELSE At(c, br, r, k - 1)
               /\ c.node[At(c, br, r, k)].next =
                     IF k = Len(br[r]) THEN Null ELSE At(c, br, r, k + 1)
    <3>1. k \in 1 .. Len(ar[r])
      BY <2>1
    <3>2. /\ c.node[At(b, ar, r, k)].prev = IF k = 1 THEN Null ELSE At(b, ar, r, k - 1)
          /\ c.node[At(b, ar, r, k)].next = IF k = Len(ar[r]) THEN Null ELSE At(b, ar, r, k + 1)
      BY <3>1, <1>5, <1>6
    <3>3. /\ k # 1 => k - 1 \in 1 .. Len(ar[r])
          /\ k # Len(ar[r]) => k + 1 \in 1 .. Len(ar[r])
      BY <3>1, <1>2
    <3> QED BY <3>1, <3>2, <3>3, <2>1
  <2> QED BY <2>2 DEF Chained, c, br
<1>7. CASE r = p
  <2> DEFINE old(k) == IF k < j THEN k ELSE k + 1
  <2>1. ASSUME NEW k \in 1 .. Len(br[p])
        PROVE  /\ old(k) \in 1 .. Len(ar[p]) /\ old(k) # j
               /\ At(c, br, p, k) = At(b, ar, p, old(k))
    <3>1. k \in 1 .. Len(ar[p]) - 1
      BY <1>3
    <3>2. At(c, br, p, k) = At(b, br, p, k)
      BY <1>3, <1>7
    <3>3. br[p][k] = ar[p][old(k)]
      BY <1>3, <3>1
    <3>4. old(k) \in 1 .. Len(ar[p]) /\ old(k) # j
      BY <3>1, <1>2
    <3> HIDE DEF old, br, c
    <3> QED BY <3>2, <3>3, <3>4 DEF At
  <2> HIDE DEF c, br, p, nd
  <2>2. ASSUME NEW k \in 1 .. Len(br[p])
        PROVE  /\ c.node[At(c, br, p, k)].prev = IF k = 1 THEN Null ELSE At(c, br, p, k - 1)
               /\ c.node[At(c, br, p, k)].next =
                     IF k = Len(br[p]) THEN Null ELSE At(c, br, p, k + 1)
    <3> DEFINE o == old(k)
    <3>1. /\ o \in 1 .. Len(ar[p]) /\ o # j /\ k \in 1 .. Len(ar[p]) - 1
          /\ At(c, br, p, k) = At(b, ar, p, o)
      BY <2>1, <1>3
    <3>2. /\ c.node[At(b, ar, p, o)].prev = IF o = j + 1 THEN nd.prev
                                 ELSE IF o = 1 THEN Null ELSE At(b, ar, p, o - 1)
          /\ c.node[At(b, ar, p, o)].next = IF o = j - 1 THEN nd.next
                                 ELSE IF o = Len(ar[p]) THEN Null ELSE At(b, ar, p, o + 1)
      <4> HIDE DEF old, o
      <4> QED BY <3>1, <1>5, <1>7
    <3>3. k # 1 => k - 1 \in 1 .. Len(br[p]) /\ At(c, br, p, k - 1) = At(b, ar, p, old(k - 1))
      <4>1. ASSUME k # 1 PROVE k - 1 \in 1 .. Len(br[p])
        BY <1>2, <1>3, <3>1, <4>1
      <4> HIDE DEF old
      <4> QED BY <4>1, <2>1
    <3>4. k # Len(br[p]) =>
             k + 1 \in 1 .. Len(br[p]) /\ At(c, br, p, k + 1) = At(b, ar, p, old(k + 1))
      <4>1. ASSUME k # Len(br[p]) PROVE k + 1 \in 1 .. Len(br[p])
        BY <1>2, <1>3, <3>1, <4>1
      <4> HIDE DEF old
      <4> QED BY <4>1, <2>1
    <3>5. c.node[At(b, ar, p, o)].prev = IF k = 1 THEN Null ELSE At(b, ar, p, old(k - 1))
      BY <3>1, <3>2, <1>2, <1>4
    <3>6. c.node[At(b, ar, p, o)].next =
             IF k = Len(ar[p]) - 1 THEN Null ELSE At(b, ar, p, old(k + 1))
      BY <3>1, <3>2, <1>2, <1>4
    <3> HIDE DEF old, o
    <3> QED BY <3>1, <3>3, <3>4, <3>5, <3>6, <1>3
  <2> QED BY <2>2, <1>7 DEF Chained, c, br
<1> QED BY <1>6, <1>7

LEMMA RemovedKeepsEnds ==
    ASSUME NEW b, NEW ar, BookOK(b, ar), NEW id \in DOMAIN b.lookup, NEW r \in Prices
    PROVE  Ended(Removed(b, id), Struck(ar, id), r)
<1> DEFINE c == Removed(b, id)
           br == Struck(ar, id)
           n == b.lookup[id].node
           p == b.lookup[id].level
           nd == b.node[n]
           lvl == LevelLeft(b.levels[p], nd)
           last == Len(ar[p])
<1>1. PICK j \in 1 .. last : ar[p][j] = id /\ At(b, ar, p, j) = n
  BY InUseIsAPlace
<1>2. p \in Prices /\ last \in Nat /\ Len(ar[r]) \in Nat
  BY DEF BookOK, BookTypes, Listed
<1>2a. /\ last # 0 /\ 1 \in 1 .. last
       /\ last # 1 => /\ 1 \in 1 .. last - 1 /\ last - 1 \in 1 .. last - 1
                      /\ 1 + 1 \in 1 .. last
       /\ j # 1 => j - 1 \in 1 .. last
       /\ j # last => j + 1 \in 1 .. last
  <2> HIDE DEF last
  <2> QED BY <1>1, <1>2
<1>3. /\ \A q \in Prices \ {p} : br[q] = ar[q]
      /\ Len(br[p]) = last - 1
      /\ \A k \in 1 .. last - 1 : br[p][k] = IF k < j THEN ar[p][k] ELSE ar[p][k + 1]
      /\ \A k \in 1 .. Len(br[r]) : At(c, br, r, k) = At(b, br, r, k)
  BY <1>1, StruckIs
<1>4. /\ nd.prev = IF j = 1 THEN Null ELSE At(b, ar, p, j - 1)
      /\ nd.next = IF j = last THEN Null ELSE At(b, ar, p, j + 1)
  BY <1>1, <1>2 DEF BookOK, Linked, Chained
<1>5. /\ r \in DOMAIN b.levels <=> Len(ar[r]) # 0
      /\ r \in DOMAIN b.levels =>
            b.levels[r] = [head |-> At(b, ar, r, 1), tail |-> At(b, ar, r, Len(ar[r]))]
      /\ p \in DOMAIN b.levels
      /\ b.levels[p] = [head |-> At(b, ar, p, 1), tail |-> At(b, ar, p, last)]
  <2>1. \A q \in Prices :
           /\ q \in DOMAIN b.levels <=> Len(ar[q]) # 0
           /\ q \in DOMAIN b.levels =>
                 b.levels[q] = [head |-> At(b, ar, q, 1), tail |-> At(b, ar, q, Len(ar[q]))]
    BY DEF BookOK, Linked, Ended
  <2> HIDE DEF p
  <2> QED BY <2>1, <1>2a, <1>2
<1>6. c.levels = IF lvl.head = Null
                   THEN [q \in DOMAIN b.levels \ {p} |-> b.levels[q]]
                   ELSE [b.levels EXCEPT ![p] = lvl]
  <2>1. c.levels = LevelsLeft(b, b.lookup[id])
    BY RemovedFields
  <2> HIDE DEF c
  <2> QED BY <2>1 DEF LevelsLeft
<1>7. DOMAIN b.levels = DOMAIN b.levels /\ b.levels = [q \in DOMAIN b.levels |-> b.levels[q]]
  BY DEF BookOK, BookTypes
<1>8. CASE r # p
  <2>1. /\ r \in DOMAIN c.levels <=> r \in DOMAIN b.levels
        /\ r \in DOMAIN b.levels => c.levels[r] = b.levels[r]
    <3> HIDE DEF c, p, lvl
    <3> QED BY <1>6, <1>7, <1>8
  <2>2. br[r] = ar[r] /\ \A k \in 1 .. Len(ar[r]) : At(c, br, r, k) = At(b, ar, r, k)
    BY <1>3, <1>2, <1>8 DEF At
  <2>3. Len(ar[r]) # 0 => 1 \in 1 .. Len(ar[r]) /\ Len(ar[r]) \in 1 .. Len(ar[r])
    BY <1>2
  <2> HIDE DEF c, br, p, lvl
  <2>4. Ended(c, br, r)
    BY <2>1, <2>2, <2>3, <1>5 DEF Ended
  <2> QED BY <2>4 DEF c, br
<1>9. CASE r = p
  <2>1. ASSUME NEW k \in 1 .. last - 1
        PROVE At(c, br, p, k) = IF k < j THEN At(b, ar, p, k) ELSE At(b, ar, p, k + 1)
    <3>1. At(c, br, p, k) = At(b, br, p, k)
      BY <1>3, <1>9
    <3>2. br[p][k] = IF k < j THEN ar[p][k] ELSE ar[p][k + 1]
      BY <1>3
    <3> HIDE DEF c, br, p
    <3> QED BY <3>1, <3>2 DEF At
  <2>2. \A k \in 1 .. last : At(b, ar, p, k) # Null
    <3>1. \A k \in 1 .. last : At(b, ar, p, k) \in Slots
      BY <1>2, PlacesAreApart
    <3> QED BY <3>1, ConstantsAssumption DEF Slots
  <2>3. lvl.head = IF last = 1 THEN Null ELSE At(c, br, p, 1)
    <3>1. lvl.head = IF nd.prev = Null THEN nd.next ELSE b.levels[p].head
      BY DEF LevelLeft
    <3>2. 1 \in 1 .. last - 1 \/ last = 1
      BY <1>2a
    <3>3. j - 1 \in 1 .. last \/ j = 1
      BY <1>2a
    <3> HIDE DEF lvl, nd, c, br, p
    <3>4. CASE j = 1
      BY <3>4, <3>1, <3>2, <2>1, <1>2, <1>4
    <3>5. CASE j # 1
      BY <3>5, <3>1, <3>2, <3>3, <2>1, <2>2, <1>2, <1>4, <1>5, <1>1
    <3> QED BY <3>4, <3>5
  <2>4. last # 1 => lvl.tail = At(c, br, p, last - 1)
    <3>1. lvl.tail = IF nd.next = Null THEN nd.prev ELSE b.levels[p].tail
      BY DEF LevelLeft
    <3>2. last - 1 \in 1 .. last - 1 \/ last = 1
      BY <1>2a
    <3>3. j + 1 \in 1 .. last \/ j = last
      BY <1>2a
    <3> HIDE DEF lvl, nd, c, br, p
    <3>4. CASE j = last
      BY <3>4, <3>1, <3>2, <2>1, <1>2, <1>4
    <3>5. CASE j # last
      BY <3>5, <3>1, <3>2, <3>3, <2>1, <2>2, <1>2, <1>4, <1>5, <1>1
    <3> QED BY <3>4, <3>5
  <2>5. lvl = [head |-> lvl.head, tail |-> lvl.tail]
    BY DEF LevelLeft
  <2>6. last # 1 => At(c, br, p, 1) # Null
    <3>1. last # 1 => 1 \in 1 .. last - 1
      BY <1>2a
    <3>2. 1 \in 1 .. last /\ (last # 1 => 1 + 1 \in 1 .. last)
      BY <1>2a
    <3> HIDE DEF c, br, p
    <3> QED BY <3>1, <3>2, <2>1, <2>2
  <2>7. Len(br[p]) = last - 1
    BY <1>3
  <2> HIDE DEF lvl, c, br, p, last
  <2>8. CASE last = 1
    BY <2>8, <2>3, <2>7, <1>6, <1>7, <1>9 DEF Ended, c, br
  <2>9. CASE last # 1
    <3>1. p \in DOMAIN c.levels /\ c.levels[p] = lvl
      BY <2>9, <2>3, <2>6, <1>5, <1>6, <1>7
    <3>2. Len(br[p]) # 0
      BY <2>7, <2>9, <1>2
    <3>3. c.levels[p] = [head |-> At(c, br, p, 1), tail |-> At(c, br, p, Len(br[p]))]
      BY <3>1, <2>3, <2>4, <2>5, <2>7, <2>9
    <3>4. Ended(c, br, p)
      BY <3>1, <3>2, <3>3 DEF Ended
    <3> QED BY <3>4, <1>9 DEF c, br
  <2> QED BY <2>8, <2>9
<1> QED BY <1>8, <1>9

LEMMA RemovedOK ==
    ASSUME NEW b, NEW ar, BookOK(b, ar), NEW id \in DOMAIN b.lookup
    PROVE  BookOK(Removed(b, id), Struck(ar, id))
<1>1. IsBook(Removed(b, id))
  BY RemovedFields
<1>2. BookTypes(Removed(b, id)) /\ Pooled(Removed(b, id))
  BY RemovedKeepsPool
<1>3. Listed(Removed(b, id), Struck(ar, id))
  BY RemovedKeepsList
<1>4. Linked(Removed(b, id), Struck(ar, id))
  BY RemovedKeepsChain, RemovedKeepsEnds DEF Linked
<1> QED BY <1>1, <1>2, <1>3, <1>4 DEF BookOK

-----------------------------------------------------------------------------
(* Putting an order in.                                                    *)

TailAt(b, p) == IF p \in DOMAIN b.levels THEN b.levels[p].tail ELSE Null

NodesLinked(b, n, o) ==
    [m \in Slots |-> IF m = n THEN [order |-> o, prev |-> TailAt(b, o.price), next |-> Null]
                     ELSE IF m = TailAt(b, o.price) THEN [b.node[m] EXCEPT !.next = n]
                     ELSE b.node[m]]

LevelsLinked(b, n, o) ==
    [p \in DOMAIN b.levels \union {o.price} |->
        IF p = o.price
          THEN [head |-> IF TailAt(b, p) = Null THEN n ELSE b.levels[p].head, tail |-> n]
          ELSE b.levels[p]]

LookupLinked(b, n, o) ==
    [id \in DOMAIN b.lookup \union {o.id} |->
        IF id = o.id THEN [node |-> n, level |-> o.price] ELSE b.lookup[id]]

LEMMA AddedFields ==
    ASSUME NEW b, NEW ar, BookOK(b, ar), b.free # <<>>,
           NEW o \in Order, o.id \notin DOMAIN b.lookup
    PROVE  LET n == b.free[Len(b.free)] IN
           /\ IsBook(Added(b, o))
           /\ Added(b, o).free = SubSeq(b.free, 1, Len(b.free) - 1)
           /\ Added(b, o).node = NodesLinked(b, n, o)
           /\ Added(b, o).levels = LevelsLinked(b, n, o)
           /\ Added(b, o).lookup = LookupLinked(b, n, o)
           /\ Added(b, o).nullWrite = FALSE
<1> DEFINE n == b.free[Len(b.free)]
           fr == SubSeq(b.free, 1, Len(b.free) - 1)
           a == [b EXCEPT !.free = fr]
           lk == [id \in DOMAIN b.lookup \union {o.id} |->
                     IF id \in DOMAIN b.lookup THEN b.lookup[id]
                     ELSE [node |-> n, level |-> o.price]]
           nl == NodesLinked(b, n, o)
           ll == LevelsLinked(b, n, o)
<1>1. /\ a = [free |-> fr, node |-> b.node, levels |-> b.levels, lookup |-> b.lookup,
              nullWrite |-> FALSE]
  <2> HIDE DEF fr
  <2>1. b.nullWrite = FALSE
    BY DEF BookOK, BookTypes
  <2>2. PICK f, nd, lv, lu, nw : b = [free |-> f, node |-> nd, levels |-> lv,
                                      lookup |-> lu, nullWrite |-> nw]
    BY DEF BookOK, IsBook
  <2>3. a = [free |-> fr, node |-> nd, levels |-> lv, lookup |-> lu, nullWrite |-> nw]
    BY <2>2
  <2> QED BY <2>1, <2>2, <2>3
<1>2. Added(b, o) = Link(a, n, o)
  BY DEF Added
<1> HIDE DEF a, fr
<1>3. Link(a, n, o) = [a EXCEPT !.node = nl, !.levels = ll, !.lookup = lk]
  <2> DEFINE tail == IF o.price \in DOMAIN a.levels THEN a.levels[o.price].tail ELSE Null
             head == IF tail = Null THEN n ELSE a.levels[o.price].head
             nl2 == [m \in Slots |->
                      IF m = n THEN [order |-> o, prev |-> tail, next |-> Null]
                      ELSE IF m = tail THEN [a.node[m] EXCEPT !.next = n]
                      ELSE a.node[m]]
             ll2 == [p \in DOMAIN a.levels \union {o.price} |->
                        IF p = o.price THEN [head |-> head, tail |-> n] ELSE a.levels[p]]
             lk2 == [id \in DOMAIN a.lookup \union {o.id} |->
                        IF id \in DOMAIN a.lookup THEN a.lookup[id]
                        ELSE [node |-> n, level |-> o.price]]
  <2>1. a.node = b.node /\ a.levels = b.levels /\ a.lookup = b.lookup
    BY <1>1
  <2>2. Link(a, n, o) = [a EXCEPT !.node = nl2, !.levels = ll2, !.lookup = lk2]
    BY DEF Link
  <2>3. tail = TailAt(b, o.price)
    BY <2>1 DEF TailAt
  <2> HIDE DEF tail
  <2>4. nl2 = nl
    BY <2>1, <2>3 DEF NodesLinked
  <2>5. ll2 = ll
    BY <2>1, <2>3 DEF LevelsLinked
  <2>6. lk2 = lk
    BY <2>1
  <2> HIDE DEF nl2, ll2, lk2, nl, ll, lk
  <2> QED BY <2>2, <2>4, <2>5, <2>6
<1>4. lk = LookupLinked(b, n, o)
  BY DEF LookupLinked
<1> HIDE DEF lk, nl, ll
<1>5. Added(b, o) = [free |-> fr, node |-> nl, levels |-> ll, lookup |-> lk,
                     nullWrite |-> FALSE]
  BY <1>1, <1>2, <1>3
<1>6. /\ IsBook(Added(b, o)) /\ Added(b, o).free = fr /\ Added(b, o).node = nl
      /\ Added(b, o).levels = ll /\ Added(b, o).lookup = lk
      /\ Added(b, o).nullWrite = FALSE
  BY <1>5 DEF IsBook
<1> QED BY <1>4, <1>6 DEF fr, nl, ll

\* The arrivals with an order more.
Joined(ar, o) == [ar EXCEPT ![o.price] = Append(@, o.id)]

\* The slot taken is no place of any list, and where the order is linked is
\* the last place of its level, if there is one.
LEMMA TakenIsFree ==
    ASSUME NEW b, NEW ar, BookOK(b, ar), b.free # <<>>, NEW p \in Prices
    PROVE  LET n == b.free[Len(b.free)] IN
           /\ n \in Slots /\ b.node[n] = Destroyed /\ Len(b.free) \in Nat \ {0}
           /\ \A id \in DOMAIN b.lookup : b.lookup[id].node # n
           /\ \A r \in Prices : \A k \in 1 .. Len(ar[r]) : At(b, ar, r, k) # n
           /\ TailAt(b, p) = IF Len(ar[p]) = 0 THEN Null ELSE At(b, ar, p, Len(ar[p]))
<1> DEFINE n == b.free[Len(b.free)]
<1>1. Len(b.free) \in Nat \ {0} /\ n \in Slots
  BY DEF BookOK, BookTypes
<1>2. b.node[n] = Destroyed
  <2>1. Len(b.free) \in 1 .. Len(b.free)
    BY <1>1
  <2> QED BY <1>1, <2>1 DEF BookOK, Pooled
<1>3. \A id \in DOMAIN b.lookup : b.lookup[id].node # n
  BY <1>2 DEF BookOK, Pooled
<1>4. \A r \in Prices : \A k \in 1 .. Len(ar[r]) : At(b, ar, r, k) # n
  <2>1. \A r \in Prices : \A k \in 1 .. Len(ar[r]) : b.node[At(b, ar, r, k)] \in Node
    BY PlacesAreApart
  <2> HIDE DEF n
  <2> QED BY <2>1, <1>2, ConstantsAssumption
<1>5. TailAt(b, p) = IF Len(ar[p]) = 0 THEN Null ELSE At(b, ar, p, Len(ar[p]))
  <2>1. Ended(b, ar, p)
    BY DEF BookOK, Linked
  <2> QED BY <2>1 DEF Ended, TailAt
<1> HIDE DEF n
<1> QED BY <1>1, <1>2, <1>3, <1>4, <1>5 DEF n

\* What linking slot n does to the other slots.
LEMMA LinkedSlots ==
    ASSUME NEW b, NEW ar, BookOK(b, ar), b.free # <<>>,
           NEW o \in Order, o.id \notin DOMAIN b.lookup,
           NEW m \in Slots, m # b.free[Len(b.free)]
    PROVE  LET n == b.free[Len(b.free)]
               new == Added(b, o).node[m]
           IN /\ b.node[m] = Destroyed => new = Destroyed
              /\ b.node[m] # Destroyed =>
                    /\ new \in Node /\ new # Destroyed /\ new.order = b.node[m].order
                    /\ new.prev = b.node[m].prev
                    /\ new.next = IF m = TailAt(b, o.price) THEN n ELSE b.node[m].next
<1> DEFINE n == b.free[Len(b.free)]
           new == Added(b, o).node[m]
           tail == TailAt(b, o.price)
           p == o.price
<1>1. new = IF m = tail THEN [b.node[m] EXCEPT !.next = n] ELSE b.node[m]
  <2>1. Added(b, o).node = NodesLinked(b, n, o)
    BY AddedFields
  <2> QED BY <2>1 DEF NodesLinked
<1>2. n \in Slots /\ p \in Prices
  BY TakenIsFree DEF Order
<1>3. m = tail => b.node[m] \in Node
  <2>1. tail = IF Len(ar[p]) = 0 THEN Null ELSE At(b, ar, p, Len(ar[p]))
    BY <1>2, TakenIsFree
  <2>2. m # Null
    BY ConstantsAssumption DEF Slots
  <2>3. ar[p] \in Seq(Ids)
    BY <1>2 DEF BookOK, Listed
  <2>4. Len(ar[p]) # 0 => Len(ar[p]) \in 1 .. Len(ar[p])
    <3> HIDE DEF p
    <3> QED BY <2>3
  <2>5. Len(ar[p]) # 0 => b.node[At(b, ar, p, Len(ar[p]))] \in Node
    BY <2>4, <1>2, PlacesAreApart
  <2> QED BY <2>1, <2>2, <2>5
<1>4. b.node[m] \in Node \union {Destroyed} /\ Destroyed \notin Node
  BY ConstantsAssumption DEF BookOK, BookTypes
<1>5. n \in Pointer
  BY <1>2 DEF Pointer
<1> HIDE DEF new, n, tail
<1>6. b.node[m] = Destroyed => new = Destroyed
  BY <1>1, <1>3, <1>4
<1>7. b.node[m] # Destroyed =>
         /\ new \in Node /\ new # Destroyed /\ new.order = b.node[m].order
         /\ new.prev = b.node[m].prev
         /\ new.next = IF m = tail THEN n ELSE b.node[m].next
  BY <1>1, <1>4, <1>5 DEF Node
<1> QED BY <1>6, <1>7 DEF new, n, tail

LEMMA AddedKeepsPool ==
    ASSUME NEW b, NEW ar, BookOK(b, ar), b.free # <<>>,
           NEW o \in Order, o.id \notin DOMAIN b.lookup
    PROVE  BookTypes(Added(b, o)) /\ Pooled(Added(b, o))
<1> DEFINE c == Added(b, o)
           n == b.free[Len(b.free)]
           p == o.price
           last == Len(b.free)
           tail == TailAt(b, p)
<1>1. /\ c.free = SubSeq(b.free, 1, last - 1)
      /\ c.node = NodesLinked(b, n, o)
      /\ c.levels = LevelsLinked(b, n, o)
      /\ c.lookup = [id \in DOMAIN b.lookup \union {o.id} |->
                        IF id = o.id THEN [node |-> n, level |-> p] ELSE b.lookup[id]]
      /\ c.nullWrite = FALSE
  <2>1. c.free = SubSeq(b.free, 1, last - 1) /\ c.node = NodesLinked(b, n, o)
    BY AddedFields
  <2>2. c.levels = LevelsLinked(b, n, o) /\ c.nullWrite = FALSE
    BY AddedFields
  <2>3. c.lookup = [id \in DOMAIN b.lookup \union {o.id} |->
                        IF id = o.id THEN [node |-> n, level |-> p] ELSE b.lookup[id]]
    <3>1. c.lookup = LookupLinked(b, n, o)
      BY AddedFields
    <3> HIDE DEF c, n
    <3> QED BY <3>1 DEF LookupLinked
  <2> HIDE DEF c
  <2> QED BY <2>1, <2>2, <2>3
<1>2. /\ p \in Prices /\ o.id \in Ids /\ n \in Slots /\ b.node[n] = Destroyed
      /\ last \in Nat \ {0} /\ b.free \in Seq(Slots)
      /\ \A id \in DOMAIN b.lookup : b.lookup[id].node # n
  BY TakenIsFree DEF Order, BookOK, BookTypes
<1>3. tail \in Pointer /\ (tail # Null => p \in DOMAIN b.levels)
  BY DEF TailAt, BookOK, BookTypes, Pointer
<1>4. c.node[n] = [order |-> o, prev |-> tail, next |-> Null] /\ c.node[n] \in Node
  <2>1. c.node[n] = [order |-> o, prev |-> tail, next |-> Null]
    <3> HIDE DEF c, n
    <3> QED BY <1>1, <1>2 DEF NodesLinked
  <2> HIDE DEF c, tail
  <2> QED BY <2>1, <1>3 DEF Node, Pointer
<1>5. ASSUME NEW m \in Slots, m # n
      PROVE  /\ b.node[m] = Destroyed => c.node[m] = Destroyed
             /\ b.node[m] # Destroyed =>
                   c.node[m] \in Node /\ c.node[m] # Destroyed /\ c.node[m].order = b.node[m].order
  BY <1>5, LinkedSlots
<1>6. c.node \in [Slots -> Node \union {Destroyed}]
  <2>1. \A m \in Slots : c.node[m] \in Node \union {Destroyed}
    BY <1>4, <1>5
  <2>2. DOMAIN c.node = Slots /\ c.node = [m \in Slots |-> c.node[m]]
    <3> HIDE DEF c
    <3> QED BY <1>1 DEF NodesLinked
  <2> HIDE DEF c
  <2> QED BY <2>1, <2>2
<1>7. /\ DOMAIN c.levels \subseteq Prices
      /\ c.levels \in [DOMAIN c.levels -> [head : Slots, tail : Slots]]
  <2>1. b.levels \in [DOMAIN b.levels -> [head : Slots, tail : Slots]] /\ DOMAIN b.levels \subseteq Prices
    BY DEF BookOK, BookTypes
  <2>2. TailAt(b, p) # Null => p \in DOMAIN b.levels
    BY <1>3
  <2> HIDE DEF c, n, p
  <2>3. c.levels = [q \in DOMAIN b.levels \union {p} |->
                      IF q = p
                        THEN [head |-> IF TailAt(b, q) = Null THEN n ELSE b.levels[q].head, tail |-> n]
                        ELSE b.levels[q]]
    BY <1>1 DEF LevelsLinked, p
  <2> QED BY <2>1, <2>2, <2>3, <1>2
<1>8. BookTypes(c)
  <2>1. DOMAIN b.lookup \subseteq Ids /\ b.lookup \in [DOMAIN b.lookup -> [node : Slots, level : Prices]]
    BY DEF BookOK, BookTypes
  <2> HIDE DEF c, n, p
  <2>2. /\ DOMAIN c.lookup \subseteq Ids
        /\ c.lookup \in [DOMAIN c.lookup -> [node : Slots, level : Prices]]
    BY <2>1, <1>1, <1>2
  <2>3. c.free \in Seq(Slots)
    BY <1>1, <1>2
  <2> QED BY <1>1, <1>6, <1>7, <2>2, <2>3 DEF BookTypes
<1>9. /\ Len(c.free) = last - 1
      /\ \A i \in 1 .. last - 1 : c.free[i] = b.free[i]
  <2> HIDE DEF c
  <2> QED BY <1>1, <1>2
<1>10. \A i, k \in 1 .. Len(b.free) : i # k => b.free[i] # b.free[k]
  BY DEF BookOK, Pooled
<1>11. \A m \in Slots : c.node[m] = Destroyed <=> \E i \in 1 .. Len(c.free) : c.free[i] = m
  <2>1. \A m \in Slots : b.node[m] = Destroyed <=> \E i \in 1 .. Len(b.free) : b.free[i] = m
    BY DEF BookOK, Pooled
  <2>2. ASSUME NEW m \in Slots, m # n
        PROVE c.node[m] = Destroyed <=> \E i \in 1 .. Len(c.free) : c.free[i] = m
    <3>1. c.node[m] = Destroyed <=> b.node[m] = Destroyed
      BY <1>5, <2>2
    <3>2. (\E i \in 1 .. Len(c.free) : c.free[i] = m) <=> \E i \in 1 .. Len(b.free) : b.free[i] = m
      <4> HIDE DEF c
      <4> QED BY <1>9, <1>2, <2>2
    <3> QED BY <3>1, <3>2, <2>1
  <2>3. ~ \E i \in 1 .. Len(c.free) : c.free[i] = n
    <3> HIDE DEF c
    <3> QED BY <1>9, <1>2, <1>10
  <2>4. c.node[n] # Destroyed
    <3> HIDE DEF c
    <3> QED BY <1>4, ConstantsAssumption
  <2> HIDE DEF c, n
  <2> QED BY <2>2, <2>3, <2>4
<1>12. ASSUME NEW m \in Slots, c.node[m] # Destroyed PROVE \E i \in DOMAIN c.lookup : c.lookup[i].node = m
  <2>1. CASE m = n
    <3> HIDE DEF c, n
    <3> QED BY <2>1, <1>1
  <2>2. CASE m # n
    <3>1. PICK i \in DOMAIN b.lookup : b.lookup[i].node = m
      BY <2>2, <1>5, <1>12 DEF BookOK, Pooled
    <3> HIDE DEF c
    <3> QED BY <3>1, <1>1
  <2> QED BY <2>1, <2>2
<1>13. ASSUME NEW i \in DOMAIN c.lookup
       PROVE  /\ c.node[c.lookup[i].node] # Destroyed
              /\ c.node[c.lookup[i].node].order.id = i
              /\ c.node[c.lookup[i].node].order.price = c.lookup[i].level
  <2>1. CASE i = o.id
    <3> HIDE DEF c, n, tail
    <3>1. c.lookup[i].node = n /\ c.lookup[i].level = p
      BY <2>1, <1>1
    <3>2. c.node[n].order = o /\ c.node[n] # Destroyed
      BY <1>4, ConstantsAssumption
    <3> QED BY <3>1, <3>2, <2>1
  <2>2. CASE i # o.id
    <3> HIDE DEF c, n
    <3>1. i \in DOMAIN b.lookup /\ c.lookup[i] = b.lookup[i]
      BY <2>2, <1>1, <1>13
    <3>2. /\ b.node[b.lookup[i].node] # Destroyed
          /\ b.node[b.lookup[i].node].order.id = i
          /\ b.node[b.lookup[i].node].order.price = b.lookup[i].level
          /\ b.lookup[i].node \in Slots
      BY <3>1 DEF BookOK, BookTypes, Pooled
    <3> QED BY <3>1, <3>2, <1>2, <1>5
  <2> QED BY <2>1, <2>2
<1>14. \A i, k \in 1 .. Len(c.free) : i # k => c.free[i] # c.free[k]
  <2> HIDE DEF c
  <2> QED BY <1>9, <1>2, <1>10
<1> HIDE DEF c
<1>15. Pooled(c)
  BY <1>11, <1>12, <1>13, <1>14 DEF Pooled
<1> QED BY <1>8, <1>15 DEF c

\* The arrivals and the places once an order has joined.
LEMMA JoinedIs ==
    ASSUME NEW b, NEW ar, BookOK(b, ar), b.free # <<>>,
           NEW o \in Order, o.id \notin DOMAIN b.lookup
    PROVE  LET p == o.price
               br == Joined(ar, o)
               c == Added(b, o)
           IN /\ p \in Prices /\ br \in [Prices -> Seq(Ids)] /\ ar \in [Prices -> Seq(Ids)]
              /\ \A r \in Prices \ {p} : br[r] = ar[r]
              /\ Len(br[p]) = Len(ar[p]) + 1 /\ Len(ar[p]) \in Nat
              /\ br[p][Len(ar[p]) + 1] = o.id
              /\ \A r \in Prices : \A k \in 1 .. Len(ar[r]) :
                    /\ br[r][k] = ar[r][k]
                    /\ At(c, br, r, k) = At(b, ar, r, k)
              /\ At(c, br, p, Len(ar[p]) + 1) = b.free[Len(b.free)]
<1> DEFINE p == o.price
           br == Joined(ar, o)
           c == Added(b, o)
<1>1. p \in Prices /\ o.id \in Ids /\ ar \in [Prices -> Seq(Ids)]
  BY DEF Order, BookOK, Listed
<1>2. \A r \in Prices : br[r] = IF r = p THEN Append(ar[p], o.id) ELSE ar[r]
  BY <1>1 DEF Joined
<1>3. DOMAIN br = Prices /\ br = [r \in Prices |-> br[r]]
  BY <1>1 DEF Joined
<1> HIDE DEF br, p
<1>4. /\ Append(ar[p], o.id) \in Seq(Ids) /\ Len(Append(ar[p], o.id)) = Len(ar[p]) + 1
      /\ Len(ar[p]) \in Nat /\ Append(ar[p], o.id)[Len(ar[p]) + 1] = o.id
      /\ \A k \in 1 .. Len(ar[p]) : Append(ar[p], o.id)[k] = ar[p][k]
  BY <1>1
<1>5. br \in [Prices -> Seq(Ids)]
  <2>1. \A r \in Prices : br[r] \in Seq(Ids)
    BY <1>1, <1>2, <1>4
  <2> QED BY <2>1, <1>3
<1>6. c.lookup = [id \in DOMAIN b.lookup \union {o.id} |->
                     IF id = o.id THEN [node |-> b.free[Len(b.free)], level |-> o.price]
                     ELSE b.lookup[id]]
  <2>1. c.lookup = LookupLinked(b, b.free[Len(b.free)], o)
    BY AddedFields
  <2> HIDE DEF c
  <2> QED BY <2>1 DEF LookupLinked
<1> HIDE DEF c
<1>7. At(c, br, p, Len(ar[p]) + 1) = b.free[Len(b.free)]
  <2>1. br[p][Len(ar[p]) + 1] = o.id
    BY <1>1, <1>2, <1>4
  <2> QED BY <2>1, <1>6 DEF At
<1>8. ASSUME NEW r \in Prices, NEW k \in 1 .. Len(ar[r])
      PROVE  br[r][k] = ar[r][k] /\ At(c, br, r, k) = At(b, ar, r, k)
  <2>1. br[r][k] = ar[r][k]
    BY <1>2, <1>4
  <2>2. ar[r][k] \in DOMAIN b.lookup
    BY DEF BookOK, Listed
  <2> QED BY <2>1, <2>2, <1>6 DEF At
<1>9. \A r \in Prices \ {p} : br[r] = ar[r]
  BY <1>2
<1>10. Len(br[p]) = Len(ar[p]) + 1 /\ br[p][Len(ar[p]) + 1] = o.id
  BY <1>1, <1>2, <1>4
<1>11. /\ p \in Prices /\ br \in [Prices -> Seq(Ids)] /\ ar \in [Prices -> Seq(Ids)]
       /\ \A r \in Prices \ {p} : br[r] = ar[r]
       /\ Len(br[p]) = Len(ar[p]) + 1 /\ Len(ar[p]) \in Nat
       /\ br[p][Len(ar[p]) + 1] = o.id
       /\ \A r \in Prices : \A k \in 1 .. Len(ar[r]) :
             /\ br[r][k] = ar[r][k]
             /\ At(c, br, r, k) = At(b, ar, r, k)
       /\ At(c, br, p, Len(ar[p]) + 1) = b.free[Len(b.free)]
  BY <1>1, <1>4, <1>5, <1>7, <1>8, <1>9, <1>10
<1> QED BY <1>11 DEF br, p, c

LEMMA AddedKeepsList ==
    ASSUME NEW b, NEW ar, BookOK(b, ar), b.free # <<>>,
           NEW o \in Order, o.id \notin DOMAIN b.lookup
    PROVE  Listed(Added(b, o), Joined(ar, o))
<1> DEFINE p == o.price
           br == Joined(ar, o)
           c == Added(b, o)
           n == b.free[Len(b.free)]
           last == Len(ar[p])
<1>1. /\ p \in Prices /\ br \in [Prices -> Seq(Ids)]
      /\ \A r \in Prices \ {p} : br[r] = ar[r]
      /\ Len(br[p]) = last + 1 /\ last \in Nat
      /\ br[p][last + 1] = o.id
      /\ \A r \in Prices : \A k \in 1 .. Len(ar[r]) : br[r][k] = ar[r][k]
  <2> HIDE DEF br
  <2> QED BY JoinedIs DEF br
<1>2. c.lookup = [id \in DOMAIN b.lookup \union {o.id} |->
                     IF id = o.id THEN [node |-> n, level |-> p] ELSE b.lookup[id]]
  <2>1. c.lookup = LookupLinked(b, n, o)
    BY AddedFields
  <2> HIDE DEF c, n
  <2> QED BY <2>1 DEF LookupLinked
<1>3. /\ \A r \in Prices : \A k \in 1 .. Len(ar[r]) :
            ar[r][k] \in DOMAIN b.lookup /\ b.lookup[ar[r][k]].level = r
      /\ \A r \in Prices : \A i, k \in 1 .. Len(ar[r]) : i # k => ar[r][i] # ar[r][k]
      /\ \A i \in DOMAIN b.lookup : b.lookup[i].level \in Prices
      /\ \A i \in DOMAIN b.lookup :
            \E k \in 1 .. Len(ar[b.lookup[i].level]) : ar[b.lookup[i].level][k] = i
  BY DEF BookOK, BookTypes, Listed
<1> HIDE DEF c, br, p, n, last
<1>4. /\ \A k \in 1 .. last + 1 : k \in 1 .. last \/ k = last + 1
      /\ 1 .. last \subseteq 1 .. last + 1 /\ last + 1 \in 1 .. last + 1
  BY <1>1
<1>5. ASSUME NEW r \in Prices, NEW k \in 1 .. Len(br[r])
      PROVE  \/ k \in 1 .. Len(ar[r]) /\ br[r][k] = ar[r][k] /\ br[r][k] # o.id
             \/ r = p /\ k = last + 1 /\ br[r][k] = o.id
  <2>1. k \in 1 .. Len(ar[r]) \/ (r = p /\ k = last + 1)
    <3>1. CASE r # p
      <4>1. br[r] = ar[r]
        BY <3>1, <1>1
      <4> QED BY <4>1
    <3>2. CASE r = p
      <4>1. k \in 1 .. last \/ k = last + 1
        BY <3>2, <1>1, <1>4
      <4>2. last = Len(ar[r])
        BY <3>2 DEF last
      <4> QED BY <4>1, <4>2, <3>2
    <3> QED BY <3>1, <3>2
  <2> QED BY <2>1, <1>1, <1>3
<1>6. ASSUME NEW r \in Prices, NEW k \in 1 .. Len(br[r])
      PROVE  br[r][k] \in DOMAIN c.lookup /\ c.lookup[br[r][k]].level = r
  BY <1>2, <1>3, <1>5
<1>7. ASSUME NEW r \in Prices, NEW i \in 1 .. Len(br[r]), NEW k \in 1 .. Len(br[r]), i # k
      PROVE  br[r][i] # br[r][k]
  BY <1>3, <1>5, <1>7
<1>8. ASSUME NEW i \in DOMAIN c.lookup
      PROVE  \E k \in 1 .. Len(br[c.lookup[i].level]) : br[c.lookup[i].level][k] = i
  <2>1. CASE i = o.id
    <3>1. c.lookup[i].level = p
      BY <2>1, <1>2
    <3> QED BY <3>1, <2>1, <1>1, <1>4
  <2>2. CASE i # o.id
    <3> DEFINE r == b.lookup[i].level
    <3>1. i \in DOMAIN b.lookup /\ c.lookup[i].level = r
      BY <2>2, <1>2, <1>8
    <3>2. r \in Prices
      BY <3>1, <1>3
    <3>3. PICK k \in 1 .. Len(ar[r]) : ar[r][k] = i
      BY <3>1, <1>3
    <3> HIDE DEF r
    <3>4. k \in 1 .. Len(br[r])
      BY <3>2, <1>1, <1>4 DEF last
    <3> QED BY <3>1, <3>2, <3>3, <3>4, <1>1
  <2> QED BY <2>1, <2>2
<1>9. Listed(c, br)
  BY <1>1, <1>6, <1>7, <1>8 DEF Listed
<1> QED BY <1>9 DEF c, br

LEMMA AddedKeepsChain ==
    ASSUME NEW b, NEW ar, BookOK(b, ar), b.free # <<>>,
           NEW o \in Order, o.id \notin DOMAIN b.lookup, NEW r \in Prices
    PROVE  Chained(Added(b, o), Joined(ar, o), r)
<1> DEFINE p == o.price
           br == Joined(ar, o)
           c == Added(b, o)
           n == b.free[Len(b.free)]
           last == Len(ar[p])
           tail == TailAt(b, p)
<1>1. /\ p \in Prices /\ ar \in [Prices -> Seq(Ids)]
      /\ \A q \in Prices \ {p} : br[q] = ar[q]
      /\ Len(br[p]) = last + 1 /\ last \in Nat
      /\ \A q \in Prices : \A k \in 1 .. Len(ar[q]) : At(c, br, q, k) = At(b, ar, q, k)
      /\ At(c, br, p, last + 1) = n
  <2> HIDE DEF br, c
  <2> QED BY JoinedIs DEF br, c
<1>2. /\ n \in Slots
      /\ \A q \in Prices : \A k \in 1 .. Len(ar[q]) : At(b, ar, q, k) # n
      /\ tail = IF last = 0 THEN Null ELSE At(b, ar, p, last)
  BY <1>1, TakenIsFree
<1>3. c.node[n] = [order |-> o, prev |-> tail, next |-> Null]
  <2>1. c.node = NodesLinked(b, n, o)
    BY AddedFields
  <2> HIDE DEF c, n
  <2> QED BY <2>1, <1>2 DEF NodesLinked
<1>4. ASSUME NEW q \in Prices, NEW k \in 1 .. Len(ar[q])
      PROVE  /\ c.node[At(b, ar, q, k)].prev = IF k = 1 THEN Null ELSE At(b, ar, q, k - 1)
             /\ c.node[At(b, ar, q, k)].next =
                   IF q = p /\ k = last THEN n
                   ELSE IF k = Len(ar[q]) THEN Null ELSE At(b, ar, q, k + 1)
  <2> DEFINE m == At(b, ar, q, k)
  <2>1. m \in Slots /\ m # n /\ b.node[m] \in Node /\ b.node[m] # Destroyed
    BY <1>2, PlacesAreApart, ConstantsAssumption
  <2>2. /\ c.node[m].prev = b.node[m].prev
        /\ c.node[m].next = IF m = tail THEN n ELSE b.node[m].next
    BY <2>1, LinkedSlots
  <2>3. /\ b.node[m].prev = IF k = 1 THEN Null ELSE At(b, ar, q, k - 1)
        /\ b.node[m].next = IF k = Len(ar[q]) THEN Null ELSE At(b, ar, q, k + 1)
    BY DEF BookOK, Linked, Chained
  <2>4. m = tail <=> q = p /\ k = last
    <3>1. m # Null
      BY <2>1, ConstantsAssumption DEF Slots
    <3>2. last # 0 => last \in 1 .. last
      <4> HIDE DEF last
      <4> QED BY <1>1
    <3>3. last # 0 /\ m = At(b, ar, p, last) => q = p /\ k = last
      BY <3>2, <1>1, PlacesAreApart
    <3>4. q = p /\ k = last => last # 0
      BY <1>1
    <3> HIDE DEF m, last, tail, p
    <3> QED BY <3>1, <3>3, <3>4, <1>2 DEF m
  <2> HIDE DEF m, c, n, last, tail, p
  <2>5. /\ c.node[m].prev = IF k = 1 THEN Null ELSE At(b, ar, q, k - 1)
        /\ c.node[m].next = IF q = p /\ k = last THEN n
                            ELSE IF k = Len(ar[q]) THEN Null ELSE At(b, ar, q, k + 1)
    BY <2>2, <2>3, <2>4
  <2> QED BY <2>5 DEF m
<1>5. Len(ar[r]) \in Nat
  BY <1>1
<1> HIDE DEF br, c, n, tail, p, last
<1>6. ASSUME NEW k \in 1 .. Len(ar[r])
      PROVE  /\ c.node[At(c, br, r, k)].prev = IF k = 1 THEN Null ELSE At(c, br, r, k - 1)
             /\ c.node[At(c, br, r, k)].next =
                   IF k = Len(br[r]) THEN Null ELSE At(c, br, r, k + 1)
  <2>1. /\ k # 1 => k - 1 \in 1 .. Len(ar[r])
        /\ k # Len(ar[r]) => k + 1 \in 1 .. Len(ar[r])
    BY <1>5
  <2>2. CASE r = p
    <3>1. Len(ar[r]) = last /\ Len(br[r]) = last + 1 /\ k # last + 1
      BY <2>2, <1>1 DEF last
    <3>2. /\ At(c, br, r, k) = At(b, ar, r, k)
          /\ k # 1 => At(c, br, r, k - 1) = At(b, ar, r, k - 1)
          /\ k # last => At(c, br, r, k + 1) = At(b, ar, r, k + 1)
      BY <2>1, <3>1, <1>1
    <3>3. k = last => At(c, br, r, k + 1) = n
      BY <2>2, <1>1
    <3>4. /\ c.node[At(b, ar, r, k)].prev = IF k = 1 THEN Null ELSE At(b, ar, r, k - 1)
          /\ c.node[At(b, ar, r, k)].next = IF k = last THEN n ELSE At(b, ar, r, k + 1)
      BY <2>2, <3>1, <1>4
    <3> QED BY <3>1, <3>2, <3>3, <3>4
  <2>3. CASE r # p
    <3>1. Len(br[r]) = Len(ar[r])
      BY <2>3, <1>1
    <3>2. /\ At(c, br, r, k) = At(b, ar, r, k)
          /\ k # 1 => At(c, br, r, k - 1) = At(b, ar, r, k - 1)
          /\ k # Len(ar[r]) => At(c, br, r, k + 1) = At(b, ar, r, k + 1)
      BY <2>1, <1>1
    <3>3. /\ c.node[At(b, ar, r, k)].prev = IF k = 1 THEN Null ELSE At(b, ar, r, k - 1)
          /\ c.node[At(b, ar, r, k)].next =
                IF k = Len(ar[r]) THEN Null ELSE At(b, ar, r, k + 1)
      BY <2>3, <1>4
    <3> QED BY <3>1, <3>2, <3>3
  <2> QED BY <2>2, <2>3
<1>7. ASSUME NEW k \in 1 .. Len(br[r]), k \notin 1 .. Len(ar[r])
      PROVE  /\ c.node[At(c, br, r, k)].prev = IF k = 1 THEN Null ELSE At(c, br, r, k - 1)
             /\ c.node[At(c, br, r, k)].next =
                   IF k = Len(br[r]) THEN Null ELSE At(c, br, r, k + 1)
  <2>1. r = p /\ Len(ar[r]) = last
    BY <1>1, <1>7 DEF last
  <2>2. k = last + 1 /\ k = Len(br[r]) /\ (k # 1 => k - 1 = last /\ last \in 1 .. last)
        /\ (k = 1 <=> last = 0)
    BY <2>1, <1>1, <1>7
  <2>3. c.node[At(c, br, r, k)].prev = tail /\ c.node[At(c, br, r, k)].next = Null
    BY <2>1, <2>2, <1>1, <1>3
  <2> QED BY <2>1, <2>2, <2>3, <1>1, <1>2
<1> QED BY <1>6, <1>7 DEF Chained, c, br

LEMMA AddedKeepsEnds ==
    ASSUME NEW b, NEW ar, BookOK(b, ar), b.free # <<>>,
           NEW o \in Order, o.id \notin DOMAIN b.lookup, NEW r \in Prices
    PROVE  Ended(Added(b, o), Joined(ar, o), r)
<1> DEFINE p == o.price
           br == Joined(ar, o)
           c == Added(b, o)
           n == b.free[Len(b.free)]
           last == Len(ar[p])
           tail == TailAt(b, p)
<1>1. /\ p \in Prices /\ ar \in [Prices -> Seq(Ids)]
      /\ \A q \in Prices \ {p} : br[q] = ar[q]
      /\ Len(br[p]) = last + 1 /\ last \in Nat
      /\ \A q \in Prices : \A k \in 1 .. Len(ar[q]) : At(c, br, q, k) = At(b, ar, q, k)
      /\ At(c, br, p, last + 1) = n
  <2> HIDE DEF br, c
  <2> QED BY JoinedIs DEF br, c
<1>2. tail = IF last = 0 THEN Null ELSE At(b, ar, p, last)
  BY <1>1, TakenIsFree
<1>3. \A q \in Prices :
         /\ q \in DOMAIN b.levels <=> Len(ar[q]) # 0
         /\ q \in DOMAIN b.levels =>
               b.levels[q] = [head |-> At(b, ar, q, 1), tail |-> At(b, ar, q, Len(ar[q]))]
  BY DEF BookOK, Linked, Ended
<1>4. c.levels = LevelsLinked(b, n, o)
  BY AddedFields
<1>5. Len(ar[r]) \in Nat
  BY <1>1
<1>6. last # 0 => At(b, ar, p, last) # Null /\ 1 \in 1 .. last /\ last \in 1 .. last
  <2>1. last # 0 => 1 \in 1 .. last /\ last \in 1 .. last
    <3> HIDE DEF last
    <3> QED BY <1>1
  <2>2. last # 0 => At(b, ar, p, last) \in Slots
    BY <2>1, <1>1, PlacesAreApart
  <2> QED BY <2>1, <2>2, ConstantsAssumption DEF Slots
<1>7. CASE r # p
  <2> HIDE DEF br, c, n
  <2>1. br[r] = ar[r] /\ \A k \in 1 .. Len(ar[r]) : At(c, br, r, k) = At(b, ar, r, k)
    BY <1>1, <1>7
  <2>2. /\ r \in DOMAIN c.levels <=> r \in DOMAIN b.levels
        /\ r \in DOMAIN b.levels => c.levels[r] = b.levels[r]
    BY <1>4, <1>7 DEF LevelsLinked
  <2>3. Len(ar[r]) # 0 => 1 \in 1 .. Len(ar[r]) /\ Len(ar[r]) \in 1 .. Len(ar[r])
    BY <1>5
  <2> HIDE DEF p
  <2>4. Ended(c, br, r)
    BY <2>1, <2>2, <2>3, <1>3 DEF Ended
  <2> QED BY <2>4 DEF c, br
<1>8. CASE r = p
  <2>1. /\ p \in DOMAIN c.levels
        /\ c.levels[p] = [head |-> IF tail = Null THEN n ELSE b.levels[p].head, tail |-> n]
    <3> HIDE DEF c, n
    <3> QED BY <1>4 DEF LevelsLinked
  <2> HIDE DEF br, c, n, p, last, tail
  <2>2. tail = Null <=> last = 0
    BY <1>2, <1>6
  <2>3. last # 0 => b.levels[p].head = At(c, br, p, 1)
    <3>1. last # 0 => p \in DOMAIN b.levels
      BY <1>1, <1>3 DEF last
    <3>2. last # 0 => At(c, br, p, 1) = At(b, ar, p, 1)
      <4>1. last # 0 => 1 \in 1 .. Len(ar[p])
        BY <1>6 DEF last
      <4> QED BY <4>1, <1>1
    <3>3. p \in DOMAIN b.levels => b.levels[p].head = At(b, ar, p, 1)
      <4>1. p \in Prices
        BY <1>1
      <4>2. p \in DOMAIN b.levels =>
               b.levels[p] = [head |-> At(b, ar, p, 1), tail |-> At(b, ar, p, Len(ar[p]))]
        BY <4>1, <1>3
      <4> QED BY <4>2
    <3> QED BY <3>1, <3>2, <3>3
  <2>4. last = 0 => At(c, br, p, 1) = n
    BY <1>1
  <2>5. c.levels[p] = [head |-> At(c, br, p, 1), tail |-> At(c, br, p, Len(br[p]))]
    BY <2>1, <2>2, <2>3, <2>4, <1>1
  <2>6. Len(br[p]) # 0
    BY <1>1
  <2>7. Ended(c, br, p)
    BY <2>1, <2>5, <2>6 DEF Ended
  <2> QED BY <2>7, <1>8 DEF c, br
<1> QED BY <1>7, <1>8

LEMMA AddedOK ==
    ASSUME NEW b, NEW ar, BookOK(b, ar), b.free # <<>>,
           NEW o \in Order, o.id \notin DOMAIN b.lookup
    PROVE  BookOK(Added(b, o), Joined(ar, o))
<1>1. IsBook(Added(b, o))
  BY AddedFields
<1>2. BookTypes(Added(b, o)) /\ Pooled(Added(b, o))
  BY AddedKeepsPool
<1>3. Listed(Added(b, o), Joined(ar, o))
  BY AddedKeepsList
<1>4. Linked(Added(b, o), Joined(ar, o))
  BY AddedKeepsChain, AddedKeepsEnds DEF Linked
<1> QED BY <1>1, <1>2, <1>3, <1>4 DEF BookOK

-----------------------------------------------------------------------------
(* The invariant is kept.                                                  *)

\* A pool with a slot for each order is not exhausted while the book holds
\* fewer: were no slot free, the lookup would reach every one of them.
LEMMA SlotIsLeft ==
    ASSUME NEW b, NEW ar, BookOK(b, ar), Cardinality(DOMAIN b.lookup) < Capacity
    PROVE  b.free # <<>>
<1> SUFFICES ASSUME b.free = <<>> PROVE FALSE
  OBVIOUS
<1> DEFINE D == DOMAIN b.lookup
           f == [id \in D |-> b.lookup[id].node]
<1>1. f \in Surjection(D, Slots)
  <2>1. \A id \in D : b.lookup[id].node \in Slots
    BY DEF BookOK, BookTypes
  <2>2. \A n \in Slots : b.node[n] # Destroyed
    BY DEF BookOK, Pooled
  <2>3. \A n \in Slots : \E id \in D : b.lookup[id].node = n
    BY <2>2 DEF BookOK, Pooled
  <2> HIDE DEF D
  <2> QED BY <2>1, <2>3 DEF Surjection
<1>2. IsFiniteSet(D)
  BY FS_Subset, ConstantsAssumption DEF BookOK, BookTypes
<1> HIDE DEF f, D
<1>3. Cardinality(Slots) <= Cardinality(D)
  BY <1>1, <1>2, FS_Surjection
<1>4. Cardinality(Slots) = Capacity
  <2>1. Cardinality(0 .. Capacity - 1) = IF 0 > Capacity - 1 THEN 0 ELSE Capacity - 1 - 0 + 1
    BY FS_Interval, ConstantsAssumption
  <2> QED BY <2>1, ConstantsAssumption DEF Slots
<1>5. Cardinality(D) \in Nat
  BY <1>2, FS_CardinalityType
<1> QED BY <1>3, <1>4, <1>5, ConstantsAssumption DEF D

Requantified(b, id, q) == [b EXCEPT !.node[b.lookup[id].node].order.quantity = q]

\* c differs from b in the quantity of the order in slot n.
WithQuantity(o, q) == [o EXCEPT !.quantity = q]

DifferInQuantity(b, c, n) ==
    /\ IsBook(c) /\ c.free = b.free /\ c.levels = b.levels
    /\ c.lookup = b.lookup /\ c.nullWrite = FALSE
    /\ c.node \in [Slots -> Node \union {Destroyed}]
    /\ n \in Slots
    /\ \A m \in Slots \ {n} : c.node[m] = b.node[m]
    /\ \A m \in Slots :
          /\ c.node[m] = Destroyed <=> b.node[m] = Destroyed
          /\ b.node[m] # Destroyed =>
                /\ c.node[m].order.id = b.node[m].order.id
                /\ c.node[m].order.price = b.node[m].order.price
                /\ c.node[m].prev = b.node[m].prev
                /\ c.node[m].next = b.node[m].next

LEMMA RequantifiedFields ==
    ASSUME NEW b, NEW ar, BookOK(b, ar), NEW id \in DOMAIN b.lookup, NEW q \in Quantities
    PROVE  /\ DifferInQuantity(b, Requantified(b, id, q), b.lookup[id].node)
           /\ Requantified(b, id, q).node[b.lookup[id].node].order
                 = WithQuantity(b.node[b.lookup[id].node].order, q)
<1> DEFINE c == Requantified(b, id, q)
           n == b.lookup[id].node
           old == b.node[n]
           new == [old EXCEPT !.order.quantity = q]
<1>1. /\ n \in Slots /\ old \in Node /\ Destroyed \notin Node
      /\ b.node \in [Slots -> Node \union {Destroyed}] /\ b.nullWrite = FALSE
  <2>1. b.lookup[id].node \in Slots /\ b.node[b.lookup[id].node] # Destroyed
    BY DEF BookOK, BookTypes, Pooled
  <2>2. b.node \in [Slots -> Node \union {Destroyed}] /\ b.nullWrite = FALSE
    BY DEF BookOK, BookTypes
  <2> QED BY <2>1, <2>2, ConstantsAssumption
<1>2. PICK f, nd, lv, lu, nw : b = [free |-> f, node |-> nd, levels |-> lv,
                                    lookup |-> lu, nullWrite |-> nw]
  BY DEF BookOK, IsBook
<1>3. c = [b EXCEPT !.node = [@ EXCEPT ![n] = new]]
  BY DEF Requantified
<1>4. /\ new \in Node /\ new.order = [old.order EXCEPT !.quantity = q]
      /\ new.order.id = old.order.id /\ new.order.price = old.order.price
      /\ new.prev = old.prev /\ new.next = old.next
  <2> HIDE DEF old
  <2> QED BY <1>1 DEF Node, Order
<1> HIDE DEF c, n, new
<1>5. /\ IsBook(c) /\ c.free = b.free /\ c.levels = b.levels
      /\ c.lookup = b.lookup /\ c.nullWrite = b.nullWrite
      /\ c.node = [b.node EXCEPT ![n] = new]
  <2> DEFINE ne == [nd EXCEPT ![n] = new]
  <2>1. ne = [b.node EXCEPT ![n] = new]
    BY <1>2
  <2>2. c = [b EXCEPT !.node = ne]
    BY <1>3, <2>1
  <2> HIDE DEF ne
  <2>3. c = [free |-> f, node |-> ne, levels |-> lv, lookup |-> lu, nullWrite |-> nw]
    BY <1>2, <2>2
  <2>4. /\ c.free = f /\ c.node = ne /\ c.levels = lv /\ c.lookup = lu /\ c.nullWrite = nw
        /\ b.free = f /\ b.levels = lv /\ b.lookup = lu /\ b.nullWrite = nw
    BY <2>3, <1>2
  <2>5. IsBook(c)
    BY <2>3, <2>4 DEF IsBook
  <2> QED BY <2>1, <2>4, <2>5
<1> HIDE DEF old
<1>6. /\ c.node \in [Slots -> Node \union {Destroyed}] /\ c.node[n] = new
      /\ \A m \in Slots \ {n} : c.node[m] = b.node[m]
  BY <1>1, <1>4, <1>5
<1>7. \A m \in Slots :
         /\ c.node[m] = Destroyed <=> b.node[m] = Destroyed
         /\ b.node[m] # Destroyed =>
               /\ c.node[m].order.id = b.node[m].order.id
               /\ c.node[m].order.price = b.node[m].order.price
               /\ c.node[m].prev = b.node[m].prev
               /\ c.node[m].next = b.node[m].next
  BY <1>1, <1>4, <1>6 DEF old
<1>8. c.node[n].order = [b.node[n].order EXCEPT !.quantity = q]
  BY <1>4, <1>6 DEF old
<1>9. /\ IsBook(c) /\ c.free = b.free /\ c.levels = b.levels
      /\ c.lookup = b.lookup /\ c.nullWrite = FALSE
      /\ c.node \in [Slots -> Node \union {Destroyed}]
      /\ n \in Slots
      /\ \A m \in Slots \ {n} : c.node[m] = b.node[m]
  BY <1>1, <1>5, <1>6
<1>10. DifferInQuantity(b, c, n)
  BY <1>7, <1>9 DEF DifferInQuantity
<1>11. c.node[n].order = WithQuantity(b.node[n].order, q)
  BY <1>8 DEF WithQuantity
<1> QED BY <1>10, <1>11 DEF c, n

LEMMA DifferInQuantityOK ==
    ASSUME NEW b, NEW ar, BookOK(b, ar), NEW c, NEW n, DifferInQuantity(b, c, n)
    PROVE  BookOK(c, ar)
<1>1. /\ IsBook(c) /\ c.free = b.free /\ c.levels = b.levels
      /\ c.lookup = b.lookup /\ c.nullWrite = FALSE
      /\ c.node \in [Slots -> Node \union {Destroyed}]
  BY DEF DifferInQuantity
<1>2. \A m \in Slots :
         /\ c.node[m] = Destroyed <=> b.node[m] = Destroyed
         /\ b.node[m] # Destroyed =>
               /\ c.node[m].order.id = b.node[m].order.id
               /\ c.node[m].order.price = b.node[m].order.price
               /\ c.node[m].prev = b.node[m].prev
               /\ c.node[m].next = b.node[m].next
  BY DEF DifferInQuantity
<1>3. BookTypes(c)
  BY <1>1 DEF BookOK, BookTypes
<1>4. Pooled(c)
  <2>1. \A i \in DOMAIN b.lookup : b.lookup[i].node \in Slots
    BY DEF BookOK, BookTypes
  <2>2. Pooled(b)
    BY DEF BookOK
  <2> QED BY <2>1, <2>2, <1>1, <1>2 DEF Pooled
<1>5. Listed(c, ar)
  BY <1>1 DEF BookOK, Listed
<1>6. \A p, k : At(c, ar, p, k) = At(b, ar, p, k)
  BY <1>1 DEF At
<1>7. ASSUME NEW p \in Prices PROVE Chained(c, ar, p) /\ Ended(c, ar, p)
  <2>1. Chained(b, ar, p) /\ Ended(b, ar, p)
    BY DEF BookOK, Linked
  <2>2. \A k \in 1 .. Len(ar[p]) : At(b, ar, p, k) \in Slots /\ b.node[At(b, ar, p, k)] # Destroyed
    BY PlacesAreApart, ConstantsAssumption
  <2>3. Chained(c, ar, p)
    BY <2>1, <2>2, <1>2, <1>6 DEF Chained
  <2> QED BY <2>1, <2>3, <1>1, <1>6 DEF Ended
<1> QED BY <1>1, <1>3, <1>4, <1>5, <1>7 DEF BookOK, Linked

\* modifyOrder to another price, and the arrivals as the action leaves them.
LEMMA RelocatedOK ==
    ASSUME NEW b, NEW ar, BookOK(b, ar), NEW id \in DOMAIN b.lookup,
           NEW p \in Prices, NEW q \in Quantities, b.lookup[id].level # p
    PROVE  BookOK(Relocated(b, id, p, q),
                  [r \in Prices |-> IF r = p THEN Append(ar[r], id) ELSE Other(id, ar[r])])
<1> DEFINE c == Removed(b, id)
           br == Struck(ar, id)
           o == [id |-> id, price |-> p, quantity |-> q,
                 isBuy |-> b.node[b.lookup[id].node].order.isBuy]
           dr == [r \in Prices |-> IF r = p THEN Append(ar[r], id) ELSE Other(id, ar[r])]
<1>1. BookOK(c, br)
  BY RemovedOK
<1>2. c.free = Append(b.free, b.lookup[id].node) /\ id \notin DOMAIN c.lookup
  <2>1. /\ c.free = Append(b.free, b.lookup[id].node)
        /\ c.lookup = [i \in DOMAIN b.lookup \ {id} |-> b.lookup[i]]
    BY RemovedFields
  <2> HIDE DEF c
  <2> QED BY <2>1
<1>3. c.free # <<>>
  BY <1>2 DEF BookOK, BookTypes
<1>4. o \in Order
  <2>1. b.node[b.lookup[id].node] \in Node /\ id \in Ids
    BY DEF BookOK, BookTypes, Pooled
  <2> QED BY <2>1 DEF Node, Order
<1>5. dr = Joined(br, o)
  <2>1. br[p] = ar[p]
    <3>1. ar[p] \in Seq(Ids) /\ \A k \in 1 .. Len(ar[p]) : ar[p][k] # id
      BY DEF BookOK, Listed
    <3>2. DOMAIN ar[p] = 1 .. Len(ar[p])
      BY <3>1
    <3> QED BY <3>1, <3>2, OtherOfAbsent DEF Struck
  <2>2. Joined(br, o) = [br EXCEPT ![p] = Append(ar[p], id)]
    BY <2>1 DEF Joined
  <2> QED BY <2>2 DEF Struck
<1>6. Relocated(b, id, p, q) = Added(c, o)
  BY DEF Relocated
<1>7. o.id \notin DOMAIN c.lookup
  BY <1>2
<1> HIDE DEF c, br, o, dr
<1>8. BookOK(Added(c, o), Joined(br, o))
  BY <1>1, <1>3, <1>4, <1>7, AddedOK
<1> QED BY <1>5, <1>6, <1>8 DEF dr

Inv == BookOK(Book, arrivals)

LEMMA InitOK ==
    ASSUME Init
    PROVE  Inv
<1>1. /\ freeList \in Seq(Slots) /\ Len(freeList) = Capacity
      /\ \A i \in 1 .. Capacity : freeList[i] = Capacity - i
  <2>1. freeList \in [1 .. Capacity -> Slots]
    BY ConstantsAssumption DEF Init, Slots
  <2>2. freeList \in Seq(Slots) /\ Len(freeList) = Capacity
    <3> HIDE DEF Slots
    <3> QED BY <2>1, ConstantsAssumption
  <2> QED BY <2>2, ConstantsAssumption DEF Init
<1>2. DOMAIN levels = {} /\ DOMAIN lookup = {} /\ nullWrite = FALSE
  BY DEF Init
<1>3. node = [n \in Slots |-> Destroyed] /\ arrivals = [p \in Prices |-> <<>>]
  BY DEF Init
<1>4. IsBook(Book)
  BY DEF IsBook, Book
<1>5. BookTypes(Book)
  BY <1>1, <1>2, <1>3 DEF BookTypes, Book, Init
<1>6. Pooled(Book)
  <2>1. \A i, j \in 1 .. Len(freeList) : i # j => freeList[i] # freeList[j]
    BY <1>1, ConstantsAssumption
  <2>2. ASSUME NEW n \in Slots PROVE \E i \in 1 .. Len(freeList) : freeList[i] = n
    <3>1. Capacity - n \in 1 .. Len(freeList) /\ freeList[Capacity - n] = n
      BY <1>1, ConstantsAssumption DEF Slots
    <3> QED BY <3>1
  <2> QED BY <2>1, <2>2, <1>2, <1>3 DEF Pooled, Book
<1>7. Listed(Book, arrivals)
  BY <1>2, <1>3 DEF Listed, Book
<1>8. Linked(Book, arrivals)
  BY <1>2, <1>3 DEF Linked, Chained, Ended, Book
<1> QED BY <1>4, <1>5, <1>6, <1>7, <1>8 DEF Inv, BookOK

LEMMA BecomeIs ==
    ASSUME NEW c, IsBook(c), Become(c)
    PROVE  Book' = c
BY DEF IsBook, Become, Book

\* Which of the lemmas above applies to a step.
LEMMA StepIs ==
    ASSUME Inv, Next
    PROVE  \/ \E id \in Ids, p \in Prices, q \in Quantities, isBuy \in BOOLEAN :
                 LET o == [id |-> id, price |-> p, quantity |-> q, isBuy |-> isBuy] IN
                 /\ o \in Order /\ id \notin DOMAIN Book.lookup /\ Book.free # <<>>
                 /\ Book' = Added(Book, o)
                 /\ arrivals' = Joined(arrivals, o)
           \/ \E id \in DOMAIN Book.lookup, p \in Prices, q \in Quantities :
                 /\ p = Book.lookup[id].level
                 /\ Book' = Requantified(Book, id, q)
                 /\ arrivals' = arrivals
           \/ \E id \in DOMAIN Book.lookup, p \in Prices, q \in Quantities :
                 /\ p # Book.lookup[id].level
                 /\ Book' = Relocated(Book, id, p, q)
                 /\ arrivals' = [r \in Prices |-> IF r = p THEN Append(arrivals[r], id)
                                                  ELSE Other(id, arrivals[r])]
           \/ \E id \in DOMAIN Book.lookup :
                 /\ Book' = Removed(Book, id)
                 /\ arrivals' = Struck(arrivals, id)
<1> DEFINE b == Book
<1>1. BookOK(b, arrivals) /\ b.lookup = lookup /\ b.node = node
  BY DEF Inv, Book
<1>2. ASSUME NEW id \in Ids, NEW p \in Prices, NEW q \in Quantities, NEW isBuy \in BOOLEAN,
             addOrder(id, p, q, isBuy)
      PROVE  LET o == [id |-> id, price |-> p, quantity |-> q, isBuy |-> isBuy] IN
             /\ o \in Order /\ id \notin DOMAIN b.lookup /\ b.free # <<>>
             /\ Book' = Added(b, o)
             /\ arrivals' = Joined(arrivals, o)
  <2> DEFINE o == [id |-> id, price |-> p, quantity |-> q, isBuy |-> isBuy]
  <2>1. o \in Order
    BY DEF Order
  <2>2. id \notin DOMAIN b.lookup /\ Cardinality(DOMAIN b.lookup) < Capacity
    BY <1>1, <1>2 DEF addOrder
  <2>3. Become(Added(b, o)) /\ arrivals' = [arrivals EXCEPT ![p] = Append(@, id)]
    BY <1>2 DEF addOrder
  <2> HIDE DEF b
  <2>4. b.free # <<>>
    BY <1>1, <2>2, SlotIsLeft
  <2>5. o.id \notin DOMAIN b.lookup
    BY <2>2
  <2>6. arrivals' = Joined(arrivals, o)
    BY <2>3 DEF Joined
  <2> HIDE DEF o
  <2>7. IsBook(Added(b, o))
    BY <1>1, <2>1, <2>4, <2>5, AddedFields
  <2>8. Book' = Added(b, o)
    BY <2>3, <2>7, BecomeIs
  <2> QED BY <2>1, <2>2, <2>4, <2>6, <2>8 DEF o
<1>3. ASSUME NEW id \in Ids, NEW p \in Prices, NEW q \in Quantities, modifyOrder(id, p, q)
      PROVE  /\ id \in DOMAIN b.lookup
             /\ \/ /\ p = b.lookup[id].level
                   /\ Book' = Requantified(b, id, q)
                   /\ arrivals' = arrivals
                \/ /\ p # b.lookup[id].level
                   /\ Book' = Relocated(b, id, p, q)
                   /\ arrivals' = [r \in Prices |-> IF r = p THEN Append(arrivals[r], id)
                                                    ELSE Other(id, arrivals[r])]
  <2>1. id \in DOMAIN b.lookup
    BY <1>1, <1>3 DEF modifyOrder
  <2> DEFINE price == b.node[b.lookup[id].node].order.price
             c == IF price = p THEN Requantified(b, id, q) ELSE Relocated(b, id, p, q)
  <2>2. /\ Become(Modified(b, id, p, q))
        /\ arrivals' = IF price = p THEN arrivals
                       ELSE [r \in Prices |-> IF r = p THEN Append(arrivals[r], id)
                                              ELSE Other(id, arrivals[r])]
    BY <1>1, <1>3 DEF modifyOrder
  <2> HIDE DEF b
  <2>3. price = b.lookup[id].level
    BY <2>1, <1>1 DEF BookOK, Pooled
  <2>4. Modified(b, id, p, q) = c
    BY DEF Modified, Requantified
  <2>5. IsBook(c)
    <3>1. CASE price = p
      <4>1. DifferInQuantity(b, Requantified(b, id, q), b.lookup[id].node)
        BY <2>1, <1>1, RequantifiedFields
      <4> QED BY <4>1, <3>1 DEF DifferInQuantity
    <3>2. CASE price # p
      <4> DEFINE ar == [r \in Prices |-> IF r = p THEN Append(arrivals[r], id)
                                         ELSE Other(id, arrivals[r])]
      <4>1. BookOK(Relocated(b, id, p, q), ar)
        <5> HIDE DEF price
        <5> QED BY <2>1, <2>3, <3>2, <1>1, RelocatedOK
      <4> HIDE DEF ar
      <4> QED BY <4>1, <3>2 DEF BookOK
    <3> QED BY <3>1, <3>2
  <2>6. Book' = c
    <3> HIDE DEF c
    <3> QED BY <2>2, <2>4, <2>5, BecomeIs
  <2> HIDE DEF price
  <2> QED BY <2>1, <2>2, <2>3, <2>6
<1>4. ASSUME NEW id \in Ids, deleteOrder(id)
      PROVE  id \in DOMAIN b.lookup /\ Book' = Removed(b, id) /\ arrivals' = Struck(arrivals, id)
  <2>1. id \in DOMAIN b.lookup /\ Become(Removed(b, id))
    BY <1>1, <1>4 DEF deleteOrder
  <2>2. arrivals' = Struck(arrivals, id)
    BY <1>4 DEF deleteOrder, Struck
  <2> HIDE DEF b
  <2>3. IsBook(Removed(b, id))
    BY <1>1, <2>1, RemovedFields
  <2> QED BY <2>1, <2>2, <2>3, BecomeIs
<1> HIDE DEF b
<1>5. PICK id \in Ids :
         \/ \E p \in Prices, q \in Quantities, isBuy \in BOOLEAN : addOrder(id, p, q, isBuy)
         \/ \E p \in Prices, q \in Quantities : modifyOrder(id, p, q)
         \/ deleteOrder(id)
  BY DEF Next
<1>6. CASE \E p \in Prices, q \in Quantities, isBuy \in BOOLEAN : addOrder(id, p, q, isBuy)
  <2>1. PICK p \in Prices, q \in Quantities, isBuy \in BOOLEAN : addOrder(id, p, q, isBuy)
    BY <1>6
  <2> QED BY <2>1, <1>2 DEF b
<1>7. CASE \E p \in Prices, q \in Quantities : modifyOrder(id, p, q)
  <2>1. PICK p \in Prices, q \in Quantities : modifyOrder(id, p, q)
    BY <1>7
  <2> QED BY <2>1, <1>3 DEF b
<1>8. CASE deleteOrder(id)
  BY <1>8, <1>4 DEF b
<1> QED BY <1>5, <1>6, <1>7, <1>8

LEMMA NextOK ==
    ASSUME Inv, [Next]_vars
    PROVE  Inv'
<1> DEFINE b == Book
<1>1. BookOK(b, arrivals)
  BY DEF Inv
<1>2. CASE vars' = vars
  BY <1>2 DEF vars, Inv, Book
<1>3. CASE Next
  <2>1. BookOK(Book', arrivals')
    <3> HIDE DEF b
    <3>1. ASSUME NEW id \in Ids, NEW p \in Prices, NEW q \in Quantities, NEW isBuy \in BOOLEAN,
                 NEW o \in Order, o.id \notin DOMAIN b.lookup, b.free # <<>>
          PROVE  BookOK(Added(b, o), Joined(arrivals, o))
      BY <3>1, <1>1, AddedOK
    <3>2. ASSUME NEW id \in DOMAIN b.lookup, NEW q \in Quantities
          PROVE  BookOK(Requantified(b, id, q), arrivals)
      <4>1. DifferInQuantity(b, Requantified(b, id, q), b.lookup[id].node)
        BY <1>1, RequantifiedFields
      <4> QED BY <4>1, <1>1, DifferInQuantityOK
    <3>3. ASSUME NEW id \in DOMAIN b.lookup, NEW p \in Prices, NEW q \in Quantities,
                 p # b.lookup[id].level
          PROVE  BookOK(Relocated(b, id, p, q),
                        [r \in Prices |-> IF r = p THEN Append(arrivals[r], id)
                                          ELSE Other(id, arrivals[r])])
      BY <3>3, <1>1, RelocatedOK
    <3>4. ASSUME NEW id \in DOMAIN b.lookup PROVE BookOK(Removed(b, id), Struck(arrivals, id))
      BY <1>1, RemovedOK
    <3> QED BY <1>3, <3>1, <3>2, <3>3, <3>4, StepIs DEF b
  <2> QED BY <2>1 DEF Inv
<1> QED BY <1>2, <1>3

LEMMA Invariance == Spec => []Inv
<1>1. Init => Inv
  BY InitOK
<1>2. Inv /\ [Next]_vars => Inv'
  BY NextOK
<1> QED BY <1>1, <1>2, PTL DEF Spec

-----------------------------------------------------------------------------
(***************************************************************************)
(* Whatever the calls, a slot of the pool is free or is the node of one    *)
(* order in the lookup, no slot is twice in the free list and acquire()    *)
(* never answers with a null pointer that addOrder would write through:    *)
(* for every set of ids and every capacity that holds the callers' orders. *)
(***************************************************************************)
THEOREM SlotsArePartitioned == Spec => []PoolPartition
<1>1. Inv => PoolPartition
  <2> SUFFICES ASSUME Inv PROVE PoolPartition
    OBVIOUS
  <2>1. BookTypes(Book) /\ Pooled(Book)
    BY DEF Inv, BookOK
  <2>2. Alive = Slots \ {freeList[i] : i \in 1 .. Len(freeList)}
    BY <2>1 DEF Pooled, Book, Alive
  <2>3. Alive = {lookup[id].node : id \in DOMAIN lookup}
    <3>1. \A id \in DOMAIN lookup : lookup[id].node \in Slots /\ node[lookup[id].node] # Destroyed
      BY <2>1 DEF BookTypes, Pooled, Book
    <3>2. \A n \in Slots : node[n] # Destroyed => \E id \in DOMAIN lookup : lookup[id].node = n
      BY <2>1 DEF Pooled, Book
    <3> QED BY <3>1, <3>2 DEF Alive
  <2> QED BY <2>1, <2>2, <2>3 DEF PoolPartition, BookTypes, Pooled, Book
<1> QED BY <1>1, Invariance, PTL

(***************************************************************************)
(* Followed from its head, and back from its tail, the list of a level is  *)
(* the orders of that price in the order they arrived there, for every set *)
(* of ids and prices: time priority survives every removal from the middle *)
(* of a list and every move between lists.                                 *)
(***************************************************************************)
THEOREM ListsKeepTimePriority == Spec => []ListsInArrivalOrder
<1>1. Inv => ListsInArrivalOrder
  <2> SUFFICES ASSUME Inv, NEW p \in Prices
               PROVE  IF arrivals[p] = <<>> THEN p \notin DOMAIN levels
                      ELSE /\ p \in DOMAIN levels
                           /\ \E walk \in [1 .. Len(arrivals[p]) -> Slots] : ListIs(walk, p)
    BY DEF ListsInArrivalOrder
  <2> DEFINE last == Len(arrivals[p])
             place(k) == At(Book, arrivals, p, k)
             walk == [k \in 1 .. last |-> place(k)]
  <2>1. BookOK(Book, arrivals)
    BY DEF Inv
  <2>2. arrivals[p] \in Seq(Ids)
    BY <2>1 DEF BookOK, Listed
  <2>3. /\ p \in DOMAIN levels <=> last # 0
        /\ p \in DOMAIN levels => levels[p] = [head |-> place(1), tail |-> place(last)]
    <3>1. Ended(Book, arrivals, p)
      BY <2>1 DEF BookOK, Linked
    <3>2. Book.levels = levels
      BY DEF Book
    <3> QED BY <3>1, <3>2 DEF Ended
  <2>4. \A k \in 1 .. last :
           /\ place(k) \in Slots /\ node[place(k)] # Destroyed
           /\ node[place(k)].order.id = arrivals[p][k]
           /\ node[place(k)].prev = IF k = 1 THEN Null ELSE place(k - 1)
           /\ node[place(k)].next = IF k = last THEN Null ELSE place(k + 1)
    <3> TAKE k \in 1 .. last
    <3>1. Book.node = node
      BY DEF Book
    <3>2. place(k) \in Slots
      BY <2>1, PlacesAreApart
    <3>3. Book.node[place(k)] # Destroyed /\ Book.node[place(k)].order.id = arrivals[p][k]
      BY <2>1 DEF BookOK, Listed, Pooled, At
    <3>4. /\ Book.node[place(k)].prev = IF k = 1 THEN Null ELSE place(k - 1)
          /\ Book.node[place(k)].next = IF k = last THEN Null ELSE place(k + 1)
      BY <2>1 DEF BookOK, Linked, Chained
    <3> HIDE DEF place, last
    <3> QED BY <3>1, <3>2, <3>3, <3>4
  <2>5. CASE last = 0
    BY <2>5, <2>2, <2>3
  <2>6. CASE last # 0
    <3>1. arrivals[p] # <<>> /\ p \in DOMAIN levels
      BY <2>6, <2>2, <2>3
    <3>2. walk \in [1 .. last -> Slots]
      <4> HIDE DEF place
      <4> QED BY <2>4
    <3>3. \A k \in 1 .. last : /\ walk[k] = place(k)
                               /\ k # 1 => walk[k - 1] = place(k - 1)
                               /\ k # last => walk[k + 1] = place(k + 1)
      <4>1. \A k \in 1 .. last : (k # 1 => k - 1 \in 1 .. last) /\ (k # last => k + 1 \in 1 .. last)
        <5>1. last \in Nat
          BY <2>2
        <5> HIDE DEF last
        <5> QED BY <5>1
      <4> HIDE DEF place, last
      <4> QED BY <4>1
    <3>4. 1 \in 1 .. last /\ last \in 1 .. last
      <4>1. last \in Nat
        BY <2>2
      <4> HIDE DEF last
      <4> QED BY <4>1, <2>6
    <3> HIDE DEF walk, place
    <3>5. ListIs(walk, p)
      BY <2>3, <2>4, <3>1, <3>3, <3>4 DEF ListIs
    <3> QED BY <3>1, <3>2, <3>5
  <2> QED BY <2>5, <2>6
<1> QED BY <1>1, Invariance, PTL

-----------------------------------------------------------------------------
(* The pooled book implements the baseline.  The baseline's levels are its *)
(* lookup grouped by price, before and after each of its operations; so it *)
(* is enough to follow the lookup.                                         *)

Group(m, p) == [id \in {i \in DOMAIN m : m[i].price = p} |-> m[id]]

Grouped(m) == [p \in {m[id].price : id \in DOMAIN m} |-> Group(m, p)]

LEMMA GroupedIs ==
    ASSUME NEW m, NEW p
    PROVE  /\ p \in DOMAIN Grouped(m) <=> \E id \in DOMAIN m : m[id].price = p
           /\ p \in DOMAIN Grouped(m) => Grouped(m)[p] = Group(m, p)
BY DEF Grouped

LEMMA GroupedAfterAdd ==
    ASSUME NEW m, NEW id, id \notin DOMAIN m, NEW o
    PROVE  Grouped(Baseline!Emplace(m, id, o)) = Baseline!LevelsAfterAdd(Grouped(m), id, o)
<1> DEFINE e == Baseline!Emplace(m, id, o)
           l == Baseline!LevelAt(Grouped(m), o.price)
           new == Baseline!Emplace(l, id, o)
<1>1. /\ DOMAIN e = DOMAIN m \union {id} /\ e[id] = o
      /\ \A i \in DOMAIN m : e[i] = m[i]
  BY DEF Baseline!Emplace
<1>2. l = [i \in {i \in DOMAIN m : m[i].price = o.price} |-> m[i]]
  <2>1. CASE o.price \in DOMAIN Grouped(m)
    <3>1. l = Group(m, o.price)
      BY <2>1, GroupedIs DEF Baseline!LevelAt
    <3> HIDE DEF l
    <3> QED BY <3>1 DEF Group
  <2>2. CASE o.price \notin DOMAIN Grouped(m)
    <3>1. l = Baseline!EmptyMap
      BY <2>2 DEF Baseline!LevelAt
    <3>2. {i \in DOMAIN m : m[i].price = o.price} = {}
      BY <2>2, GroupedIs
    <3> HIDE DEF l
    <3> QED BY <3>1, <3>2 DEF Baseline!EmptyMap
  <2> QED BY <2>1, <2>2
<1> HIDE DEF e, l
<1>3. new = [i \in {i \in DOMAIN e : e[i].price = o.price} |-> e[i]]
  <2>1. DOMAIN l = {i \in DOMAIN m : m[i].price = o.price}
    BY <1>2
  <2>2. {i \in DOMAIN e : e[i].price = o.price} = DOMAIN l \union {id}
    BY <2>1, <1>1
  <2>3. new = [k \in DOMAIN l \union {id} |-> IF k \in DOMAIN l THEN l[k] ELSE o]
    BY DEF Baseline!Emplace
  <2>4. \A k \in DOMAIN l \union {id} : (IF k \in DOMAIN l THEN l[k] ELSE o) = e[k]
    BY <1>1, <1>2, <2>1
  <2> QED BY <2>2, <2>3, <2>4
<1> HIDE DEF new
<1>4. Baseline!LevelsAfterAdd(Grouped(m), id, o)
         = [p \in DOMAIN Grouped(m) \union {o.price} |-> IF p = o.price THEN new ELSE Grouped(m)[p]]
  BY DEF Baseline!LevelsAfterAdd, new, l
<1>5. DOMAIN Grouped(e) = DOMAIN Grouped(m) \union {o.price}
  <2>1. ASSUME NEW p
        PROVE  p \in DOMAIN Grouped(e) <=> p \in DOMAIN Grouped(m) \union {o.price}
    <3>1. p \in DOMAIN Grouped(e) <=> \E i \in DOMAIN e : e[i].price = p
      BY GroupedIs
    <3>2. p \in DOMAIN Grouped(m) <=> \E i \in DOMAIN m : m[i].price = p
      BY GroupedIs
    <3> QED BY <3>1, <3>2, <1>1
  <2> QED BY <2>1
<1>6. ASSUME NEW p \in DOMAIN Grouped(e)
      PROVE  Grouped(e)[p] = IF p = o.price THEN new ELSE Grouped(m)[p]
  <2>1. Grouped(e)[p] = [i \in {i \in DOMAIN e : e[i].price = p} |-> e[i]]
    <3>1. Grouped(e)[p] = Group(e, p)
      BY GroupedIs
    <3> QED BY <3>1 DEF Group
  <2>2. CASE p = o.price
    BY <2>1, <2>2, <1>3
  <2>3. CASE p # o.price
    <3>1. {i \in DOMAIN e : e[i].price = p} = {i \in DOMAIN m : m[i].price = p}
      BY <2>3, <1>1
    <3>2. Grouped(m)[p] = [i \in {i \in DOMAIN m : m[i].price = p} |-> m[i]]
      <4>1. Grouped(m)[p] = Group(m, p)
        BY <2>3, <1>5, GroupedIs
      <4> QED BY <4>1 DEF Group
    <3> QED BY <2>1, <2>3, <3>1, <3>2, <1>1
  <2> QED BY <2>2, <2>3
<1>7. Grouped(e) = [p \in DOMAIN Grouped(e) |-> Grouped(e)[p]]
  BY DEF Grouped
<1> QED BY <1>4, <1>5, <1>6, <1>7 DEF e

LEMMA GroupedAfterErase ==
    ASSUME NEW m, NEW id \in DOMAIN m
    PROVE  Grouped(Baseline!Without(m, id))
              = Baseline!LevelsAfterErase(Grouped(m), m[id].price, id)
<1> DEFINE p == m[id].price
           w == Baseline!Without(m, id)
           g == Grouped(m)
           rest == Baseline!Without(g[p], id)
<1>1. /\ DOMAIN w = DOMAIN m \ {id}
      /\ \A i \in DOMAIN w : w[i] = m[i]
  BY DEF Baseline!Without
<1>2. p \in DOMAIN g /\ g[p] = [i \in {i \in DOMAIN m : m[i].price = p} |-> m[i]]
  <2>1. p \in DOMAIN g /\ g[p] = Group(m, p)
    BY GroupedIs
  <2> HIDE DEF g, p
  <2> QED BY <2>1 DEF Group
<1>3. rest = [i \in {i \in DOMAIN m : m[i].price = p} \ {id} |-> m[i]]
  BY <1>2 DEF Baseline!Without
<1> HIDE DEF w, g, p
<1>4. rest = [i \in {i \in DOMAIN w : w[i].price = p} |-> w[i]]
  <2>1. {i \in DOMAIN w : w[i].price = p} = {i \in DOMAIN m : m[i].price = p} \ {id}
    BY <1>1
  <2> HIDE DEF rest
  <2> QED BY <2>1, <1>1, <1>3
<1> HIDE DEF rest
<1>5. rest = Baseline!EmptyMap <=> p \notin DOMAIN Grouped(w)
  <2>1. DOMAIN rest = {i \in DOMAIN w : w[i].price = p}
    BY <1>4
  <2>2. rest = Baseline!EmptyMap <=> DOMAIN rest = {}
    BY <1>4 DEF Baseline!EmptyMap
  <2>3. p \in DOMAIN Grouped(w) <=> \E i \in DOMAIN w : w[i].price = p
    BY GroupedIs
  <2> QED BY <2>1, <2>2, <2>3
<1>6. ASSUME NEW r, r # p
      PROVE  /\ r \in DOMAIN Grouped(w) <=> r \in DOMAIN g
             /\ r \in DOMAIN g => Grouped(w)[r] = g[r]
  <2>1. {i \in DOMAIN w : w[i].price = r} = {i \in DOMAIN m : m[i].price = r}
    BY <1>1, <1>6 DEF p
  <2>2. /\ r \in DOMAIN Grouped(w) <=> {i \in DOMAIN w : w[i].price = r} # {}
        /\ r \in DOMAIN g <=> {i \in DOMAIN m : m[i].price = r} # {}
    <3>1. r \in DOMAIN Grouped(w) <=> \E i \in DOMAIN w : w[i].price = r
      BY GroupedIs
    <3>2. r \in DOMAIN g <=> \E i \in DOMAIN m : m[i].price = r
      BY GroupedIs DEF g
    <3> QED BY <3>1, <3>2
  <2>3. /\ r \in DOMAIN Grouped(w) =>
              Grouped(w)[r] = [i \in {i \in DOMAIN w : w[i].price = r} |-> w[i]]
        /\ r \in DOMAIN g => g[r] = [i \in {i \in DOMAIN m : m[i].price = r} |-> m[i]]
    <3>1. r \in DOMAIN Grouped(w) => Grouped(w)[r] = Group(w, r)
      BY GroupedIs
    <3>2. r \in DOMAIN g => g[r] = Group(m, r)
      BY GroupedIs DEF g
    <3> QED BY <3>1, <3>2 DEF Group
  <2>4. [i \in {i \in DOMAIN w : w[i].price = r} |-> w[i]]
           = [i \in {i \in DOMAIN m : m[i].price = r} |-> m[i]]
    BY <2>1, <1>1
  <2> QED BY <2>1, <2>2, <2>3, <2>4
<1>7. p \in DOMAIN Grouped(w) => Grouped(w)[p] = rest
  <2>1. p \in DOMAIN Grouped(w) => Grouped(w)[p] = Group(w, p)
    BY GroupedIs
  <2> QED BY <2>1, <1>4 DEF Group
<1>8. Grouped(w) = [r \in DOMAIN Grouped(w) |-> Grouped(w)[r]] /\ g = [r \in DOMAIN g |-> g[r]]
  BY DEF Grouped, g
<1>9. Baseline!LevelsAfterErase(g, p, id)
         = IF rest = Baseline!EmptyMap THEN Baseline!Without(g, p) ELSE [g EXCEPT ![p] = rest]
  BY <1>2 DEF Baseline!LevelsAfterErase, rest
<1>10. CASE p \notin DOMAIN Grouped(w)
  <2>1. Baseline!LevelsAfterErase(g, p, id) = [r \in DOMAIN g \ {p} |-> g[r]]
    BY <1>5, <1>9, <1>10 DEF Baseline!Without
  <2>2. DOMAIN Grouped(w) = DOMAIN g \ {p}
    BY <1>6, <1>10
  <2> QED BY <2>1, <2>2, <1>6, <1>8 DEF g, p, w
<1>11. CASE p \in DOMAIN Grouped(w)
  <2>1. Baseline!LevelsAfterErase(g, p, id) = [g EXCEPT ![p] = rest]
    BY <1>5, <1>9, <1>11
  <2>2. DOMAIN Grouped(w) = DOMAIN g
    BY <1>2, <1>6, <1>11
  <2>3. \A r \in DOMAIN g : Grouped(w)[r] = [g EXCEPT ![p] = rest][r]
    BY <1>6, <1>7, <1>8, <1>11
  <2> QED BY <2>1, <2>2, <2>3, <1>8 DEF g, p, w
<1> QED BY <1>10, <1>11

\* What the baseline stores of an order.
Stored(o) == [price |-> o.price, quantity |-> o.quantity, isBuy |-> o.isBuy]

Lookups(b) == [id \in DOMAIN b.lookup |-> Stored(b.node[b.lookup[id].node].order)]

LEMMA LookupsAfterAdd ==
    ASSUME NEW b, NEW ar, BookOK(b, ar), b.free # <<>>,
           NEW o \in Order, o.id \notin DOMAIN b.lookup
    PROVE  Lookups(Added(b, o)) = Baseline!Emplace(Lookups(b), o.id, Stored(o))
<1> DEFINE c == Added(b, o)
           n == b.free[Len(b.free)]
<1>1. c.lookup = [id \in DOMAIN b.lookup \union {o.id} |->
                     IF id = o.id THEN [node |-> n, level |-> o.price] ELSE b.lookup[id]]
  <2>1. c.lookup = LookupLinked(b, n, o)
    BY AddedFields
  <2> HIDE DEF c, n
  <2> QED BY <2>1 DEF LookupLinked
<1>2. n \in Slots /\ \A id \in DOMAIN b.lookup : b.lookup[id].node # n
  <2>1. o.price \in Prices
    BY DEF Order
  <2> QED BY <2>1, TakenIsFree
<1>3. c.node[n].order = o
  <2>1. c.node = NodesLinked(b, n, o)
    BY AddedFields
  <2> HIDE DEF c, n
  <2> QED BY <2>1, <1>2 DEF NodesLinked
<1>4. ASSUME NEW id \in DOMAIN b.lookup
      PROVE  c.node[b.lookup[id].node].order = b.node[b.lookup[id].node].order
  <2>1. b.lookup[id].node \in Slots /\ b.node[b.lookup[id].node] # Destroyed
    BY DEF BookOK, BookTypes, Pooled
  <2> QED BY <2>1, <1>2, LinkedSlots
<1> HIDE DEF c, n
<1>5. /\ DOMAIN c.lookup = DOMAIN b.lookup \union {o.id} /\ c.lookup[o.id].node = n
      /\ \A id \in DOMAIN b.lookup : c.lookup[id] = b.lookup[id]
  BY <1>1
<1>6. ASSUME NEW id \in DOMAIN c.lookup
      PROVE  Lookups(c)[id] = IF id \in DOMAIN b.lookup THEN Lookups(b)[id] ELSE Stored(o)
  <2>1. Lookups(c)[id] = Stored(c.node[c.lookup[id].node].order)
    BY DEF Lookups
  <2>2. CASE id \in DOMAIN b.lookup
    <3>1. Lookups(b)[id] = Stored(b.node[b.lookup[id].node].order)
      BY <2>2 DEF Lookups
    <3> QED BY <2>1, <2>2, <3>1, <1>4, <1>5
  <2>3. CASE id \notin DOMAIN b.lookup
    BY <2>1, <2>3, <1>3, <1>5
  <2> QED BY <2>2, <2>3
<1>7. Lookups(c) = [id \in DOMAIN c.lookup |-> Lookups(c)[id]] /\ DOMAIN Lookups(b) = DOMAIN b.lookup
  BY DEF Lookups
<1> QED BY <1>5, <1>6, <1>7 DEF Baseline!Emplace, c

LEMMA LookupsAfterRemove ==
    ASSUME NEW b, NEW ar, BookOK(b, ar), NEW id \in DOMAIN b.lookup
    PROVE  Lookups(Removed(b, id)) = Baseline!Without(Lookups(b), id)
<1> DEFINE c == Removed(b, id)
           n == b.lookup[id].node
           p == b.lookup[id].level
<1>1. c.lookup = [i \in DOMAIN b.lookup \ {id} |-> b.lookup[i]]
  BY RemovedFields
<1>2. ASSUME NEW i \in DOMAIN b.lookup, i # id
      PROVE  c.node[b.lookup[i].node].order = b.node[b.lookup[i].node].order
  <2> DEFINE m == b.lookup[i].node
  <2>1. m \in Slots /\ b.node[m] # Destroyed /\ m # n
    BY <1>2 DEF BookOK, BookTypes, Pooled
  <2>2. PICK j \in 1 .. Len(ar[p]) : At(b, ar, p, j) = n
    BY InUseIsAPlace
  <2>3. p \in Prices
    BY InUseIsAPlace
  <2> HIDE DEF m, p
  <2>4. Spliced(b, b.node[n])[m].order = b.node[m].order
    BY <2>1, <2>2, <2>3, SplicedSlots
  <2>5. c.node = NodesLeft(b, b.lookup[id])
    BY RemovedFields
  <2> HIDE DEF c
  <2> QED BY <2>1, <2>4, <2>5 DEF NodesLeft, m
<1> HIDE DEF c
<1> QED BY <1>1, <1>2 DEF Lookups, Baseline!Without, c

LEMMA LookupsAfterRequantify ==
    ASSUME NEW b, NEW ar, BookOK(b, ar), NEW id \in DOMAIN b.lookup, NEW q \in Quantities
    PROVE  Lookups(Requantified(b, id, q))
              = Baseline!Emplace(Baseline!Without(Lookups(b), id), id,
                    [price |-> b.lookup[id].level, quantity |-> q,
                     isBuy |-> b.node[b.lookup[id].node].order.isBuy])
<1> DEFINE c == Requantified(b, id, q)
           n == b.lookup[id].node
           o == b.node[n].order
           new == [price |-> b.lookup[id].level, quantity |-> q, isBuy |-> o.isBuy]
           rest == Baseline!Without(Lookups(b), id)
<1>1. DifferInQuantity(b, c, n) /\ c.node[n].order = [o EXCEPT !.quantity = q]
  <2>1. DifferInQuantity(b, c, n) /\ c.node[n].order = WithQuantity(o, q)
    BY RequantifiedFields
  <2> QED BY <2>1 DEF WithQuantity
<1>2. o \in Order /\ o.price = b.lookup[id].level
  <2>1. b.node[n] \in Node
    BY DEF BookOK, BookTypes, Pooled
  <2> QED BY <2>1 DEF BookOK, Pooled, Node
<1> HIDE DEF c, o
<1>3. Stored(c.node[n].order) = new
  BY <1>1, <1>2 DEF Stored, Order
<1>4. ASSUME NEW i \in DOMAIN b.lookup, i # id
      PROVE  c.node[b.lookup[i].node] = b.node[b.lookup[i].node]
  <2>1. b.lookup[i].node \in Slots
    BY DEF BookOK, BookTypes
  <2>2. b.lookup[i].node # n
    BY <1>4 DEF BookOK, Pooled
  <2> HIDE DEF n
  <2> QED BY <2>1, <2>2, <1>1 DEF DifferInQuantity
<1>5. c.lookup = b.lookup
  BY <1>1 DEF DifferInQuantity
<1> HIDE DEF new
<1>6. Lookups(c) = [i \in DOMAIN b.lookup |-> IF i = id THEN new ELSE Lookups(b)[i]]
  BY <1>3, <1>4, <1>5 DEF Lookups
<1>7. /\ DOMAIN rest = DOMAIN b.lookup \ {id}
      /\ \A i \in DOMAIN rest : rest[i] = Lookups(b)[i]
  BY DEF Baseline!Without, Lookups
<1> HIDE DEF rest
<1>8. Baseline!Emplace(rest, id, new) = Lookups(c)
  BY <1>6, <1>7 DEF Baseline!Emplace
<1> QED BY <1>8 DEF c, new, rest, o

\* The refinement mapping reads the baseline's two maps off the invariant.
LEMMA MapsAre ==
    ASSUME Inv
    PROVE  LookupMap = Lookups(Book) /\ LevelMap = Grouped(Lookups(Book))
<1> DEFINE m == Lookups(Book)
           ids(p) == {i \in DOMAIN lookup : lookup[i].level = p}
<1>1. BookTypes(Book) /\ Pooled(Book) /\ Listed(Book, arrivals) /\ Linked(Book, arrivals)
  BY DEF Inv, BookOK
<1>2. LookupMap = m
  BY DEF LookupMap, Lookups, OrderOf, Stored, Book
<1>3. DOMAIN m = DOMAIN lookup /\ \A i \in DOMAIN lookup : m[i] = OrderOf(lookup[i].node)
  BY DEF Lookups, OrderOf, Stored, Book
<1>4. ASSUME NEW i \in DOMAIN lookup
      PROVE  /\ lookup[i].node \in Alive /\ lookup[i].level \in Prices
             /\ node[lookup[i].node].order.id = i
             /\ node[lookup[i].node].order.price = lookup[i].level
             /\ m[i].price = lookup[i].level
  <2>1. /\ lookup[i].node \in Slots /\ lookup[i].level \in Prices
        /\ node[lookup[i].node] # Destroyed
        /\ node[lookup[i].node].order.id = i
        /\ node[lookup[i].node].order.price = lookup[i].level
    BY <1>1 DEF BookTypes, Pooled, Book
  <2>2. m[i].price = node[lookup[i].node].order.price
    BY <1>3 DEF OrderOf
  <2> QED BY <2>1, <2>2 DEF Alive
<1> HIDE DEF m
<1>5. \A n \in Alive : \E i \in DOMAIN lookup : lookup[i].node = n
  BY <1>1 DEF Alive, Pooled, Book
<1>6. ASSUME NEW p PROVE {i \in DOMAIN m : m[i].price = p} = ids(p)
  BY <1>3, <1>4
<1>7. DOMAIN levels = DOMAIN Grouped(m)
  <2>1. ASSUME NEW p \in DOMAIN levels PROVE p \in DOMAIN Grouped(m)
    <3>1. p \in Prices
      BY <1>1 DEF BookTypes, Book
    <3>2. Len(arrivals[p]) # 0 /\ arrivals[p] \in Seq(Ids)
      BY <3>1, <1>1 DEF Linked, Ended, Listed, Book
    <3>3. 1 \in 1 .. Len(arrivals[p])
      BY <3>2
    <3>4. arrivals[p][1] \in DOMAIN lookup /\ lookup[arrivals[p][1]].level = p
      BY <3>1, <3>3, <1>1 DEF Listed, Book
    <3>5. \E i \in DOMAIN m : m[i].price = p
      BY <3>4, <1>3, <1>4
    <3> QED BY <3>5, GroupedIs
  <2>2. ASSUME NEW p \in DOMAIN Grouped(m) PROVE p \in DOMAIN levels
    <3>1. PICK i \in DOMAIN m : m[i].price = p
      BY GroupedIs
    <3>2. i \in DOMAIN lookup /\ lookup[i].level = p /\ p \in Prices
      BY <3>1, <1>3, <1>4
    <3>3. PICK k \in 1 .. Len(arrivals[p]) : arrivals[p][k] = i
      BY <3>2, <1>1 DEF Listed, Book
    <3>4. arrivals[p] \in Seq(Ids)
      BY <3>2, <1>1 DEF Listed
    <3>5. Len(arrivals[p]) # 0
      BY <3>3, <3>4
    <3>6. Ended(Book, arrivals, p)
      BY <3>2, <1>1 DEF Linked
    <3> QED BY <3>5, <3>6 DEF Ended, Book
  <2> QED BY <2>1, <2>2
<1>8. ASSUME NEW p \in DOMAIN levels PROVE LevelMap[p] = Grouped(m)[p]
  <2>1. \A i \in ids(p) : lookup[i].node \in NodesAt(p) /\ node[lookup[i].node].order.id = i
    BY <1>4 DEF NodesAt
  <2>2. \A n \in NodesAt(p) : node[n].order.id \in ids(p) /\ lookup[node[n].order.id].node = n
    BY <1>4, <1>5 DEF NodesAt
  <2>3. {node[n].order.id : n \in NodesAt(p)} = ids(p)
    BY <2>1, <2>2
  <2>4. ASSUME NEW i \in ids(p)
        PROVE  OrderOf(CHOOSE n \in NodesAt(p) : node[n].order.id = i) = m[i]
    <3> DEFINE n == CHOOSE n \in NodesAt(p) : node[n].order.id = i
    <3>1. n \in NodesAt(p) /\ node[n].order.id = i
      BY <2>1
    <3> HIDE DEF n
    <3>2. n = lookup[i].node
      BY <3>1, <2>2
    <3>3. OrderOf(n) = m[i]
      BY <3>2, <1>3
    <3> QED BY <3>3 DEF n
  <2> DEFINE stored(i) == OrderOf(CHOOSE n \in NodesAt(p) : node[n].order.id = i)
  <2>5. LevelMap[p] = [i \in {node[n].order.id : n \in NodesAt(p)} |-> stored(i)]
    BY DEF LevelMap
  <2>6. Grouped(m)[p] = [i \in {i \in DOMAIN m : m[i].price = p} |-> m[i]]
    <3>1. Grouped(m)[p] = Group(m, p)
      BY <1>7, GroupedIs
    <3> QED BY <3>1 DEF Group
  <2>7. LevelMap[p] = [i \in ids(p) |-> m[i]]
    <3>1. \A i \in ids(p) : stored(i) = m[i]
      BY <2>4
    <3>2. LevelMap[p] = [i \in ids(p) |-> stored(i)]
      BY <2>3, <2>5
    <3> HIDE DEF stored, ids
    <3> QED BY <3>1, <3>2
  <2>8. Grouped(m)[p] = [i \in ids(p) |-> m[i]]
    BY <2>6, <1>6
  <2> QED BY <2>7, <2>8
<1>9. /\ LevelMap = [p \in DOMAIN levels |-> LevelMap[p]]
      /\ Grouped(m) = [p \in DOMAIN Grouped(m) |-> Grouped(m)[p]]
  BY DEF LevelMap, Grouped
<1>10. LevelMap = Grouped(m)
  BY <1>7, <1>8, <1>9
<1> QED BY <1>2, <1>10 DEF m

LEMMA MapsAreAfterwards ==
    Inv' => LookupMap' = Lookups(Book') /\ LevelMap' = Grouped(Lookups(Book'))
<1> DEFINE Maps == LookupMap = Lookups(Book) /\ LevelMap = Grouped(Lookups(Book))
<1>1. Inv => Maps
  BY MapsAre
<1> HIDE DEF Maps
<1>2. Inv' => Maps'
  BY <1>1, PTL
<1> QED BY <1>2 DEF Maps

LEMMA BaselineInit ==
    ASSUME Init
    PROVE  Baseline!Init
<1>1. DOMAIN lookup = {} /\ DOMAIN levels = {}
  BY DEF Init
<1>2. LookupMap = Baseline!EmptyMap
  BY <1>1 DEF LookupMap, Baseline!EmptyMap
<1>3. LevelMap = Baseline!EmptyMap
  BY <1>1 DEF LevelMap, Baseline!EmptyMap
<1> QED BY <1>2, <1>3 DEF Baseline!Init

\* An operation of the pooled book is that operation of the baseline; a call
\* that changes no quantity is a stutter of both.
LEMMA BaselineStep ==
    ASSUME Inv, Inv', Next
    PROVE  Baseline!Next
<1> DEFINE b == Book
           c == Book'
           m == Lookups(b)
           g == Grouped(m)
<1>1. BookOK(b, arrivals)
  BY DEF Inv
<1>2. LookupMap = m /\ LevelMap = g
  BY MapsAre
<1>3. LookupMap' = Lookups(c) /\ LevelMap' = Grouped(Lookups(c))
  BY MapsAreAfterwards
<1>4. DOMAIN m = DOMAIN b.lookup
  BY DEF Lookups
<1>5. DOMAIN b.lookup \subseteq Ids
  BY <1>1 DEF BookOK, BookTypes
<1>6. ASSUME NEW id \in Ids, NEW p \in Prices, NEW q \in Quantities, NEW isBuy \in BOOLEAN,
             NEW o, o = [id |-> id, price |-> p, quantity |-> q, isBuy |-> isBuy],
             o \in Order, id \notin DOMAIN b.lookup, b.free # <<>>, c = Added(b, o)
      PROVE  Baseline!Next
  <2> DEFINE new == [price |-> p, quantity |-> q, isBuy |-> isBuy]
  <2>1. o.id = id /\ Stored(o) = new
    BY <1>6 DEF Stored
  <2>2. Lookups(Added(b, o)) = Baseline!Emplace(m, id, new)
    <3> HIDE DEF b, new
    <3> QED BY <2>1, <1>1, <1>6, LookupsAfterAdd
  <2>3. LookupMap' = Baseline!Emplace(m, id, new)
    <3> HIDE DEF b, c, m, new
    <3> QED BY <2>2, <1>3, <1>6
  <2>4. id \notin DOMAIN m
    BY <1>4, <1>6
  <2> HIDE DEF m, c, b, g, new
  <2>5. LevelMap' = Baseline!LevelsAfterAdd(g, id, new)
    BY <2>3, <2>4, <1>3, GroupedAfterAdd DEF g
  <2>6. Baseline!addOrder(id, p, q, isBuy)
    BY <2>3, <2>4, <2>5, <1>2 DEF Baseline!addOrder, new
  <2> QED BY <2>6 DEF Baseline!Next
<1>7. ASSUME NEW id \in DOMAIN b.lookup
      PROVE  /\ id \in Ids /\ id \in DOMAIN m
             /\ m[id].price = b.lookup[id].level
             /\ m[id].isBuy = b.node[b.lookup[id].node].order.isBuy
             /\ Grouped(Baseline!Without(m, id))
                   = Baseline!LevelsAfterErase(g, m[id].price, id)
             /\ id \notin DOMAIN Baseline!Without(m, id)
  <2>1. m[id] = Stored(b.node[b.lookup[id].node].order)
    BY DEF Lookups
  <2>2. b.node[b.lookup[id].node].order.price = b.lookup[id].level
    BY <1>1 DEF BookOK, Pooled
  <2>3. id \in Ids /\ id \in DOMAIN m
    BY <1>4, <1>5
  <2> HIDE DEF m, b
  <2>4. Grouped(Baseline!Without(m, id)) = Baseline!LevelsAfterErase(g, m[id].price, id)
    BY <2>3, GroupedAfterErase
  <2>5. id \notin DOMAIN Baseline!Without(m, id)
    BY DEF Baseline!Without
  <2> QED BY <2>1, <2>2, <2>3, <2>4, <2>5 DEF Stored
<1>8. ASSUME NEW id \in DOMAIN b.lookup, NEW p \in Prices, NEW q \in Quantities,
             Lookups(c) = Baseline!Emplace(Baseline!Without(m, id), id,
                             [price |-> p, quantity |-> q, isBuy |-> m[id].isBuy])
      PROVE  Baseline!Next
  <2> DEFINE new == [price |-> p, quantity |-> q, isBuy |-> m[id].isBuy]
             w == Baseline!Without(m, id)
  <2>1. new.price = p
    OBVIOUS
  <2>2. /\ id \in Ids /\ id \in DOMAIN m /\ id \notin DOMAIN w
        /\ Grouped(w) = Baseline!LevelsAfterErase(g, m[id].price, id)
    BY <1>7
  <2>3. LookupMap' = Baseline!Emplace(w, id, new)
    BY <1>3, <1>8
  <2> HIDE DEF m, c, b, g, new, w
  <2>4. LevelMap' = Baseline!LevelsAfterAdd(Grouped(w), id, new)
    <3>1. Lookups(c) = Baseline!Emplace(w, id, new)
      BY <2>3, <1>3
    <3> QED BY <3>1, <2>2, <1>3, GroupedAfterAdd
  <2>5. LevelMap' = Baseline!LevelsAfterAdd(Baseline!LevelsAfterErase(g, m[id].price, id), id, new)
    BY <2>2, <2>4
  <2>6. Baseline!modifyOrder(id, p, q)
    <3>1. id \in DOMAIN LookupMap /\ LookupMap[id] = m[id]
      BY <2>2, <1>2
    <3>2. LookupMap' = Baseline!Emplace(Baseline!Without(LookupMap, id), id, new)
      BY <2>3, <1>2 DEF w
    <3>3. LevelMap' = Baseline!LevelsAfterAdd(
                          Baseline!LevelsAfterErase(LevelMap, LookupMap[id].price, id), id, new)
      BY <2>5, <3>1, <1>2
    <3>4. new = [price |-> p, quantity |-> q, isBuy |-> LookupMap[id].isBuy]
      BY <3>1 DEF new
    <3> QED BY <3>1, <3>2, <3>3, <3>4 DEF Baseline!modifyOrder
  <2> QED BY <2>2, <2>6 DEF Baseline!Next
<1>9. ASSUME NEW id \in DOMAIN b.lookup, NEW q \in Quantities, c = Requantified(b, id, q)
      PROVE  Baseline!Next
  <2>1. b.lookup[id].level \in Prices
    BY <1>1 DEF BookOK, BookTypes
  <2>2. Lookups(Requantified(b, id, q))
           = Baseline!Emplace(Baseline!Without(m, id), id,
                [price |-> b.lookup[id].level, quantity |-> q,
                 isBuy |-> b.node[b.lookup[id].node].order.isBuy])
    BY <1>1, LookupsAfterRequantify
  <2> HIDE DEF m, b, c
  <2> QED BY <2>1, <2>2, <1>7, <1>8, <1>9
<1>10. ASSUME NEW id \in DOMAIN b.lookup, NEW p \in Prices, NEW q \in Quantities,
              c = Relocated(b, id, p, q)
       PROVE  Baseline!Next
  <2> DEFINE a == Removed(b, id)
             o == [id |-> id, price |-> p, quantity |-> q,
                   isBuy |-> b.node[b.lookup[id].node].order.isBuy]
  <2>1. Relocated(b, id, p, q) = Added(a, o)
    BY DEF Relocated
  <2>2. BookOK(a, Struck(arrivals, id)) /\ Lookups(a) = Baseline!Without(m, id)
    BY <1>1, RemovedOK, LookupsAfterRemove
  <2>3. a.free # <<>> /\ o.id \notin DOMAIN a.lookup
    <3>1. /\ a.free = Append(b.free, b.lookup[id].node)
          /\ a.lookup = [i \in DOMAIN b.lookup \ {id} |-> b.lookup[i]]
      BY <1>1, RemovedFields
    <3>2. b.free \in Seq(Slots)
      BY <1>1 DEF BookOK, BookTypes
    <3>3. a.free # <<>>
      <4> HIDE DEF a, b
      <4> QED BY <3>1, <3>2
    <3>4. o.id \notin DOMAIN a.lookup
      <4> HIDE DEF a, b
      <4> QED BY <3>1
    <3> QED BY <3>3, <3>4
  <2>4. o \in Order
    <3>1. b.node[b.lookup[id].node] \in Node
      BY <1>1 DEF BookOK, BookTypes, Pooled
    <3> QED BY <3>1, <1>5 DEF Node, Order
  <2>5. o.id = id /\ Stored(o) = [price |-> p, quantity |-> q, isBuy |-> m[id].isBuy]
    BY <1>7 DEF Stored
  <2> HIDE DEF a, o, m
  <2>6. Lookups(Added(a, o)) = Baseline!Emplace(Lookups(a), o.id, Stored(o))
    BY <2>2, <2>3, <2>4, LookupsAfterAdd
  <2> HIDE DEF b, c
  <2>7. Lookups(c) = Baseline!Emplace(Baseline!Without(m, id), id,
                        [price |-> p, quantity |-> q, isBuy |-> m[id].isBuy])
    BY <2>1, <2>2, <2>5, <2>6, <1>10
  <2> QED BY <2>7, <1>8
<1>11. ASSUME NEW id \in DOMAIN b.lookup, c = Removed(b, id)
       PROVE  Baseline!Next
  <2>1. Lookups(Removed(b, id)) = Baseline!Without(m, id)
    BY <1>1, LookupsAfterRemove
  <2> HIDE DEF b, c, m, g
  <2>2. LookupMap' = Baseline!Without(m, id) /\ LevelMap' = Grouped(Baseline!Without(m, id))
    BY <2>1, <1>3, <1>11
  <2>3. Baseline!deleteOrder(id)
    BY <2>2, <1>2, <1>7 DEF Baseline!deleteOrder
  <2> QED BY <2>3, <1>7 DEF Baseline!Next
<1> HIDE DEF b, c, m, g
<1> QED BY <1>6, <1>9, <1>10, <1>11, StepIs DEF b, c

(***************************************************************************)
(* To its callers the pooled book is the baseline book: for every capacity *)
(* that holds the callers' orders, each of its operations changes orders,  *)
(* sizes and price levels as the baseline's would.                         *)
(***************************************************************************)
THEOREM PooledBookIsTheBaseline == Spec => ImplementsBaseline
<1>1. Init => Baseline!Init
  BY BaselineInit
<1>2. Inv /\ Inv' /\ [Next]_vars => [Baseline!Next]_(Baseline!vars)
  <2> SUFFICES ASSUME Inv, Inv', [Next]_vars PROVE [Baseline!Next]_(Baseline!vars)
    OBVIOUS
  <2>1. CASE Next
    BY <2>1, BaselineStep
  <2>2. CASE vars' = vars
    <3>1. LookupMap' = LookupMap /\ LevelMap' = LevelMap
      BY <2>2 DEF vars, LookupMap, LevelMap, OrderOf, NodesAt, Alive
    <3> QED BY <3>1 DEF Baseline!vars
  <2> QED BY <2>1, <2>2
<1> QED BY <1>1, <1>2, Invariance, PTL DEF Spec, ImplementsBaseline, Baseline!Spec

-----------------------------------------------------------------------------
(***************************************************************************)
(* The vector book of phase4 (FlatOrderBook) against a map from price to   *)
(* queue.  The map's queue of a price is the queue of the level with that  *)
(* price, of which there is one: VectorInv keeps a side's levels apart,    *)
(* best first, and none without an order.  So an insertion before the      *)
(* first worse level keeps them sorted, and a prune that stops at the      *)
(* first live order has passed every level without one.                    *)
(***************************************************************************)
Level == [price : VectorPrices, q : Seq(Orders)]

\* The levels of a side: best first, and none without an order.
Fit(t, L) ==
    /\ L \in Seq(Level)
    /\ \A j, k \in 1 .. Len(L) : j < k => Flat!Better(t, L[j].price, L[k].price)
    /\ \A k \in 1 .. Len(L) : Len(L[k].q) # 0

VectorInv ==
    /\ sides = [t \in Flat!Sides |-> sides[t]]
    /\ \A t \in Flat!Sides : Fit(t, sides[t])

\* The queue that Queue shows at a price.
QueueIn(L, p) ==
    LET here == {k \in DOMAIN L : L[k].price = p}
    IN  IF here = {} THEN <<>> ELSE L[CHOOSE k \in here : TRUE].q

LEMMA BetterIs ==
    ASSUME NEW t, NEW p \in VectorPrices, NEW r \in VectorPrices
    PROVE  /\ Flat!Better(t, p, r) => ~Flat!Better(t, r, p)
           /\ ~Flat!Better(t, p, p)
           /\ Flat!Better(t, p, r) \/ Flat!Better(t, r, p) \/ p = r
           /\ \A x \in VectorPrices : Flat!Better(t, p, r) /\ Flat!Better(t, r, x) => Flat!Better(t, p, x)
<1>1. VectorPrices \subseteq Int
  BY ComparisonAssumption DEF Flat!PricesAssumption
<1> QED BY <1>1 DEF Flat!Better

LEMMA FitFacts ==
    ASSUME NEW t, NEW L, Fit(t, L)
    PROVE  /\ Len(L) \in Nat /\ DOMAIN L = 1 .. Len(L)
           /\ \A k \in 1 .. Len(L) :
                 /\ L[k] \in Level /\ L[k].price \in VectorPrices
                 /\ L[k].q \in Seq(Orders) /\ L[k].q # <<>> /\ Len(L[k].q) \in Nat \ {0}
                 /\ L[k] = [price |-> L[k].price, q |-> L[k].q]
           /\ \A j, k \in 1 .. Len(L) : L[j].price = L[k].price => j = k
<1>1. L \in Seq(Level) /\ Len(L) \in Nat /\ DOMAIN L = 1 .. Len(L)
  BY DEF Fit
<1>2. ASSUME NEW k \in 1 .. Len(L)
      PROVE  /\ L[k] \in Level /\ L[k].price \in VectorPrices
             /\ L[k].q \in Seq(Orders) /\ L[k].q # <<>> /\ Len(L[k].q) \in Nat \ {0}
             /\ L[k] = [price |-> L[k].price, q |-> L[k].q]
  <2>1. L[k] \in Level
    BY <1>1
  <2>2. L[k].q \in Seq(Orders) /\ Len(L[k].q) # 0
    BY <2>1 DEF Level, Fit
  <2> QED BY <2>1, <2>2 DEF Level
<1>3. ASSUME NEW j \in 1 .. Len(L), NEW k \in 1 .. Len(L), L[j].price = L[k].price
      PROVE  j = k
  <2>1. ~Flat!Better(t, L[j].price, L[k].price) /\ ~Flat!Better(t, L[k].price, L[j].price)
    BY <1>2, <1>3, BetterIs
  <2>2. ~(j < k) /\ ~(k < j)
    BY <2>1 DEF Fit
  <2> QED BY <2>2, <1>1
<1> QED BY <1>1, <1>2, <1>3

LEMMA QueueInIs ==
    ASSUME NEW t, NEW L, Fit(t, L), NEW p
    PROVE  /\ \A k \in 1 .. Len(L) : L[k].price = p => QueueIn(L, p) = L[k].q
           /\ (\A k \in 1 .. Len(L) : L[k].price # p) => QueueIn(L, p) = <<>>
<1> DEFINE here == {k \in DOMAIN L : L[k].price = p}
<1>1. ASSUME NEW k \in 1 .. Len(L), L[k].price = p PROVE QueueIn(L, p) = L[k].q
  <2>1. here = {k}
    BY <1>1, FitFacts
  <2>2. (CHOOSE j \in here : TRUE) = k
    BY <2>1
  <2> QED BY <2>1, <2>2 DEF QueueIn
<1>2. ASSUME \A k \in 1 .. Len(L) : L[k].price # p PROVE QueueIn(L, p) = <<>>
  <2>1. here = {}
    BY <1>2, FitFacts
  <2> QED BY <2>1 DEF QueueIn
<1> QED BY <1>1, <1>2

LEMMA QueueIs ==
    Flat!Queue = [t \in Flat!Sides |-> [p \in VectorPrices |-> QueueIn(sides[t], p)]]
BY DEF Flat!Queue, QueueIn

LEMMA QueueIsNext ==
    Flat!Queue' = [t \in Flat!Sides |-> [p \in VectorPrices |-> QueueIn(sides'[t], p)]]
BY DEF Flat!Queue, QueueIn

-----------------------------------------------------------------------------
(***************************************************************************)
(* An order is added to the level at the place found, or to a new one      *)
(* there.                                                                  *)
(***************************************************************************)
LEMMA AddAtIs ==
    ASSUME NEW t, NEW L, Fit(t, L), NEW p
    PROVE  LET k == Flat!AddAt(L, t, p)
           IN  /\ k \in 1 .. Len(L) + 1
               /\ k = Len(L) + 1 \/ ~Flat!Better(t, L[k].price, p)
               /\ \A j \in 1 .. k - 1 : Flat!Better(t, L[j].price, p)
<1> DEFINE n == Len(L)
           Stop(k) == k = n + 1 \/ ~Flat!Better(t, L[k].price, p)
           T == {k \in 1 .. n + 1 : Stop(k)}
           First(k) == Stop(k) /\ \A j \in 1 .. k - 1 : ~~Flat!Better(t, L[j].price, p)
<1>1. n \in Nat
  BY FitFacts
<1> HIDE DEF n
<1>2. T \in SUBSET (1 .. n + 1) /\ T # {} /\ n + 1 \in Nat
  BY <1>1
<1>3. PICK m \in T : \A j \in T : m <= j
  BY <1>2, LeastPosition
<1>4. m \in 1 .. n + 1 /\ First(m)
  <2>1. ASSUME NEW j \in 1 .. m - 1 PROVE ~Stop(j)
    BY <1>1, <1>3
  <2> QED BY <1>3, <2>1
<1>5. Flat!AddAt(L, t, p) = CHOOSE k \in 1 .. n + 1 : First(k)
  BY DEF Flat!AddAt, Flat!FirstOf, n
<1> DEFINE c == CHOOSE k \in 1 .. n + 1 : First(k)
<1>6. c \in 1 .. n + 1 /\ First(c)
  BY <1>4
<1> QED BY <1>5, <1>6 DEF n

\* M is L with e before its k-th element.
Inserts(S, M, L, k, e) ==
    /\ M \in Seq(S) /\ Len(M) = Len(L) + 1
    /\ M[k] = e
    /\ \A j \in 1 .. k - 1 : M[j] = L[j]
    /\ \A j \in k + 1 .. Len(L) + 1 : M[j] = L[j - 1]

LEMMA InsertedIs ==
    ASSUME NEW S, NEW L \in Seq(S), NEW k \in 1 .. Len(L) + 1, NEW e \in S
    PROVE  Inserts(S, Flat!InsertAt(L, k, e), L, k, e)
<1> DEFINE before == SubSeq(L, 1, k - 1)
           after == SubSeq(L, k, Len(L))
           M == (before \o <<e>>) \o after
<1>1. Len(L) \in Nat /\ k \in Nat
  OBVIOUS
<1>2. before \in Seq(S) /\ Len(before) = k - 1 /\ \A j \in 1 .. k - 1 : before[j] = L[j]
  <2>1. 1 \in 1 .. Len(L) + 1 /\ k - 1 \in 1 - 1 .. Len(L)
    BY <1>1
  <2> QED BY <2>1, <1>1, SubSeqProperties
<1>3. after \in Seq(S) /\ Len(after) = Len(L) - k + 1 /\ \A j \in 1 .. Len(L) - k + 1 : after[j] = L[k + j - 1]
  <2>1. k \in 1 .. Len(L) + 1 /\ Len(L) \in k - 1 .. Len(L)
    BY <1>1
  <2> QED BY <2>1, <1>1, SubSeqProperties
<1>4. M = Flat!InsertAt(L, k, e)
  BY DEF Flat!InsertAt
<1> HIDE DEF before, after
<1>5. /\ M \in Seq(S) /\ Len(M) = Len(L) + 1
      /\ M[k] = e
      /\ \A j \in 1 .. k - 1 : M[j] = L[j]
      /\ \A j \in k + 1 .. Len(L) + 1 : M[j] = L[j - 1]
  <2>1. <<e>> \in Seq(S) /\ Len(<<e>>) = 1 /\ <<e>>[1] = e
    OBVIOUS
  <2>2. /\ before \o <<e>> \in Seq(S) /\ Len(before \o <<e>>) = k
        /\ \A j \in 1 .. k - 1 : (before \o <<e>>)[j] = before[j]
        /\ (before \o <<e>>)[k] = e
    BY <1>1, <1>2, <2>1
  <2> DEFINE b2 == before \o <<e>>
  <2> HIDE DEF b2
  <2>3. b2 \in Seq(S) /\ Len(b2) = k /\ (\A j \in 1 .. k - 1 : b2[j] = before[j]) /\ b2[k] = e
    BY <2>2 DEF b2
  <2>4. /\ b2 \o after \in Seq(S) /\ Len(b2 \o after) = Len(L) + 1
        /\ \A j \in 1 .. k : (b2 \o after)[j] = b2[j]
        /\ \A j \in 1 .. Len(L) - k + 1 : (b2 \o after)[k + j] = after[j]
    <3> DEFINE d == Len(L) - k + 1
    <3>1. d \in Nat /\ k + d = Len(L) + 1 /\ Len(after) = d
      BY <1>1, <1>3
    <3> HIDE DEF d
    <3>2. Len(b2 \o after) = k + d /\ b2 \o after \in Seq(S)
      BY <3>1, <1>3, <2>3
    <3>3. \A j \in 1 .. k + d : (b2 \o after)[j] = IF j <= k THEN b2[j] ELSE after[j - k]
      BY ONLY <3>1, <1>3, <2>3, <1>1
    <3>4. \A j \in 1 .. d : k + j \in 1 .. k + d /\ ~(k + j <= k) /\ (k + j) - k = j
      BY ONLY <3>1, <1>1
    <3>5. \A j \in 1 .. k : j \in 1 .. k + d /\ j <= k
      BY ONLY <3>1, <1>1
    <3> QED BY <3>1, <3>2, <3>3, <3>4, <3>5 DEF d
  <2>5. ASSUME NEW j \in k + 1 .. Len(L) + 1 PROVE (b2 \o after)[j] = L[j - 1]
    <3>1. j - k \in 1 .. Len(L) - k + 1 /\ k + (j - k) = j /\ k + (j - k) - 1 = j - 1
      BY <1>1
    <3>2. (b2 \o after)[k + (j - k)] = after[j - k] /\ after[j - k] = L[k + (j - k) - 1]
      BY <3>1, <2>4, <1>3
    <3> QED BY <3>1, <3>2
  <2>6. M = b2 \o after
    BY DEF b2
  <2>7. k \in 1 .. k /\ \A j \in 1 .. k - 1 : j \in 1 .. k
    BY <1>1
  <2> HIDE DEF M
  <2> QED BY <2>3, <2>4, <2>5, <2>6, <2>7, <1>2
<1> HIDE DEF M
<1>6. Inserts(S, M, L, k, e)
  BY <1>5 DEF Inserts
<1> QED BY <1>4, <1>6

-----------------------------------------------------------------------------
Lengthened(t, L, p, i) ==
    LET k == Flat!AddAt(L, t, p)
    IN  IF k <= Len(L) /\ L[k].price = p
        THEN [L EXCEPT ![k].q = Append(@, i)]
        ELSE Flat!InsertAt(L, k, [price |-> p, q |-> <<i>>])

\* In M order i is at the end of the queue of price p.
Longer(t, M, L, p, i) ==
    /\ Fit(t, M)
    /\ \A r \in VectorPrices : QueueIn(M, r) = IF r = p THEN Append(QueueIn(L, p), i) ELSE QueueIn(L, r)

LEMMA AddedToLevel ==
    ASSUME NEW t, NEW L, Fit(t, L), NEW k \in 1 .. Len(L), NEW i \in Orders
    PROVE  Longer(t, [L EXCEPT ![k].q = Append(@, i)], L, L[k].price, i)
<1> DEFINE M == [L EXCEPT ![k].q = Append(@, i)]
           e == [price |-> L[k].price, q |-> Append(L[k].q, i)]
<1>1. /\ L \in Seq(Level) /\ Len(L) \in Nat /\ DOMAIN L = 1 .. Len(L)
      /\ L[k].price \in VectorPrices /\ L[k].q \in Seq(Orders)
      /\ L[k] = [price |-> L[k].price, q |-> L[k].q]
  BY FitFacts DEF Fit
<1>2. e \in Level /\ e.price = L[k].price /\ e.q = Append(L[k].q, i) /\ Len(e.q) # 0
  BY <1>1 DEF Level
<1>3. M = [L EXCEPT ![k] = e]
  <2> DEFINE x == L[k].price
             y == L[k].q
  <2>0. L[k] = [price |-> x, q |-> y]
    BY <1>1
  <2> HIDE DEF x, y
  <2>1. [L[k] EXCEPT !.q = Append(@, i)] = [price |-> x, q |-> Append(y, i)]
    BY <2>0
  <2> QED BY <2>1, <1>1 DEF x, y
<1> HIDE DEF M, e
<1>4. /\ M \in Seq(Level) /\ Len(M) = Len(L) /\ DOMAIN M = 1 .. Len(L)
      /\ M[k] = e /\ \A j \in 1 .. Len(L) : j # k => M[j] = L[j]
  BY <1>1, <1>2, <1>3
<1>5. \A j \in 1 .. Len(L) : M[j].price = L[j].price /\ Len(M[j].q) # 0
  BY <1>2, <1>4 DEF Fit
<1>6. Fit(t, M)
  BY <1>4, <1>5 DEF Fit
<1>7. ASSUME NEW r \in VectorPrices
      PROVE  QueueIn(M, r) = IF r = L[k].price THEN Append(QueueIn(L, L[k].price), i) ELSE QueueIn(L, r)
  <2>1. CASE r = L[k].price
    <3>1. QueueIn(M, r) = M[k].q /\ QueueIn(L, r) = L[k].q
      BY <2>1, <1>4, <1>5, <1>6, QueueInIs
    <3> QED BY <2>1, <3>1, <1>2, <1>4
  <2>2. CASE r # L[k].price /\ \E j \in 1 .. Len(L) : L[j].price = r
    <3>1. PICK j \in 1 .. Len(L) : L[j].price = r
      BY <2>2
    <3>2. QueueIn(L, r) = L[j].q /\ QueueIn(M, r) = M[j].q
      BY <3>1, <1>4, <1>5, <1>6, QueueInIs
    <3> QED BY <2>2, <3>1, <3>2, <1>4
  <2>3. CASE ~\E j \in 1 .. Len(L) : L[j].price = r
    <3>1. QueueIn(L, r) = <<>>
      BY <2>3, QueueInIs
    <3>2. QueueIn(M, r) = <<>>
      BY <2>3, <1>4, <1>5, <1>6, QueueInIs
    <3> QED BY <2>3, <3>1, <3>2
  <2> QED BY <2>1, <2>2, <2>3
<1>8. Longer(t, M, L, L[k].price, i)
  BY <1>6, <1>7 DEF Longer
<1> QED BY <1>8 DEF M

LEMMA AddedAsLevel ==
    ASSUME NEW t, NEW L, Fit(t, L), NEW p \in VectorPrices, NEW i \in Orders,
           NEW k \in 1 .. Len(L) + 1,
           \A j \in 1 .. k - 1 : Flat!Better(t, L[j].price, p),
           \A j \in k .. Len(L) : Flat!Better(t, p, L[j].price)
    PROVE  Longer(t, Flat!InsertAt(L, k, [price |-> p, q |-> <<i>>]), L, p, i)
<1> DEFINE e == [price |-> p, q |-> <<i>>]
           M == Flat!InsertAt(L, k, e)
<1>1. L \in Seq(Level) /\ Len(L) \in Nat /\ DOMAIN L = 1 .. Len(L)
  BY DEF Fit
<1>2. e \in Level /\ e.price = p /\ e.q = <<i>> /\ Len(e.q) # 0
  BY DEF Level
<1> HIDE DEF e
<1>0. Inserts(Level, M, L, k, e)
  BY <1>1, <1>2, InsertedIs
<1> HIDE DEF M
<1>3. /\ M \in Seq(Level) /\ Len(M) = Len(L) + 1 /\ M[k] = e
      /\ \A j \in 1 .. k - 1 : M[j] = L[j]
      /\ \A j \in k + 1 .. Len(L) + 1 : M[j] = L[j - 1]
  BY <1>0 DEF Inserts
<1>4. \A j \in 1 .. Len(L) + 1 :
         \/ j < k /\ j \in 1 .. Len(L) /\ M[j] = L[j]
         \/ j = k /\ M[j] = e
         \/ k < j /\ j - 1 \in 1 .. Len(L) /\ k <= j - 1 /\ M[j] = L[j - 1]
  BY <1>1, <1>3
<1>5. \A j \in 1 .. Len(L) : \E h \in 1 .. Len(L) + 1 : M[h] = L[j]
  <2> TAKE j \in 1 .. Len(L)
  <2>1. CASE j < k
    BY <2>1, <1>1, <1>3
  <2>2. CASE k <= j
    <3>1. j + 1 \in k + 1 .. Len(L) + 1 /\ (j + 1) - 1 = j /\ j + 1 \in 1 .. Len(L) + 1
      BY <2>2, <1>1
    <3> QED BY <3>1, <1>3
  <2> QED BY <2>1, <2>2, <1>1
<1>6. ASSUME NEW j \in 1 .. Len(L) + 1, NEW h \in 1 .. Len(L) + 1, j < h
      PROVE  Flat!Better(t, M[j].price, M[h].price)
  <2>1. CASE h < k
    <3>1. j \in 1 .. Len(L) /\ h \in 1 .. Len(L) /\ M[j] = L[j] /\ M[h] = L[h]
      BY <2>1, <1>1, <1>3, <1>6
    <3> QED BY <3>1, <1>6 DEF Fit
  <2>2. CASE h = k
    <3>1. j \in 1 .. k - 1 /\ M[j] = L[j] /\ M[h] = e
      BY <2>2, <1>1, <1>3, <1>6
    <3> QED BY <3>1, <1>2
  <2>3. CASE k < h /\ j = k
    <3>1. h - 1 \in k .. Len(L) /\ M[h] = L[h - 1] /\ M[j] = e
      BY <2>3, <1>1, <1>3
    <3> QED BY <3>1, <1>2
  <2>4. CASE k < h /\ j < k
    <3>1. h - 1 \in 1 .. Len(L) /\ M[h] = L[h - 1] /\ j \in 1 .. Len(L) /\ M[j] = L[j] /\ j < h - 1
      BY <2>4, <1>1, <1>3
    <3> QED BY <3>1 DEF Fit
  <2>5. CASE k < j
    <3>1. /\ h - 1 \in 1 .. Len(L) /\ M[h] = L[h - 1] /\ j - 1 \in 1 .. Len(L) /\ M[j] = L[j - 1]
          /\ j - 1 < h - 1
      BY <2>5, <1>1, <1>3, <1>6
    <3> QED BY <3>1 DEF Fit
  <2> QED BY <2>1, <2>2, <2>3, <2>4, <2>5, <1>1
<1>7. Fit(t, M)
  <2>1. \A j \in 1 .. Len(L) + 1 : Len(M[j].q) # 0
    BY <1>2, <1>4 DEF Fit
  <2> QED BY <2>1, <1>3, <1>6 DEF Fit
<1>8. ASSUME NEW j \in 1 .. Len(L) PROVE L[j].price # p
  <2>1. Flat!Better(t, L[j].price, p) \/ Flat!Better(t, p, L[j].price)
    BY <1>1
  <2> QED BY <2>1, BetterIs
<1>9. ASSUME NEW r \in VectorPrices
      PROVE  QueueIn(M, r) = IF r = p THEN Append(QueueIn(L, p), i) ELSE QueueIn(L, r)
  <2>1. CASE r = p
    <3>1. QueueIn(L, p) = <<>>
      BY <1>8, QueueInIs
    <3>2. QueueIn(M, p) = <<i>>
      BY <1>2, <1>3, <1>7, QueueInIs, <1>1
    <3> QED BY <2>1, <3>1, <3>2
  <2>2. CASE r # p /\ \E j \in 1 .. Len(L) : L[j].price = r
    <3>1. PICK j \in 1 .. Len(L) : L[j].price = r
      BY <2>2
    <3>2. PICK h \in 1 .. Len(L) + 1 : M[h] = L[j]
      BY <1>5
    <3>3. QueueIn(L, r) = L[j].q
      BY <3>1, QueueInIs
    <3>4. h \in 1 .. Len(M) /\ M[h].price = r
      BY <3>1, <3>2, <1>3
    <3>5. QueueIn(M, r) = M[h].q
      BY ONLY <3>4, <1>7, QueueInIs
    <3> QED BY <2>2, <3>2, <3>3, <3>5
  <2>3. CASE r # p /\ ~\E j \in 1 .. Len(L) : L[j].price = r
    <3>1. QueueIn(L, r) = <<>>
      BY <2>3, QueueInIs
    <3>2. \A h \in 1 .. Len(M) : M[h].price # r
      BY <2>3, <1>2, <1>3, <1>4
    <3>3. QueueIn(M, r) = <<>>
      BY <3>2, <1>7, QueueInIs
    <3> QED BY <2>3, <3>1, <3>3
  <2> QED BY <2>1, <2>2, <2>3
<1>10. Longer(t, M, L, p, i)
  BY <1>7, <1>9 DEF Longer
<1> QED BY <1>10 DEF M, e

LEMMA AddedIs ==
    ASSUME NEW t, NEW L, Fit(t, L), NEW p \in VectorPrices, NEW i \in Orders
    PROVE  Longer(t, Lengthened(t, L, p, i), L, p, i)
<1> DEFINE k == Flat!AddAt(L, t, p)
<1>1. /\ k \in 1 .. Len(L) + 1
      /\ k = Len(L) + 1 \/ ~Flat!Better(t, L[k].price, p)
      /\ \A j \in 1 .. k - 1 : Flat!Better(t, L[j].price, p)
  BY AddAtIs
<1> HIDE DEF k
<1>2. CASE k <= Len(L) /\ L[k].price = p
  <2>1. k \in 1 .. Len(L)
    BY <1>1, <1>2, FitFacts
  <2>2. Lengthened(t, L, p, i) = [L EXCEPT ![k].q = Append(@, i)]
    BY <1>2 DEF Lengthened, k
  <2>3. L[k].price = p
    BY <1>2
  <2> DEFINE M == [L EXCEPT ![k].q = Append(@, i)]
  <2>4. Longer(t, M, L, L[k].price, i)
    BY <2>1, AddedToLevel
  <2> HIDE DEF M
  <2>5. Longer(t, M, L, p, i)
    BY <2>3, <2>4
  <2> QED BY <2>2, <2>5 DEF M
<1>3. CASE ~(k <= Len(L) /\ L[k].price = p)
  <2>1. ASSUME NEW j \in k .. Len(L) PROVE Flat!Better(t, p, L[j].price)
    <3>0. Len(L) \in Nat
      BY DEF Fit
    <3>1. k \in 1 .. Len(L) /\ j \in 1 .. Len(L)
      BY <3>0, <1>1
    <3>2. k <= Len(L) /\ ~Flat!Better(t, L[k].price, p) /\ L[k].price # p
      BY <3>0, <3>1, <1>1, <1>3
    <3>5. L[k].price \in VectorPrices /\ L[j].price \in VectorPrices
      BY <3>1, FitFacts
    <3>3. Flat!Better(t, p, L[k].price)
      BY <3>2, <3>5, BetterIs
    <3>4. j = k \/ Flat!Better(t, L[k].price, L[j].price)
      BY <3>1 DEF Fit
    <3> QED BY <3>5, <3>3, <3>4, BetterIs
  <2>2. Lengthened(t, L, p, i) = Flat!InsertAt(L, k, [price |-> p, q |-> <<i>>])
    BY <1>3 DEF Lengthened, k
  <2> QED BY <2>1, <2>2, <1>1, AddedAsLevel
<1> QED BY <1>2, <1>3

-----------------------------------------------------------------------------
(***************************************************************************)
(* A trade and a prune take from the front of the best level, and the      *)
(* level with its last order.                                              *)
(***************************************************************************)
\* M is L from its k-th level on, of which the queue q is left.
Cut(M, L, k, q) ==
    /\ M \in Seq(Level) /\ Len(M) = Len(L) - k + 1
    /\ M[1] = [price |-> L[k].price, q |-> q]
    /\ \A j \in 2 .. Len(M) : M[j] = L[(j + k) - 1]

\* What is at each price then.
Shorter(t, M, L, k, q) ==
    /\ Fit(t, M)
    /\ \A r \in VectorPrices :
          QueueIn(M, r) = IF \E j \in 1 .. k - 1 : L[j].price = r THEN <<>>
                          ELSE IF r = L[k].price THEN q ELSE QueueIn(L, r)

LEMMA CutIs ==
    ASSUME NEW t, NEW L, Fit(t, L), NEW k \in 1 .. Len(L), NEW q \in Seq(Orders), Len(q) # 0,
           NEW M, Cut(M, L, k, q)
    PROVE  Shorter(t, M, L, k, q)
<1>1. /\ Len(L) \in Nat /\ k \in Nat
      /\ M \in Seq(Level) /\ Len(M) = Len(L) - k + 1
      /\ M[1].price = L[k].price /\ M[1].q = q
      /\ \A j \in 2 .. Len(M) : M[j] = L[(j + k) - 1]
  <2>1. Len(L) \in Nat /\ k \in Nat
    BY DEF Fit
  <2>2. /\ M \in Seq(Level) /\ Len(M) = Len(L) - k + 1
        /\ M[1] = [price |-> L[k].price, q |-> q]
        /\ \A j \in 2 .. Len(M) : M[j] = L[(j + k) - 1]
    BY DEF Cut
  <2>3. M[1].price = L[k].price /\ M[1].q = q
    BY ONLY <2>2
  <2> QED BY ONLY <2>1, <2>2, <2>3
<1>2. \A j \in 1 .. Len(M) : (j + k) - 1 \in k .. Len(L) /\ (j + k) - 1 \in 1 .. Len(L)
  BY <1>1
<1>3. \A j \in 1 .. Len(M) : M[j].price = L[(j + k) - 1].price
  <2> TAKE j \in 1 .. Len(M)
  <2>1. CASE j = 1
    <3>1. (j + k) - 1 = k
      BY <2>1, <1>1
    <3> QED BY <2>1, <3>1, <1>1
  <2>2. CASE j # 1
    BY <2>2, <1>1
  <2> QED BY <2>1, <2>2
<1>4. Fit(t, M)
  <2>1. ASSUME NEW j \in 1 .. Len(M), NEW h \in 1 .. Len(M), j < h
        PROVE  Flat!Better(t, M[j].price, M[h].price)
    <3>1. (j + k) - 1 < (h + k) - 1
      BY <1>1, <2>1
    <3>2. Flat!Better(t, L[(j + k) - 1].price, L[(h + k) - 1].price)
      BY <3>1, <1>2 DEF Fit
    <3> QED BY <3>2, <1>3
  <2>2. ASSUME NEW j \in 1 .. Len(M) PROVE Len(M[j].q) # 0
    <3>1. CASE j = 1
      BY <3>1, <1>1
    <3>2. CASE j # 1
      <4>1. M[j] = L[(j + k) - 1] /\ (j + k) - 1 \in 1 .. Len(L)
        BY <3>2, <1>1, <1>2
      <4> QED BY <4>1 DEF Fit
    <3> QED BY <3>1, <3>2
  <2> QED BY <2>1, <2>2, <1>1 DEF Fit
<1>5. ASSUME NEW r \in VectorPrices
      PROVE  QueueIn(M, r) = IF \E j \in 1 .. k - 1 : L[j].price = r THEN <<>>
                             ELSE IF r = L[k].price THEN q ELSE QueueIn(L, r)
  <2>1. CASE \E j \in 1 .. k - 1 : L[j].price = r
    <3>1. PICK j \in 1 .. k - 1 : L[j].price = r
      BY <2>1
    <3>2. ASSUME NEW h \in 1 .. Len(M), M[h].price = r PROVE FALSE
      <4>1. L[(h + k) - 1].price = L[j].price /\ (h + k) - 1 \in 1 .. Len(L) /\ j \in 1 .. Len(L)
        BY <3>1, <3>2, <1>1, <1>2, <1>3
      <4>2. (h + k) - 1 = j
        BY <4>1, FitFacts
      <4> QED BY <4>2, <1>1
    <3>3. QueueIn(M, r) = <<>>
      BY <3>2, <1>4, QueueInIs
    <3> QED BY <2>1, <3>3
  <2>2. CASE ~(\E j \in 1 .. k - 1 : L[j].price = r) /\ r = L[k].price
    <3>1. 1 \in 1 .. Len(M)
      BY <1>1
    <3>2. QueueIn(M, r) = M[1].q
      BY <2>2, <3>1, <1>1, <1>4, QueueInIs
    <3> QED BY <2>2, <3>2, <1>1
  <2>3. CASE ~(\E j \in 1 .. k - 1 : L[j].price = r) /\ r # L[k].price /\ \E j \in 1 .. Len(L) : L[j].price = r
    <3>1. PICK j \in 1 .. Len(L) : L[j].price = r
      BY <2>3
    <3>2. j \in k + 1 .. Len(L)
      BY <2>3, <3>1, <1>1
    <3>3. (j - k) + 1 \in 2 .. Len(M) /\ (j - k) + 1 \in 1 .. Len(M) /\ (((j - k) + 1) + k) - 1 = j
      <4> DEFINE l == Len(L)
                 m == Len(M)
      <4>1. l \in Nat /\ k \in Nat /\ k <= l /\ m = l - k + 1 /\ j \in k + 1 .. l
        BY <3>2, <1>1
      <4> HIDE DEF l, m
      <4>2. (j - k) + 1 \in 2 .. m /\ (j - k) + 1 \in 1 .. m /\ (((j - k) + 1) + k) - 1 = j
        BY ONLY <4>1
      <4> QED BY <4>2 DEF m
    <3>4. M[(j - k) + 1] = L[j]
      BY <3>3, <1>1
    <3>5. M[(j - k) + 1].price = r
      BY <3>1, <3>4
    <3>6. QueueIn(M, r) = M[(j - k) + 1].q
      BY <3>3, <3>5, <1>4, QueueInIs
    <3>7. QueueIn(L, r) = L[j].q
      BY <3>1, QueueInIs
    <3> QED BY <2>3, <3>4, <3>6, <3>7
  <2>4. CASE ~(\E j \in 1 .. k - 1 : L[j].price = r) /\ r # L[k].price /\ ~\E j \in 1 .. Len(L) : L[j].price = r
    <3>1. QueueIn(L, r) = <<>>
      BY <2>4, QueueInIs
    <3>2. ASSUME NEW h \in 1 .. Len(M) PROVE M[h].price # r
      BY <2>4, <1>2, <1>3
    <3>3. QueueIn(M, r) = <<>>
      BY <3>2, <1>4, QueueInIs
    <3> QED BY <2>4, <3>1, <3>3
  <2> QED BY <2>1, <2>2, <2>3, <2>4
<1> QED BY <1>4, <1>5 DEF Shorter

LEMMA TailOfOne == ASSUME NEW S, NEW q \in Seq(S), Len(q) = 1 PROVE Tail(q) = <<>>
<1>1. Tail(q) \in Seq(S) /\ Len(Tail(q)) = 0
  OBVIOUS
<1> QED BY <1>1, EmptySeq

\* Taking the first order, with its level if it was the last of it.
Popped(t, M, L) ==
    /\ Fit(t, M)
    /\ \A r \in VectorPrices : QueueIn(M, r) = IF r = L[1].price THEN Tail(QueueIn(L, r)) ELSE QueueIn(L, r)

LEMMA PoppedIs ==
    ASSUME NEW t, NEW L, Fit(t, L), L # <<>>
    PROVE  Popped(t, Flat!WithoutFrontOrder(L), L)
<1> DEFINE M == Flat!WithoutFrontOrder(L)
           q == L[1].q
<1>1. /\ L \in Seq(Level) /\ Len(L) \in Nat \ {0} /\ DOMAIN L = 1 .. Len(L) /\ 1 \in 1 .. Len(L)
  BY FitFacts, EmptySeq DEF Fit
<1>2. q \in Seq(Orders) /\ Len(q) \in Nat \ {0} /\ L[1].price \in VectorPrices
  BY <1>1, FitFacts
<1>3. \A r \in VectorPrices : r = L[1].price => QueueIn(L, r) = q
  BY <1>1, QueueInIs
<1>4. CASE Len(q) = 1 /\ Len(L) = 1
  <2>1. M = Tail(L)
    BY <1>4 DEF Flat!WithoutFrontOrder
  <2>2. M = <<>>
    BY <2>1, <1>4, <1>1
  <2>3. Fit(t, M)
    BY <2>2 DEF Fit
  <2>4. Tail(q) = <<>>
    BY <1>2, <1>4, TailOfOne
  <2>5. ASSUME NEW r \in VectorPrices
        PROVE  QueueIn(M, r) = IF r = L[1].price THEN Tail(QueueIn(L, r)) ELSE QueueIn(L, r)
    <3>1. QueueIn(M, r) = <<>>
      BY <2>2, <2>3, QueueInIs
    <3>2. r # L[1].price => QueueIn(L, r) = <<>>
      BY <1>4, QueueInIs
    <3> QED BY <3>1, <3>2, <2>4, <1>3
  <2> QED BY <2>3, <2>5 DEF Popped
<1>5. CASE Len(q) = 1 /\ Len(L) # 1
  <2>1. M = Tail(L)
    BY <1>5 DEF Flat!WithoutFrontOrder
  <2>2. 2 \in 1 .. Len(L)
    BY <1>1, <1>5
  <2>3. L[2] = [price |-> L[2].price, q |-> L[2].q] /\ L[2].q \in Seq(Orders) /\ Len(L[2].q) # 0
    BY <2>2, FitFacts
  <2>4. M \in Seq(Level) /\ Len(M) = Len(L) - 1 /\ \A j \in 1 .. Len(M) : M[j] = L[j + 1]
    BY <2>1, <1>1
  <2>5. Cut(M, L, 2, L[2].q)
    <3>1. M[1] = L[2] /\ Len(M) = Len(L) - 2 + 1
      BY <2>4, <1>1, <2>2
    <3>2. \A j \in 2 .. Len(M) : j \in 1 .. Len(M) /\ (j + 2) - 1 = j + 1
      BY <2>4, <1>1
    <3> QED BY <3>1, <3>2, <2>3, <2>4 DEF Cut
  <2>6. Shorter(t, M, L, 2, L[2].q)
    BY <2>2, <2>3, <2>5, CutIs
  <2>7. Tail(q) = <<>>
    BY <1>2, <1>5, TailOfOne
  <2>8. ASSUME NEW r \in VectorPrices
        PROVE  QueueIn(M, r) = IF r = L[1].price THEN Tail(QueueIn(L, r)) ELSE QueueIn(L, r)
    <3>1. (\E j \in 1 .. 2 - 1 : L[j].price = r) <=> r = L[1].price
      BY <1>1
    <3>2. QueueIn(M, r) = IF r = L[1].price THEN <<>> ELSE IF r = L[2].price THEN L[2].q ELSE QueueIn(L, r)
      BY <2>6, <3>1 DEF Shorter
    <3>3. r = L[2].price => QueueIn(L, r) = L[2].q
      BY <2>2, QueueInIs
    <3> QED BY <3>2, <3>3, <2>7, <1>3
  <2> QED BY <2>6, <2>8 DEF Popped, Shorter
<1>6. CASE Len(q) # 1
  <2>1. M = [L EXCEPT ![1].q = Tail(@)]
    BY <1>6 DEF Flat!WithoutFrontOrder
  <2>2. Tail(q) \in Seq(Orders) /\ Len(Tail(q)) # 0
    BY <1>2, <1>6
  <2> DEFINE e == [price |-> L[1].price, q |-> Tail(q)]
  <2>3. e \in Level
    BY <1>2, <2>2 DEF Level
  <2>4. M = [L EXCEPT ![1] = e]
    <3> DEFINE x == L[1].price
               y == L[1].q
    <3>1. L[1] = [price |-> x, q |-> y]
      BY <1>1, FitFacts
    <3> HIDE DEF x, y
    <3> DEFINE w == Tail(y)
    <3>3. w = Tail(L[1].q)
      BY <3>1
    <3> HIDE DEF w
    <3>4. [L[1] EXCEPT !.q = w] = [price |-> x, q |-> w]
      BY ONLY <3>1
    <3>2. [L[1] EXCEPT !.q = Tail(@)] = [price |-> x, q |-> Tail(y)]
      BY ONLY <3>3, <3>4 DEF w
    <3> QED BY <3>2, <2>1, <1>1 DEF x, y
  <2> HIDE DEF e
  <2>5. Cut(M, L, 1, Tail(q))
    <3>1. M \in Seq(Level) /\ Len(M) = Len(L) /\ M[1] = e /\ \A j \in 1 .. Len(L) : j # 1 => M[j] = L[j]
      BY <2>3, <2>4, <1>1
    <3>2. \A j \in 2 .. Len(L) : j \in 1 .. Len(L) /\ j # 1 /\ (j + 1) - 1 = j
      BY <1>1
    <3>3. Len(L) = Len(L) - 1 + 1
      BY <1>1
    <3> QED BY <3>1, <3>2, <3>3 DEF Cut, e
  <2>6. Shorter(t, M, L, 1, Tail(q))
    BY <1>1, <2>2, <2>5, CutIs
  <2>7. ASSUME NEW r \in VectorPrices
        PROVE  QueueIn(M, r) = IF r = L[1].price THEN Tail(QueueIn(L, r)) ELSE QueueIn(L, r)
    <3>1. ~\E j \in 1 .. 1 - 1 : L[j].price = r
      OBVIOUS
    <3>2. QueueIn(M, r) = IF r = L[1].price THEN Tail(q) ELSE QueueIn(L, r)
      BY <2>6, <3>1 DEF Shorter
    <3> QED BY <3>2, <1>3
  <2> QED BY <2>6, <2>7 DEF Popped, Shorter
<1> QED BY <1>4, <1>5, <1>6

-----------------------------------------------------------------------------
(***************************************************************************)
(* A prune goes on to the first live order; before it there is nothing     *)
(* that lives.                                                             *)
(***************************************************************************)
HasLive(q) == \E i \in DOMAIN q : Flat!Live(q[i])

\* Where the scans of a prune stop, in a queue and in a side.
LiveAt(q) ==
    CHOOSE i \in 1 .. Len(q) + 1 :
        (i = Len(q) + 1 \/ Flat!Live(q[i])) /\ \A j \in 1 .. i - 1 : ~Flat!Live(q[j])

LevelAt(L) ==
    CHOOSE k \in 1 .. Len(L) + 1 :
        (k = Len(L) + 1 \/ HasLive(L[k].q)) /\ \A j \in 1 .. k - 1 : ~HasLive(L[j].q)

LEMMA PrunedAs ==
    ASSUME NEW L
    PROVE  LET k == LevelAt(L)
           IN  Flat!Pruned(L) =
                 IF k > Len(L) THEN <<>>
                 ELSE LET q == L[k].q
                      IN  <<[L[k] EXCEPT !.q = SubSeq(q, LiveAt(q), Len(q))]>> \o SubSeq(L, k + 1, Len(L))
BY DEF Flat!Pruned, Flat!FirstOf, LevelAt, LiveAt, HasLive

LEMMA LiveAtIs ==
    ASSUME NEW S, NEW q \in Seq(S), HasLive(q)
    PROVE  LiveAt(q) \in 1 .. Len(q) /\ Flat!Live(q[LiveAt(q)]) /\ \A j \in 1 .. LiveAt(q) - 1 : ~Flat!Live(q[j])
<1> DEFINE n == Len(q)
           T == {i \in 1 .. n : Flat!Live(q[i])}
           First(i) == (i = n + 1 \/ Flat!Live(q[i])) /\ \A j \in 1 .. i - 1 : ~Flat!Live(q[j])
<1>1. n \in Nat /\ DOMAIN q = 1 .. n
  OBVIOUS
<1> HIDE DEF n
<1>2. T \in SUBSET (1 .. n) /\ T # {}
  BY <1>1 DEF HasLive
<1>3. PICK m \in T : \A j \in T : m <= j
  BY <1>1, <1>2, LeastPosition
<1>4. m \in 1 .. n + 1 /\ First(m)
  <2>1. ASSUME NEW j \in 1 .. m - 1 PROVE ~Flat!Live(q[j])
    BY <1>1, <1>3
  <2> QED BY <1>1, <1>3, <2>1
<1>5. LiveAt(q) = CHOOSE i \in 1 .. n + 1 : First(i)
  BY DEF LiveAt, n
<1> DEFINE c == CHOOSE i \in 1 .. n + 1 : First(i)
<1>6. c \in 1 .. n + 1 /\ First(c)
  BY <1>4
<1> HIDE DEF c
<1>7. c # n + 1
  <2>1. m \in 1 .. n /\ Flat!Live(q[m])
    BY <1>3
  <2> QED BY <2>1, <1>1, <1>6
<1> QED BY <1>1, <1>5, <1>6, <1>7 DEF n, c

LEMMA LevelAtIs ==
    ASSUME NEW t, NEW L, Fit(t, L)
    PROVE  /\ LevelAt(L) \in 1 .. Len(L) + 1
           /\ LevelAt(L) = Len(L) + 1 \/ HasLive(L[LevelAt(L)].q)
           /\ \A j \in 1 .. LevelAt(L) - 1 : ~HasLive(L[j].q)
<1> DEFINE n == Len(L)
           Stop(k) == k = n + 1 \/ HasLive(L[k].q)
           T == {k \in 1 .. n + 1 : Stop(k)}
           First(k) == Stop(k) /\ \A j \in 1 .. k - 1 : ~HasLive(L[j].q)
<1>1. n \in Nat
  BY FitFacts
<1> HIDE DEF n
<1>2. T \in SUBSET (1 .. n + 1) /\ T # {} /\ n + 1 \in Nat
  BY <1>1
<1>3. PICK m \in T : \A j \in T : m <= j
  BY <1>2, LeastPosition
<1>4. m \in 1 .. n + 1 /\ First(m)
  <2>1. ASSUME NEW j \in 1 .. m - 1 PROVE ~Stop(j)
    BY <1>1, <1>3
  <2> QED BY <1>3, <2>1
<1>5. LevelAt(L) = CHOOSE k \in 1 .. n + 1 : First(k)
  BY DEF LevelAt, n
<1> DEFINE c == CHOOSE k \in 1 .. n + 1 : First(k)
<1>6. c \in 1 .. n + 1 /\ First(c)
  BY <1>4
<1> QED BY <1>5, <1>6 DEF n

\* A prune leaves a side from its first live order on, or nothing.
PruneKeeps(L, k, i) ==
    /\ k \in 1 .. Len(L) /\ i \in 1 .. Len(L[k].q)
    /\ \A j \in 1 .. k - 1 : ~HasLive(L[j].q)
    /\ Flat!Live(L[k].q[i]) /\ \A j \in 1 .. i - 1 : ~Flat!Live(L[k].q[j])
    /\ Cut(Flat!Pruned(L), L, k, SubSeq(L[k].q, i, Len(L[k].q)))

LEMMA PrunedIs ==
    ASSUME NEW t, NEW L, Fit(t, L)
    PROVE  \/ Flat!Pruned(L) = <<>> /\ \A j \in 1 .. Len(L) : ~HasLive(L[j].q)
           \/ \E k, i : PruneKeeps(L, k, i)
<1> DEFINE k == LevelAt(L)
           n == Len(L)
           M == Flat!Pruned(L)
<1>1. /\ k \in 1 .. n + 1
      /\ k = n + 1 \/ HasLive(L[k].q)
      /\ \A j \in 1 .. k - 1 : ~HasLive(L[j].q)
  BY LevelAtIs
<1>2. n \in Nat /\ L \in Seq(Level)
  BY DEF Fit
<1>3. M = IF k > n THEN <<>>
          ELSE LET q == L[k].q
               IN  <<[L[k] EXCEPT !.q = SubSeq(q, LiveAt(q), Len(q))]>> \o SubSeq(L, k + 1, n)
  BY PrunedAs
<1> HIDE DEF k, M
<1>4. CASE k > n
  <2>1. \A j \in 1 .. n : j \in 1 .. k - 1
    BY <1>1, <1>2, <1>4
  <2> QED BY <2>1, <1>1, <1>3, <1>4 DEF M
<1>5. CASE ~(k > n)
  <2> DEFINE q == L[k].q
             i == LiveAt(q)
             left == SubSeq(q, i, Len(q))
             p == L[k].price
             e == [price |-> p, q |-> left]
             rest == SubSeq(L, k + 1, n)
  <2>1. k \in 1 .. n /\ HasLive(q)
    BY <1>1, <1>2, <1>5
  <2>2. q \in Seq(Orders) /\ p \in VectorPrices /\ L[k] = [price |-> p, q |-> q] /\ Len(q) \in Nat
    BY <2>1, FitFacts
  <2>3. i \in 1 .. Len(q) /\ Flat!Live(q[i]) /\ \A j \in 1 .. i - 1 : ~Flat!Live(q[j])
    BY <2>1, <2>2, LiveAtIs
  <2>4. left \in Seq(Orders)
    <3>1. i \in 1 .. Len(q) + 1 /\ Len(q) \in i - 1 .. Len(q)
      BY <2>2, <2>3
    <3> QED BY <3>1, <2>2, SubSeqProperties
  <2>5. rest \in Seq(Level) /\ Len(rest) = n - k /\ \A j \in 1 .. n - k : rest[j] = L[k + j]
    <3>1. k + 1 \in 1 .. n + 1 /\ n \in (k + 1) - 1 .. n
      BY <1>2, <2>1
    <3>2. rest \in Seq(Level) /\ Len(rest) = n - (k + 1) + 1 /\ \A j \in 1 .. n - (k + 1) + 1 : rest[j] = L[(k + 1) + j - 1]
      BY <3>1, <1>2, SubSeqProperties
    <3>3. n - (k + 1) + 1 = n - k /\ \A j \in 1 .. n - k : (k + 1) + j - 1 = k + j
      BY <1>2, <2>1
    <3> QED BY <3>2, <3>3
  <2>6. M = <<e>> \o rest
    <3>1. M = <<[L[k] EXCEPT !.q = left]>> \o rest
      BY <1>3, <1>5
    <3> HIDE DEF left, p, q
    <3>2. [L[k] EXCEPT !.q = left] = e
      BY ONLY <2>2
    <3> QED BY <3>1, <3>2
  <2>7. e \in Level
    BY <2>2, <2>4 DEF Level
  <2> HIDE DEF e, rest
  <2>8. /\ <<e>> \o rest \in Seq(Level) /\ Len(<<e>> \o rest) = n - k + 1
        /\ (<<e>> \o rest)[1] = e
        /\ \A j \in 2 .. n - k + 1 : (<<e>> \o rest)[j] = rest[j - 1]
    <3> DEFINE d == n - k
    <3>1. d \in Nat /\ Len(rest) = d /\ rest \in Seq(Level) /\ e \in Level
      BY <1>2, <2>1, <2>5, <2>7
    <3> HIDE DEF d
    <3>2. /\ <<e>> \o rest \in Seq(Level) /\ Len(<<e>> \o rest) = d + 1
          /\ (<<e>> \o rest)[1] = e
          /\ \A j \in 2 .. d + 1 : (<<e>> \o rest)[j] = rest[j - 1]
      BY ONLY <3>1
    <3> QED BY <3>2 DEF d
  <2>9. \A j \in 2 .. n - k + 1 : j - 1 \in 1 .. n - k /\ k + (j - 1) = (j + k) - 1
    BY <1>2, <2>1
  <2>10. Cut(M, L, k, left)
    <3>1. \A j \in 2 .. n - k + 1 : M[j] = L[(j + k) - 1]
      BY <2>5, <2>6, <2>8, <2>9
    <3>2. M \in Seq(Level) /\ Len(M) = n - k + 1 /\ M[1] = e
      BY <2>6, <2>8
    <3> QED BY <3>1, <3>2 DEF Cut, e
  <2>11. PruneKeeps(L, k, i)
    BY <1>1, <2>1, <2>3, <2>10 DEF PruneKeeps, M
  <2> QED BY <2>11
<1> QED BY <1>4, <1>5

-----------------------------------------------------------------------------
AlivePrices(L) == {p \in VectorPrices : HasLive(QueueIn(L, p))}

\* What a prune of the map book leaves at a price.
KeptAt(t, L, p) ==
    IF \E r \in AlivePrices(L) : Flat!Better(t, r, p) THEN QueueIn(L, p)
    ELSE IF p \notin AlivePrices(L) THEN <<>>
    ELSE SubSeq(QueueIn(L, p), LiveAt(QueueIn(L, p)), Len(QueueIn(L, p)))

LEMMA AliveIs ==
    ASSUME NEW t, NEW L, Fit(t, L), NEW p
    PROVE  p \in AlivePrices(L) <=> \E k \in 1 .. Len(L) : L[k].price = p /\ HasLive(L[k].q)
<1>1. ASSUME p \in AlivePrices(L) PROVE \E k \in 1 .. Len(L) : L[k].price = p /\ HasLive(L[k].q)
  <2>1. HasLive(QueueIn(L, p))
    BY <1>1 DEF AlivePrices
  <2>2. QueueIn(L, p) # <<>>
    BY <2>1 DEF HasLive
  <2>3. PICK k \in 1 .. Len(L) : L[k].price = p
    BY <2>2, QueueInIs
  <2>4. QueueIn(L, p) = L[k].q
    BY <2>3, QueueInIs
  <2> QED BY <2>1, <2>3, <2>4
<1>2. ASSUME NEW k \in 1 .. Len(L), L[k].price = p, HasLive(L[k].q) PROVE p \in AlivePrices(L)
  <2>1. QueueIn(L, p) = L[k].q /\ p \in VectorPrices
    BY <1>2, QueueInIs, FitFacts
  <2> QED BY <1>2, <2>1 DEF AlivePrices
<1> QED BY <1>1, <1>2

LEMMA LiveAtUnique ==
    ASSUME NEW S, NEW q \in Seq(S), NEW i \in 1 .. Len(q), Flat!Live(q[i]), \A j \in 1 .. i - 1 : ~Flat!Live(q[j])
    PROVE  LiveAt(q) = i
<1>1. Len(q) \in Nat /\ DOMAIN q = 1 .. Len(q)
  OBVIOUS
<1>2. HasLive(q)
  BY <1>1 DEF HasLive
<1>3. LiveAt(q) \in 1 .. Len(q) /\ Flat!Live(q[LiveAt(q)]) /\ \A j \in 1 .. LiveAt(q) - 1 : ~Flat!Live(q[j])
  BY <1>2, LiveAtIs
<1>4. ~(LiveAt(q) < i) /\ ~(i < LiveAt(q))
  BY <1>1, <1>3
<1> QED BY <1>1, <1>3, <1>4

LEMMA PrunedQueues ==
    ASSUME NEW t, NEW L, Fit(t, L)
    PROVE  /\ Fit(t, Flat!Pruned(L))
           /\ \A p \in VectorPrices : QueueIn(Flat!Pruned(L), p) = KeptAt(t, L, p)
<1> DEFINE M == Flat!Pruned(L)
<1>1. CASE M = <<>> /\ \A j \in 1 .. Len(L) : ~HasLive(L[j].q)
  <2>1. Fit(t, M)
    BY <1>1 DEF Fit
  <2>2. AlivePrices(L) = {}
    BY <1>1, AliveIs
  <2>3. ASSUME NEW p \in VectorPrices PROVE QueueIn(M, p) = KeptAt(t, L, p)
    <3>1. QueueIn(M, p) = <<>>
      BY <1>1, <2>1, QueueInIs
    <3>2. KeptAt(t, L, p) = <<>>
      BY <2>2 DEF KeptAt
    <3> QED BY <3>1, <3>2
  <2> QED BY <2>1, <2>3
<1>2. ASSUME NEW k, NEW i, PruneKeeps(L, k, i)
      PROVE  Fit(t, M) /\ \A p \in VectorPrices : QueueIn(M, p) = KeptAt(t, L, p)
  <2> DEFINE q == L[k].q
             left == SubSeq(q, i, Len(q))
  <2>1. /\ k \in 1 .. Len(L) /\ i \in 1 .. Len(q)
        /\ \A j \in 1 .. k - 1 : ~HasLive(L[j].q)
        /\ Flat!Live(q[i]) /\ \A j \in 1 .. i - 1 : ~Flat!Live(q[j])
        /\ Cut(M, L, k, left)
    BY <1>2 DEF PruneKeeps
  <2>2. Len(L) \in Nat /\ q \in Seq(Orders) /\ Len(q) \in Nat /\ DOMAIN q = 1 .. Len(q)
    <3>1. k \in 1 .. Len(L)
      BY <2>1
    <3>2. Len(L) \in Nat /\ q \in Seq(Orders)
      BY ONLY <3>1, Fit(t, L), FitFacts
    <3> HIDE DEF q
    <3> QED BY <3>2
  <2>3. left \in Seq(Orders) /\ Len(left) # 0
    <3>1. i \in 1 .. Len(q) + 1 /\ Len(q) \in i - 1 .. Len(q) /\ Len(q) - i + 1 # 0
      BY <2>1, <2>2
    <3> QED BY <3>1, <2>2, SubSeqProperties
  <2>4. Shorter(t, M, L, k, left)
    BY <2>1, <2>3, CutIs
  <2>5. HasLive(q) /\ LiveAt(q) = i
    BY <2>1, <2>2, LiveAtUnique DEF HasLive
  <2>6. ASSUME NEW p \in VectorPrices PROVE QueueIn(M, p) = KeptAt(t, L, p)
    <3>1. QueueIn(M, p) = IF \E j \in 1 .. k - 1 : L[j].price = p THEN <<>>
                          ELSE IF p = L[k].price THEN left ELSE QueueIn(L, p)
      BY <2>4 DEF Shorter
    <3>2. L[k].price \in AlivePrices(L)
      BY <2>1, <2>5, AliveIs
    <3>3. ASSUME NEW r \in AlivePrices(L) PROVE \E h \in k .. Len(L) : L[h].price = r
      <4>1. PICK h \in 1 .. Len(L) : L[h].price = r /\ HasLive(L[h].q)
        BY AliveIs
      <4>2. ~(h < k)
        BY <4>1, <2>1, <2>2
      <4>3. h \in k .. Len(L)
        BY <4>2, <2>1, <2>2
      <4> QED BY <4>1, <4>3
    <3>4. ASSUME NEW r \in AlivePrices(L), NEW j \in 1 .. k, L[j].price = p PROVE ~Flat!Better(t, r, p)
      <4>1. PICK h \in k .. Len(L) : L[h].price = r
        BY <3>3
      <4>2. j \in 1 .. Len(L) /\ h \in 1 .. Len(L) /\ (j < h \/ j = h)
        BY <2>1, <2>2
      <4>3. r \in VectorPrices
        BY DEF AlivePrices
      <4>4. Flat!Better(t, p, r) \/ p = r
        BY <4>1, <4>2, <3>4 DEF Fit
      <4> QED BY <4>3, <4>4, BetterIs
    <3>5. CASE \E j \in 1 .. k - 1 : L[j].price = p
      <4>1. PICK j \in 1 .. k - 1 : L[j].price = p
        BY <3>5
      <4>2. j \in 1 .. k /\ j \in 1 .. Len(L)
        BY <2>1, <2>2
      <4>3. ~\E r \in AlivePrices(L) : Flat!Better(t, r, p)
        BY <3>4, <4>1, <4>2
      <4>4. p \notin AlivePrices(L)
        <5>1. ASSUME NEW h \in 1 .. Len(L), L[h].price = p PROVE h = j
          BY <5>1, <4>1, <4>2, FitFacts
        <5> QED BY <5>1, <4>1, <2>1, AliveIs
      <4> QED BY <3>1, <3>5, <4>3, <4>4 DEF KeptAt
    <3>6. CASE ~(\E j \in 1 .. k - 1 : L[j].price = p) /\ p = L[k].price
      <4>1. k \in 1 .. k
        BY <2>1, <2>2
      <4>2. ~\E r \in AlivePrices(L) : Flat!Better(t, r, p)
        BY <3>4, <4>1, <3>6
      <4>3. QueueIn(L, p) = q
        BY <2>1, <3>6, QueueInIs
      <4>4. KeptAt(t, L, p) = left
        BY <3>2, <3>6, <4>2, <4>3, <2>5 DEF KeptAt
      <4> QED BY <3>1, <3>6, <4>4
    <3>7. CASE ~(\E j \in 1 .. k - 1 : L[j].price = p) /\ p # L[k].price
      <4>1. QueueIn(M, p) = QueueIn(L, p)
        BY <3>1, <3>7
      <4>2. CASE \E h \in 1 .. Len(L) : L[h].price = p
        <5>1. PICK h \in 1 .. Len(L) : L[h].price = p
          BY <4>2
        <5>2. k < h
          BY <5>1, <3>7, <2>1, <2>2
        <5>3. Flat!Better(t, L[k].price, p)
          BY <5>1, <5>2, <2>1 DEF Fit
        <5>4. KeptAt(t, L, p) = QueueIn(L, p)
          BY <5>3, <3>2 DEF KeptAt
        <5> QED BY <4>1, <5>4
      <4>3. CASE ~\E h \in 1 .. Len(L) : L[h].price = p
        <5>1. QueueIn(L, p) = <<>>
          BY <4>3, QueueInIs
        <5>2. p \notin AlivePrices(L)
          BY <4>3, AliveIs
        <5>3. KeptAt(t, L, p) = <<>>
          BY <5>1, <5>2 DEF KeptAt
        <5> QED BY <4>1, <5>1, <5>3
      <4> QED BY <4>2, <4>3
    <3> QED BY <3>5, <3>6, <3>7
  <2> QED BY <2>4, <2>6 DEF Shorter
<1> QED BY <1>1, <1>2, PrunedIs

LEMMA PruneFinds ==
    ASSUME NEW t, NEW L, Fit(t, L), Flat!Pruned(L) # <<>>
    PROVE  /\ Flat!Live(Head(Flat!Pruned(L)[1].q))
           /\ \A k \in DOMAIN L : HasLive(L[k].q) => ~Flat!Better(t, L[k].price, Flat!Pruned(L)[1].price)
<1> DEFINE M == Flat!Pruned(L)
<1>1. PICK k, i : PruneKeeps(L, k, i)
  BY PrunedIs
<1> DEFINE q == L[k].q
           left == SubSeq(q, i, Len(q))
<1>2. /\ k \in 1 .. Len(L) /\ i \in 1 .. Len(q)
      /\ \A j \in 1 .. k - 1 : ~HasLive(L[j].q)
      /\ Flat!Live(q[i])
      /\ M[1] = [price |-> L[k].price, q |-> left]
  BY <1>1 DEF PruneKeeps, Cut
<1>3. Len(L) \in Nat /\ DOMAIN L = 1 .. Len(L) /\ q \in Seq(Orders) /\ Len(q) \in Nat
  BY <1>2, FitFacts
<1>4. Head(left) = q[i]
  <2>1. i \in 1 .. Len(q) + 1 /\ Len(q) \in i - 1 .. Len(q) /\ 1 \in 1 .. Len(q) - i + 1 /\ i + 1 - 1 = i
    BY <1>2, <1>3
  <2>2. left \in Seq(Orders) /\ Len(left) = Len(q) - i + 1 /\ left[1] = q[i]
    BY <2>1, <1>3, SubSeqProperties
  <2> HIDE DEF left, q
  <2> QED BY <2>2
<1>5. ASSUME NEW h \in 1 .. Len(L), HasLive(L[h].q) PROVE ~Flat!Better(t, L[h].price, L[k].price)
  <2>1. ~(h < k)
    BY <1>5, <1>2, <1>3
  <2>2. h = k \/ Flat!Better(t, L[k].price, L[h].price)
    BY <2>1, <1>2, <1>3 DEF Fit
  <2>3. L[h].price \in VectorPrices /\ L[k].price \in VectorPrices
    BY <1>2, FitFacts
  <2> QED BY <2>2, <2>3, BetterIs
<1> HIDE DEF M, left
<1>6. M[1].q = left /\ M[1].price = L[k].price
  BY <1>2
<1> QED BY <1>2, <1>3, <1>4, <1>5, <1>6 DEF M

-----------------------------------------------------------------------------
(***************************************************************************)
(* Each call of the vector book is the same call of the map book.          *)
(***************************************************************************)
LEMMA SortsAre == Flat!MapBook!Sides = Flat!Sides /\ Flat!MapBook!vars = <<Flat!Queue, deadOrders>>
BY DEF Flat!MapBook!Sides, Flat!Sides, Flat!MapBook!vars

\* Only side t changes, and there the queue of each price becomes what f has.
LEMMA QueueAfter ==
    ASSUME NEW t \in Flat!Sides, NEW M, sides' = [sides EXCEPT ![t] = M],
           VectorInv, NEW f, \A p \in VectorPrices : QueueIn(M, p) = f[p],
           f = [p \in VectorPrices |-> f[p]]
    PROVE  Flat!Queue' = [Flat!Queue EXCEPT ![t] = f]
<1>1. sides = [u \in Flat!Sides |-> sides[u]]
  BY DEF VectorInv
<1>2. sides' = [u \in Flat!Sides |-> IF u = t THEN M ELSE sides[u]]
  BY <1>1
<1>3. ASSUME NEW u \in Flat!Sides
      PROVE  [p \in VectorPrices |-> QueueIn(sides'[u], p)]
                = IF u = t THEN f ELSE [p \in VectorPrices |-> QueueIn(sides[u], p)]
  <2>1. CASE u = t
    <3>1. sides'[u] = M
      BY <2>1, <1>2
    <3> QED BY <2>1, <3>1
  <2>2. CASE u # t
    <3>1. sides'[u] = sides[u]
      BY <2>2, <1>2
    <3> QED BY <2>2, <3>1
  <2> QED BY <2>1, <2>2
<1>4. [Flat!Queue EXCEPT ![t] = f] =
         [u \in Flat!Sides |-> IF u = t THEN f ELSE [p \in VectorPrices |-> QueueIn(sides[u], p)]]
  BY QueueIs
<1>5. Flat!Queue' = [u \in Flat!Sides |-> [p \in VectorPrices |-> QueueIn(sides'[u], p)]]
  BY QueueIsNext
<1> QED BY <1>3, <1>4, <1>5

LEMMA InvAfter ==
    ASSUME NEW t \in Flat!Sides, NEW M, sides' = [sides EXCEPT ![t] = M], VectorInv, Fit(t, M)
    PROVE  VectorInv'
<1>1. sides' = [u \in Flat!Sides |-> IF u = t THEN M ELSE sides[u]]
  BY DEF VectorInv
<1>2. \A u \in Flat!Sides : Fit(u, sides'[u])
  BY <1>1 DEF VectorInv
<1>3. (\A u \in Flat!Sides : Fit(u, sides[u]))'
  BY <1>2 DEF Fit, Flat!Better, Flat!Sides
<1> QED BY <1>1, <1>3 DEF VectorInv, Flat!Sides

LEMMA VectorAdd ==
    ASSUME VectorInv, NEW i \in Orders, NEW t \in Flat!Sides, NEW p \in VectorPrices, Flat!Add(i, t, p)
    PROVE  VectorInv' /\ Flat!MapBook!Add(i, t, p)
<1> DEFINE L == sides[t]
           M == Lengthened(t, L, p, i)
           Q == Flat!Queue
           f == [r \in VectorPrices |-> IF r = p THEN Append(QueueIn(L, p), i) ELSE QueueIn(L, r)]
<1>1. sides' = [sides EXCEPT ![t] = M] /\ deadOrders' = deadOrders /\ Flat!Live(i) /\ ~Flat!Booked(i)
  BY DEF Flat!Add, Lengthened
<1>2. Fit(t, L)
  BY DEF VectorInv
<1>3. Fit(t, M) /\ \A r \in VectorPrices : QueueIn(M, r) = IF r = p THEN Append(QueueIn(L, p), i) ELSE QueueIn(L, r)
  <2>1. Longer(t, M, L, p, i)
    BY <1>2, AddedIs
  <2> HIDE DEF M
  <2> QED BY <2>1 DEF Longer
<1>4. VectorInv'
  BY <1>1, <1>3, InvAfter
<1> HIDE DEF M
<1>5. Q' = [Q EXCEPT ![t] = f]
  <2>1. f = [r \in VectorPrices |-> f[r]] /\ \A r \in VectorPrices : QueueIn(M, r) = f[r]
    BY <1>3
  <2> HIDE DEF f
  <2> QED BY <1>1, <2>1, QueueAfter
<1>6. Q' = [Q EXCEPT ![t][p] = Append(@, i)]
  <2>1. Q[t] = [r \in VectorPrices |-> QueueIn(L, r)] /\ t \in DOMAIN Q
    BY QueueIs
  <2>2. [Q[t] EXCEPT ![p] = Append(@, i)] = f
    BY <2>1
  <2> QED BY <1>5, <2>1, <2>2
<1>7. \A u \in Flat!Sides, r \in VectorPrices : ~Flat!MapBook!Contains(Q[u][r], i)
  <2> TAKE u \in Flat!Sides, r \in VectorPrices
  <2>1. Q[u][r] = QueueIn(sides[u], r) /\ Fit(u, sides[u])
    BY QueueIs DEF VectorInv
  <2>2. CASE \E k \in 1 .. Len(sides[u]) : sides[u][k].price = r
    <3>1. PICK k \in 1 .. Len(sides[u]) : sides[u][k].price = r
      BY <2>2
    <3>2. Q[u][r] = sides[u][k].q /\ k \in DOMAIN sides[u]
      BY <2>1, <3>1, QueueInIs, FitFacts
    <3>3. ~Flat!Contains(sides[u][k].q, i)
      BY <3>2, <1>1 DEF Flat!Booked
    <3> QED BY <3>2, <3>3 DEF Flat!Contains, Flat!MapBook!Contains
  <2>3. CASE ~\E k \in 1 .. Len(sides[u]) : sides[u][k].price = r
    <3>1. Q[u][r] = <<>>
      BY <2>1, <2>3, QueueInIs
    <3> QED BY <3>1 DEF Flat!MapBook!Contains
  <2> QED BY <2>2, <2>3
<1>8. Flat!MapBook!Live(i)
  BY <1>1 DEF Flat!Live, Flat!MapBook!Live
<1> QED BY <1>1, <1>4, <1>6, <1>7, <1>8, SortsAre DEF Flat!MapBook!Add

LEMMA VectorPop ==
    ASSUME VectorInv, NEW t \in Flat!Sides, Flat!PopBest(t)
    PROVE  VectorInv' /\ Flat!MapBook!PopBest(t)
<1> DEFINE L == sides[t]
           M == Flat!WithoutFrontOrder(L)
           Q == Flat!Queue
           p == L[1].price
           f == [r \in VectorPrices |-> IF r = p THEN Tail(QueueIn(L, r)) ELSE QueueIn(L, r)]
<1>1. L # <<>> /\ sides' = [sides EXCEPT ![t] = M] /\ deadOrders' = deadOrders
  BY DEF Flat!PopBest
<1>2. Fit(t, L)
  BY DEF VectorInv
<1>3. Fit(t, M) /\ \A r \in VectorPrices : QueueIn(M, r) = IF r = p THEN Tail(QueueIn(L, r)) ELSE QueueIn(L, r)
  <2>1. Popped(t, M, L)
    BY <1>1, <1>2, PoppedIs
  <2> HIDE DEF M
  <2> QED BY <2>1 DEF Popped
<1>4. VectorInv'
  BY <1>1, <1>3, InvAfter
<1> HIDE DEF M
<1>5. Q' = [Q EXCEPT ![t] = f]
  <2>1. f = [r \in VectorPrices |-> f[r]] /\ \A r \in VectorPrices : QueueIn(M, r) = f[r]
    BY <1>3
  <2> HIDE DEF f
  <2> QED BY <1>1, <2>1, QueueAfter
<1>6. Q[t] = [r \in VectorPrices |-> QueueIn(L, r)] /\ t \in DOMAIN Q
  BY QueueIs
<1>7. 1 \in 1 .. Len(L) /\ p \in VectorPrices
  <2>1. 1 \in 1 .. Len(L)
    BY <1>1, <1>2, EmptySeq DEF Fit
  <2> QED BY <2>1, <1>2, FitFacts
<1>8. Q' = [Q EXCEPT ![t][p] = Tail(@)]
  <2>1. [Q[t] EXCEPT ![p] = Tail(@)] = f
    BY <1>6, <1>7
  <2> QED BY <1>5, <1>6, <2>1
<1>9. Flat!MapBook!IsBest(t, p)
  <2>1. QueueIn(L, p) # <<>>
    <3>1. QueueIn(L, p) = L[1].q
      BY <1>2, <1>7, QueueInIs
    <3>2. L[1].q # <<>>
      BY <1>2, <1>7, FitFacts
    <3> QED BY <3>1, <3>2
  <2>2. p \in Flat!MapBook!Levels(t)
    BY <2>1, <1>6, <1>7 DEF Flat!MapBook!Levels
  <2>3. ASSUME NEW r \in Flat!MapBook!Levels(t), r # p PROVE Flat!MapBook!Better(t, p, r)
    <3>1. r \in VectorPrices /\ QueueIn(L, r) # <<>>
      BY <1>6 DEF Flat!MapBook!Levels
    <3>2. PICK k \in 1 .. Len(L) : L[k].price = r
      BY <3>1, <1>2, QueueInIs
    <3>3. 1 < k
      BY <3>2, <2>3
    <3>4. Flat!Better(t, p, r)
      BY <3>2, <3>3, <1>2, <1>7 DEF Fit
    <3> QED BY <3>4 DEF Flat!Better, Flat!MapBook!Better
  <2> QED BY <2>2, <2>3 DEF Flat!MapBook!IsBest
<1> QED BY <1>1, <1>4, <1>7, <1>8, <1>9 DEF Flat!MapBook!PopBest

LEMMA FirstLiveIs ==
    ASSUME NEW S, NEW q \in Seq(S), HasLive(q)
    PROVE  Flat!MapBook!FirstLive(q) = LiveAt(q)
<1> DEFINE First(k) == Flat!Live(q[k]) /\ \A j \in 1 .. k - 1 : ~Flat!Live(q[j])
<1>1. Len(q) \in Nat /\ DOMAIN q = 1 .. Len(q)
  OBVIOUS
<1>2. Flat!MapBook!FirstLive(q) = CHOOSE k \in DOMAIN q : First(k)
  BY DEF Flat!MapBook!FirstLive, Flat!MapBook!Live, Flat!Live
<1>3. LiveAt(q) \in DOMAIN q /\ First(LiveAt(q))
  BY <1>1, LiveAtIs
<1>4. \A k \in DOMAIN q : First(k) => k = LiveAt(q)
  BY <1>1, LiveAtUnique
<1> HIDE DEF First
<1> QED BY <1>2, <1>3, <1>4

LEMMA VectorPrune ==
    ASSUME VectorInv, NEW t \in Flat!Sides, Flat!PruneFront(t)
    PROVE  VectorInv' /\ Flat!MapBook!PruneFront(t)
<1> DEFINE L == sides[t]
           M == Flat!Pruned(L)
           Q == Flat!Queue
           f == [r \in VectorPrices |-> KeptAt(t, L, r)]
           alive == {p \in VectorPrices : \E k \in DOMAIN Q[t][p] : Flat!MapBook!Live(Q[t][p][k])}
           kept(p) == IF \E r \in alive : Flat!MapBook!Better(t, r, p) THEN Q[t][p]
                      ELSE IF p \notin alive THEN <<>>
                      ELSE SubSeq(Q[t][p], Flat!MapBook!FirstLive(Q[t][p]), Len(Q[t][p]))
<1>1. sides' = [sides EXCEPT ![t] = M] /\ deadOrders' = deadOrders
  BY DEF Flat!PruneFront
<1>2. Fit(t, L)
  BY DEF VectorInv
<1>3. Fit(t, M) /\ \A p \in VectorPrices : QueueIn(M, p) = KeptAt(t, L, p)
  BY <1>2, PrunedQueues
<1>4. VectorInv'
  BY <1>1, <1>3, InvAfter
<1> HIDE DEF M
<1>5. Q' = [Q EXCEPT ![t] = f]
  <2>1. f = [r \in VectorPrices |-> f[r]] /\ \A r \in VectorPrices : QueueIn(M, r) = f[r]
    BY <1>3
  <2> HIDE DEF f
  <2> QED BY <1>1, <2>1, QueueAfter
<1>6. \A p \in VectorPrices : Q[t][p] = QueueIn(L, p)
  BY QueueIs
<1>7. alive = AlivePrices(L)
  BY <1>6 DEF AlivePrices, HasLive, Flat!Live, Flat!MapBook!Live
<1>8. ASSUME NEW p \in VectorPrices PROVE kept(p) = KeptAt(t, L, p)
  <2>1. (\E r \in alive : Flat!MapBook!Better(t, r, p)) <=> \E r \in AlivePrices(L) : Flat!Better(t, r, p)
    BY <1>7 DEF Flat!Better, Flat!MapBook!Better
  <2>2. ASSUME p \in AlivePrices(L) PROVE Flat!MapBook!FirstLive(QueueIn(L, p)) = LiveAt(QueueIn(L, p))
    <3>1. PICK k \in 1 .. Len(L) : L[k].price = p /\ HasLive(L[k].q)
      BY <2>2, <1>2, AliveIs
    <3>2. QueueIn(L, p) = L[k].q /\ L[k].q \in Seq(Orders)
      BY <3>1, <1>2, QueueInIs, FitFacts
    <3> QED BY <3>1, <3>2, FirstLiveIs
  <2> HIDE DEF alive
  <2> QED BY <1>6, <1>7, <2>1, <2>2 DEF KeptAt
<1>9. f = [p \in VectorPrices |-> kept(p)]
  BY <1>8
<1> HIDE DEF f
<1>10. Flat!Queue' = [Flat!Queue EXCEPT ![t] = [p \in VectorPrices |-> kept(p)]]
  BY <1>5, <1>9
<1> QED BY <1>1, <1>4, <1>10 DEF Flat!MapBook!PruneFront

LEMMA VectorInit == Flat!Init => VectorInv /\ Flat!MapBook!Init
<1> SUFFICES ASSUME Flat!Init PROVE VectorInv /\ Flat!MapBook!Init
  OBVIOUS
<1>1. sides = [t \in Flat!Sides |-> <<>>] /\ deadOrders = {}
  BY DEF Flat!Init
<1>2. ASSUME NEW t PROVE Fit(t, <<>>)
  BY DEF Fit
<1>3. VectorInv
  BY <1>1, <1>2 DEF VectorInv
<1>4. ASSUME NEW t \in Flat!Sides, NEW p \in VectorPrices PROVE QueueIn(sides[t], p) = <<>>
  BY <1>1, <1>2, QueueInIs
<1>5. Flat!Queue = [t \in Flat!Sides |-> [p \in VectorPrices |-> <<>>]]
  BY <1>4, QueueIs
<1> QED BY <1>1, <1>3, <1>5, SortsAre DEF Flat!MapBook!Init

LEMMA VectorNext ==
    ASSUME VectorInv, [Flat!Next]_<<sides, deadOrders>>
    PROVE  VectorInv' /\ Flat!StepsAsMapBook
<1>1. CASE UNCHANGED <<sides, deadOrders>>
  <2>1. Flat!Queue' = Flat!Queue
    BY <1>1, QueueIs, QueueIsNext
  <2>2. VectorInv'
    BY <1>1 DEF VectorInv, Fit, Flat!Better, Flat!Sides
  <2> QED BY <1>1, <2>1, <2>2 DEF Flat!StepsAsMapBook
<1>2. ASSUME NEW t \in Flat!Sides, NEW i \in Orders, NEW p \in VectorPrices, Flat!Add(i, t, p)
      PROVE  VectorInv' /\ Flat!MapBook!Next
  BY <1>2, VectorAdd, SortsAre DEF Flat!MapBook!Next
<1>3. ASSUME NEW t \in Flat!Sides, Flat!PopBest(t) PROVE VectorInv' /\ Flat!MapBook!Next
  BY <1>3, VectorPop, SortsAre DEF Flat!MapBook!Next
<1>4. ASSUME NEW t \in Flat!Sides, Flat!PruneFront(t) PROVE VectorInv' /\ Flat!MapBook!Next
  BY <1>4, VectorPrune, SortsAre DEF Flat!MapBook!Next
<1>5. ASSUME NEW i \in Orders, Flat!Die(i) PROVE VectorInv' /\ Flat!MapBook!Next
  <2>1. sides' = sides /\ deadOrders' = deadOrders \cup {i}
    BY <1>5 DEF Flat!Die
  <2>2. Flat!Queue' = Flat!Queue
    BY <2>1, QueueIs, QueueIsNext
  <2>3. VectorInv'
    BY <2>1 DEF VectorInv, Fit, Flat!Better, Flat!Sides
  <2> QED BY <2>1, <2>2, <2>3 DEF Flat!MapBook!Next, Flat!MapBook!Die
<1> QED BY <1>1, <1>2, <1>3, <1>4, <1>5 DEF Flat!Next, Flat!StepsAsMapBook

LEMMA VectorPrunes == VectorInv => Flat!PruneFindsBest
BY PruneFinds DEF VectorInv, Flat!PruneFindsBest, HasLive

LEMMA VectorBook == Flat!Spec => Flat!MapBook!Init /\ [][Flat!StepsAsMapBook]_<<sides, deadOrders>> /\ []Flat!PruneFindsBest
<1>1. VectorInv /\ [Flat!Next]_<<sides, deadOrders>> => VectorInv' /\ [Flat!StepsAsMapBook]_<<sides, deadOrders>>
  BY VectorNext
<1> QED BY <1>1, VectorInit, VectorPrunes, PTL DEF Flat!Spec, Flat!vars

-----------------------------------------------------------------------------
(***************************************************************************)
(* The baseline book of phase5 (OrderBook) keeps each order in its level   *)
(* and in the lookup.  Agreed, its inductive invariant, says that the      *)
(* level of a price has exactly the orders the lookup puts there, with the *)
(* same fields, and that no level is empty.                                *)
(***************************************************************************)
IsMap(f) == f = [x \in DOMAIN f |-> f[x]]

Agreed(lv, lk) ==
    /\ IsMap(lv) /\ IsMap(lk)
    /\ \A p \in DOMAIN lv :
          /\ IsMap(lv[p]) /\ DOMAIN lv[p] # {}
          /\ \A id \in DOMAIN lv[p] : id \in DOMAIN lk /\ lv[p][id] = lk[id] /\ lk[id].price = p
    /\ \A id \in DOMAIN lk : lk[id].price \in DOMAIN lv /\ id \in DOMAIN lv[lk[id].price]

LEMMA EmptyIs == \A f : IsMap(f) => (f = Base!EmptyMap <=> DOMAIN f = {})
BY DEF IsMap, Base!EmptyMap

LEMMA AgreedMeans == Agreed(orderLevels, orderLookup) => Base!CopiesAgree
BY EmptyIs DEF Agreed, Base!CopiesAgree

LEMMA AgreedAfterAdd ==
    ASSUME NEW lv, NEW lk, Agreed(lv, lk), NEW id, id \notin DOMAIN lk, NEW o
    PROVE  Agreed(Base!LevelsAfterAdd(lv, id, o), Base!Emplace(lk, id, o))
<1> DEFINE lv2 == Base!LevelsAfterAdd(lv, id, o)
           lk2 == Base!Emplace(lk, id, o)
           r == o.price
           at == Base!LevelAt(lv, r)
<1>1. /\ IsMap(lk2) /\ DOMAIN lk2 = DOMAIN lk \cup {id}
      /\ lk2[id] = o /\ \A i \in DOMAIN lk : lk2[i] = lk[i]
  BY DEF Base!Emplace, IsMap
<1>2. IsMap(at) /\ id \notin DOMAIN at
  BY DEF Base!LevelAt, Base!EmptyMap, IsMap, Agreed
<1>3. /\ IsMap(lv2) /\ DOMAIN lv2 = DOMAIN lv \cup {r}
      /\ lv2[r] = Base!Emplace(at, id, o)
      /\ \A p \in DOMAIN lv : p # r => lv2[p] = lv[p]
  BY DEF Base!LevelsAfterAdd, IsMap
<1>4. /\ IsMap(lv2[r]) /\ DOMAIN lv2[r] = DOMAIN at \cup {id}
      /\ lv2[r][id] = o /\ \A i \in DOMAIN at : lv2[r][i] = at[i]
  BY <1>2, <1>3 DEF Base!Emplace, IsMap
<1>5. \A i \in DOMAIN at : r \in DOMAIN lv /\ at = lv[r]
  BY DEF Base!LevelAt, Base!EmptyMap
<1>6. r \in DOMAIN lv => at = lv[r]
  BY DEF Base!LevelAt
<1> HIDE DEF lv2, lk2, at
<1>7. ASSUME NEW p \in DOMAIN lv2
      PROVE  /\ IsMap(lv2[p]) /\ DOMAIN lv2[p] # {}
             /\ \A i \in DOMAIN lv2[p] : i \in DOMAIN lk2 /\ lv2[p][i] = lk2[i] /\ lk2[i].price = p
  <2>1. CASE p = r
    <3>1. ASSUME NEW i \in DOMAIN lv2[p] PROVE i \in DOMAIN lk2 /\ lv2[p][i] = lk2[i] /\ lk2[i].price = p
      <4>1. CASE i = id
        BY <4>1, <2>1, <1>1, <1>4
      <4>2. CASE i # id
        <5>1. i \in DOMAIN at /\ r \in DOMAIN lv /\ at = lv[r] /\ lv2[r][i] = at[i]
          BY <4>2, <2>1, <1>4, <1>5
        <5>2. i \in DOMAIN lk /\ lv[r][i] = lk[i] /\ lk[i].price = r
          BY <5>1 DEF Agreed
        <5> QED BY <5>1, <5>2, <2>1, <1>1
      <4> QED BY <4>1, <4>2
    <3> QED BY <2>1, <3>1, <1>4
  <2>2. CASE p # r
    <3>1. p \in DOMAIN lv /\ lv2[p] = lv[p]
      BY <2>2, <1>3
    <3>2. /\ IsMap(lv[p]) /\ DOMAIN lv[p] # {}
          /\ \A i \in DOMAIN lv[p] : i \in DOMAIN lk /\ lv[p][i] = lk[i] /\ lk[i].price = p
      BY <3>1 DEF Agreed
    <3> QED BY <3>1, <3>2, <1>1
  <2> QED BY <2>1, <2>2
<1>8. ASSUME NEW i \in DOMAIN lk2 PROVE lk2[i].price \in DOMAIN lv2 /\ i \in DOMAIN lv2[lk2[i].price]
  <2>1. CASE i = id
    BY <2>1, <1>1, <1>3, <1>4
  <2>2. CASE i # id
    <3>1. i \in DOMAIN lk /\ lk2[i] = lk[i]
      BY <2>2, <1>1
    <3>2. lk[i].price \in DOMAIN lv /\ i \in DOMAIN lv[lk[i].price]
      BY <3>1 DEF Agreed
    <3> QED BY <3>1, <3>2, <1>3, <1>4, <1>6
  <2> QED BY <2>1, <2>2
<1> QED BY <1>1, <1>3, <1>7, <1>8 DEF Agreed, lv2, lk2

LEMMA AgreedAfterErase ==
    ASSUME NEW lv, NEW lk, Agreed(lv, lk), NEW id \in DOMAIN lk
    PROVE  Agreed(Base!LevelsAfterErase(lv, lk[id].price, id), Base!Without(lk, id))
<1> DEFINE r == lk[id].price
           lv2 == Base!LevelsAfterErase(lv, r, id)
           lk2 == Base!Without(lk, id)
           left == Base!Without(lv[r], id)
<1>1. IsMap(lk2) /\ DOMAIN lk2 = DOMAIN lk \ {id} /\ \A i \in DOMAIN lk2 : lk2[i] = lk[i]
  BY DEF Base!Without, IsMap
<1>2. /\ r \in DOMAIN lv /\ id \in DOMAIN lv[r]
      /\ IsMap(left) /\ DOMAIN left = DOMAIN lv[r] \ {id} /\ \A i \in DOMAIN left : left[i] = lv[r][i]
  BY DEF Base!Without, IsMap, Agreed
<1>3. /\ IsMap(lv2)
      /\ \A p : p \in DOMAIN lv2 <=> p \in DOMAIN lv /\ ~(p = r /\ DOMAIN left = {})
      /\ \A p \in DOMAIN lv2 : lv2[p] = IF p = r THEN left ELSE lv[p]
  <2>1. IsMap(lv)
    BY DEF Agreed
  <2>2. CASE DOMAIN left = {}
    <3>1. lv2 = Base!Without(lv, r)
      BY <2>2, <1>2, EmptyIs DEF Base!LevelsAfterErase
    <3> QED BY <2>2, <3>1 DEF Base!Without, IsMap
  <2>3. CASE DOMAIN left # {}
    <3>1. lv2 = [lv EXCEPT ![r] = left]
      BY <2>3, <1>2, EmptyIs DEF Base!LevelsAfterErase
    <3> HIDE DEF left
    <3> QED BY <2>1, <2>3, <3>1, <1>2 DEF IsMap
  <2> QED BY <2>2, <2>3
<1> HIDE DEF lv2, lk2, left
<1>4. ASSUME NEW p \in DOMAIN lv2
      PROVE  /\ IsMap(lv2[p]) /\ DOMAIN lv2[p] # {}
             /\ \A i \in DOMAIN lv2[p] : i \in DOMAIN lk2 /\ lv2[p][i] = lk2[i] /\ lk2[i].price = p
  <2>1. p \in DOMAIN lv
    BY <1>3
  <2>2. /\ IsMap(lv[p]) /\ DOMAIN lv[p] # {}
        /\ \A i \in DOMAIN lv[p] : i \in DOMAIN lk /\ lv[p][i] = lk[i] /\ lk[i].price = p
    BY <2>1 DEF Agreed
  <2>3. CASE p = r
    BY <2>2, <2>3, <1>1, <1>2, <1>3
  <2>4. CASE p # r
    <3>1. lv2[p] = lv[p]
      BY <2>4, <1>3
    <3>2. \A i \in DOMAIN lv[p] : i # id
      BY <2>2, <2>4
    <3> QED BY <3>1, <3>2, <2>2, <1>1
  <2> QED BY <2>3, <2>4
<1>5. ASSUME NEW i \in DOMAIN lk2 PROVE lk2[i].price \in DOMAIN lv2 /\ i \in DOMAIN lv2[lk2[i].price]
  <2>1. i \in DOMAIN lk /\ i # id /\ lk2[i] = lk[i]
    BY <1>1
  <2>2. lk[i].price \in DOMAIN lv /\ i \in DOMAIN lv[lk[i].price]
    BY <2>1 DEF Agreed
  <2> QED BY <2>1, <2>2, <1>2, <1>3
<1> QED BY <1>1, <1>3, <1>4, <1>5 DEF Agreed, lv2, lk2

LEMMA BaseInit == Base!Init => Agreed(orderLevels, orderLookup)
<1> SUFFICES ASSUME Base!Init PROVE Agreed(orderLevels, orderLookup)
  OBVIOUS
<1>1. orderLevels = Base!EmptyMap /\ orderLookup = Base!EmptyMap
  BY DEF Base!Init
<1>2. IsMap(Base!EmptyMap) /\ DOMAIN Base!EmptyMap = {}
  BY DEF Base!EmptyMap, IsMap
<1> QED BY <1>1, <1>2 DEF Agreed

LEMMA BaseNext ==
    Agreed(orderLevels, orderLookup) /\ [Base!Next]_<<orderLevels, orderLookup>>
        => Agreed(orderLevels, orderLookup)'
<1> SUFFICES ASSUME Agreed(orderLevels, orderLookup), [Base!Next]_<<orderLevels, orderLookup>>
             PROVE  Agreed(orderLevels, orderLookup)'
  OBVIOUS
<1>0. Agreed(orderLevels, orderLookup)' <=> Agreed(orderLevels', orderLookup')
  BY DEF Agreed, IsMap
<1>1. CASE UNCHANGED <<orderLevels, orderLookup>>
  BY <1>0, <1>1
<1>2. ASSUME NEW id, NEW p, NEW q, NEW isBuy, Base!addOrder(id, p, q, isBuy)
      PROVE  Agreed(orderLevels', orderLookup')
  <2> DEFINE o == [price |-> p, quantity |-> q, isBuy |-> isBuy]
  <2>1. /\ id \notin DOMAIN orderLookup
        /\ orderLevels' = Base!LevelsAfterAdd(orderLevels, id, o)
        /\ orderLookup' = Base!Emplace(orderLookup, id, o)
    BY <1>2 DEF Base!addOrder
  <2> HIDE DEF o
  <2> QED BY <2>1, AgreedAfterAdd
<1>3. ASSUME NEW id, NEW p, NEW q, Base!modifyOrder(id, p, q)
      PROVE  Agreed(orderLevels', orderLookup')
  <2> DEFINE o == [price |-> p, quantity |-> q, isBuy |-> orderLookup[id].isBuy]
             lv == Base!LevelsAfterErase(orderLevels, orderLookup[id].price, id)
             lk == Base!Without(orderLookup, id)
  <2>1. /\ id \in DOMAIN orderLookup
        /\ orderLevels' = Base!LevelsAfterAdd(lv, id, o)
        /\ orderLookup' = Base!Emplace(lk, id, o)
    BY <1>3 DEF Base!modifyOrder
  <2>2. Agreed(lv, lk)
    BY <2>1, AgreedAfterErase
  <2>3. id \notin DOMAIN lk
    BY DEF Base!Without
  <2> HIDE DEF o, lv, lk
  <2> QED BY <2>1, <2>2, <2>3, AgreedAfterAdd
<1>4. ASSUME NEW id, Base!deleteOrder(id)
      PROVE  Agreed(orderLevels', orderLookup')
  <2>1. /\ id \in DOMAIN orderLookup
        /\ orderLevels' = Base!LevelsAfterErase(orderLevels, orderLookup[id].price, id)
        /\ orderLookup' = Base!Without(orderLookup, id)
    BY <1>4 DEF Base!deleteOrder
  <2> QED BY <2>1, AgreedAfterErase
<1> QED BY <1>0, <1>1, <1>2, <1>3, <1>4 DEF Base!Next

LEMMA BaselineBook == Base!Spec => []Base!CopiesAgree
BY BaseInit, BaseNext, AgreedMeans, PTL DEF Base!Spec, Base!vars

-----------------------------------------------------------------------------
(***************************************************************************)
(* The indexed book of hw5 (IndexedBook) keeps, beside the orders by id,   *)
(* the ids of each level in a vector from which an id is erased by putting *)
(* the last one in its place.  IndexInv, its inductive invariant, says     *)
(* that the level of a side and a price has the ids of that side and       *)
(* price, each once, and that no level is empty: read from the index, the  *)
(* book is then the orders by id.                                          *)
(***************************************************************************)
OrdersById(b) ==
    /\ IsMap(b) /\ IsFiniteSet(DOMAIN b) /\ DOMAIN b \subseteq Few
    /\ \A id \in DOMAIN b : b[id] \in Indexed!Order

Once(l) == \A j, k \in 1 .. Len(l) : l[j] = l[k] => j = k

\* The level of price p at side t holds the orders of that side and price, each once.
LevelOK(l, t, p, b) ==
    /\ l \in Seq(Few) /\ Len(l) # 0 /\ Once(l)
    /\ \A id : (\E k \in 1 .. Len(l) : l[k] = id) <=> (id \in DOMAIN b /\ b[id].side = t /\ b[id].price = p)

SideOK(sd, t, b) ==
    /\ IsMap(sd) /\ DOMAIN sd \subseteq MapPrices
    /\ \A p \in DOMAIN sd : LevelOK(sd[p], t, p, b)
    /\ \A id \in DOMAIN b : b[id].side = t => b[id].price \in DOMAIN sd

IndexInv ==
    /\ OrdersById(byId)
    /\ index = [t \in Indexed!Sides |-> index[t]]
    /\ \A t \in Indexed!Sides : SideOK(index[t], t, byId)

LEMMA RestsIs ==
    ASSUME IndexInv, NEW t \in Indexed!Sides, NEW p, NEW id
    PROVE  Indexed!Rests(id, t, p) <=> (id \in DOMAIN byId /\ byId[id].side = t /\ byId[id].price = p)
<1>1. SideOK(index[t], t, byId)
  BY DEF IndexInv
<1>2. CASE p \in DOMAIN index[t]
  <2>1. LevelOK(index[t][p], t, p, byId)
    BY <1>1, <1>2 DEF SideOK
  <2> QED BY <1>2, <2>1 DEF LevelOK, Indexed!Rests, Indexed!Contains
<1>3. CASE p \notin DOMAIN index[t]
  BY <1>1, <1>3 DEF SideOK, Indexed!Rests
<1> QED BY <1>2, <1>3

LEMMA OrderIs ==
    ASSUME NEW o \in Indexed!Order
    PROVE  /\ o.side \in Indexed!Sides /\ o.price \in MapPrices /\ o.qty \in MapQuantities
           /\ o = [price |-> o.price, side |-> o.side, qty |-> o.qty]
BY DEF Indexed!Order

\* Read from the index, the book is the orders by id.
LEMMA ReadFromIndex == IndexInv => Indexed!OrdersOfIndex = byId
<1> SUFFICES ASSUME IndexInv PROVE Indexed!OrdersOfIndex = byId
  OBVIOUS
<1> DEFINE side(id) == CHOOSE t \in Indexed!Sides : \E p \in MapPrices : Indexed!Rests(id, t, p)
           price(id) == CHOOSE p \in MapPrices : Indexed!Rests(id, side(id), p)
           D == {i \in Few : \E t \in Indexed!Sides, p \in MapPrices : Indexed!Rests(i, t, p)}
<1>1. OrdersById(byId)
  BY DEF IndexInv
<1>2. D = DOMAIN byId
  <2>1. ASSUME NEW id \in DOMAIN byId PROVE id \in D
    <3>1. byId[id] \in Indexed!Order /\ id \in Few
      BY <1>1 DEF OrdersById
    <3>2. byId[id].side \in Indexed!Sides /\ byId[id].price \in MapPrices
      BY <3>1, OrderIs
    <3>3. Indexed!Rests(id, byId[id].side, byId[id].price)
      BY <3>2, RestsIs
    <3> QED BY <3>1, <3>2, <3>3
  <2>2. ASSUME NEW id \in D PROVE id \in DOMAIN byId
    BY RestsIs
  <2> QED BY <2>1, <2>2
<1>3. ASSUME NEW id \in DOMAIN byId
      PROVE  [price |-> price(id), side |-> side(id), qty |-> IF id \in DOMAIN byId THEN byId[id].qty ELSE 0] = byId[id]
  <2>1. byId[id] \in Indexed!Order
    BY <1>1 DEF OrdersById
  <2>2. /\ byId[id].side \in Indexed!Sides /\ byId[id].price \in MapPrices
        /\ byId[id] = [price |-> byId[id].price, side |-> byId[id].side, qty |-> byId[id].qty]
    BY <2>1, OrderIs
  <2>3. \A t \in Indexed!Sides : \A p : Indexed!Rests(id, t, p) <=> (byId[id].side = t /\ byId[id].price = p)
    BY RestsIs
  <2>4. side(id) = byId[id].side
    BY <2>2, <2>3
  <2> HIDE DEF side
  <2>5. price(id) = byId[id].price
    BY <2>2, <2>3, <2>4
  <2> HIDE DEF price
  <2> QED BY <2>2, <2>4, <2>5
<1>4. Indexed!OrdersOfIndex =
        [id \in D |-> [price |-> price(id), side |-> side(id), qty |-> IF id \in DOMAIN byId THEN byId[id].qty ELSE 0]]
  BY DEF Indexed!OrdersOfIndex
<1> HIDE DEF D, price, side
<1>5. Indexed!OrdersOfIndex = [id \in DOMAIN byId |-> byId[id]]
  BY <1>2, <1>3, <1>4
<1> QED BY <1>1, <1>5 DEF OrdersById, IsMap

LEMMA ReadFromIndexNext == IndexInv' => Indexed!OrdersOfIndex' = byId'
<1>1. IndexInv' => (Indexed!OrdersOfIndex = byId)'
  BY ReadFromIndex, PTL
<1> QED BY <1>1

-----------------------------------------------------------------------------
\* m has the elements of l but id.
Lacks(S, m, l, id) ==
    /\ m \in Seq(S) /\ Len(m) = Len(l) - 1 /\ Once(m)
    /\ \A x : (\E k \in 1 .. Len(m) : m[k] = x) <=> (x # id /\ \E k \in 1 .. Len(l) : l[k] = x)

\* The last element in the place of the one that goes.
LEMMA SwappedOut ==
    ASSUME NEW S, NEW l \in Seq(S), Once(l), NEW at \in 1 .. Len(l)
    PROVE  Lacks(S, Indexed!Without(l, l[at]), l, l[at])
<1> DEFINE n == Len(l)
           id == l[at]
           w == [l EXCEPT ![at] = l[n]]
           m == SubSeq(w, 1, n - 1)
<1>1. n \in Nat /\ at \in Nat /\ 1 <= at /\ at <= n /\ DOMAIN l = 1 .. n
  OBVIOUS
<1>2. w \in Seq(S) /\ Len(w) = n /\ \A k \in 1 .. n : w[k] = IF k = at THEN l[n] ELSE l[k]
  BY <1>1
<1>3. Indexed!Without(l, id) = m
  <2> DEFINE Here(k) == l[k] = id /\ \A j \in 1 .. k - 1 : l[j] # id
  <2>1. at \in DOMAIN l /\ Here(at)
    BY <1>1 DEF Once
  <2>2. \A k \in DOMAIN l : Here(k) => k = at
    BY <1>1 DEF Once
  <2>3. (CHOOSE k \in DOMAIN l : Here(k)) = at
    <3> HIDE DEF Here
    <3> QED BY <2>1, <2>2
  <2>4. Indexed!Without(l, id) = Indexed!Front([l EXCEPT ![CHOOSE k \in DOMAIN l : Here(k)] = Indexed!Last(l)])
    BY DEF Indexed!Without
  <2> HIDE DEF id, Here
  <2>5. Indexed!Without(l, id) = Indexed!Front(w)
    BY <2>3, <2>4 DEF Indexed!Last
  <2> HIDE DEF w
  <2> QED BY <2>5, <1>2 DEF Indexed!Front
<1> HIDE DEF w, n
<1>4. m \in Seq(S) /\ Len(m) = n - 1 /\ \A k \in 1 .. n - 1 : m[k] = w[k]
  <2>1. 1 \in 1 .. Len(w) + 1 /\ n - 1 \in 1 - 1 .. Len(w) /\ (n - 1) - 1 + 1 = n - 1
    BY <1>1, <1>2
  <2>2. \A k \in 1 .. n - 1 : 1 + k - 1 = k
    BY <1>1
  <2> QED BY <2>1, <2>2, <1>2, SubSeqProperties
<1> HIDE DEF m
<1>5. \A k \in 1 .. n - 1 : m[k] = IF k = at THEN l[n] ELSE l[k]
  BY <1>1, <1>2, <1>4
<1>6. \A j, k \in 1 .. n : l[j] = l[k] => j = k
  BY DEF Once, n
<1>7. Once(m)
  BY <1>1, <1>4, <1>5, <1>6 DEF Once
<1>8. ASSUME NEW x PROVE (\E k \in 1 .. Len(m) : m[k] = x) <=> (x # id /\ \E k \in 1 .. n : l[k] = x)
  <2>1. ASSUME NEW k \in 1 .. Len(m), m[k] = x PROVE x # id /\ \E j \in 1 .. n : l[j] = x
    <3>1. CASE k = at
      <4>1. x = l[n] /\ n # at /\ n \in 1 .. n
        BY <2>1, <3>1, <1>1, <1>4, <1>5
      <4> QED BY <4>1, <1>1, <1>6
    <3>2. CASE k # at
      <4>1. x = l[k] /\ k \in 1 .. n
        BY <2>1, <3>2, <1>1, <1>4, <1>5
      <4> QED BY <4>1, <3>2, <1>1, <1>6
    <3> QED BY <3>1, <3>2
  <2>2. ASSUME x # id, NEW k \in 1 .. n, l[k] = x PROVE \E j \in 1 .. Len(m) : m[j] = x
    <3>1. k # at
      BY <2>2
    <3>2. CASE k = n
      <4>1. at \in 1 .. Len(m) /\ m[at] = l[n]
        BY <3>1, <3>2, <1>1, <1>4, <1>5
      <4> QED BY <4>1, <3>2, <2>2
    <3>3. CASE k # n
      <4>1. k \in 1 .. Len(m) /\ m[k] = l[k]
        BY <3>1, <3>3, <1>1, <1>4, <1>5, <2>2
      <4> QED BY <4>1, <2>2
    <3> QED BY <3>2, <3>3
  <2> QED BY <2>1, <2>2
<1>9. Lacks(S, m, l, id)
  BY <1>4, <1>7, <1>8 DEF Lacks, n
<1> QED BY <1>3, <1>9

\* What a level and a side say of the orders is only where each is.
LEMMA SameKeys ==
    ASSUME NEW b, NEW b2, DOMAIN b2 = DOMAIN b,
           \A id \in DOMAIN b : b2[id].side = b[id].side /\ b2[id].price = b[id].price,
           NEW sd, NEW t, SideOK(sd, t, b)
    PROVE  SideOK(sd, t, b2)
<1>1. ASSUME NEW p \in DOMAIN sd PROVE LevelOK(sd[p], t, p, b2)
  <2>1. LevelOK(sd[p], t, p, b)
    BY DEF SideOK
  <2> QED BY <2>1 DEF LevelOK
<1> QED BY <1>1 DEF SideOK

WithOrder(b, id, o) == [i \in DOMAIN b \cup {id} |-> IF i = id THEN o ELSE b[i]]

EntryOf(sd, id, p) ==
    LET level == IF p \in DOMAIN sd THEN sd[p] ELSE <<>>
    IN  [r \in DOMAIN sd \cup {p} |-> IF r = p THEN Append(level, id) ELSE sd[r]]

LEMMA OtherSideAfterAdd ==
    ASSUME NEW b, NEW id, id \notin DOMAIN b, NEW o, NEW sd, NEW t, SideOK(sd, t, b), t # o.side
    PROVE  SideOK(sd, t, WithOrder(b, id, o))
<1>1. /\ DOMAIN WithOrder(b, id, o) = DOMAIN b \cup {id}
      /\ WithOrder(b, id, o)[id] = o
      /\ \A i \in DOMAIN b : WithOrder(b, id, o)[i] = b[i]
  BY DEF WithOrder
<1>2. ASSUME NEW p \in DOMAIN sd PROVE LevelOK(sd[p], t, p, WithOrder(b, id, o))
  <2>1. LevelOK(sd[p], t, p, b)
    BY DEF SideOK
  <2> QED BY <2>1, <1>1 DEF LevelOK
<1> QED BY <1>1, <1>2 DEF SideOK

LEMMA SideAfterAdd ==
    ASSUME NEW b, NEW id \in Few, id \notin DOMAIN b, NEW o \in Indexed!Order, NEW sd, SideOK(sd, o.side, b)
    PROVE  SideOK(EntryOf(sd, id, o.price), o.side, WithOrder(b, id, o))
<1> DEFINE b2 == WithOrder(b, id, o)
           r == o.price
           t == o.side
           old == IF r \in DOMAIN sd THEN sd[r] ELSE <<>>
           new == Append(old, id)
           sd2 == EntryOf(sd, id, r)
<1>1. /\ DOMAIN b2 = DOMAIN b \cup {id}
      /\ b2[id] = o
      /\ \A i \in DOMAIN b : b2[i] = b[i]
  BY DEF WithOrder
<1>2. r \in MapPrices /\ IsMap(sd) /\ DOMAIN sd \subseteq MapPrices
  BY OrderIs DEF SideOK
<1>3. IsMap(sd2) /\ DOMAIN sd2 = DOMAIN sd \cup {r} /\ sd2[r] = new /\ \A p \in DOMAIN sd : p # r => sd2[p] = sd[p]
  BY DEF EntryOf, IsMap
<1>4. /\ old \in Seq(Few) /\ Once(old)
      /\ \A i : (\E k \in 1 .. Len(old) : old[k] = i) <=> (i \in DOMAIN b /\ b[i].side = t /\ b[i].price = r)
  <2>1. CASE r \in DOMAIN sd
    <3>1. LevelOK(sd[r], t, r, b)
      BY <2>1 DEF SideOK
    <3> QED BY <2>1, <3>1 DEF LevelOK
  <2>2. CASE r \notin DOMAIN sd
    <3>1. old = <<>>
      BY <2>2
    <3> QED BY <2>2, <3>1 DEF Once, SideOK
  <2> QED BY <2>1, <2>2
<1> HIDE DEF old
<1>5. /\ new \in Seq(Few) /\ Len(new) = Len(old) + 1 /\ Len(old) \in Nat
      /\ new[Len(old) + 1] = id /\ \A k \in 1 .. Len(old) : new[k] = old[k]
  BY <1>4
<1> HIDE DEF new, b2, sd2
<1>6. \A k \in 1 .. Len(old) : old[k] # id
  BY <1>4
<1>7. \A k \in 1 .. Len(old) + 1 : k \in 1 .. Len(old) \/ k = Len(old) + 1
  BY <1>5
<1>8. Once(new)
  BY <1>4, <1>5, <1>6, <1>7 DEF Once
<1>9. ASSUME NEW i PROVE (\E k \in 1 .. Len(new) : new[k] = i) <=> (i \in DOMAIN b2 /\ b2[i].side = t /\ b2[i].price = r)
  <2>1. CASE i = id
    <3>1. Len(old) + 1 \in 1 .. Len(new)
      BY <1>5
    <3> QED BY <2>1, <3>1, <1>1, <1>5
  <2>2. CASE i # id
    <3>1. (\E k \in 1 .. Len(new) : new[k] = i) <=> (\E k \in 1 .. Len(old) : old[k] = i)
      BY <2>2, <1>5, <1>7
    <3> QED BY <2>2, <3>1, <1>1, <1>4
  <2> QED BY <2>1, <2>2
<1>10. LevelOK(new, t, r, b2)
  BY <1>5, <1>8, <1>9 DEF LevelOK
<1>11. ASSUME NEW p \in DOMAIN sd2 PROVE LevelOK(sd2[p], t, p, b2)
  <2>1. CASE p = r
    BY <2>1, <1>3, <1>10
  <2>2. CASE p # r
    <3>1. p \in DOMAIN sd /\ sd2[p] = sd[p]
      BY <2>2, <1>3
    <3>2. LevelOK(sd[p], t, p, b)
      BY <3>1 DEF SideOK
    <3> QED BY <2>2, <3>1, <3>2, <1>1 DEF LevelOK
  <2> QED BY <2>1, <2>2
<1>12. \A i \in DOMAIN b2 : b2[i].side = t => b2[i].price \in DOMAIN sd2
  BY <1>1, <1>3 DEF SideOK
<1> QED BY <1>2, <1>3, <1>11, <1>12 DEF SideOK, b2, sd2

Dropped(b, id) == [i \in DOMAIN b \ {id} |-> b[i]]

LEMMA OtherSideAfterErase ==
    ASSUME NEW b, NEW id \in DOMAIN b, NEW sd, NEW t, SideOK(sd, t, b), t # b[id].side
    PROVE  SideOK(sd, t, Dropped(b, id))
<1>1. DOMAIN Dropped(b, id) = DOMAIN b \ {id} /\ \A i \in DOMAIN b : i # id => Dropped(b, id)[i] = b[i]
  BY DEF Dropped
<1>2. ASSUME NEW p \in DOMAIN sd PROVE LevelOK(sd[p], t, p, Dropped(b, id))
  <2>1. LevelOK(sd[p], t, p, b)
    BY DEF SideOK
  <2> QED BY <2>1, <1>1 DEF LevelOK
<1> QED BY <1>1, <1>2 DEF SideOK

LEMMA SideAfterErase ==
    ASSUME NEW b, NEW id \in DOMAIN b, NEW sd, SideOK(sd, b[id].side, b)
    PROVE  SideOK(Indexed!EraseIdAt(sd, b[id].price, id), b[id].side, Dropped(b, id))
<1> DEFINE t == b[id].side
           r == b[id].price
           b2 == Dropped(b, id)
           sd2 == Indexed!EraseIdAt(sd, r, id)
           l == sd[r]
           left == Indexed!Without(l, id)
<1>1. DOMAIN b2 = DOMAIN b \ {id} /\ \A i \in DOMAIN b : i # id => b2[i] = b[i]
  BY DEF Dropped
<1>2. r \in DOMAIN sd /\ IsMap(sd) /\ DOMAIN sd \subseteq MapPrices /\ LevelOK(l, t, r, b)
  BY DEF SideOK
<1>3. /\ l \in Seq(Few) /\ Len(l) # 0 /\ Once(l)
      /\ \A i : (\E k \in 1 .. Len(l) : l[k] = i) <=> (i \in DOMAIN b /\ b[i].side = t /\ b[i].price = r)
  BY <1>2 DEF LevelOK
<1>4. PICK at \in 1 .. Len(l) : l[at] = id
  BY <1>3
<1>5. /\ left \in Seq(Few) /\ Len(left) = Len(l) - 1 /\ Once(left)
      /\ \A x : (\E k \in 1 .. Len(left) : left[k] = x) <=> (x # id /\ \E k \in 1 .. Len(l) : l[k] = x)
  <2>1. Lacks(Few, Indexed!Without(l, l[at]), l, l[at])
    BY <1>3, <1>4, SwappedOut
  <2> HIDE DEF left
  <2>2. Lacks(Few, left, l, id)
    BY <2>1, <1>4 DEF left
  <2> QED BY <2>2 DEF Lacks
<1>6. /\ IsMap(sd2)
      /\ \A p : p \in DOMAIN sd2 <=> p \in DOMAIN sd /\ ~(p = r /\ left = <<>>)
      /\ \A p \in DOMAIN sd2 : sd2[p] = IF p = r THEN left ELSE sd[p]
  <2> DEFINE stays == IF left = <<>> THEN DOMAIN sd \ {r} ELSE DOMAIN sd
  <2>1. Indexed!Contains(l, id)
    BY <1>4 DEF Indexed!Contains
  <2>2. sd2 = [p \in stays |-> IF p = r THEN left ELSE sd[p]]
    BY <2>1, <1>2 DEF Indexed!EraseIdAt
  <2> HIDE DEF left
  <2> QED BY <2>2, <1>2 DEF IsMap
<1> HIDE DEF left, sd2, b2, l
<1>7. ASSUME left # <<>> PROVE LevelOK(left, t, r, b2)
  <2>1. Len(left) # 0
    BY <1>5, <1>7, EmptySeq
  <2>2. ASSUME NEW i PROVE (\E k \in 1 .. Len(left) : left[k] = i) <=> (i \in DOMAIN b2 /\ b2[i].side = t /\ b2[i].price = r)
    BY <1>1, <1>3, <1>5
  <2> QED BY <2>1, <2>2, <1>5 DEF LevelOK
<1>8. ASSUME NEW p \in DOMAIN sd2 PROVE LevelOK(sd2[p], t, p, b2)
  <2>1. CASE p = r
    BY <2>1, <1>6, <1>7
  <2>2. CASE p # r
    <3>1. p \in DOMAIN sd /\ sd2[p] = sd[p]
      BY <2>2, <1>6
    <3>2. LevelOK(sd[p], t, p, b)
      BY <3>1 DEF SideOK
    <3> QED BY <2>2, <3>1, <3>2, <1>1 DEF LevelOK
  <2> QED BY <2>1, <2>2
<1>9. ASSUME NEW i \in DOMAIN b2, b2[i].side = t PROVE b2[i].price \in DOMAIN sd2
  <2>1. i \in DOMAIN b /\ i # id /\ b[i].side = t /\ b2[i] = b[i]
    BY <1>1, <1>9
  <2>2. b[i].price \in DOMAIN sd
    BY <2>1 DEF SideOK
  <2>3. CASE b[i].price = r
    <3>1. \E k \in 1 .. Len(left) : left[k] = i
      BY <2>1, <2>3, <1>3, <1>5
    <3>2. left # <<>>
      BY <3>1
    <3> QED BY <2>1, <2>2, <3>2, <1>6
  <2>4. CASE b[i].price # r
    BY <2>1, <2>2, <2>4, <1>6
  <2> QED BY <2>3, <2>4
<1>10. DOMAIN sd2 \subseteq MapPrices
  BY <1>2, <1>6
<1> QED BY <1>6, <1>8, <1>9, <1>10 DEF SideOK, sd2, b2

LEMMA IndexInit == Indexed!Init => IndexInv /\ byId = [id \in {} |-> 0]
<1> SUFFICES ASSUME Indexed!Init PROVE IndexInv /\ byId = [id \in {} |-> 0]
  OBVIOUS
<1>1. byId = [id \in {} |-> 0] /\ index = [t \in Indexed!Sides |-> [p \in {} |-> <<>>]]
  BY DEF Indexed!Init
<1>2. OrdersById(byId)
  BY <1>1, FS_EmptySet DEF OrdersById, IsMap
<1>3. ASSUME NEW t \in Indexed!Sides PROVE SideOK(index[t], t, byId)
  BY <1>1 DEF SideOK, IsMap
<1> QED BY <1>1, <1>2, <1>3 DEF IndexInv

\* What IndexInv says of the state after a step, with no prime inside.
LEMMA IndexInvAfter ==
    ASSUME OrdersById(byId'), index' = [t \in Indexed!Sides |-> index'[t]],
           \A t \in Indexed!Sides : SideOK(index'[t], t, byId')
    PROVE  IndexInv'
BY DEF IndexInv, OrdersById, SideOK, LevelOK, Once, IsMap, Indexed!Sides, Indexed!Order

LEMMA IndexAdd ==
    ASSUME IndexInv, NEW id \in Few, NEW o \in Indexed!Order, Indexed!Add(id, o)
    PROVE  IndexInv' /\ byId' = WithOrder(byId, id, o)
<1>1. /\ id \notin DOMAIN byId
      /\ byId' = WithOrder(byId, id, o)
      /\ index' = [index EXCEPT ![o.side] = EntryOf(index[o.side], id, o.price)]
  BY DEF Indexed!Add, WithOrder, EntryOf
<1>2. o.side \in Indexed!Sides /\ index = [t \in Indexed!Sides |-> index[t]]
  BY OrderIs DEF IndexInv
<1>3. OrdersById(byId')
  <2>1. DOMAIN byId' = DOMAIN byId \cup {id} /\ IsMap(byId') /\ \A i \in DOMAIN byId' : byId'[i] = IF i = id THEN o ELSE byId[i]
    BY <1>1 DEF WithOrder, IsMap
  <2>2. IsFiniteSet(DOMAIN byId) /\ DOMAIN byId \subseteq Few /\ \A i \in DOMAIN byId : byId[i] \in Indexed!Order
    BY DEF IndexInv, OrdersById
  <2>3. IsFiniteSet(DOMAIN byId \cup {id})
    BY <2>2, FS_AddElement
  <2> QED BY <2>1, <2>2, <2>3 DEF OrdersById
<1>4. ASSUME NEW t \in Indexed!Sides PROVE SideOK(index'[t], t, byId')
  <2>1. SideOK(index[t], t, byId)
    BY DEF IndexInv
  <2>2. CASE t = o.side
    <3>1. index'[t] = EntryOf(index[t], id, o.price)
      BY <2>2, <1>1, <1>2
    <3> QED BY <2>1, <2>2, <3>1, <1>1, SideAfterAdd
  <2>3. CASE t # o.side
    <3>1. index'[t] = index[t]
      BY <2>3, <1>1, <1>2
    <3> QED BY <2>1, <2>3, <3>1, <1>1, OtherSideAfterAdd
  <2> QED BY <2>2, <2>3
<1>5. index' = [t \in Indexed!Sides |-> index'[t]]
  BY <1>1, <1>2
<1> QED BY <1>1, <1>3, <1>4, <1>5, IndexInvAfter

LEMMA IndexModify ==
    ASSUME IndexInv, NEW id \in Few, NEW qty \in MapQuantities, Indexed!Modify(id, qty)
    PROVE  IndexInv'
<1>1. id \in DOMAIN byId /\ byId' = [byId EXCEPT ![id].qty = qty] /\ index' = index
  BY DEF Indexed!Modify
<1>2. OrdersById(byId)
  BY DEF IndexInv
<1>3. byId[id] = [price |-> byId[id].price, side |-> byId[id].side, qty |-> byId[id].qty] /\ byId[id] \in Indexed!Order
  BY <1>1, <1>2, OrderIs DEF OrdersById
<1> DEFINE o == [price |-> byId[id].price, side |-> byId[id].side, qty |-> qty]
<1>4. [byId[id] EXCEPT !.qty = qty] = o
  <2> DEFINE x == byId[id].price
             y == byId[id].side
             z == byId[id].qty
  <2>1. byId[id] = [price |-> x, side |-> y, qty |-> z]
    BY <1>3
  <2> HIDE DEF x, y, z
  <2>2. [byId[id] EXCEPT !.qty = qty] = [price |-> x, side |-> y, qty |-> qty]
    BY ONLY <2>1
  <2> QED BY <2>2 DEF x, y
<1>5. o \in Indexed!Order /\ o.side = byId[id].side /\ o.price = byId[id].price
  BY <1>3 DEF Indexed!Order
<1>6. byId' = [byId EXCEPT ![id] = o]
  BY <1>1, <1>4
<1> HIDE DEF o
<1>7. DOMAIN byId' = DOMAIN byId /\ IsMap(byId') /\ \A i \in DOMAIN byId : byId'[i] = IF i = id THEN o ELSE byId[i]
  BY <1>1, <1>2, <1>6 DEF OrdersById, IsMap
<1>8. OrdersById(byId')
  BY <1>2, <1>5, <1>7 DEF OrdersById
<1>9. \A i \in DOMAIN byId : byId'[i].side = byId[i].side /\ byId'[i].price = byId[i].price
  BY <1>5, <1>7
<1>10. \A t \in Indexed!Sides : SideOK(index'[t], t, byId')
  BY <1>1, <1>7, <1>9, SameKeys DEF IndexInv
<1>11. index' = [t \in Indexed!Sides |-> index'[t]]
  BY <1>1 DEF IndexInv
<1> QED BY <1>8, <1>10, <1>11, IndexInvAfter

LEMMA IndexCancel ==
    ASSUME IndexInv, NEW id \in Few, Indexed!Cancel(id)
    PROVE  IndexInv'
<1> DEFINE u == byId[id].side
<1>1. /\ id \in DOMAIN byId
      /\ byId' = Dropped(byId, id)
      /\ index' = [index EXCEPT ![u] = Indexed!EraseIdAt(index[u], byId[id].price, id)]
  BY DEF Indexed!Cancel, Dropped
<1>2. OrdersById(byId) /\ index = [t \in Indexed!Sides |-> index[t]]
  BY DEF IndexInv
<1>3. u \in Indexed!Sides
  BY <1>1, <1>2, OrderIs DEF OrdersById
<1>4. OrdersById(byId')
  <2>1. DOMAIN byId' = DOMAIN byId \ {id} /\ IsMap(byId') /\ \A i \in DOMAIN byId' : byId'[i] = byId[i]
    BY <1>1 DEF Dropped, IsMap
  <2>2. IsFiniteSet(DOMAIN byId \ {id})
    BY <1>2, FS_RemoveElement DEF OrdersById
  <2> QED BY <2>1, <2>2, <1>2 DEF OrdersById
<1>5. ASSUME NEW t \in Indexed!Sides PROVE SideOK(index'[t], t, byId')
  <2>1. SideOK(index[t], t, byId)
    BY DEF IndexInv
  <2>2. CASE t = u
    <3>1. index'[t] = Indexed!EraseIdAt(index[t], byId[id].price, id)
      BY <2>2, <1>1, <1>2, <1>3
    <3> QED BY <2>1, <2>2, <3>1, <1>1, SideAfterErase
  <2>3. CASE t # u
    <3>1. index'[t] = index[t]
      BY <2>3, <1>1, <1>2, <1>3
    <3> QED BY <2>1, <2>3, <3>1, <1>1, OtherSideAfterErase
  <2> QED BY <2>2, <2>3
<1>6. index' = [t \in Indexed!Sides |-> index'[t]]
  BY <1>1, <1>2, <1>3
<1> QED BY <1>4, <1>5, <1>6, IndexInvAfter

LEMMA IndexNext ==
    ASSUME IndexInv, [Indexed!Next]_<<byId, index>>
    PROVE  IndexInv'
<1>1. CASE UNCHANGED <<byId, index>>
  BY <1>1, IndexInvAfter DEF IndexInv
<1>2. CASE Indexed!Next
  BY <1>2, IndexAdd, IndexModify, IndexCancel DEF Indexed!Next
<1> QED BY <1>1, <1>2

LEMMA IndexSteps ==
    ASSUME IndexInv, IndexInv', [Indexed!Next]_<<byId, index>>
    PROVE  Indexed!StepsAsFlatBook
<1>1. Indexed!OrdersOfIndex = byId /\ Indexed!OrdersOfIndex' = byId'
  BY ReadFromIndex, ReadFromIndexNext
<1>2. CASE UNCHANGED <<byId, index>>
  BY <1>1, <1>2 DEF Indexed!StepsAsFlatBook
<1>3. ASSUME NEW id \in Few, NEW o \in Indexed!Order, Indexed!Add(id, o) PROVE Indexed!Flat!Add(id, o)
  BY <1>1, <1>3 DEF Indexed!Add, Indexed!Flat!Add
<1>4. ASSUME NEW id \in Few, NEW qty \in MapQuantities, Indexed!Modify(id, qty) PROVE Indexed!Flat!Modify(id, qty)
  BY <1>1, <1>4 DEF Indexed!Modify, Indexed!Flat!Modify
<1>5. ASSUME NEW id \in Few, Indexed!Cancel(id) PROVE Indexed!Flat!Cancel(id)
  BY <1>1, <1>5 DEF Indexed!Cancel, Indexed!Flat!Cancel
<1>6. Indexed!Flat!Order = Indexed!Order
  BY DEF Indexed!Flat!Order, Indexed!Order, Indexed!Flat!Sides, Indexed!Sides
<1> QED BY <1>2, <1>3, <1>4, <1>5, <1>6 DEF Indexed!Next, Indexed!Flat!Next, Indexed!StepsAsFlatBook

LEMMA BestIsScanned == IndexInv => Indexed!BestAsScanned
<1> SUFFICES ASSUME IndexInv, NEW t \in Indexed!Sides PROVE Indexed!Best(t) = Indexed!Scanned!Best(t)
  BY DEF Indexed!BestAsScanned
<1> DEFINE ids == {i \in DOMAIN byId : byId[i].side = t}
           prices == {byId[id].price : id \in ids}
<1>1. OrdersById(byId) /\ SideOK(index[t], t, byId)
  BY DEF IndexInv
<1>2. DOMAIN index[t] = prices
  <2>1. ASSUME NEW p \in DOMAIN index[t] PROVE p \in prices
    <3>1. LevelOK(index[t][p], t, p, byId)
      BY <1>1 DEF SideOK
    <3>2. 1 \in 1 .. Len(index[t][p])
      BY <3>1 DEF LevelOK
    <3>3. index[t][p][1] \in ids /\ byId[index[t][p][1]].price = p
      BY <3>1, <3>2 DEF LevelOK
    <3> QED BY <3>3
  <2>2. ASSUME NEW id \in ids PROVE byId[id].price \in DOMAIN index[t]
    BY <1>1 DEF SideOK
  <2> QED BY <2>1, <2>2
<1>3. prices \subseteq Int
  <2>1. \A id \in DOMAIN byId : byId[id].price \in MapPrices
    BY <1>1, OrderIs DEF OrdersById
  <2>2. \A p \in prices : p \in MapPrices
    BY <2>1
  <2>3. MapPrices \subseteq Int
    BY ComparisonAssumption DEF Indexed!ParameterAssumption
  <2> HIDE DEF prices
  <2> QED BY ONLY <2>2, <2>3
<1>4. IsFiniteSet(prices)
  <2>1. IsFiniteSet(ids)
    BY <1>1, FS_Subset DEF OrdersById
  <2> DEFINE f == [id \in DOMAIN byId |-> byId[id].price]
  <2>2. IsFiniteSet({f[id] : id \in ids})
    BY <2>1, FiniteImage
  <2>3. {f[id] : id \in ids} = prices
    OBVIOUS
  <2> QED BY <2>2, <2>3
<1>5. Indexed!Best(t) = IF prices = {} THEN 0
                        ELSE CHOOSE p \in prices : \A r \in prices : IF t = "B" THEN r <= p ELSE p <= r
  BY <1>2 DEF Indexed!Best
<1>6. Indexed!Scanned!Best(t) = IF prices = {} THEN 0
        ELSE IF t = "B" THEN CHOOSE p \in prices : \A r \in prices : p >= r
        ELSE CHOOSE p \in prices : \A r \in prices : p <= r
  BY DEF Indexed!Scanned!Best, Indexed!Scanned!Max, Indexed!Scanned!Min
<1> HIDE DEF prices
<1>7. CASE prices # {} /\ t = "B"
  <2>1. PICK m \in prices : \A r \in prices : r <= m
    BY <1>3, <1>4, <1>7, GreatestNumber
  <2> DEFINE c == CHOOSE p \in prices : \A r \in prices : p >= r
             d == CHOOSE p \in prices : \A r \in prices : r <= p
  <2>2. c = m
    <3>1. \A r \in prices : m >= r
      BY <2>1, <1>3
    <3>2. c \in prices /\ \A r \in prices : c >= r
      BY <3>1
    <3> HIDE DEF c
    <3> QED BY <2>1, <3>2, <1>3
  <2>3. d = m
    <3>1. d \in prices /\ \A r \in prices : r <= d
      BY <2>1
    <3> HIDE DEF d
    <3> QED BY <2>1, <3>1, <1>3
  <2> QED BY <2>2, <2>3, <1>5, <1>6, <1>7
<1>8. CASE prices # {} /\ t # "B"
  BY <1>5, <1>6, <1>8
<1> QED BY <1>5, <1>6, <1>7, <1>8

LEMMA IndexedBookIs ==
    Indexed!Spec => Indexed!Flat!Init /\ [][Indexed!StepsAsFlatBook]_<<byId, index>> /\ []Indexed!BestAsScanned
<1>1. Indexed!Init => Indexed!Flat!Init
  BY IndexInit, ReadFromIndex DEF Indexed!Flat!Init
<1>2. IndexInv /\ [Indexed!Next]_<<byId, index>> => IndexInv' /\ [Indexed!StepsAsFlatBook]_<<byId, index>>
  BY IndexNext, IndexSteps
<1> QED BY <1>1, <1>2, IndexInit, BestIsScanned, PTL DEF Indexed!Spec, Indexed!vars

(***************************************************************************)
(* The three books that keep more than they must, each against the plain   *)
(* one, for any ids and prices and however many orders: every call of      *)
(* FlatOrderBook.hpp is the same call on a map of queues, every call of    *)
(* hw5's order_book.cpp that on the orders alone, its best prices are      *)
(* those a scan of the orders finds, and the baseline of phase5 keeps its  *)
(* two copies of an order alike.                                           *)
(***************************************************************************)
THEOREM BooksAreEqual == BooksSpec => BooksAgree
<1>1. [Flat!StepsAsMapBook]_<<sides, deadOrders>> =>
        [UNCHANGED <<sides, deadOrders>> \/ Flat!StepsAsMapBook]_<<sides, deadOrders>>
  OBVIOUS
<1>2. [Indexed!StepsAsFlatBook]_<<byId, index>> =>
        [UNCHANGED <<byId, index>> \/ Indexed!StepsAsFlatBook]_<<byId, index>>
  OBVIOUS
<1> QED BY <1>1, <1>2, VectorBook, IndexedBookIs, BaselineBook, PTL DEF BooksSpec, BooksAgree
=============================================================================
