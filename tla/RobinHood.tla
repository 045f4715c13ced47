---- MODULE RobinHood ----
(***************************************************************************)
(* RobinHoodMap of hw5/part1: open addressing in a table of a power of     *)
(* two, where an entry far from home takes the place of one nearer to its  *)
(* home, searches stop early because of that order, and an erase pulls the *)
(* entries behind it one slot back.  The loops are functions of the number *)
(* of rounds, since no other thread sees the table between two of them.    *)
(***************************************************************************)
EXTENDS Integers, FiniteSets

CONSTANTS Keys, Values, Null,
          Hash,         \* hasher_, as a function on Keys
          MinCapacity   \* the slots of a new table, 8 at least

ParameterAssumption ==
    /\ Hash \in [Keys -> Nat]
    /\ MinCapacity \in Nat /\ MinCapacity >= 8
    /\ Null \notin Keys \cup Values

VARIABLES table,  \* table_, indexed from 0
          size    \* size_

vars == <<table, size>>

\* dib is 1 at home and 0 in an empty slot.
Empty == [dib |-> 0, key |-> Null, value |-> Null]

Capacity(t) == Cardinality(DOMAIN t)
NewTable(cap) == [i \in 0 .. cap - 1 |-> Empty]
After(t, i) == (i + 1) % Capacity(t)

\* The slot that a loop over the places of k looks at in its round n.
Probed(t, k, n) == (Hash[k] + (n - 1)) % Capacity(t)

\* max_load_ * table_.size(), cut to an integer
LoadLimit(t) == (85 * Capacity(t)) \div 100

Init ==
    /\ table = NewTable(MinCapacity)
    /\ size = 0

----------------------------------------------------------------------------
\* A round of the loop of insert, at slot i: the entry with the smaller dib moves on.
Round(m, i) ==
    LET cur   == m.table[i]
        probe == m.probe
    IN  IF m.done THEN m
        ELSE IF cur.dib = 0
        THEN [table |-> [m.table EXCEPT ![i] = probe], size |-> m.size + 1, probe |-> probe, done |-> TRUE]
        ELSE IF cur.key = probe.key
        THEN [table |-> [m.table EXCEPT ![i] = [cur EXCEPT !.value = probe.value]],
              size |-> m.size, probe |-> probe, done |-> TRUE]
        ELSE LET stays == IF cur.dib < probe.dib THEN probe ELSE cur
                 moves == IF cur.dib < probe.dib THEN cur ELSE probe
             IN  [table |-> [m.table EXCEPT ![i] = stays], size |-> m.size,
                  probe |-> [moves EXCEPT !.dib = @ + 1], done |-> FALSE]

\* The loop, on a map m of a table and its size.  It ends before it is back where it began.
Placed(m, k, v) ==
    LET cap == Capacity(m.table)
        after[n \in 0 .. cap] ==
            IF n = 0
            THEN [table |-> m.table, size |-> m.size, probe |-> [dib |-> 1, key |-> k, value |-> v],
                  done |-> FALSE]
            ELSE Round(after[n - 1], Probed(m.table, k, n))
        last == after[cap]
    IN  [table |-> last.table, size |-> last.size]

\* The inserts of rehash find the load low enough (see RoomIsLeft), so none grows the table again.
Rehashed(m) ==
    LET cap == Capacity(m.table)
        upTo[n \in 0 .. cap] ==
            IF n = 0 THEN [table |-> NewTable(2 * cap), size |-> 0]
            ELSE IF m.table[n - 1].dib = 0 THEN upTo[n - 1]
            ELSE Placed(upTo[n - 1], m.table[n - 1].key, m.table[n - 1].value)
    IN  upTo[cap]

\* The check of the load comes first, also when the key is there already.
Inserted(m, k, v) ==
    Placed(IF m.size + 1 > LoadLimit(m.table) THEN Rehashed(m) ELSE m, k, v)

\* The loop of find and erase ends at k, or at an entry nearer to its home than k would be.
Ends(t, k, dist) ==
    LET cur == t[Probed(t, k, dist)]
    IN  cur.dib < dist \/ cur.key = k

RoundsTo(t, k) ==
    CHOOSE n \in 1 .. Capacity(t) : Ends(t, k, n) /\ \A dist \in 1 .. n - 1 : ~Ends(t, k, dist)

\* The slot of k, or -1.
SlotOf(t, k) ==
    LET dist == RoundsTo(t, k)
        i    == Probed(t, k, dist)
    IN  IF t[i].dib < dist THEN -1 ELSE i

\* Fault: an entry keeps its dib when it is pulled back.
PulledKeepingDib(m) ==
    LET next  == After(m.table, m.at)
        entry == m.table[next]
    IN  IF entry.dib <= 1 THEN m
        ELSE [table |-> [m.table EXCEPT ![m.at] = entry, ![next] = Empty], at |-> next]

\* A round of the second loop of erase: the entry behind the slot at moves into it.
Pulled(m) ==
    LET next  == After(m.table, m.at)
        entry == m.table[next]
    IN  IF entry.dib <= 1 THEN m
        ELSE [table |-> [m.table EXCEPT ![m.at] = [entry EXCEPT !.dib = @ - 1], ![next] = Empty],
              at |-> next]

Backshift(t, i) ==
    LET after[n \in 0 .. Capacity(t)] ==
            IF n = 0 THEN [table |-> [t EXCEPT ![i] = Empty], at |-> i] ELSE Pulled(after[n - 1])
    IN  after[Capacity(t)].table

----------------------------------------------------------------------------
Insert(k, v) ==
    LET m == Inserted([table |-> table, size |-> size], k, v)
    IN  table' = m.table /\ size' = m.size

\* What find(k) answers in a table; it changes nothing.
Find(t, k) ==
    LET i == SlotOf(t, k)
    IN  IF i = -1 THEN Null ELSE t[i].value

\* An erase that does not find its key changes nothing.
Erase(k) ==
    /\ SlotOf(table, k) # -1
    /\ table' = Backshift(table, SlotOf(table, k))
    /\ size' = size - 1

Next ==
    \E k \in Keys :
        \/ \E v \in Values : Insert(k, v)
        \/ Erase(k)

Spec == Init /\ [][Next]_vars

----------------------------------------------------------------------------
\* The map that the searches show.
Answers(t) == [k \in Keys |-> Find(t, k)]

(***************************************************************************)
(* Every operation does what it would to a map: each entry is found, with  *)
(* the value last inserted, and an insert or an erase touches its own key  *)
(* only, also when chains wrap around the end, entries are pulled back or  *)
(* the table grows.                                                        *)
(***************************************************************************)
StepsAsMap ==
    \E old \in {Answers(table)}, new \in {Answers(table')}, k \in Keys :
        \/ \E v \in Values : new = [old EXCEPT ![k] = v] /\ Insert(k, v)
        \/ old[k] # Null /\ new = [old EXCEPT ![k] = Null] /\ Erase(k)

\* size() counts the keys that are found.
SizeIsCount == size = Cardinality({k \in Keys : Answers(table)[k] # Null})

(***************************************************************************)
(* A slot stays free, without which the loops would not end, and all       *)
(* entries fit in a table of twice as many slots before it has to grow.    *)
(***************************************************************************)
RoomIsLeft ==
    /\ size < Capacity(table)
    /\ size <= LoadLimit(NewTable(2 * Capacity(table)))
====
