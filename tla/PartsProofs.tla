----------------------------- MODULE PartsProofs -----------------------------
(***************************************************************************)
(* The small parts.  For any size and any sequence of calls: the slots of  *)
(* MemoryPool, the counted blocks of SharedHandle, the trades of           *)
(* UniqueHandle, the queue that BinaryHeap implements, and the lanes of    *)
(* LaneSum.  For any schedule of its two threads: WorkerHandshake, and     *)
(* where they are to run: WorkerCpu.  For any matrices and any feed: the   *)
(* answers of TraceAnswer, Checksum and TickEngine.  For any hash          *)
(* function: the map that RobinHood is.                                    *)
(***************************************************************************)
EXTENDS MemoryPool, SharedHandle, UniqueHandle, BinaryHeap, LaneSum, WorkerCpu,
        WorkerHandshake, Comparisons, NumberFacts, SequenceTheorems

-----------------------------------------------------------------------------
(***************************************************************************)
(* MemoryPool.  The invariant is the list itself: acquiring takes the      *)
(* first slot off the path the links describe, releasing puts one in front *)
(* of it.                                                                  *)
(***************************************************************************)

\* path visits each slot of the set free once.
Visits(path, n, free) ==
    /\ path \in [1 .. n -> Slots]
    /\ \A k \in 1 .. n : path[k] \in free
    /\ \A i \in free : \E k \in 1 .. n : path[k] = i
    /\ \A j, k \in 1 .. n : path[j] = path[k] => j = k

PoolInv ==
    /\ live \in 0 .. Cap
    /\ next \in [Slots -> Slots \cup {Nil, Object}]
    /\ HeadIsFree
    /\ NoSlotLost

(***************************************************************************)
(* NoSlotLost in terms of Visits.                                          *)
(***************************************************************************)
LEMMA OneList ==
    NoSlotLost <=> \E path : Visits(path, Cap - live, Slots \ held) /\ LinkedAlong(path, Cap - live)
<1>1. ASSUME NoSlotLost
      PROVE  \E path : Visits(path, Cap - live, Slots \ held) /\ LinkedAlong(path, Cap - live)
  <2>1. PICK path \in [1 .. Cap - live -> Slots] :
              /\ {path[k] : k \in 1 .. Cap - live} = Slots \ held
              /\ \A j, k \in 1 .. Cap - live : path[j] = path[k] => j = k
              /\ LinkedAlong(path, Cap - live)
    BY <1>1 DEF NoSlotLost
  <2> QED
    BY <2>1 DEF Visits
<1>2. ASSUME NEW path, Visits(path, Cap - live, Slots \ held), LinkedAlong(path, Cap - live)
      PROVE  NoSlotLost
  <2>1. {path[k] : k \in 1 .. Cap - live} = Slots \ held
    BY <1>2 DEF Visits
  <2>2. path \in [1 .. Cap - live -> Slots] /\ \A j, k \in 1 .. Cap - live : path[j] = path[k] => j = k
    BY <1>2 DEF Visits
  <2> QED
    BY <1>2, <2>1, <2>2 DEF NoSlotLost
<1> QED
  BY <1>1, <1>2

(***************************************************************************)
(* At the start all slots are on the list, in the order of their numbers.  *)
(***************************************************************************)
LEMMA PoolInvInit == PoolInit => PoolInv
<1> SUFFICES ASSUME PoolInit PROVE PoolInv
  OBVIOUS
<1> USE CapAssumption
<1>1. live = 0 /\ held = {} /\ head = 0 /\ 0 \in Slots
  BY DEF PoolInit, Slots
<1>2. \A i \in Slots : next[i] = IF i + 1 < Cap THEN i + 1 ELSE Nil
  BY DEF PoolInit
<1>3. next \in [Slots -> Slots \cup {Nil, Object}]
  BY DEF PoolInit, Slots
<1>4. HeadIsFree
  BY <1>1, FS_EmptySet DEF HeadIsFree
<1>5. NoSlotLost
  <2> DEFINE path == [k \in 1 .. Cap |-> k - 1]
  <2>1. Visits(path, Cap, Slots)
    <3>1. \A i \in Slots : i + 1 \in 1 .. Cap /\ path[i + 1] = i
      BY DEF Slots
    <3>2. path \in [1 .. Cap -> Slots] /\ \A k \in 1 .. Cap : path[k] = k - 1
      BY DEF Slots
    <3>3. \A j, k \in 1 .. Cap : path[j] = path[k] => j = k
      BY <3>2
    <3> HIDE DEF path
    <3>4. \A i \in Slots : \E k \in 1 .. Cap : path[k] = i
      BY <3>1
    <3> QED
      BY <3>2, <3>3, <3>4 DEF Visits
  <2>2. LinkedAlong(path, Cap)
    <3>1. \A k \in 1 .. Cap : path[k] = k - 1 /\ k - 1 \in Slots
      BY DEF Slots
    <3> HIDE DEF path
    <3> QED
      BY <1>1, <1>2, <3>1 DEF LinkedAlong
  <2>3. Cap - live = Cap /\ Slots \ held = Slots
    BY <1>1
  <2> HIDE DEF path
  <2> QED
    BY <2>1, <2>2, <2>3, OneList
<1> QED
  BY <1>1, <1>3, <1>4, <1>5 DEF PoolInv

(***************************************************************************)
(* Acquiring and releasing keep the list and the count.                    *)
(***************************************************************************)
LEMMA PoolInvNext == PoolInv /\ [PoolNext]_poolVars => PoolInv'
<1> SUFFICES ASSUME PoolInv, [PoolNext]_poolVars PROVE PoolInv'
  OBVIOUS
<1> USE CapAssumption
<1>1. /\ live \in 0 .. Cap /\ live = Cardinality(held) /\ held \subseteq Slots
      /\ next \in [Slots -> Slots \cup {Nil, Object}]
      /\ head \in (Slots \ held) \cup {Nil}
  BY DEF PoolInv, HeadIsFree
<1>2. IsFiniteSet(held)
  <2>1. IsFiniteSet(0 .. Cap - 1)
    BY FS_Interval
  <2> QED
    BY <1>1, <2>1, FS_Subset DEF Slots
<1> DEFINE n == Cap - live
           free == Slots \ held
<1>3. n \in Nat /\ n = Cap - live
  BY <1>1
<1>4. PICK path : Visits(path, n, free) /\ LinkedAlong(path, n)
  BY OneList DEF PoolInv
<1>5. Nil \notin Slots
  BY DEF Slots
<1> HIDE DEF n
<1>6. ASSUME Acquire PROVE PoolInv'
  <2> DEFINE rest == [k \in 1 .. n - 1 |-> path[k + 1]]
  <2>1. n > 0 /\ head = path[1]
    BY <1>3, <1>4, <1>6 DEF LinkedAlong, Acquire
  <2>2. head \in Slots \ held
    BY <1>1, <1>6 DEF Acquire
  <2>3. live' = live + 1 /\ live' \in 0 .. Cap /\ n - 1 = Cap - live'
    BY <1>1, <1>3, <1>6, <2>1 DEF Acquire
  <2>4. held' = held \cup {head} /\ live' = Cardinality(held') /\ held' \subseteq Slots
    BY <1>1, <1>2, <1>6, <2>2, FS_AddElement DEF Acquire
  <2>5. \A i \in Slots : next'[i] = IF i = head THEN Object ELSE next[i]
    BY <1>1, <1>6 DEF Acquire
  <2>6. next' \in [Slots -> Slots \cup {Nil, Object}]
    BY <1>1, <1>6 DEF Acquire
  <2>7. \A k \in 1 .. n - 1 : /\ k + 1 \in 1 .. n /\ rest[k] = path[k + 1]
                              /\ rest[k] \in Slots /\ rest[k] # head
    BY <1>3, <1>4, <2>1 DEF Visits
  <2>8. Visits(rest, n - 1, Slots \ held')
    <3>1. rest \in [1 .. n - 1 -> Slots]
      BY <2>7
    <3>2. \A k \in 1 .. n - 1 : rest[k] \in Slots \ held'
      BY <1>4, <2>4, <2>7 DEF Visits
    <3>3. \A i \in Slots \ held' : \E k \in 1 .. n - 1 : rest[k] = i
      <4> TAKE i \in Slots \ held'
      <4>1. PICK k \in 1 .. n : path[k] = i
        BY <1>4, <2>4 DEF Visits
      <4>2. k # 1
        BY <2>1, <2>4, <4>1
      <4>3. k - 1 \in 1 .. n - 1 /\ rest[k - 1] = i
        BY <1>3, <4>1, <4>2
      <4> QED
        BY <4>3
    <3>4. \A j, k \in 1 .. n - 1 : rest[j] = rest[k] => j = k
      <4> TAKE j, k \in 1 .. n - 1
      <4>1. rest[j] = rest[k] => j + 1 = k + 1
        BY <1>4, <2>7 DEF Visits
      <4> QED
        BY <1>3, <4>1
    <3> HIDE DEF rest
    <3> QED
      BY <3>1, <3>2, <3>3, <3>4 DEF Visits
  <2>9. head' = (IF n - 1 = 0 THEN Nil ELSE rest[1])
    BY <1>3, <1>4, <1>6, <2>1 DEF LinkedAlong, Acquire
  <2>10. \A k \in 1 .. n - 1 : next'[rest[k]] = IF k = n - 1 THEN Nil ELSE rest[k + 1]
    <3> TAKE k \in 1 .. n - 1
    <3>1. next'[rest[k]] = next[path[k + 1]]
      BY <2>5, <2>7
    <3>2. next[path[k + 1]] = IF k + 1 = n THEN Nil ELSE path[k + 2]
      BY <1>3, <1>4, <2>7 DEF LinkedAlong
    <3>3. k # n - 1 => rest[k + 1] = path[k + 2]
      BY <1>3
    <3> HIDE DEF rest
    <3> QED
      BY <1>3, <3>1, <3>2, <3>3
  <2>11. head' \in (Slots \ held') \cup {Nil}
    <3>1. n - 1 # 0 => 1 \in 1 .. n - 1
      BY <1>3, <2>1
    <3> HIDE DEF rest
    <3>2. n - 1 # 0 => rest[1] \in Slots \ held'
      BY <2>8, <3>1 DEF Visits
    <3> QED
      BY <2>9, <3>2
  <2> HIDE DEF rest
  <2>12. NoSlotLost'
    <3>1. rest \in [1 .. Cap - live' -> Slots]
      BY <2>3, <2>8 DEF Visits
    <3>2. {rest[k] : k \in 1 .. Cap - live'} = Slots \ held'
      BY <2>3, <2>8 DEF Visits
    <3>3. \A j, k \in 1 .. Cap - live' : rest[j] = rest[k] => j = k
      BY <2>3, <2>8 DEF Visits
    <3>4. /\ head' = IF Cap - live' = 0 THEN Nil ELSE rest[1]
          /\ \A k \in 1 .. Cap - live' :
                next'[rest[k]] = IF k = Cap - live' THEN Nil ELSE rest[k + 1]
      BY <2>3, <2>9, <2>10
    <3> QED
      BY <3>1, <3>2, <3>3, <3>4 DEF NoSlotLost, LinkedAlong
  <2> QED
    BY <2>3, <2>4, <2>6, <2>11, <2>12 DEF PoolInv, HeadIsFree
<1>7. ASSUME NEW i \in Slots, Release(i) PROVE PoolInv'
  <2> DEFINE more == [k \in 1 .. n + 1 |-> IF k = 1 THEN i ELSE path[k - 1]]
  <2>1. i \in held /\ Cardinality(held) > 0 /\ live > 0
    BY <1>1, <1>2, <1>7, FS_EmptySet, FS_CardinalityType DEF Release
  <2>2. live' = live - 1 /\ live' \in 0 .. Cap /\ n + 1 = Cap - live' /\ n + 1 > 0
    BY <1>1, <1>3, <1>7, <2>1 DEF Release
  <2>3. held' = held \ {i} /\ live' = Cardinality(held') /\ held' \subseteq Slots
    BY <1>1, <1>2, <1>7, <2>1, FS_RemoveElement DEF Release
  <2>4. next' \in [Slots -> Slots \cup {Nil, Object}]
        /\ \A j \in Slots : next'[j] = IF j = i THEN head ELSE next[j]
    BY <1>1, <1>7 DEF Release
  <2>5. head' = i /\ head' \in (Slots \ held') \cup {Nil}
    BY <1>7, <2>3 DEF Release
  <2>6. \A k \in 1 .. n + 1 : /\ k # 1 => k - 1 \in 1 .. n
                              /\ more[k] = IF k = 1 THEN i ELSE path[k - 1]
    BY <1>3
  <2>7. \A k \in 1 .. n : path[k] \in Slots /\ path[k] \notin held /\ path[k] # i
    BY <1>4, <2>1 DEF Visits
  <2>8. more \in [1 .. Cap - live' -> Slots]
    BY <2>2, <2>6, <2>7
  <2> HIDE DEF more
  <2>9. {more[k] : k \in 1 .. Cap - live'} = Slots \ held'
    <3>1. \A k \in 1 .. n + 1 : more[k] \in Slots \ held'
      BY <2>3, <2>6, <2>7
    <3>2. ASSUME NEW j \in Slots \ held' PROVE \E k \in 1 .. n + 1 : more[k] = j
      <4>1. CASE j = i
        BY <1>3, <2>6, <4>1
      <4>2. CASE j # i
        <5>1. PICK k \in 1 .. n : path[k] = j
          BY <1>4, <2>3, <4>2 DEF Visits
        <5>2. k + 1 \in 1 .. n + 1 /\ more[k + 1] = j
          BY <1>3, <2>6, <5>1
        <5> QED
          BY <5>2
      <4> QED
        BY <4>1, <4>2
    <3> QED
      BY <2>2, <3>1, <3>2
  <2>10. \A j, k \in 1 .. Cap - live' : more[j] = more[k] => j = k
    <3> SUFFICES ASSUME NEW j \in 1 .. n + 1, NEW k \in 1 .. n + 1, more[j] = more[k] PROVE j = k
      BY <2>2
    <3>1. CASE j = 1 \/ k = 1
      BY <1>3, <2>6, <2>7, <3>1
    <3>2. CASE j # 1 /\ k # 1
      <4>1. j - 1 \in 1 .. n /\ k - 1 \in 1 .. n /\ path[j - 1] = path[k - 1]
        BY <1>3, <2>6, <3>2
      <4>2. j - 1 = k - 1
        BY <1>4, <4>1 DEF Visits
      <4> QED
        BY <1>3, <4>2
    <3> QED
      BY <3>1, <3>2
  <2>11. \A k \in 1 .. n + 1 : next'[more[k]] = IF k = n + 1 THEN Nil ELSE more[k + 1]
    <3> TAKE k \in 1 .. n + 1
    <3>1. CASE k = 1
      <4>1. next'[more[k]] = IF n = 0 THEN Nil ELSE path[1]
        BY <1>3, <1>4, <2>4, <2>6, <3>1 DEF LinkedAlong
      <4>2. n # 0 => more[2] = path[1]
        BY <1>3, <2>6
      <4> QED
        BY <1>3, <3>1, <4>1, <4>2
    <3>2. CASE k # 1
      <4>1. k - 1 \in 1 .. n /\ more[k] = path[k - 1]
        BY <1>3, <2>6, <3>2
      <4>2. next'[more[k]] = next[path[k - 1]]
        BY <2>4, <2>7, <4>1
      <4>3. next[path[k - 1]] = IF k - 1 = n THEN Nil ELSE path[k]
        BY <1>3, <1>4, <4>1 DEF LinkedAlong
      <4>4. k # n + 1 => more[k + 1] = path[k]
        BY <1>3, <2>6
      <4> QED
        BY <1>3, <4>2, <4>3, <4>4
    <3> QED
      BY <3>1, <3>2
  <2>12. NoSlotLost'
    <3>1. /\ head' = IF Cap - live' = 0 THEN Nil ELSE more[1]
          /\ \A k \in 1 .. Cap - live' :
                next'[more[k]] = IF k = Cap - live' THEN Nil ELSE more[k + 1]
      BY <1>3, <2>2, <2>5, <2>6, <2>11
    <3> QED
      BY <2>8, <2>9, <2>10, <3>1 DEF NoSlotLost, LinkedAlong
  <2> QED
    BY <2>2, <2>3, <2>4, <2>5, <2>12 DEF PoolInv, HeadIsFree
<1>8. CASE UNCHANGED poolVars
  BY <1>8 DEF poolVars, PoolInv, HeadIsFree, NoSlotLost, LinkedAlong
<1> QED
  BY <1>6, <1>7, <1>8 DEF PoolNext

(***************************************************************************)
(* For every capacity: no slot is lost or handed out twice, no object is   *)
(* overwritten, and acquire() fails only when all slots are held.          *)
(***************************************************************************)
THEOREM PoolIsSound == PoolSpec => [](HeadIsFree /\ NoSlotLost /\ ExhaustedOnlyWhenFull)
<1>1. PoolSpec => []PoolInv
  BY PoolInvInit, PoolInvNext, PTL DEF PoolSpec
<1>2. PoolInv => HeadIsFree /\ NoSlotLost /\ ExhaustedOnlyWhenFull
  <2> SUFFICES ASSUME PoolInv PROVE ExhaustedOnlyWhenFull
    BY DEF PoolInv
  <2>1. PICK path : Visits(path, Cap - live, Slots \ held) /\ LinkedAlong(path, Cap - live)
    BY OneList DEF PoolInv
  <2>2. Nil \notin Slots /\ live \in 0 .. Cap /\ Cap \in Nat
    BY CapAssumption DEF PoolInv, Slots
  <2>3. Cap - live # 0 => head \in Slots
    BY <2>1, <2>2 DEF Visits, LinkedAlong
  <2> QED
    BY <2>2, <2>3 DEF ExhaustedOnlyWhenFull
<1> QED
  BY <1>1, <1>2, PTL

-----------------------------------------------------------------------------
(***************************************************************************)
(* SharedHandle.  All of it rests on one fact about sets: changing what    *)
(* one handle points to changes the number of a block's owners by at most  *)
(* one.                                                                    *)
(***************************************************************************)

\* The owners of b when the handles point where f says.
OwnersIn(f, b) == {h \in Handles : f[h] = b}

Number(f, b) == Cardinality(OwnersIn(f, b))

Pointing == [Handles -> Blocks \cup {Null}]

(***************************************************************************)
(* A block has finitely many owners, and none exactly when their number    *)
(* is 0.                                                                   *)
(***************************************************************************)
LEMMA NumberType ==
    ASSUME NEW f, NEW b
    PROVE  /\ IsFiniteSet(OwnersIn(f, b))
           /\ Number(f, b) \in Nat
           /\ OwnersIn(f, b) # {} <=> Number(f, b) > 0
<1>1. IsFiniteSet(OwnersIn(f, b))
  BY HandleAssumption, FS_Subset DEF OwnersIn
<1>2. Number(f, b) \in Nat
  BY <1>1, FS_CardinalityType DEF Number
<1>3. Number(f, b) = 0 <=> OwnersIn(f, b) = {}
  BY <1>1, FS_EmptySet DEF Number
<1> QED
  BY <1>1, <1>2, <1>3

\* What the handles point to when h has come to point to v.
Repointed(f, h, v) == [f EXCEPT ![h] = v]

(***************************************************************************)
(* One handle changes and the others stay.                                 *)
(***************************************************************************)
LEMMA RepointedIs ==
    ASSUME NEW f \in Pointing, NEW h \in Handles, NEW v \in Blocks \cup {Null}
    PROVE  /\ Repointed(f, h, v) \in Pointing
           /\ \A g \in Handles : Repointed(f, h, v)[g] = IF g = h THEN v ELSE f[g]
BY DEF Repointed, Pointing

(***************************************************************************)
(* What pointing one handle elsewhere does to the number of owners of b.   *)
(***************************************************************************)
LEMMA PointElsewhere ==
    ASSUME NEW f \in Pointing, NEW h \in Handles, NEW v \in Blocks \cup {Null}, NEW b \in Blocks
    PROVE  Number(Repointed(f, h, v), b) =
              IF v = b /\ f[h] # b THEN Number(f, b) + 1
              ELSE IF v # b /\ f[h] = b THEN Number(f, b) - 1
              ELSE Number(f, b)
<1> DEFINE g == Repointed(f, h, v)
<1>1. \A k \in Handles : g[k] = IF k = h THEN v ELSE f[k]
  BY RepointedIs
<1>2. /\ IsFiniteSet(OwnersIn(f, b)) /\ Number(f, b) \in Nat
  BY NumberType
<1> HIDE DEF g
<1>3. CASE v = b /\ f[h] # b
  <2>1. OwnersIn(g, b) = OwnersIn(f, b) \cup {h} /\ h \notin OwnersIn(f, b)
    BY <1>1, <1>3 DEF OwnersIn
  <2>2. Number(g, b) = Number(f, b) + 1
    BY <1>2, <2>1, FS_AddElement DEF Number
  <2> QED
    BY <1>3, <2>2 DEF g
<1>4. CASE v # b /\ f[h] = b
  <2>1. OwnersIn(g, b) = OwnersIn(f, b) \ {h} /\ h \in OwnersIn(f, b)
    BY <1>1, <1>4 DEF OwnersIn
  <2>2. Number(g, b) = Number(f, b) - 1
    BY <1>2, <2>1, FS_RemoveElement DEF Number
  <2> QED
    BY <1>4, <2>2 DEF g
<1>5. CASE ~(v = b /\ f[h] # b) /\ ~(v # b /\ f[h] = b)
  <2>1. OwnersIn(g, b) = OwnersIn(f, b)
    BY <1>1, <1>5 DEF OwnersIn
  <2>2. Number(g, b) = Number(f, b)
    BY <2>1 DEF Number
  <2> QED
    BY <1>5, <2>2 DEF g
<1> QED
  BY <1>3, <1>4, <1>5

(***************************************************************************)
(* The invariant in terms of numbers: what the induction carries.          *)
(***************************************************************************)
Fits(f, counts, states) ==
    /\ f \in Pointing
    /\ counts \in [Blocks -> Nat]
    /\ states \in [Blocks -> {"fresh", "live", "deleted"}]
    /\ \A b \in Blocks : counts[b] = Number(f, b)
    /\ \A b \in Blocks : states[b] = "live" <=> counts[b] > 0

Counted == HandleTypeOK /\ Fits(cb, count, state)

(***************************************************************************)
(* Counted says what the two properties say.                               *)
(***************************************************************************)
LEMMA CountedMeans == Counted => CountIsOwners /\ LiveIffOwned
<1>1. \A b : Owners(b) = OwnersIn(cb, b)
  BY DEF Owners, OwnersIn
<1> QED
  BY <1>1, NumberType DEF Counted, Fits, CountIsOwners, LiveIffOwned, Number, HandleTypeOK

(***************************************************************************)
(* No handle, no count.                                                    *)
(***************************************************************************)
LEMMA CountedInit == HandleInit => Counted
<1> SUFFICES ASSUME HandleInit PROVE Counted
  OBVIOUS
<1>1. HandleTypeOK
  BY DEF HandleInit, HandleTypeOK
<1>2. \A b \in Blocks : Number(cb, b) = 0
  <2> TAKE b \in Blocks
  <2>1. OwnersIn(cb, b) = {}
    BY HandleAssumption DEF HandleInit, OwnersIn
  <2> QED
    BY <2>1, FS_EmptySet DEF Number
<1> QED
  BY <1>1, <1>2 DEF HandleInit, Counted, Fits, HandleTypeOK, Pointing

(***************************************************************************)
(* release() takes one from the count of the handle's block and deletes    *)
(* the block exactly when that leaves none.                                *)
(***************************************************************************)
LEMMA ReleaseFits ==
    ASSUME Counted, NEW h \in Handles
    PROVE  Fits(Repointed(cb, h, Null), CountAfterRelease(h), StateAfterRelease(h))
<1> DEFINE f == Repointed(cb, h, Null)
           c == CountAfterRelease(h)
           s == StateAfterRelease(h)
<1>1. cb \in Pointing /\ count \in [Blocks -> Nat]
      /\ state \in [Blocks -> {"fresh", "live", "deleted"}]
  BY DEF Counted, Fits
<1>2. f \in Pointing
  BY <1>1, RepointedIs
<1>3. \A b \in Blocks : count[b] = Number(cb, b) /\ (state[b] = "live" <=> count[b] > 0)
  BY DEF Counted, Fits
<1>4. \A b \in Blocks : Number(f, b) = IF cb[h] = b THEN count[b] - 1 ELSE count[b]
  <2> TAKE b \in Blocks
  <2>1. Null # b /\ Null \in Blocks \cup {Null}
    BY HandleAssumption
  <2> QED
    BY <1>1, <1>3, <2>1, PointElsewhere
<1>5. CASE cb[h] = Null
  <2>1. c = count /\ s = state /\ \A b \in Blocks : cb[h] # b
    BY <1>5, HandleAssumption DEF CountAfterRelease, StateAfterRelease
  <2> QED
    BY <1>1, <1>2, <1>3, <1>4, <2>1 DEF Fits
<1>6. CASE cb[h] # Null
  <2>1. cb[h] \in Blocks
    BY <1>1, <1>6 DEF Pointing
  <2>2. Number(f, cb[h]) \in Nat
    BY NumberType
  <2>3. \A b \in Blocks : c[b] = IF cb[h] = b THEN count[b] - 1 ELSE count[b]
    BY <1>1, <1>6, <2>1 DEF CountAfterRelease
  <2>4. c \in [Blocks -> Nat]
    BY <1>1, <1>4, <1>6, <2>1, <2>2 DEF CountAfterRelease
  <2>5. s \in [Blocks -> {"fresh", "live", "deleted"}]
    BY <1>1 DEF StateAfterRelease
  <2>6. \A b \in Blocks : s[b] = IF cb[h] = b /\ count[b] = 1 THEN "deleted" ELSE state[b]
    BY <1>1, <1>6, <2>1 DEF StateAfterRelease
  <2>7. count[cb[h]] \in Nat /\ count[cb[h]] - 1 \in Nat
    BY <1>1, <1>4, <2>1, <2>2
  <2> HIDE DEF c, s, f
  <2>8. \A b \in Blocks : s[b] = "live" <=> c[b] > 0
    BY <1>1, <1>3, <2>3, <2>6, <2>7
  <2>9. \A b \in Blocks : c[b] = Number(f, b)
    BY <1>4, <2>3
  <2>10. Fits(f, c, s)
    BY <1>2, <2>4, <2>5, <2>8, <2>9 DEF Fits
  <2> QED
    BY <2>10 DEF c, s, f
<1> QED
  BY <1>5, <1>6

(***************************************************************************)
(* An empty handle may come to share a block that has an owner ...         *)
(***************************************************************************)
LEMMA ShareFits ==
    ASSUME NEW f, NEW c, NEW s, Fits(f, c, s),
           NEW h \in Handles, NEW v \in Blocks \cup {Null}, f[h] = Null,
           v \in Blocks => OwnersIn(f, v) # {}
    PROVE  Fits(Repointed(f, h, v), Shared(c, v), s)
<1> DEFINE g == Repointed(f, h, v)
           d == Shared(c, v)
<1>1. f \in Pointing /\ c \in [Blocks -> Nat] /\ s \in [Blocks -> {"fresh", "live", "deleted"}]
  BY DEF Fits
<1>2. g \in Pointing
  BY <1>1, RepointedIs
<1>3. \A b \in Blocks : c[b] = Number(f, b) /\ (s[b] = "live" <=> c[b] > 0)
  BY DEF Fits
<1>4. \A b \in Blocks : Number(g, b) = IF v = b THEN Number(f, b) + 1 ELSE Number(f, b)
  <2> TAKE b \in Blocks
  <2>1. f[h] # b
    BY HandleAssumption
  <2> QED
    BY <1>1, <2>1, PointElsewhere
<1>5. d \in [Blocks -> Nat] /\ \A b \in Blocks : d[b] = IF v = b THEN c[b] + 1 ELSE c[b]
  BY <1>1, HandleAssumption DEF Shared
<1>6. \A b \in Blocks : v = b => c[b] > 0
  BY <1>3, NumberType
<1> HIDE DEF g, d
<1>7. \A b \in Blocks : d[b] = Number(g, b)
  BY <1>3, <1>4, <1>5
<1>8. \A b \in Blocks : s[b] = "live" <=> d[b] > 0
  BY <1>1, <1>3, <1>5, <1>6
<1>9. Fits(g, d, s)
  BY <1>1, <1>2, <1>5, <1>7, <1>8 DEF Fits
<1> QED
  BY <1>9 DEF g, d

(***************************************************************************)
(* ... or take over what another handle points to, which changes no        *)
(* number.                                                                 *)
(***************************************************************************)
LEMMA MoveFits ==
    ASSUME NEW f, NEW c, NEW s, Fits(f, c, s),
           NEW h \in Handles, NEW other \in Handles, h # other, f[h] = Null
    PROVE  Fits(Repointed(Repointed(f, h, f[other]), other, Null), c, s)
<1> DEFINE v == f[other]
           g == Repointed(f, h, v)
           k == Repointed(g, other, Null)
<1>1. f \in Pointing /\ v \in Blocks \cup {Null} /\ Null \in Blocks \cup {Null}
  BY DEF Fits, Pointing
<1>2. g \in Pointing /\ g[other] = v
  BY <1>1, RepointedIs
<1>3. k \in Pointing
  BY <1>1, <1>2, RepointedIs
<1>4. \A b \in Blocks : Number(k, b) = Number(f, b)
  <2> TAKE b \in Blocks
  <2>1. f[h] # b /\ Null # b
    BY HandleAssumption
  <2>2. Number(g, b) = IF v = b THEN Number(f, b) + 1 ELSE Number(f, b)
    BY <1>1, <2>1, PointElsewhere
  <2> HIDE DEF g
  <2>3. Number(k, b) = IF v = b THEN Number(g, b) - 1 ELSE Number(g, b)
    BY <1>1, <1>2, <2>1, PointElsewhere
  <2>4. Number(f, b) \in Nat
    BY NumberType
  <2> HIDE DEF k, v
  <2> QED
    BY <2>2, <2>3, <2>4
<1> HIDE DEF k
<1>5. Fits(k, c, s)
  BY <1>3, <1>4 DEF Fits
<1> QED
  BY <1>5 DEF k

(***************************************************************************)
(* Every operation keeps the types: release() never takes a count below 0. *)
(***************************************************************************)
LEMMA TypeNext == Counted /\ [HandleNext]_handleVars => HandleTypeOK'
<1> SUFFICES ASSUME HandleTypeOK, Counted, [HandleNext]_handleVars PROVE HandleTypeOK'
  BY DEF Counted
<1> USE DEF HandleTypeOK
<1>1. ASSUME NEW h \in Handles, NEW b \in Blocks, Construct(h, b) PROVE HandleTypeOK'
  BY <1>1 DEF Construct
<1>2. ASSUME NEW h \in Handles, NEW other \in Handles, CopyConstruct(h, other) PROVE HandleTypeOK'
  BY <1>2 DEF CopyConstruct, Shared
<1>3. ASSUME NEW h \in Handles, NEW other \in Handles, MoveConstruct(h, other) PROVE HandleTypeOK'
  BY <1>3 DEF MoveConstruct
<1>4. ASSUME NEW h \in Handles
      PROVE  /\ CountAfterRelease(h) \in [Blocks -> Nat]
             /\ StateAfterRelease(h) \in [Blocks -> {"fresh", "live", "deleted"}]
  BY ReleaseFits DEF Fits
<1>5. ASSUME NEW h \in Handles, NEW other \in Handles, CopyAssign(h, other) PROVE HandleTypeOK'
  BY <1>4, <1>5 DEF CopyAssign, Shared
<1>6. ASSUME NEW h \in Handles, NEW other \in Handles, MoveAssign(h, other) PROVE HandleTypeOK'
  BY <1>4, <1>6 DEF MoveAssign
<1>7. ASSUME NEW h \in Handles, Destroy(h) PROVE HandleTypeOK'
  BY <1>4, <1>7 DEF Destroy
<1>8. CASE UNCHANGED handleVars
  BY <1>8 DEF handleVars
<1> QED
  BY <1>1, <1>2, <1>3, <1>5, <1>6, <1>7, <1>8 DEF HandleNext

(***************************************************************************)
(* Every operation is one of the three changes above, or two of them.      *)
(***************************************************************************)
LEMMA CountedNext == Counted /\ [HandleNext]_handleVars => Counted'
<1> SUFFICES ASSUME Counted, [HandleNext]_handleVars PROVE Counted'
  OBVIOUS
<1>1. HandleTypeOK /\ Fits(cb, count, state) /\ cb \in Pointing
  BY DEF Counted, Fits
<1>2. HandleTypeOK'
  BY TypeNext
<1>3. ASSUME Fits(cb', count', state') PROVE Counted'
  BY <1>2, <1>3 DEF Counted, Fits, Number, OwnersIn, Pointing
<1>4. ASSUME NEW h \in Handles PROVE cb[h] \in Blocks => OwnersIn(cb, cb[h]) # {}
  BY DEF OwnersIn
<1>5. ASSUME NEW h \in Handles, NEW b \in Blocks, Construct(h, b) PROVE Counted'
  <2>1. cb[h] = Null /\ b # Null /\ count[b] = 0
    BY <1>1, <1>5, HandleAssumption DEF Construct, HandleTypeOK, Fits
  <2>2. cb' = Repointed(cb, h, b)
    BY <1>5 DEF Construct, Repointed
  <2>3. \A d \in Blocks : Number(cb', d) = IF b = d THEN Number(cb, d) + 1 ELSE Number(cb, d)
    BY <1>1, <2>1, <2>2, PointElsewhere, HandleAssumption
  <2>4. /\ cb' \in Pointing /\ count' \in [Blocks -> Nat]
        /\ state' \in [Blocks -> {"fresh", "live", "deleted"}]
    BY <1>2 DEF HandleTypeOK, Pointing
  <2>5. \A d \in Blocks : /\ count'[d] = IF b = d THEN 1 ELSE count[d]
                          /\ state'[d] = IF b = d THEN "live" ELSE state[d]
    BY <1>1, <1>5 DEF Construct, HandleTypeOK
  <2>6. \A d \in Blocks : count[d] = Number(cb, d) /\ (state[d] = "live" <=> count[d] > 0)
    BY <1>1 DEF Fits
  <2>7. \A d \in Blocks : count'[d] = Number(cb', d)
    BY <2>1, <2>3, <2>5, <2>6
  <2>8. \A d \in Blocks : state'[d] = "live" <=> count'[d] > 0
    BY <2>5, <2>6
  <2> QED
    BY <1>3, <2>4, <2>7, <2>8 DEF Fits
<1>6. ASSUME NEW h \in Handles, NEW other \in Handles, CopyConstruct(h, other) PROVE Counted'
  <2>1. cb[h] = Null /\ cb[other] \in Blocks \cup {Null}
    BY <1>1, <1>6 DEF CopyConstruct, HandleTypeOK
  <2>2. cb' = Repointed(cb, h, cb[other]) /\ count' = Shared(count, cb[other]) /\ state' = state
    BY <1>6 DEF CopyConstruct, Repointed
  <2> QED
    BY <1>1, <1>3, <1>4, <2>1, <2>2, ShareFits
<1>7. ASSUME NEW h \in Handles, NEW other \in Handles, MoveConstruct(h, other) PROVE Counted'
  <2>1. cb[h] = Null /\ h # other
    BY <1>1, <1>7 DEF MoveConstruct, HandleTypeOK
  <2>2. cb' = Repointed(Repointed(cb, h, cb[other]), other, Null) /\ count' = count /\ state' = state
    BY <1>7 DEF MoveConstruct, Repointed
  <2> QED
    BY <1>1, <1>3, <2>1, <2>2, MoveFits
<1>8. ASSUME NEW h \in Handles, NEW other \in Handles, CopyAssign(h, other) PROVE Counted'
  <2>1. CASE h = other
    <3>1. cb' = cb /\ count' = count /\ state' = state
      BY <1>8, <2>1 DEF CopyAssign
    <3> QED
      BY <1>1, <1>3, <3>1
  <2>2. CASE h # other
    <3> DEFINE f == Repointed(cb, h, Null)
    <3>1. Fits(f, CountAfterRelease(h), StateAfterRelease(h))
      BY ReleaseFits
    <3>2. f[h] = Null /\ f[other] = cb[other] /\ cb[other] \in Blocks \cup {Null}
      BY <1>1, <2>2, RepointedIs DEF Pointing
    <3>3. cb' = Repointed(f, h, cb[other])
      BY <1>8, <2>2 DEF CopyAssign, Repointed
    <3>4. count' = Shared(CountAfterRelease(h), cb[other]) /\ state' = StateAfterRelease(h)
      BY <1>8, <2>2 DEF CopyAssign
    <3>5. cb[other] \in Blocks => OwnersIn(f, cb[other]) # {}
      BY <3>2 DEF OwnersIn
    <3> HIDE DEF f
    <3> QED
      BY <1>3, <3>1, <3>2, <3>3, <3>4, <3>5, ShareFits
  <2> QED
    BY <2>1, <2>2
<1>9. ASSUME NEW h \in Handles, NEW other \in Handles, MoveAssign(h, other) PROVE Counted'
  <2>1. CASE h = other
    <3>1. cb' = cb /\ count' = count /\ state' = state
      BY <1>9, <2>1 DEF MoveAssign
    <3> QED
      BY <1>1, <1>3, <3>1
  <2>2. CASE h # other
    <3> DEFINE f == Repointed(cb, h, Null)
    <3>1. Fits(f, CountAfterRelease(h), StateAfterRelease(h))
      BY ReleaseFits
    <3>2. f[h] = Null /\ f[other] = cb[other]
      BY <1>1, <2>2, RepointedIs
    <3>3. cb' = Repointed(Repointed(f, h, cb[other]), other, Null)
      BY <1>9, <2>2 DEF MoveAssign, Repointed
    <3>4. count' = CountAfterRelease(h) /\ state' = StateAfterRelease(h)
      BY <1>9, <2>2 DEF MoveAssign
    <3> HIDE DEF f
    <3> QED
      BY <1>3, <2>2, <3>1, <3>2, <3>3, <3>4, MoveFits
  <2> QED
    BY <2>1, <2>2
<1>10. ASSUME NEW h \in Handles, Destroy(h) PROVE Counted'
  <2>1. cb' = Repointed(cb, h, Null) /\ count' = CountAfterRelease(h) /\ state' = StateAfterRelease(h)
    BY <1>10 DEF Destroy, Repointed
  <2> QED
    BY <1>3, <2>1, ReleaseFits
<1>11. CASE UNCHANGED handleVars
  BY <1>1, <1>3, <1>11 DEF handleVars
<1> QED
  BY <1>5, <1>6, <1>7, <1>8, <1>9, <1>10, <1>11 DEF HandleNext

(***************************************************************************)
(* Types, counts and lifetimes are right whatever handles do: part4's      *)
(* claim that shared ownership neither leaks nor deletes early.            *)
(***************************************************************************)
THEOREM OwnershipIsSound == HandleSpec => [](HandleTypeOK /\ CountIsOwners /\ LiveIffOwned)
<1>1. HandleSpec => []Counted
  BY CountedInit, CountedNext, PTL DEF HandleSpec
<1>2. Counted => HandleTypeOK /\ CountIsOwners /\ LiveIffOwned
  BY CountedMeans DEF Counted
<1> QED
  BY <1>1, <1>2, PTL

-----------------------------------------------------------------------------
(***************************************************************************)
(* UniqueHandle.  OneOwner is inductive with the types and with one more   *)
(* fact: a place where no handle was made points to nothing.               *)
(***************************************************************************)

UniqueInv ==
    /\ handles \in SUBSET Places
    /\ ptr \in [Places -> Trades \cup {NoTrade}]
    /\ trade \in [Trades -> {"fresh", "live", "deleted"}]
    /\ \A h \in Places \ handles : ptr[h] = NoTrade
    /\ OneOwner

\* The owner of a trade lets go of it: delete, and nobody points there now.
LEMMA DeleteByOwner ==
    ASSUME UniqueInv, NEW h \in Places, Delete(ptr[h])
    PROVE  /\ trade' \in [Trades -> {"fresh", "live", "deleted"}]
           /\ ~again'
           /\ \A t \in Trades : trade'[t] = IF t = ptr[h] THEN "deleted" ELSE trade[t]
<1>1. CASE ptr[h] = NoTrade
  BY <1>1, UniqueAssumption DEF Delete, UniqueInv, OneOwner
<1>2. CASE ptr[h] # NoTrade
  <2>1. ptr[h] \in Trades /\ trade[ptr[h]] = "live"
    BY <1>2 DEF UniqueInv, OneOwner
  <2> QED BY <1>2, <2>1 DEF Delete, UniqueInv, OneOwner
<1> QED BY <1>1, <1>2

LEMMA UniqueStep ==
    ASSUME UniqueInv, [UniqueNext]_uniqueVars
    PROVE  UniqueInv'
<1> USE UniqueAssumption DEF UniqueInv, OneOwner
<1>1. ASSUME NEW h \in Places, NEW t \in Trades, ConstructOwner(h, t) PROVE UniqueInv'
  <2>1. \A g \in Places : ptr[g] # t
    BY <1>1 DEF ConstructOwner
  <2> QED BY <1>1, <2>1 DEF ConstructOwner
<1>2. ASSUME NEW h \in Places, NEW other \in Places, MoveConstructOwner(h, other)
      PROVE  UniqueInv'
  <2>1. h # other /\ ptr[h] = NoTrade
    BY <1>2 DEF MoveConstructOwner
  <2> QED BY <1>2, <2>1 DEF MoveConstructOwner
<1>3. ASSUME NEW h \in Places, NEW other \in Places, MoveAssignOwner(h, other)
      PROVE  UniqueInv'
  <2>1. CASE h = other
    BY <1>3, <2>1 DEF MoveAssignOwner
  <2>2. CASE h # other
    <3>1. /\ trade' \in [Trades -> {"fresh", "live", "deleted"}]
          /\ ~again'
          /\ \A t \in Trades : trade'[t] = IF t = ptr[h] THEN "deleted" ELSE trade[t]
      BY <1>3, <2>2, DeleteByOwner DEF MoveAssignOwner
    <3> QED BY <1>3, <2>2, <3>1 DEF MoveAssignOwner
  <2> QED BY <2>1, <2>2
<1>4. ASSUME NEW h \in Places, DestroyOwner(h) PROVE UniqueInv'
  <2>1. /\ trade' \in [Trades -> {"fresh", "live", "deleted"}]
        /\ ~again'
        /\ \A t \in Trades : trade'[t] = IF t = ptr[h] THEN "deleted" ELSE trade[t]
    BY <1>4, DeleteByOwner DEF DestroyOwner
  <2> QED BY <1>4, <2>1 DEF DestroyOwner
<1>5. CASE UNCHANGED uniqueVars
  BY <1>5 DEF uniqueVars
<1> QED BY <1>1, <1>2, <1>3, <1>4, <1>5 DEF UniqueNext

\* TradeHandle: for any number of handles and trades and any order of moves,
\* self-moves included, a live trade has one handle that points to it, and no
\* trade is deleted twice or left behind.
THEOREM OneOwnerEach == UniqueSpec => []OneOwner
<1>1. UniqueInit => UniqueInv
  BY UniqueAssumption DEF UniqueInit, UniqueInv, OneOwner
<1>2. UniqueInv /\ [UniqueNext]_uniqueVars => UniqueInv'
  BY UniqueStep
<1>3. UniqueInv => OneOwner
  BY DEF UniqueInv
<1> QED BY <1>1, <1>2, <1>3, PTL DEF UniqueSpec

-----------------------------------------------------------------------------
(***************************************************************************)
(* BinaryHeap implements PriorityQueue.  The invariant speaks of the tree  *)
(* with the value under way in the hole: in it a round of a sift swaps two *)
(* neighbours, and the order of the heap fails at the hole only.           *)
(***************************************************************************)

(***************************************************************************)
(* The tree's arithmetic, in place of the definition of Parent.            *)
(***************************************************************************)
LEMMA ParentFacts ==
    \A i \in Nat \ {0} :
        /\ Parent(i) \in Nat /\ Parent(i) < i
        /\ \A h \in Nat : Parent(i) = h <=> i = 2 * h + 1 \/ i = 2 * h + 2
BY DEF Parent

(***************************************************************************)
(* Less is a strict order in which no two different orders are equal.      *)
(***************************************************************************)
LEMMA LessFacts ==
    ASSUME NEW a \in Order, NEW b \in Order, NEW c \in Order
    PROVE  /\ ~(Less(a, b) /\ Less(b, a))
           /\ Less(a, b) \/ Less(b, a) \/ a = b
           /\ ~Less(a, b) /\ ~Less(b, c) => ~Less(a, c)
<1>1. /\ a.price \in Int /\ b.price \in Int /\ c.price \in Int
      /\ a.timestamp \in Nat /\ b.timestamp \in Nat /\ c.timestamp \in Nat
  BY HeapAssumption DEF Order
<1>2. a.price = b.price /\ a.timestamp = b.timestamp => a = b
  BY DEF Order
<1>3. ~(Less(a, b) /\ Less(b, a))
  BY <1>1 DEF Less
<1>4. Less(a, b) \/ Less(b, a) \/ a = b
  BY <1>1, <1>2 DEF Less
<1>5. ~Less(a, b) /\ ~Less(b, c) => ~Less(a, c)
  BY <1>1 DEF Less
<1> QED
  BY <1>3, <1>4, <1>5

TypeInv ==
    /\ size \in Nat /\ stamp \in Nat
    /\ data \in [Indices -> Order]
    /\ pc \in {"idle", "up", "down"}
    /\ pc # "idle" => hole \in Indices /\ value \in Order

\* No order is in two places, and the next one is new.
Distinct ==
    /\ \A i, j \in Indices : Tree[i] = Tree[j] => i = j
    /\ \A i \in Indices : Tree[i].timestamp < stamp

HeapInv == TypeInv /\ HeapOrder /\ Distinct

(***************************************************************************)
(* The tree with the value thought to be in the hole.                      *)
(***************************************************************************)
LEMMA TreeType ==
    ASSUME TypeInv
    PROVE  /\ Tree \in [Indices -> Order]
           /\ \A i \in Indices : Tree[i] = IF pc # "idle" /\ i = hole THEN value ELSE data[i]
           /\ Indices = 0 .. size - 1
BY DEF TypeInv, Tree, Indices

(***************************************************************************)
(* Between operations no order comes before the one at the root: the first *)
(* that did would come before its parent.                                  *)
(***************************************************************************)
LEMMA RootIsBest ==
    ASSUME HeapInv, pc = "idle", NEW i \in Indices
    PROVE  ~Less(Tree[0], Tree[i])
<1>1. Tree \in [Indices -> Order] /\ Indices = 0 .. size - 1 /\ size \in Nat
  BY TreeType DEF HeapInv, TypeInv
<1>2. \A j \in Indices \ {0} : ~Less(Tree[Parent(j)], Tree[j])
  BY DEF HeapInv, HeapOrder, Ordered
<1> DEFINE T == {j \in 1 .. size - 1 : Less(Tree[0], Tree[j])}
<1>3. T = {}
  <2> SUFFICES ASSUME T # {} PROVE FALSE
    OBVIOUS
  <2>1. size - 1 \in Nat
    BY <1>1
  <2>2. PICK m \in T : \A j \in T : m <= j
    BY <2>1, LeastPosition
  <2>3. m \in Nat \ {0} /\ m \in Indices \ {0} /\ 0 \in Indices /\ Less(Tree[0], Tree[m])
    BY <1>1
  <2>4. Parent(m) \in Nat /\ Parent(m) < m
    BY <2>3, ParentFacts
  <2>5. Parent(m) \in Indices /\ Parent(m) \notin T
    BY <1>1, <2>2, <2>3, <2>4
  <2>6. ~Less(Tree[0], Tree[Parent(m)])
    <3>1. CASE Parent(m) = 0
      BY <1>1, <2>3, <3>1, LessFacts
    <3>2. CASE Parent(m) # 0
      BY <1>1, <2>4, <2>5, <3>2
    <3> QED
      BY <3>1, <3>2
  <2>7. ~Less(Tree[Parent(m)], Tree[m])
    BY <1>2, <2>3
  <2> QED
    BY <1>1, <2>3, <2>5, <2>6, <2>7, LessFacts
<1>4. CASE i = 0
  BY <1>1, <1>4, LessFacts
<1>5. CASE i # 0
  BY <1>1, <1>3, <1>5
<1> QED
  BY <1>4, <1>5

(***************************************************************************)
(* An empty heap.                                                          *)
(***************************************************************************)
LEMMA HeapInvInit == HeapInit => HeapInv /\ Waiting = {} /\ stamp = 0
BY DEF HeapInit, HeapInv, TypeInv, HeapOrder, Distinct, Indices, Waiting

(***************************************************************************)
(* A push adds one order and begins a sift at its end.                     *)
(***************************************************************************)
LEMMA PushStep ==
    ASSUME HeapInv, NEW p \in Prices, Push(p)
    PROVE  HeapInv' /\ Waiting' = Waiting \cup {[price |-> p, timestamp |-> stamp]}
<1> DEFINE v == [price |-> p, timestamp |-> stamp]
<1>1. /\ Tree \in [Indices -> Order] /\ Indices = 0 .. size - 1 /\ size \in Nat /\ stamp \in Nat
      /\ \A i \in Indices : Tree[i] = data[i]
  BY TreeType DEF HeapInv, TypeInv, Push
<1>2. /\ v \in Order /\ value' = v /\ size' = size + 1 /\ pc' = "up" /\ hole' = size
      /\ stamp' = stamp + 1 /\ data' = [i \in 0 .. size |-> IF i = size THEN v ELSE data[i]]
  BY <1>1 DEF Push, Order
<1>3. Indices' = 0 .. size
  BY <1>1, <1>2 DEF Indices
<1>4. TypeInv'
  BY <1>1, <1>2, <1>3 DEF TypeInv, HeapInv
<1>5. /\ Tree' \in [0 .. size -> Order]
      /\ \A i \in 0 .. size : Tree'[i] = IF i = size THEN v ELSE Tree[i]
  BY <1>1, <1>2, <1>3 DEF Tree
<1>6. HeapOrder'
  <2>1. \A i \in Indices' \ {0} : i # size => Ordered(i)'
    <3> SUFFICES ASSUME NEW i \in 1 .. size - 1 PROVE Ordered(i)'
      BY <1>1, <1>3
    <3>1. i \in Indices \ {0} /\ Parent(i) \in Nat /\ Parent(i) < i /\ Ordered(i)
      BY <1>1, ParentFacts DEF HeapInv, HeapOrder, Push
    <3> QED
      BY <1>1, <1>5, <3>1 DEF Ordered
  <2>2. \A i \in Indices' \ {0} : Parent(i) # size
    BY <1>1, <1>3, ParentFacts
  <2> QED
    BY <1>2, <2>1, <2>2 DEF HeapOrder
<1>7. Distinct'
  <2>1. \A i \in Indices : Tree[i] # v
    BY <1>1 DEF HeapInv, Distinct
  <2>2. ASSUME NEW i \in Indices', NEW j \in Indices', Tree'[i] = Tree'[j] PROVE i = j
    <3>1. i # size => i \in Indices /\ Tree'[i] = Tree[i]
      BY <1>1, <1>3, <1>5
    <3>2. j # size => j \in Indices /\ Tree'[j] = Tree[j]
      BY <1>1, <1>3, <1>5
    <3>3. i = size => Tree'[i] = v
      BY <1>3, <1>5
    <3>4. j = size => Tree'[j] = v
      BY <1>3, <1>5
    <3> QED
      BY <2>1, <2>2, <3>1, <3>2, <3>3, <3>4 DEF HeapInv, Distinct
  <2>3. ASSUME NEW i \in Indices' PROVE Tree'[i].timestamp < stamp'
    <3>1. CASE i = size
      BY <1>1, <1>2, <1>3, <1>5, <3>1
    <3>2. CASE i # size
      <4>1. i \in Indices /\ Tree'[i] = Tree[i]
        BY <1>1, <1>3, <1>5, <3>2
      <4>2. Tree[i].timestamp \in Nat /\ Tree[i].timestamp < stamp
        BY <1>1, <4>1 DEF HeapInv, Distinct, Order
      <4> QED
        BY <1>1, <1>2, <4>1, <4>2
    <3> QED
      BY <3>1, <3>2
  <2> QED
    BY <2>2, <2>3 DEF Distinct
<1>8. Waiting' = Waiting \cup {v}
  BY <1>1, <1>3, <1>5 DEF Waiting
<1> QED
  BY <1>4, <1>6, <1>7, <1>8 DEF HeapInv

Exchanged(h, g) ==
    /\ Indices' = Indices /\ stamp' = stamp
    /\ \A i \in Indices :
          Tree'[i] = IF i = h THEN Tree[g] ELSE IF i = g THEN Tree[h] ELSE Tree[i]

(***************************************************************************)
(* A round of a sift exchanges the orders at two places.                   *)
(***************************************************************************)
LEMMA Exchange ==
    ASSUME HeapInv, NEW h \in Indices, NEW g \in Indices, Exchanged(h, g)
    PROVE  Distinct' /\ Waiting' = Waiting
<1> USE DEF Exchanged
<1> DEFINE at(i) == IF i = h THEN g ELSE IF i = g THEN h ELSE i
<1>1. \A i \in Indices : at(i) \in Indices /\ at(at(i)) = i /\ Tree'[i] = Tree[at(i)]
  OBVIOUS
<1> HIDE DEF at
<1>2. \A i, j \in Indices : Tree'[i] = Tree'[j] => i = j
  BY <1>1 DEF HeapInv, Distinct
<1>3. \A i \in Indices : Tree'[i].timestamp < stamp
  BY <1>1 DEF HeapInv, Distinct
<1>4. Waiting' = Waiting
  <2>1. ASSUME NEW o, o \in Waiting' PROVE o \in Waiting
    <3>1. PICK i \in Indices : o = Tree'[i]
      BY <2>1 DEF Waiting
    <3> QED
      BY <1>1, <3>1 DEF Waiting
  <2>2. ASSUME NEW o, o \in Waiting PROVE o \in Waiting'
    <3>1. PICK i \in Indices : o = Tree[i]
      BY <2>2 DEF Waiting
    <3>2. at(i) \in Indices /\ Tree'[at(i)] = o
      BY <1>1, <3>1
    <3> QED
      BY <3>2 DEF Waiting
  <2> QED
    BY <2>1, <2>2
<1> QED
  BY <1>2, <1>3, <1>4 DEF Distinct

(***************************************************************************)
(* The end of a sift leaves the tree, and the hole's place is settled.     *)
(***************************************************************************)
LEMMA Placed ==
    ASSUME HeapInv, pc # "idle", pc' = "idle", UNCHANGED <<size, hole, value, stamp>>,
           data' = [data EXCEPT ![hole] = value]
    PROVE  /\ TypeInv' /\ Distinct' /\ Waiting' = Waiting /\ Indices' = Indices
           /\ \A i \in Indices : Tree'[i] = Tree[i]
<1>1. /\ size \in Nat /\ data \in [Indices -> Order] /\ hole \in Indices /\ value \in Order
      /\ stamp \in Nat
  BY DEF HeapInv, TypeInv
<1>2. Indices' = Indices
  BY DEF Indices
<1>3. TypeInv'
  BY <1>1, <1>2 DEF TypeInv
<1>4. \A i \in Indices : Tree'[i] = Tree[i]
  BY <1>1, <1>2 DEF Tree
<1>5. Distinct' /\ Waiting' = Waiting
  <2>1. Exchanged(hole, hole)
    BY <1>2, <1>4 DEF Exchanged
  <2> QED
    BY <1>1, <2>1, Exchange
<1> QED
  BY <1>2, <1>3, <1>4, <1>5

\* The hole's place is settled when its parent does not come after the value ...
LEMMA PlaceUpStep ==
    ASSUME HeapInv, PlaceUp
    PROVE  HeapInv' /\ Waiting' = Waiting /\ UNCHANGED stamp
<1>1. /\ TypeInv' /\ Distinct' /\ Waiting' = Waiting /\ Indices' = Indices
      /\ \A i \in Indices : Tree'[i] = Tree[i]
  BY Placed DEF PlaceUp
<1>2. size \in Nat /\ Indices = 0 .. size - 1 /\ hole \in Indices
  BY DEF HeapInv, TypeInv, Indices, PlaceUp
<1>3. \A i \in Indices \ {0} : Parent(i) \in Indices /\ Parent(i) < i
  BY <1>2, ParentFacts
<1>4. ASSUME NEW i \in Indices \ {0} PROVE Ordered(i)
  <2>1. CASE i = hole
    BY <1>2, <1>3, <2>1 DEF Ordered, PlaceUp, Tree
  <2>2. CASE i # hole
    BY <2>2 DEF HeapInv, HeapOrder, PlaceUp
  <2> QED
    BY <2>1, <2>2
<1>5. \A i \in Indices \ {0} : Ordered(i)'
  BY <1>1, <1>3, <1>4 DEF Ordered
<1> QED
  BY <1>1, <1>5 DEF HeapInv, HeapOrder, PlaceUp

(***************************************************************************)
(* A round upwards.  The parent that moves down was in order with all that *)
(* is below the hole, and the value comes before that parent.              *)
(***************************************************************************)
LEMMA MoveUpStep ==
    ASSUME HeapInv, MoveUp
    PROVE  HeapInv' /\ Waiting' = Waiting /\ UNCHANGED stamp
<1> DEFINE q == Parent(hole)
<1>1. /\ Tree \in [Indices -> Order] /\ Indices = 0 .. size - 1 /\ size \in Nat /\ stamp \in Nat
      /\ hole \in Indices \ {0} /\ value \in Order /\ data \in [Indices -> Order]
  BY TreeType DEF HeapInv, TypeInv, MoveUp
<1>2. \A i \in Indices \ {0} : Parent(i) \in Indices /\ Parent(i) < i
  BY <1>1, ParentFacts
<1>3. q \in Indices /\ q < hole
  BY <1>1, <1>2
<1>4. Tree[q] = data[q] /\ Tree[hole] = value /\ Less(Tree[q], value)
  BY <1>1, <1>3 DEF Tree, MoveUp
<1>5. Indices' = Indices /\ pc' = "up" /\ hole' = q /\ stamp' = stamp
  BY DEF MoveUp, Indices
<1>6. TypeInv'
  BY <1>1, <1>3, <1>5 DEF TypeInv, MoveUp
<1>7. \A i \in Indices :
         Tree'[i] = IF i = hole THEN Tree[q] ELSE IF i = q THEN Tree[hole] ELSE Tree[i]
  BY <1>1, <1>3, <1>4, <1>5 DEF Tree, MoveUp
<1>8. Distinct' /\ Waiting' = Waiting
  <2>1. Exchanged(hole, q)
    BY <1>5, <1>7 DEF Exchanged
  <2> QED
    BY <1>1, <1>3, <2>1, Exchange
<1>9. \A i \in Indices \ {0} : i # hole => ~Less(Tree[Parent(i)], Tree[i])
  BY DEF HeapInv, HeapOrder, MoveUp, Ordered
<1>10. \A i \in Indices \ {0} : Parent(i) = hole => ~Less(Tree[q], Tree[i])
  BY <1>1 DEF HeapInv, HeapOrder, MoveUp
<1>11. ~Less(value, Tree[q])
  BY <1>1, <1>3, <1>4, LessFacts
<1> HIDE DEF q
<1>12. ASSUME NEW i \in Indices \ {0}, i # q PROVE Ordered(i)'
  <2>1. CASE i = hole
    BY <1>1, <1>3, <1>4, <1>7, <1>11, <2>1 DEF Ordered, q
  <2>2. CASE i # hole /\ Parent(i) = hole
    BY <1>1, <1>2, <1>3, <1>7, <1>10, <1>12, <2>2 DEF Ordered
  <2>3. CASE i # hole /\ Parent(i) = q
    <3>1. ~Less(Tree[q], Tree[i]) /\ Tree[i] \in Order /\ Tree[q] \in Order
      BY <1>1, <1>3, <1>9, <2>3
    <3>2. ~Less(value, Tree[i])
      BY <1>1, <1>11, <3>1, LessFacts
    <3> QED
      BY <1>3, <1>4, <1>7, <1>12, <2>3, <3>2 DEF Ordered
  <2>4. CASE i # hole /\ Parent(i) # hole /\ Parent(i) # q
    BY <1>2, <1>7, <1>9, <1>12, <2>4 DEF Ordered
  <2> QED
    BY <2>1, <2>2, <2>3, <2>4
<1>13. ASSUME q > 0, NEW i \in Indices \ {0}, Parent(i) = q
       PROVE  ~Less(Tree'[Parent(q)], Tree'[i])
  <2>1. q \in Indices \ {0} /\ Parent(q) \in Indices /\ Parent(q) < q
    BY <1>2, <1>3, <1>13
  <2>2. ~Less(Tree[Parent(q)], Tree[q]) /\ Tree'[Parent(q)] = Tree[Parent(q)]
    BY <1>1, <1>3, <1>7, <1>9, <2>1
  <2>3. CASE i = hole
    BY <1>3, <1>7, <2>2, <2>3
  <2>4. CASE i # hole
    <3>1. ~Less(Tree[q], Tree[i]) /\ Tree'[i] = Tree[i]
      BY <1>1, <1>2, <1>3, <1>7, <1>9, <1>13, <2>4
    <3> QED
      BY <1>1, <2>1, <2>2, <3>1, LessFacts
  <2> QED
    BY <2>3, <2>4
<1>14. HeapOrder'
  BY <1>5, <1>12, <1>13 DEF HeapOrder
<1> QED
  BY <1>5, <1>6, <1>8, <1>14 DEF HeapInv

(***************************************************************************)
(* A pop takes the order at the root, the one that comes first.            *)
(***************************************************************************)
LEMMA PopStep ==
    ASSUME HeapInv, Pop
    PROVE  HeapInv' /\ Queue!Pop
<1>1. /\ Tree \in [Indices -> Order] /\ Indices = 0 .. size - 1 /\ size \in Nat \ {0}
      /\ stamp \in Nat /\ data \in [Indices -> Order] /\ 0 \in Indices /\ size - 1 \in Indices
      /\ \A i \in Indices : Tree[i] = data[i]
  BY TreeType DEF HeapInv, TypeInv, Pop
<1>2. /\ size' = size - 1 /\ hole' = 0 /\ value' = Tree[size - 1] /\ stamp' = stamp
      /\ pc' = IF size = 1 THEN "idle" ELSE "down"
      /\ data' = [i \in 0 .. size - 2 |-> data[i]]
  BY <1>1 DEF Pop
<1>3. Indices' = 0 .. size - 2 /\ Indices' \subseteq Indices
  BY <1>1, <1>2 DEF Indices
<1>4. TypeInv'
  BY <1>1, <1>2, <1>3 DEF TypeInv
<1>5. \A i \in Indices' : Tree'[i] = IF i = 0 THEN Tree[size - 1] ELSE Tree[i]
  BY <1>1, <1>2, <1>3 DEF Tree
<1>6. \A i \in Indices \ {0} : Parent(i) \in Nat /\ Parent(i) < i
  BY <1>1, ParentFacts
<1>7. ASSUME NEW i \in Indices' \ {0}, Parent(i) # 0 PROVE Ordered(i)'
  <2>1. Ordered(i) /\ Parent(i) \in Indices'
    BY <1>1, <1>3, <1>6 DEF HeapInv, HeapOrder, Pop
  <2> QED
    BY <1>5, <1>7, <2>1 DEF Ordered
<1>8. HeapOrder'
  <2>1. \A i \in Indices' \ {0} : pc' = "down"
    BY <1>1, <1>2, <1>3
  <2> QED
    BY <1>2, <1>7, <2>1 DEF HeapOrder
<1>9. Distinct'
  <2>1. ASSUME NEW i \in Indices', NEW j \in Indices', Tree'[i] = Tree'[j] PROVE i = j
    <3> DEFINE from(k) == IF k = 0 THEN size - 1 ELSE k
    <3>1. /\ from(i) \in Indices /\ from(j) \in Indices /\ (from(i) = from(j) => i = j)
      BY <1>1, <1>3
    <3>2. Tree'[i] = Tree[from(i)] /\ Tree'[j] = Tree[from(j)]
      BY <1>5
    <3> HIDE DEF from
    <3> QED
      BY <2>1, <3>1, <3>2 DEF HeapInv, Distinct
  <2>2. \A i \in Indices' : Tree'[i].timestamp < stamp
    BY <1>1, <1>3, <1>5 DEF HeapInv, Distinct
  <2> QED
    BY <1>2, <2>1, <2>2 DEF Distinct
<1>10. Waiting' = Waiting \ {Tree[0]}
  <2>1. ASSUME NEW o, o \in Waiting' PROVE o \in Waiting \ {Tree[0]}
    <3>1. PICK i \in Indices' : o = Tree'[i]
      BY <2>1 DEF Waiting
    <3>2. CASE i = 0
      <4>1. o = Tree[size - 1] /\ size - 1 # 0
        BY <1>1, <1>3, <1>5, <3>1, <3>2
      <4> QED
        BY <1>1, <4>1 DEF Waiting, HeapInv, Distinct
    <3>3. CASE i # 0
      <4>1. o = Tree[i] /\ i \in Indices
        BY <1>3, <1>5, <3>1, <3>3
      <4> QED
        BY <1>1, <3>3, <4>1 DEF Waiting, HeapInv, Distinct
    <3> QED
      BY <3>2, <3>3
  <2>2. ASSUME NEW o, o \in Waiting \ {Tree[0]} PROVE o \in Waiting'
    <3>1. PICK i \in Indices : o = Tree[i] /\ i # 0
      BY <2>2 DEF Waiting
    <3>2. CASE i = size - 1
      <4>1. 0 \in Indices' /\ Tree'[0] = o
        BY <1>1, <1>3, <1>5, <3>1, <3>2
      <4> QED
        BY <4>1 DEF Waiting
    <3>3. CASE i # size - 1
      <4>1. i \in Indices' /\ Tree'[i] = o
        BY <1>1, <1>3, <1>5, <3>1, <3>3
      <4> QED
        BY <4>1 DEF Waiting
    <3> QED
      BY <3>2, <3>3
  <2> QED
    BY <2>1, <2>2
<1>11. ASSUME NEW o \in Waiting \ {Tree[0]} PROVE Queue!Less(o, Tree[0])
  <2>1. PICK i \in Indices : o = Tree[i]
    BY DEF Waiting
  <2>2. ~Less(Tree[0], o)
    BY <2>1, RootIsBest DEF Pop
  <2>3. Less(o, Tree[0])
    BY <1>1, <2>1, <2>2, LessFacts
  <2> QED
    BY <2>3 DEF Less, Queue!Less
<1>12. Tree[0] \in Waiting
  BY <1>1 DEF Waiting
<1>13. Queue!Pop
  BY <1>2, <1>10, <1>11, <1>12 DEF Queue!Pop
<1> QED
  BY <1>4, <1>8, <1>9, <1>13 DEF HeapInv

(***************************************************************************)
(* Of the orders just below the hole none comes before the child chosen.   *)
(***************************************************************************)
LEMMA ChildFacts ==
    ASSUME HeapInv, pc = "down", 2 * hole + 1 < size
    PROVE  /\ Child \in Indices \ {0} /\ Parent(Child) = hole /\ Tree[Child] = data[Child]
           /\ \A i \in Indices \ {0} : Parent(i) = hole => ~Less(Tree[Child], Tree[i])
<1> DEFINE c == 2 * hole + 1
<1>1. /\ Tree \in [Indices -> Order] /\ Indices = 0 .. size - 1 /\ size \in Nat
      /\ hole \in Nat /\ c \in Indices
      /\ \A i \in Indices : i # hole => Tree[i] = data[i]
  BY TreeType DEF HeapInv, TypeInv
<1>2. \A i \in Indices \ {0} : Parent(i) = hole => i = c \/ i = c + 1
  BY <1>1, ParentFacts
<1>3. Child = IF c + 1 < size /\ Less(Tree[c], Tree[c + 1]) THEN c + 1 ELSE c
  BY <1>1 DEF Child
<1>4. Child \in Indices \ {0} /\ (Child = c \/ Child = c + 1)
  BY <1>1, <1>3
<1>5. Parent(Child) = hole /\ Child # hole
  BY <1>1, <1>4, ParentFacts
<1>6. \A i \in Indices \ {0} : Parent(i) = hole => ~Less(Tree[Child], Tree[i])
  <2> SUFFICES ASSUME NEW i \in Indices \ {0}, Parent(i) = hole
               PROVE  ~Less(Tree[Child], Tree[i])
    OBVIOUS
  <2>1. CASE i = Child
    BY <1>1, <2>1, LessFacts
  <2>2. CASE i # Child /\ i = c
    <3>1. Child = c + 1 /\ Less(Tree[c], Tree[c + 1]) /\ c + 1 \in Indices
      BY <1>1, <1>3, <1>4, <2>2
    <3> QED
      BY <1>1, <2>2, <3>1, LessFacts
  <2>3. CASE i # Child /\ i = c + 1
    <3>1. Child = c /\ ~Less(Tree[c], Tree[c + 1])
      BY <1>1, <1>3, <1>4, <2>3
    <3> QED
      BY <2>3, <3>1
  <2> QED
    BY <1>2, <2>1, <2>2, <2>3
<1> QED
  BY <1>1, <1>4, <1>5, <1>6

\* The hole's place is settled when nothing below it comes before the value.
LEMMA PlaceDownStep ==
    ASSUME HeapInv, PlaceDown
    PROVE  HeapInv' /\ Waiting' = Waiting /\ UNCHANGED stamp
<1>1. /\ TypeInv' /\ Distinct' /\ Waiting' = Waiting /\ Indices' = Indices
      /\ \A i \in Indices : Tree'[i] = Tree[i]
  BY Placed DEF PlaceDown
<1>2. /\ Tree \in [Indices -> Order] /\ Indices = 0 .. size - 1 /\ size \in Nat
      /\ hole \in Indices /\ Tree[hole] = value
  BY TreeType DEF HeapInv, TypeInv, PlaceDown
<1>3. \A i \in Indices \ {0} : Parent(i) \in Indices /\ Parent(i) < i
  BY <1>2, ParentFacts
<1>4. ASSUME NEW i \in Indices \ {0} PROVE Ordered(i)
  <2>1. CASE Parent(i) = hole
    <3>1. 2 * hole + 1 < size
      BY <1>2, <2>1, ParentFacts
    <3>2. /\ Child \in Indices /\ ~Less(value, Tree[Child]) /\ ~Less(Tree[Child], Tree[i])
      BY <2>1, <3>1, ChildFacts DEF PlaceDown
    <3>3. ~Less(Tree[hole], Tree[i])
      BY <1>2, <3>2, LessFacts
    <3> QED
      BY <2>1, <3>3 DEF Ordered
  <2>2. CASE Parent(i) # hole
    BY <2>2 DEF HeapInv, HeapOrder, PlaceDown
  <2> QED
    BY <2>1, <2>2
<1>5. \A i \in Indices \ {0} : Ordered(i)'
  BY <1>1, <1>3, <1>4 DEF Ordered
<1> QED
  BY <1>1, <1>5 DEF HeapInv, HeapOrder, PlaceDown

(***************************************************************************)
(* A round downwards: the child chosen comes before its sibling and after  *)
(* the parent of the hole, so it can take the hole's place.                *)
(***************************************************************************)
LEMMA MoveDownStep ==
    ASSUME HeapInv, MoveDown
    PROVE  HeapInv' /\ Waiting' = Waiting /\ UNCHANGED stamp
<1> DEFINE c == Child
<1>1. /\ Tree \in [Indices -> Order] /\ Indices = 0 .. size - 1 /\ size \in Nat /\ stamp \in Nat
      /\ hole \in Indices /\ value \in Order /\ data \in [Indices -> Order] /\ Tree[hole] = value
  BY TreeType DEF HeapInv, TypeInv, MoveDown
<1>2. /\ c \in Indices \ {0} /\ Parent(c) = hole /\ Tree[c] = data[c] /\ Less(value, Tree[c])
      /\ \A i \in Indices \ {0} : Parent(i) = hole => ~Less(Tree[c], Tree[i])
  BY ChildFacts DEF MoveDown
<1>3. Indices' = Indices /\ pc' = "down" /\ hole' = c /\ stamp' = stamp /\ value' = value
      /\ size' = size /\ data' = [data EXCEPT ![hole] = Tree[c]]
  BY <1>2 DEF MoveDown, Indices
<1> HIDE DEF c
<1>4. \A i \in Indices \ {0} : Parent(i) \in Indices /\ Parent(i) < i
  BY <1>1, ParentFacts
<1>5. TypeInv'
  BY <1>1, <1>2, <1>3 DEF TypeInv
<1>6. \A i \in Indices :
         Tree'[i] = IF i = hole THEN Tree[c] ELSE IF i = c THEN Tree[hole] ELSE Tree[i]
  BY <1>1, <1>2, <1>3 DEF Tree, MoveDown
<1>7. Distinct' /\ Waiting' = Waiting
  <2>1. Exchanged(hole, c)
    BY <1>1, <1>3, <1>6 DEF Exchanged
  <2> QED
    BY <1>1, <1>2, <2>1, Exchange
<1>8. \A i \in Indices \ {0} : Parent(i) # hole => ~Less(Tree[Parent(i)], Tree[i])
  BY DEF HeapInv, HeapOrder, MoveDown, Ordered
<1>9. hole > 0 => ~Less(Tree[Parent(hole)], Tree[c])
  BY <1>2 DEF HeapInv, HeapOrder, MoveDown
<1>10. hole < c /\ c \in Int /\ hole \in Int
  BY <1>1, <1>2, <1>4
<1>11. ASSUME NEW i \in Indices \ {0}, Parent(i) # c PROVE Ordered(i)'
  <2>1. CASE i = c
    <3>1. ~Less(Tree[c], value)
      BY <1>1, <1>2, LessFacts
    <3> QED
      BY <1>1, <1>2, <1>6, <1>10, <2>1, <3>1 DEF Ordered
  <2>2. CASE i # c /\ Parent(i) = hole
    <3>1. i # hole
      BY <1>1, <1>4, <2>2
    <3> QED
      BY <1>1, <1>2, <1>6, <2>2, <3>1 DEF Ordered
  <2>3. CASE i = hole
    <3>1. Parent(hole) \in Indices /\ Parent(hole) # hole /\ Parent(hole) # c /\ hole > 0
      BY <1>1, <1>4, <1>10, <2>3
    <3> QED
      BY <1>1, <1>6, <1>9, <2>3, <3>1 DEF Ordered
  <2>4. CASE i # c /\ i # hole /\ Parent(i) # hole
    BY <1>4, <1>6, <1>8, <1>11, <2>4 DEF Ordered
  <2> QED
    BY <2>1, <2>2, <2>3, <2>4
<1>12. ASSUME NEW i \in Indices \ {0}, Parent(i) = c
       PROVE  ~Less(Tree'[Parent(c)], Tree'[i])
  <2>1. i # c /\ i # hole /\ c # hole
    BY <1>1, <1>4, <1>10, <1>12
  <2>2. ~Less(Tree[c], Tree[i])
    BY <1>8, <1>12, <2>1
  <2> QED
    BY <1>1, <1>2, <1>6, <2>1, <2>2
<1>13. HeapOrder'
  BY <1>3, <1>11, <1>12 DEF HeapOrder
<1> QED
  BY <1>3, <1>5, <1>7, <1>13 DEF HeapInv

(***************************************************************************)
(* The invariant, and the heap as an implementation of the queue.          *)
(***************************************************************************)
THEOREM HeapInvariant == HeapSpec => []HeapInv
<1>1. HeapInit => HeapInv
  BY HeapInvInit
<1>2. HeapInv /\ [HeapNext]_heapVars => HeapInv'
  <2> SUFFICES ASSUME HeapInv, [HeapNext]_heapVars PROVE HeapInv'
    OBVIOUS
  <2>1. CASE UNCHANGED heapVars
    BY <2>1 DEF heapVars, HeapInv, TypeInv, HeapOrder, Distinct, Ordered, Tree, Indices
  <2>2. CASE HeapNext
    BY <2>2, PushStep, PlaceUpStep, MoveUpStep, PopStep, PlaceDownStep, MoveDownStep DEF HeapNext
  <2> QED
    BY <2>1, <2>2
<1> QED
  BY <1>1, <1>2, PTL DEF HeapSpec

(***************************************************************************)
(* sift_up_hole and sift_down_hole: outside the hole every order comes     *)
(* after its parent, for any number of orders and any prices.              *)
(***************************************************************************)
THEOREM HeapIsOrdered == HeapSpec => []HeapOrder
<1>1. HeapInv => HeapOrder
  BY DEF HeapInv
<1> QED
  BY <1>1, HeapInvariant, PTL

(***************************************************************************)
(* Every pop takes the best order waiting, and nothing else is lost.       *)
(***************************************************************************)
THEOREM HeapIsPriorityQueue == HeapSpec => IsPriorityQueue
<1>1. HeapInit => Queue!Init
  BY HeapInvInit DEF HeapInit, Queue!Init
<1>2. HeapInv /\ [HeapNext]_heapVars => [Queue!Next]_(Queue!vars)
  <2> SUFFICES ASSUME HeapInv, [HeapNext]_heapVars PROVE [Queue!Next]_(Queue!vars)
    OBVIOUS
  <2>1. CASE UNCHANGED heapVars
    BY <2>1 DEF heapVars, Waiting, Tree, Indices, Queue!vars
  <2>2. ASSUME NEW p \in Prices, Push(p) PROVE Queue!Push(p)
    BY <2>2, PushStep DEF Push, Queue!Push
  <2>3. CASE PlaceUp \/ MoveUp \/ PlaceDown \/ MoveDown
    BY <2>3, PlaceUpStep, MoveUpStep, PlaceDownStep, MoveDownStep DEF Queue!vars
  <2>4. CASE Pop
    BY <2>4, PopStep DEF Queue!Next
  <2> QED
    BY <2>1, <2>2, <2>3, <2>4 DEF HeapNext, Queue!Next
<1> QED
  BY <1>1, <1>2, HeapInvariant, PTL DEF HeapSpec, IsPriorityQueue, Queue!Spec

-----------------------------------------------------------------------------
(***************************************************************************)
(* LaneSum.  Each round adds at most Most to an accumulator; the invariant *)
(* bounds both by what the rounds done can have added.                     *)
(***************************************************************************)

Most == 2 * ((Mod - 1) * (Mod - 1))

\* The square of the largest value bounds every product.
LEMMA ProductBound ==
    ASSUME NEW m \in Nat, NEW x \in 0 .. m, NEW y \in 0 .. m
    PROVE  x * y \in Nat /\ x * y <= m * m
<1>1. x \in Nat /\ y \in Nat /\ x <= m /\ y <= m
  OBVIOUS
<1>2. x * y \in Nat
  BY <1>1
<1>3. x * y <= m * y
  BY <1>1
<1>4. m * y <= m * m
  BY <1>1
<1>5. m * y \in Nat /\ m * m \in Nat
  BY <1>1
<1> QED
  BY <1>2, <1>3, <1>4, <1>5

\* What a round adds to an accumulator.
LEMMA PairSumBound == Most \in Nat /\ \A p \in PairSums : p \in Nat /\ p <= Most
<1> DEFINE m == Mod - 1
           sq == m * m
<1>1. m \in Nat /\ sq \in Nat /\ Most = 2 * sq
  BY LaneAssumption DEF Most
<1>2. ASSUME NEW p \in PairSums PROVE p \in Nat /\ p <= Most
  <2>1. PICK x \in 0 .. m, y \in 0 .. m, z \in 0 .. m, w \in 0 .. m : p = x * y + z * w
    BY DEF PairSums
  <2>2. x * y \in Nat /\ x * y <= sq
    BY <1>1, ProductBound
  <2>3. z * w \in Nat /\ z * w <= sq
    BY <1>1, ProductBound
  <2> HIDE DEF sq
  <2> QED
    BY <1>1, <2>1, <2>2, <2>3
<1> QED
  BY <1>1, <1>2

LaneInv ==
    /\ round \in 0 .. Rounds + 1
    /\ acc0 \in Nat /\ acc1 \in Nat /\ acc \in Int /\ exact = acc0 + acc1
    /\ round <= Rounds => acc0 <= round * Most /\ acc1 <= round * Most
    /\ round = Rounds + 1 => acc = exact

\* Within the headroom addition in a lane is addition.
LEMMA NoWrap ==
    ASSUME NEW k \in 0 .. Rounds, NEW x \in Nat, NEW y \in Nat, x + y <= 2 * (k * Most)
    PROVE  Plus(x, y) = x + y
<1>1. Rounds \in Nat /\ Most \in Nat /\ HalfRange \in Nat
  BY LaneAssumption, PairSumBound
<1>2. k * Most <= Rounds * Most /\ k * Most \in Nat /\ Rounds * Most \in Nat
  BY <1>1
<1>3. 2 * Rounds * Most < HalfRange
  BY HeadroomAssumption DEF Most
<1>4. 2 * Rounds * Most = 2 * (Rounds * Most)
  BY <1>1
<1>5. x + y < HalfRange
  BY <1>1, <1>2, <1>3, <1>4
<1>6. ~(x + y < -HalfRange)
  BY <1>1
<1> QED
  BY <1>1, <1>5, <1>6 DEF Plus

LEMMA LaneStep == LaneInv /\ [LaneNext]_laneVars => LaneInv'
<1> SUFFICES ASSUME LaneInv, [LaneNext]_laneVars PROVE LaneInv'
  OBVIOUS
<1>1. CASE UNCHANGED laneVars
  BY <1>1 DEF laneVars, LaneInv
<1>2. ASSUME NEW p \in PairSums, NEW q \in PairSums, Accumulate(p, q) PROVE LaneInv'
  <2>1. /\ round \in 0 .. Rounds - 1 /\ round' = round + 1 /\ acc0 \in Nat /\ acc1 \in Nat
        /\ acc0 <= round * Most /\ acc1 <= round * Most /\ Rounds \in Nat
    BY <1>2, LaneAssumption DEF LaneInv, Accumulate
  <2>2. Most \in Nat /\ p \in Nat /\ q \in Nat /\ p <= Most /\ q <= Most
    BY PairSumBound
  <2>3. (round + 1) * Most = round * Most + Most /\ round * Most \in Nat
    BY <2>1, <2>2
  <2>4. /\ acc0 + p <= (round + 1) * Most /\ acc1 + q <= (round + 1) * Most
        /\ (round + 1) * Most <= 2 * ((round + 1) * Most)
    BY <2>1, <2>2, <2>3
  <2>5. round + 1 \in 0 .. Rounds
    BY <2>1
  <2>6. Plus(acc0, p) = acc0 + p /\ Plus(acc1, q) = acc1 + q
    <3>1. acc0 + p <= 2 * ((round + 1) * Most) /\ acc1 + q <= 2 * ((round + 1) * Most)
      BY <2>1, <2>2, <2>3, <2>4
    <3> QED
      BY <2>1, <2>2, <2>5, <3>1, NoWrap
  <2>7. acc0' = acc0 + p /\ acc1' = acc1 + q /\ exact' = exact + p + q /\ acc' = acc
    BY <1>2, <2>6 DEF Accumulate
  <2> QED
    BY <2>1, <2>2, <2>4, <2>5, <2>7 DEF LaneInv
<1>3. CASE Merge
  <2>1. /\ round = Rounds /\ acc0 \in Nat /\ acc1 \in Nat /\ Rounds \in Nat /\ Most \in Nat
        /\ acc0 <= Rounds * Most /\ acc1 <= Rounds * Most /\ exact = acc0 + acc1
    BY <1>3, LaneAssumption, PairSumBound DEF LaneInv, Merge
  <2>2. Rounds * Most \in Nat
    BY <2>1
  <2>3. acc0 + acc1 <= 2 * (Rounds * Most)
    BY <2>1, <2>2
  <2>4. Plus(acc0, acc1) = exact
    BY <2>1, <2>3, NoWrap
  <2>5. /\ round' = Rounds + 1 /\ acc' = exact /\ acc0' = acc0 /\ acc1' = acc1
        /\ exact' = exact
    BY <1>3, <2>4 DEF Merge
  <2> QED
    BY <2>1, <2>5 DEF LaneInv
<1> QED
  BY <1>1, <1>2, <1>3 DEF LaneNext

(***************************************************************************)
(* The two 32-bit accumulators, and their sum, are exact for every matrix. *)
(***************************************************************************)
THEOREM TraceLanesAreExact == LaneSpec => []LaneIsExact
<1>1. LaneInit => LaneInv
  BY LaneAssumption, PairSumBound DEF LaneInit, LaneInv
<1>2. LaneInv => LaneIsExact
  BY DEF LaneInv, LaneIsExact
<1> QED
  BY <1>1, <1>2, LaneStep, PTL DEF LaneSpec

(***************************************************************************)
(* The headroom is there for the code's numbers: N * N / 32 rounds with    *)
(* AVX2, values below 997, lanes of 32 bits.                               *)
(***************************************************************************)
THEOREM Avx2HasHeadroom ==
    ASSUME Rounds = (128 * 128) \div 32, Mod = 997, HalfRange = 2147483648
    PROVE  2 * Rounds * (2 * ((Mod - 1) * (Mod - 1))) < HalfRange
OBVIOUS

-----------------------------------------------------------------------------
(***************************************************************************)
(* WorkerHandshake, for every number of challenges and rows and for both   *)
(* settings of g_use_worker.  The invariant says, for every pair of        *)
(* program counters, what work_state is and which of the threads has the   *)
(* plain objects, or will have them with its next acquire load.            *)
(***************************************************************************)

\* With no worker thread, main never enters the protocol.
Serial ==
    ~useWorker =>
        /\ wpc = "none" /\ seen["main"] = Objects
        /\ mpc \in {"connect", "recv", "parseA", "parseB", "trace", "done"}

\* Outside the hand-off main owns every plain object and the worker spins.
MainOwns ==
    useWorker /\ mpc \in {"connect", "recv", "publish", "signal", "trace", "setExit", "wake"} =>
        /\ seen["main"] = Objects /\ work_state = 0
        /\ wpc \in {"poll", "checkExit"} \/ (wpc = "exited" /\ mpc = "wake")

\* From the store of 1 to the store of 2 the worker owns them, or will once it
\* sees the 1; after that they are main's once it sees the 2.
HandedOff ==
    useWorker /\ mpc \in {"parseA", "await", "join"} =>
        \/ work_state = 1 /\ wpc \in {"poll", "checkExit"} /\ released = Objects
        \/ work_state = 1 /\ wpc \in {"loadP", "parseB", "finish"} /\ seen["worker"] = Objects
        \/ work_state = 2 /\ wpc \in {"poll", "checkExit"} /\ released = Objects
        \/ wpc \in {"exited", "crash"} /\ mpc = "join"

HandedBackToMain ==
    mpc = "reset" =>
        useWorker /\ work_state = 2 /\ seen["main"] = Objects /\ wpc \in {"poll", "checkExit"}

Stages ==
    /\ useWorker => wpc # "none" /\ mpc # "parseB"
    /\ worker_exit => mpc \in {"wake", "join", "done"}
    /\ wpc \in {"exited", "crash"} => worker_exit
    /\ mpc \in {"join", "wake"} => worker_exit
    /\ mpc = "done" /\ useWorker => wpc = "exited"
    /\ mpc = "terminate" => wpc \in {"poll", "checkExit"}

\* The pointer the worker will read is the one to the payload main works on.
Pointer ==
    /\ mpc \in {"publish", "signal", "parseA", "parseB", "await", "reset", "trace"}
         => received >= 1 /\ recvbuf = received
    /\ mpc \in {"signal", "parseA", "await"} /\ useWorker => worker_p = received
    /\ mpc \in {"parseA", "await"} /\ wpc \in {"parseB", "finish"} => wp = received
    /\ useWorker /\ received > 0 /\ mpc \notin {"publish"} => worker_p # NullPtr
    /\ wpc = "crash" => received = 0

\* How far each matrix holds the numbers of the current challenge.
Filled ==
    /\ mpc \in {"publish", "signal"} => mrow = 1
    /\ mpc = "parseA" => \A r \in 1 .. mrow - 1 : A[r] = received
    /\ mpc \in {"parseB", "await", "reset", "trace"} => \A r \in RowIds : A[r] = received
    /\ mpc = "parseB" => \A r \in 1 .. mrow - 1 : B[r] = received
    /\ mpc \in {"reset", "trace"} => \A r \in RowIds : B[r] = received
    /\ mpc \in {"parseA", "await"} /\ useWorker =>
         /\ wpc = "parseB" => \A r \in 1 .. wrow - 1 : B[r] = received
         /\ wpc = "finish" \/ work_state = 2 => \A r \in RowIds : B[r] = received

Sent == \A c \in Challenges : answers[c] # {} => answers[c] = {c} /\ c <= received

Rest == TypeOK /\ raced = {} /\ Sent

IInv ==
    /\ Rest /\ Serial /\ MainOwns /\ HandedOff /\ HandedBackToMain
    /\ Stages /\ Pointer /\ Filled

-----------------------------------------------------------------------------

LEMMA InitIInv == Init => IInv
<1> SUFFICES ASSUME Init PROVE IInv
  OBVIOUS
<1>1. Rest
  <2>1. A \in [RowIds -> Contents] /\ B \in [RowIds -> Contents] /\ answers \in [Challenges -> SUBSET Contents]
    BY DEF Init, Contents
  <2>2. seen \in [Threads -> SUBSET Objects] /\ released \in SUBSET Objects /\ raced \in SUBSET Objects
    BY DEF Init
  <2>3. received \in 0 .. MaxChallenges /\ mrow \in RowIds /\ wrow \in RowIds
    BY ConstantsAssumption DEF Init, RowIds
  <2>4. TypeOK
    BY <2>1, <2>2, <2>3 DEF Init, TypeOK, Contents
  <2> QED BY <2>4 DEF Init, Rest, Sent
<1>2. Serial /\ MainOwns /\ HandedOff /\ HandedBackToMain /\ Stages /\ Pointer /\ Filled
  BY ConstantsAssumption
  DEF Init, Serial, MainOwns, HandedOff, HandedBackToMain, Stages, Pointer, Filled, Threads,
      Objects, NullPtr
<1> QED BY <1>1, <1>2 DEF IInv

LEMMA ConnectPreserves == ASSUME IInv, ~Stopped, Connect PROVE IInv'
<1> USE ConstantsAssumption
    DEF IInv, Connect, WorkerUnchanged, shared, ghost, Stopped, NullPtr, Torn, Threads, Objects,
        Contents, Challenges, RowIds
<1>1. TypeOK'
  BY DEF Rest, TypeOK, Pointer, Stages
<1>2. raced' = {}
  BY DEF Rest, TypeOK, Serial, MainOwns, HandedOff, HandedBackToMain, Stages
<1>3. Sent'
  BY DEF Rest, TypeOK, Sent, Pointer, Filled
<1>4. Serial' /\ MainOwns' /\ HandedOff' /\ HandedBackToMain'
  BY DEF Rest, TypeOK, Serial, MainOwns, HandedOff, HandedBackToMain, Stages, Pointer
<1>5. Stages' /\ Pointer'
  BY DEF Rest, TypeOK, Serial, MainOwns, HandedOff, HandedBackToMain, Stages, Pointer
<1>6. Filled'
  BY DEF Rest, TypeOK, Serial, MainOwns, HandedOff, HandedBackToMain, Stages, Pointer, Filled
<1> QED BY <1>1, <1>2, <1>3, <1>4, <1>5, <1>6 DEF Rest

LEMMA ConnectFailsPreserves == ASSUME IInv, ~Stopped, ConnectFails PROVE IInv'
<1> USE ConstantsAssumption
    DEF IInv, ConnectFails, WorkerUnchanged, shared, ghost, Stopped, NullPtr, Torn, Threads, Objects,
        Contents, Challenges, RowIds
<1>1. TypeOK'
  BY DEF Rest, TypeOK, Pointer, Stages
<1>2. raced' = {}
  BY DEF Rest, TypeOK, Serial, MainOwns, HandedOff, HandedBackToMain, Stages
<1>3. Sent'
  BY DEF Rest, TypeOK, Sent, Pointer, Filled
<1>4. Serial' /\ MainOwns' /\ HandedOff' /\ HandedBackToMain'
  BY DEF Rest, TypeOK, Serial, MainOwns, HandedOff, HandedBackToMain, Stages, Pointer
<1>5. Stages' /\ Pointer'
  BY DEF Rest, TypeOK, Serial, MainOwns, HandedOff, HandedBackToMain, Stages, Pointer
<1>6. Filled'
  BY DEF Rest, TypeOK, Serial, MainOwns, HandedOff, HandedBackToMain, Stages, Pointer, Filled
<1> QED BY <1>1, <1>2, <1>3, <1>4, <1>5, <1>6 DEF Rest

LEMMA RecvPayloadPreserves == ASSUME IInv, ~Stopped, RecvPayload PROVE IInv'
<1> USE ConstantsAssumption
    DEF IInv, RecvPayload, Access, Other, WorkerUnchanged, Stopped, NullPtr, Torn, Threads, Objects,
        Contents, Challenges, RowIds
<1>1. TypeOK'
  BY DEF Rest, TypeOK, Pointer, Stages
<1>2. raced' = {}
  BY DEF Rest, TypeOK, Serial, MainOwns, HandedOff, HandedBackToMain, Stages
<1>3. Sent'
  BY DEF Rest, TypeOK, Sent, Pointer, Filled
<1>4. Serial' /\ MainOwns' /\ HandedOff' /\ HandedBackToMain'
  BY DEF Rest, TypeOK, Serial, MainOwns, HandedOff, HandedBackToMain, Stages, Pointer
<1>5. Stages' /\ Pointer'
  BY DEF Rest, TypeOK, Serial, MainOwns, HandedOff, HandedBackToMain, Stages, Pointer
<1>6. Filled'
  BY DEF Rest, TypeOK, Serial, MainOwns, HandedOff, HandedBackToMain, Stages, Pointer, Filled
<1> QED BY <1>1, <1>2, <1>3, <1>4, <1>5, <1>6 DEF Rest

LEMMA RecvEndsPreserves == ASSUME IInv, ~Stopped, RecvEnds PROVE IInv'
<1> USE ConstantsAssumption
    DEF IInv, RecvEnds, Access, Other, WorkerUnchanged, ghost, Stopped, NullPtr, Torn, Threads, Objects,
        Contents, Challenges, RowIds
<1>1. TypeOK'
  <2>1. CASE recvbuf' = recvbuf /\ UNCHANGED ghost
    BY <2>1 DEF Rest, TypeOK
  <2>2. CASE recvbuf' = Torn /\ Access("main", {"recvbuf"})
    <3>1. seen' \in [Threads -> SUBSET Objects] /\ raced' \in SUBSET Objects /\ released' \in SUBSET Objects
      BY <2>2 DEF Rest, TypeOK
    <3> QED BY <2>2, <3>1 DEF Rest, TypeOK
  <2> QED BY <2>1, <2>2
<1>2. raced' = {}
  BY DEF Rest, TypeOK, Serial, MainOwns, HandedOff, HandedBackToMain, Stages
<1>3. Sent'
  BY DEF Rest, TypeOK, Sent, Pointer, Filled
<1>4. Serial' /\ MainOwns' /\ HandedOff' /\ HandedBackToMain'
  BY DEF Rest, TypeOK, Serial, MainOwns, HandedOff, HandedBackToMain, Stages, Pointer
<1>5. Stages' /\ Pointer'
  BY DEF Rest, TypeOK, Serial, MainOwns, HandedOff, HandedBackToMain, Stages, Pointer
<1>6. Filled'
  BY DEF Rest, TypeOK, Serial, MainOwns, HandedOff, HandedBackToMain, Stages, Pointer, Filled
<1> QED BY <1>1, <1>2, <1>3, <1>4, <1>5, <1>6 DEF Rest

LEMMA PublishPreserves == ASSUME IInv, ~Stopped, Publish PROVE IInv'
<1> USE ConstantsAssumption
    DEF IInv, Publish, Access, Other, WorkerUnchanged, Stopped, NullPtr, Torn, Threads, Objects,
        Contents, Challenges, RowIds
<1>1. TypeOK'
  BY DEF Rest, TypeOK, Pointer, Stages
<1>2. raced' = {}
  BY DEF Rest, TypeOK, Serial, MainOwns, HandedOff, HandedBackToMain, Stages
<1>3. Sent'
  BY DEF Rest, TypeOK, Sent, Pointer, Filled
<1>4. Serial' /\ MainOwns' /\ HandedOff' /\ HandedBackToMain'
  BY DEF Rest, TypeOK, Serial, MainOwns, HandedOff, HandedBackToMain, Stages, Pointer
<1>5. Stages' /\ Pointer'
  BY DEF Rest, TypeOK, Serial, MainOwns, HandedOff, HandedBackToMain, Stages, Pointer
<1>6. Filled'
  BY DEF Rest, TypeOK, Serial, MainOwns, HandedOff, HandedBackToMain, Stages, Pointer, Filled
<1> QED BY <1>1, <1>2, <1>3, <1>4, <1>5, <1>6 DEF Rest

LEMMA SignalPreserves == ASSUME IInv, ~Stopped, Signal PROVE IInv'
<1> USE ConstantsAssumption
    DEF IInv, Signal, ReleaseStore, WorkerUnchanged, Stopped, NullPtr, Torn, Threads, Objects,
        Contents, Challenges, RowIds
<1>1. TypeOK'
  BY DEF Rest, TypeOK, Pointer, Stages
<1>2. raced' = {}
  BY DEF Rest, TypeOK, Serial, MainOwns, HandedOff, HandedBackToMain, Stages
<1>3. Sent'
  BY DEF Rest, TypeOK, Sent, Pointer, Filled
<1>4. Serial' /\ MainOwns' /\ HandedOff' /\ HandedBackToMain'
  BY DEF Rest, TypeOK, Serial, MainOwns, HandedOff, HandedBackToMain, Stages, Pointer
<1>5. Stages' /\ Pointer'
  BY DEF Rest, TypeOK, Serial, MainOwns, HandedOff, HandedBackToMain, Stages, Pointer
<1>6. Filled'
  BY DEF Rest, TypeOK, Serial, MainOwns, HandedOff, HandedBackToMain, Stages, Pointer, Filled
<1> QED BY <1>1, <1>2, <1>3, <1>4, <1>5, <1>6 DEF Rest

LEMMA ParseAPreserves == ASSUME IInv, ~Stopped, ParseA PROVE IInv'
<1> USE ConstantsAssumption
    DEF IInv, ParseA, NextRow, WorkerUnchanged, ghost, Stopped, NullPtr, Torn, Threads, Objects,
        Contents, Challenges, RowIds
<1>1. TypeOK'
  BY DEF Rest, TypeOK, Pointer, Stages
<1>2. raced' = {}
  BY DEF Rest, TypeOK, Serial, MainOwns, HandedOff, HandedBackToMain, Stages
<1>3. Sent'
  BY DEF Rest, TypeOK, Sent, Pointer, Filled
<1>4. Serial' /\ MainOwns' /\ HandedOff' /\ HandedBackToMain'
  BY DEF Rest, TypeOK, Serial, MainOwns, HandedOff, HandedBackToMain, Stages, Pointer
<1>5. Stages' /\ Pointer'
  BY DEF Rest, TypeOK, Serial, MainOwns, HandedOff, HandedBackToMain, Stages, Pointer
<1>6. Filled'
  BY DEF Rest, TypeOK, Serial, MainOwns, HandedOff, HandedBackToMain, Stages, Pointer, Filled
<1> QED BY <1>1, <1>2, <1>3, <1>4, <1>5, <1>6 DEF Rest

LEMMA ParseBSeriallyPreserves == ASSUME IInv, ~Stopped, ParseBSerially PROVE IInv'
<1> USE ConstantsAssumption
    DEF IInv, ParseBSerially, Access, Other, NextRow, WorkerUnchanged, Stopped, NullPtr, Torn, Threads, Objects,
        Contents, Challenges, RowIds
<1>1. TypeOK'
  BY DEF Rest, TypeOK, Pointer, Stages
<1>2. raced' = {}
  BY DEF Rest, TypeOK, Serial, MainOwns, HandedOff, HandedBackToMain, Stages
<1>3. Sent'
  BY DEF Rest, TypeOK, Sent, Pointer, Filled
<1>4. Serial' /\ MainOwns' /\ HandedOff' /\ HandedBackToMain'
  BY DEF Rest, TypeOK, Serial, MainOwns, HandedOff, HandedBackToMain, Stages, Pointer
<1>5. Stages' /\ Pointer'
  BY DEF Rest, TypeOK, Serial, MainOwns, HandedOff, HandedBackToMain, Stages, Pointer
<1>6. Filled'
  BY DEF Rest, TypeOK, Serial, MainOwns, HandedOff, HandedBackToMain, Stages, Pointer, Filled
<1> QED BY <1>1, <1>2, <1>3, <1>4, <1>5, <1>6 DEF Rest

LEMMA AwaitPreserves == ASSUME IInv, ~Stopped, Await PROVE IInv'
<1> USE ConstantsAssumption
    DEF IInv, Await, AcquireLoad, Parsed, WorkerUnchanged, shared, Stopped, NullPtr, Torn, Threads, Objects,
        Contents, Challenges, RowIds
<1>1. TypeOK'
  BY DEF Rest, TypeOK, Pointer, Stages
<1>2. raced' = {}
  BY DEF Rest, TypeOK, Serial, MainOwns, HandedOff, HandedBackToMain, Stages
<1>3. Sent'
  BY DEF Rest, TypeOK, Sent, Pointer, Filled
<1>4. Serial' /\ MainOwns' /\ HandedOff' /\ HandedBackToMain'
  BY DEF Rest, TypeOK, Serial, MainOwns, HandedOff, HandedBackToMain, Stages, Pointer
<1>5. Stages' /\ Pointer'
  BY DEF Rest, TypeOK, Serial, MainOwns, HandedOff, HandedBackToMain, Stages, Pointer
<1>6. Filled'
  BY DEF Rest, TypeOK, Serial, MainOwns, HandedOff, HandedBackToMain, Stages, Pointer, Filled
<1> QED BY <1>1, <1>2, <1>3, <1>4, <1>5, <1>6 DEF Rest

LEMMA ResetPreserves == ASSUME IInv, ~Stopped, Reset PROVE IInv'
<1> USE ConstantsAssumption
    DEF IInv, Reset, Relaxed, WorkerUnchanged, Stopped, NullPtr, Torn, Threads, Objects,
        Contents, Challenges, RowIds
<1>1. TypeOK'
  BY DEF Rest, TypeOK, Pointer, Stages
<1>2. raced' = {}
  BY DEF Rest, TypeOK, Serial, MainOwns, HandedOff, HandedBackToMain, Stages
<1>3. Sent'
  BY DEF Rest, TypeOK, Sent, Pointer, Filled
<1>4. Serial' /\ MainOwns' /\ HandedOff' /\ HandedBackToMain'
  BY DEF Rest, TypeOK, Serial, MainOwns, HandedOff, HandedBackToMain, Stages, Pointer
<1>5. Stages' /\ Pointer'
  BY DEF Rest, TypeOK, Serial, MainOwns, HandedOff, HandedBackToMain, Stages, Pointer
<1>6. Filled'
  BY DEF Rest, TypeOK, Serial, MainOwns, HandedOff, HandedBackToMain, Stages, Pointer, Filled
<1> QED BY <1>1, <1>2, <1>3, <1>4, <1>5, <1>6 DEF Rest

LEMMA TraceAndSendPreserves == ASSUME IInv, ~Stopped, TraceAndSend PROVE IInv'
<1> USE ConstantsAssumption
    DEF IInv, TraceAndSend, Access, Other, WorkerUnchanged, shared, Stopped, NullPtr, Torn, Threads, Objects,
        Contents, Challenges, RowIds
<1>1. TypeOK'
  BY DEF Rest, TypeOK, Pointer, Stages
<1>2. raced' = {}
  BY DEF Rest, TypeOK, Serial, MainOwns, HandedOff, HandedBackToMain, Stages
<1>3. Sent'
  BY DEF Rest, TypeOK, Sent, Pointer, Filled
<1>4. Serial' /\ MainOwns' /\ HandedOff' /\ HandedBackToMain'
  BY DEF Rest, TypeOK, Serial, MainOwns, HandedOff, HandedBackToMain, Stages, Pointer
<1>5. Stages' /\ Pointer'
  BY DEF Rest, TypeOK, Serial, MainOwns, HandedOff, HandedBackToMain, Stages, Pointer
<1>6. Filled'
  BY DEF Rest, TypeOK, Serial, MainOwns, HandedOff, HandedBackToMain, Stages, Pointer, Filled
<1> QED BY <1>1, <1>2, <1>3, <1>4, <1>5, <1>6 DEF Rest

LEMMA SetExitPreserves == ASSUME IInv, ~Stopped, SetExit PROVE IInv'
<1> USE ConstantsAssumption
    DEF IInv, SetExit, WorkerUnchanged, ghost, Stopped, NullPtr, Torn, Threads, Objects,
        Contents, Challenges, RowIds
<1>1. TypeOK'
  BY DEF Rest, TypeOK, Pointer, Stages
<1>2. raced' = {}
  BY DEF Rest, TypeOK, Serial, MainOwns, HandedOff, HandedBackToMain, Stages
<1>3. Sent'
  BY DEF Rest, TypeOK, Sent, Pointer, Filled
<1>4. Serial' /\ MainOwns' /\ HandedOff' /\ HandedBackToMain'
  BY DEF Rest, TypeOK, Serial, MainOwns, HandedOff, HandedBackToMain, Stages, Pointer
<1>5. Stages' /\ Pointer'
  BY DEF Rest, TypeOK, Serial, MainOwns, HandedOff, HandedBackToMain, Stages, Pointer
<1>6. Filled'
  BY DEF Rest, TypeOK, Serial, MainOwns, HandedOff, HandedBackToMain, Stages, Pointer, Filled
<1> QED BY <1>1, <1>2, <1>3, <1>4, <1>5, <1>6 DEF Rest

LEMMA WakePreserves == ASSUME IInv, ~Stopped, Wake PROVE IInv'
<1> USE ConstantsAssumption
    DEF IInv, Wake, ReleaseStore, WorkerUnchanged, Stopped, NullPtr, Torn, Threads, Objects,
        Contents, Challenges, RowIds
<1>1. TypeOK'
  BY DEF Rest, TypeOK, Pointer, Stages
<1>2. raced' = {}
  BY DEF Rest, TypeOK, Serial, MainOwns, HandedOff, HandedBackToMain, Stages
<1>3. Sent'
  BY DEF Rest, TypeOK, Sent, Pointer, Filled
<1>4. Serial' /\ MainOwns' /\ HandedOff' /\ HandedBackToMain'
  BY DEF Rest, TypeOK, Serial, MainOwns, HandedOff, HandedBackToMain, Stages, Pointer
<1>5. Stages' /\ Pointer'
  BY DEF Rest, TypeOK, Serial, MainOwns, HandedOff, HandedBackToMain, Stages, Pointer
<1>6. Filled'
  BY DEF Rest, TypeOK, Serial, MainOwns, HandedOff, HandedBackToMain, Stages, Pointer, Filled
<1> QED BY <1>1, <1>2, <1>3, <1>4, <1>5, <1>6 DEF Rest

LEMMA JoinPreserves == ASSUME IInv, ~Stopped, Join PROVE IInv'
<1> USE ConstantsAssumption
    DEF IInv, Join, WorkerUnchanged, shared, ghost, Stopped, NullPtr, Torn, Threads, Objects,
        Contents, Challenges, RowIds
<1>1. TypeOK'
  BY DEF Rest, TypeOK, Pointer, Stages
<1>2. raced' = {}
  BY DEF Rest, TypeOK, Serial, MainOwns, HandedOff, HandedBackToMain, Stages
<1>3. Sent'
  BY DEF Rest, TypeOK, Sent, Pointer, Filled
<1>4. Serial' /\ MainOwns' /\ HandedOff' /\ HandedBackToMain'
  BY DEF Rest, TypeOK, Serial, MainOwns, HandedOff, HandedBackToMain, Stages, Pointer
<1>5. Stages' /\ Pointer'
  BY DEF Rest, TypeOK, Serial, MainOwns, HandedOff, HandedBackToMain, Stages, Pointer
<1>6. Filled'
  BY DEF Rest, TypeOK, Serial, MainOwns, HandedOff, HandedBackToMain, Stages, Pointer, Filled
<1> QED BY <1>1, <1>2, <1>3, <1>4, <1>5, <1>6 DEF Rest

LEMMA PollPreserves == ASSUME IInv, ~Stopped, Poll PROVE IInv'
<1> USE ConstantsAssumption
    DEF IInv, Poll, AcquireLoad, Signalled, MainUnchanged, shared, Stopped, NullPtr, Torn, Threads, Objects,
        Contents, Challenges, RowIds
<1>1. TypeOK'
  BY DEF Rest, TypeOK, Pointer, Stages
<1>2. raced' = {}
  BY DEF Rest, TypeOK, Serial, MainOwns, HandedOff, HandedBackToMain, Stages
<1>3. Sent'
  BY DEF Rest, TypeOK, Sent, Pointer, Filled
<1>4. Serial' /\ MainOwns' /\ HandedOff' /\ HandedBackToMain'
  BY DEF Rest, TypeOK, Serial, MainOwns, HandedOff, HandedBackToMain, Stages, Pointer
<1>5. Stages' /\ Pointer'
  BY DEF Rest, TypeOK, Serial, MainOwns, HandedOff, HandedBackToMain, Stages, Pointer
<1>6. Filled'
  BY DEF Rest, TypeOK, Serial, MainOwns, HandedOff, HandedBackToMain, Stages, Pointer, Filled
<1> QED BY <1>1, <1>2, <1>3, <1>4, <1>5, <1>6 DEF Rest

LEMMA CheckExitPreserves == ASSUME IInv, ~Stopped, CheckExit PROVE IInv'
<1> USE ConstantsAssumption
    DEF IInv, CheckExit, ExitSeen, MainUnchanged, shared, ghost, Stopped, NullPtr, Torn, Threads, Objects,
        Contents, Challenges, RowIds
<1>1. TypeOK'
  BY DEF Rest, TypeOK, Pointer, Stages
<1>2. raced' = {}
  BY DEF Rest, TypeOK, Serial, MainOwns, HandedOff, HandedBackToMain, Stages
<1>3. Sent'
  BY DEF Rest, TypeOK, Sent, Pointer, Filled
<1>4. Serial' /\ MainOwns' /\ HandedOff' /\ HandedBackToMain'
  BY DEF Rest, TypeOK, Serial, MainOwns, HandedOff, HandedBackToMain, Stages, Pointer
<1>5. Stages' /\ Pointer'
  BY DEF Rest, TypeOK, Serial, MainOwns, HandedOff, HandedBackToMain, Stages, Pointer
<1>6. Filled'
  BY DEF Rest, TypeOK, Serial, MainOwns, HandedOff, HandedBackToMain, Stages, Pointer, Filled
<1> QED BY <1>1, <1>2, <1>3, <1>4, <1>5, <1>6 DEF Rest

LEMMA LoadPPreserves == ASSUME IInv, ~Stopped, LoadP PROVE IInv'
<1> USE ConstantsAssumption
    DEF IInv, LoadP, Access, Other, MainUnchanged, shared, Stopped, NullPtr, Torn, Threads, Objects,
        Contents, Challenges, RowIds
<1>1. TypeOK'
  BY DEF Rest, TypeOK, Pointer, Stages
<1>2. raced' = {}
  BY DEF Rest, TypeOK, Serial, MainOwns, HandedOff, HandedBackToMain, Stages
<1>3. Sent'
  BY DEF Rest, TypeOK, Sent, Pointer, Filled
<1>4. Serial' /\ MainOwns' /\ HandedOff' /\ HandedBackToMain'
  BY DEF Rest, TypeOK, Serial, MainOwns, HandedOff, HandedBackToMain, Stages, Pointer
<1>5. Stages' /\ Pointer'
  BY DEF Rest, TypeOK, Serial, MainOwns, HandedOff, HandedBackToMain, Stages, Pointer
<1>6. Filled'
  BY DEF Rest, TypeOK, Serial, MainOwns, HandedOff, HandedBackToMain, Stages, Pointer, Filled
<1> QED BY <1>1, <1>2, <1>3, <1>4, <1>5, <1>6 DEF Rest

LEMMA ParseBPreserves == ASSUME IInv, ~Stopped, ParseB PROVE IInv'
<1> USE ConstantsAssumption
    DEF IInv, ParseB, Access, Other, NextRow, MainUnchanged, Stopped, NullPtr, Torn, Threads, Objects,
        Contents, Challenges, RowIds
<1>1. TypeOK'
  BY DEF Rest, TypeOK, Pointer, Stages
<1>2. raced' = {}
  BY DEF Rest, TypeOK, Serial, MainOwns, HandedOff, HandedBackToMain, Stages
<1>3. Sent'
  BY DEF Rest, TypeOK, Sent, Pointer, Filled
<1>4. Serial' /\ MainOwns' /\ HandedOff' /\ HandedBackToMain'
  BY DEF Rest, TypeOK, Serial, MainOwns, HandedOff, HandedBackToMain, Stages, Pointer
<1>5. Stages' /\ Pointer'
  BY DEF Rest, TypeOK, Serial, MainOwns, HandedOff, HandedBackToMain, Stages, Pointer
<1>6. Filled'
  BY DEF Rest, TypeOK, Serial, MainOwns, HandedOff, HandedBackToMain, Stages, Pointer, Filled
<1> QED BY <1>1, <1>2, <1>3, <1>4, <1>5, <1>6 DEF Rest

LEMMA FinishPreserves == ASSUME IInv, ~Stopped, Finish PROVE IInv'
<1> USE ConstantsAssumption
    DEF IInv, Finish, ReleaseStore, HandedBack, MainUnchanged, Stopped, NullPtr, Torn, Threads, Objects,
        Contents, Challenges, RowIds
<1>1. TypeOK'
  BY DEF Rest, TypeOK, Pointer, Stages
<1>2. raced' = {}
  BY DEF Rest, TypeOK, Serial, MainOwns, HandedOff, HandedBackToMain, Stages
<1>3. Sent'
  BY DEF Rest, TypeOK, Sent, Pointer, Filled
<1>4. Serial' /\ MainOwns' /\ HandedOff' /\ HandedBackToMain'
  BY DEF Rest, TypeOK, Serial, MainOwns, HandedOff, HandedBackToMain, Stages, Pointer
<1>5. Stages' /\ Pointer'
  BY DEF Rest, TypeOK, Serial, MainOwns, HandedOff, HandedBackToMain, Stages, Pointer
<1>6. Filled'
  BY DEF Rest, TypeOK, Serial, MainOwns, HandedOff, HandedBackToMain, Stages, Pointer, Filled
<1> QED BY <1>1, <1>2, <1>3, <1>4, <1>5, <1>6 DEF Rest

LEMMA NextPreserves == IInv /\ [Next]_vars => IInv'
<1> SUFFICES ASSUME IInv, [Next]_vars PROVE IInv'
  OBVIOUS
<1>1. CASE ~Stopped /\ Main
  BY <1>1, ConnectPreserves, ConnectFailsPreserves, RecvPayloadPreserves, RecvEndsPreserves,
     PublishPreserves, SignalPreserves, ParseAPreserves, ParseBSeriallyPreserves, AwaitPreserves,
     ResetPreserves, TraceAndSendPreserves, SetExitPreserves, WakePreserves, JoinPreserves
  DEF Main
<1>2. CASE ~Stopped /\ Worker
  BY <1>2, PollPreserves, CheckExitPreserves, LoadPPreserves, ParseBPreserves, FinishPreserves
  DEF Worker
<1>3. CASE UNCHANGED vars
  BY <1>3
  DEF vars, shared, ghost, IInv, Rest, TypeOK, Sent, Serial, MainOwns, HandedOff,
      HandedBackToMain, Stages, Pointer, Filled
<1> QED BY <1>1, <1>2, <1>3 DEF Next, Terminated

LEMMA Invariance == Spec => []IInv
<1> QED BY InitIInv, NextPreserves, PTL DEF Spec

\* The flag is the only synchronisation between the threads, and it is enough:
\* no interleaving of main and the worker races on worker_p, recvbuf or B.
THEOREM RaceFree == Spec => []NoDataRace
<1>1. IInv => NoDataRace
  BY DEF IInv, Rest, NoDataRace
<1> QED BY <1>1, Invariance, PTL

\* Every answer is computed from both matrices of the challenge it answers.
THEOREM AnswersAreOwn == Spec => []AnswersOwnChallenge
<1>1. IInv => AnswersOwnChallenge
  BY DEF IInv, Rest, Sent, AnswersOwnChallenge
<1> QED BY <1>1, Invariance, PTL

\* A stray or null parse belongs to shutdown; while main serves, the worker
\* parses the payload main is waiting for and nothing else.
THEOREM NoStrayParseWhileServing == Spec => []ParsesOnlyWhatIsAwaited
<1>1. IInv => ParsesOnlyWhatIsAwaited
  <2> SUFFICES ASSUME IInv PROVE ParsesOnlyWhatIsAwaited
    OBVIOUS
  <2>1. wpc = "crash" => worker_exit /\ received = 0
    BY DEF IInv, Stages, Pointer
  <2>2. ASSUME wpc \in {"parseB", "finish"}, ~worker_exit
        PROVE  mpc \in {"parseA", "await"} /\ wp = received /\ recvbuf = received
    <3>1. useWorker
      BY <2>2 DEF IInv, Serial
    <3>2. mpc \in {"parseA", "await"}
      BY <2>2, <3>1 DEF IInv, Rest, TypeOK, MainOwns, HandedBackToMain, Stages
    <3> QED BY <2>2, <3>2 DEF IInv, Pointer
  <2> QED BY <2>1, <2>2 DEF ParsesOnlyWhatIsAwaited
<1> QED BY <1>1, Invariance, PTL


-----------------------------------------------------------------------------
(***************************************************************************)
(* WorkerCpu.  The scan visits the places behind main's CPU in turn, from  *)
(* the last CPU on to the first, and each place once.                      *)
(***************************************************************************)

CpuInv ==
    /\ DOMAIN topology \in SUBSET CpuNumbers
    /\ \A c \in Online : topology[c].socket \in Sockets /\ topology[c].core \in Cores
    /\ main_cpu \in Online

\* Numbers wrap around once at most.
LEMMA WrapsOnce ==
    ASSUME NEW n \in Nat, NEW m \in 0 .. n - 1, NEW k \in 0 .. n
    PROVE  (m + k) % n = IF m + k < n THEN m + k ELSE m + k - n
<1>1. n > 0 /\ m + k \in Nat
  OBVIOUS
<1>2. \A x \in 0 .. n - 1 : x % n = x
  OBVIOUS
<1>3. \A x \in n .. 2 * n - 1 : x % n = x - n
  OBVIOUS
<1> QED BY <1>1, <1>2, <1>3

LEMMA WrapsInside ==
    ASSUME NEW n \in Nat \ {0}, NEW x \in Nat
    PROVE  x % n \in 0 .. n - 1
OBVIOUS

LEMMA CpuCounts ==
    ASSUME CpuInv
    PROVE  n_cpus \in Nat \ {0} /\ main_cpu \in Nat
<1>1. IsFiniteSet(Online)
  BY CpuAssumption, FS_Subset DEF CpuInv, Online
<1>2. Cardinality(Online) \in Nat /\ Cardinality(Online) # 0
  BY <1>1, FS_CardinalityType, FS_EmptySet DEF CpuInv
<1>3. main_cpu \in Nat
  BY CpuAssumption DEF CpuInv, Online
<1> QED BY <1>2, <1>3 DEF n_cpus

\* The scan is over CPUs that there may be, and not over main's own.
LEMMA ScannedIs ==
    ASSUME CpuInv, NEW k \in 1 .. n_cpus - 1
    PROVE  At(k) \in 0 .. n_cpus - 1 /\ At(k) # main_cpu
<1>1. n_cpus \in Nat \ {0} /\ main_cpu \in Nat /\ main_cpu + k \in Nat
  BY CpuCounts
<1>2. At(k) \in 0 .. n_cpus - 1
  BY <1>1, WrapsInside DEF At
<1>3. CASE main_cpu < n_cpus
  <2>1. At(k) = IF main_cpu + k < n_cpus THEN main_cpu + k ELSE main_cpu + k - n_cpus
    <3>1. n_cpus \in Nat /\ main_cpu \in 0 .. n_cpus - 1 /\ k \in 0 .. n_cpus
      BY <1>1, <1>3
    <3> QED BY <3>1, WrapsOnce DEF At
  <2> QED BY <1>1, <1>2, <2>1
<1> QED BY <1>1, <1>2, <1>3

\* A try ends at the first CPU that suits, or nowhere.
LEMMA TryPickIs ==
    ASSUME CpuInv, NEW same, NEW diff
    PROVE  \/ /\ TryPick(same, diff) = NoCpu
              /\ \A k \in 1 .. n_cpus - 1 : ~Suits(At(k), same, diff)
           \/ \E k \in 1 .. n_cpus - 1 :
                 /\ TryPick(same, diff) = At(k) /\ Suits(At(k), same, diff)
                 /\ \A j \in 1 .. n_cpus - 1 : Suits(At(j), same, diff) => k <= j
<1> DEFINE suited == {k \in 1 .. n_cpus - 1 : Suits(At(k), same, diff)}
<1>1. CASE suited = {}
  BY <1>1 DEF TryPick
<1>2. CASE suited # {}
  <2>1. \E m \in suited : \A j \in suited : m <= j
    <3>1. suited \in SUBSET Int /\ IsFiniteSet(suited)
      <4>1. 1 .. n_cpus - 1 \subseteq Int /\ IsFiniteSet(1 .. n_cpus - 1)
        BY CpuCounts, FS_Interval
      <4> QED BY <4>1, FS_Subset
    <3> HIDE DEF suited
    <3> QED BY <1>2, <3>1, LeastNumber
  <2>2. Min(suited) \in suited /\ \A j \in suited : Min(suited) <= j
    <3> HIDE DEF suited
    <3> QED BY <2>1 DEF Min
  <2>3. TryPick(same, diff) = At(Min(suited))
    BY <1>2 DEF TryPick
  <2> QED BY <2>2, <2>3
<1> QED BY <1>1, <1>2

\* Of the three tries the first that finds a CPU counts.
LEMMA ChoiceIs ==
    /\ Choice = TryPick(TRUE, TRUE) \/ Choice = TryPick(FALSE, TRUE) \/ Choice = TryPick(FALSE, FALSE)
    /\ TryPick(TRUE, TRUE) # NoCpu => Choice = TryPick(TRUE, TRUE)
    /\ Choice = NoCpu => TryPick(FALSE, FALSE) = NoCpu
<1> DEFINE tries == <<TryPick(TRUE, TRUE), TryPick(FALSE, TRUE), TryPick(FALSE, FALSE)>>
           found == {i \in 1 .. 3 : tries[i] # NoCpu}
<1>1. /\ tries[1] = TryPick(TRUE, TRUE) /\ tries[2] = TryPick(FALSE, TRUE)
      /\ tries[3] = TryPick(FALSE, FALSE)
  OBVIOUS
<1>2. Choice = IF found = {} THEN NoCpu ELSE tries[Min(found)]
  BY DEF Choice
<1>3. found # {} => Min(found) \in found /\ \A j \in found : Min(found) <= j
  <2>1. found \in SUBSET (1 .. 3)
    OBVIOUS
  <2> HIDE DEF found
  <2>2. found # {} => \E m \in found : \A j \in found : m <= j
    BY <2>1, LeastPosition
  <2> QED BY <2>2 DEF Min
<1>4. \A i \in 1 .. 3 : i \in found <=> tries[i] # NoCpu
  OBVIOUS
<1>5. found \subseteq 1 .. 3
  OBVIOUS
<1> HIDE DEF tries, found
<1>6. CASE found = {}
  <2>1. tries[1] = NoCpu /\ tries[2] = NoCpu /\ tries[3] = NoCpu
    BY <1>4, <1>6
  <2>2. Choice = NoCpu
    BY <1>2, <1>6
  <2> QED BY <1>1, <2>1, <2>2
<1>7. CASE found # {}
  <2>1. Min(found) \in 1 .. 3 /\ Choice = tries[Min(found)] /\ Choice # NoCpu
    BY <1>2, <1>3, <1>4, <1>5, <1>7
  <2>2. tries[1] # NoCpu => Min(found) = 1
    BY <1>3, <1>4, <1>7, <2>1
  <2>3. Choice = tries[1] \/ Choice = tries[2] \/ Choice = tries[3]
    <3>1. Min(found) = 1 \/ Min(found) = 2 \/ Min(found) = 3
      BY <2>1
    <3> QED BY <2>1, <3>1
  <2> QED BY <1>1, <2>1, <2>2, <2>3
<1> QED BY <1>6, <1>7

\* Without holes a neighbour is as many places behind main's CPU as Distance says.
LEMMA PlacesBehind ==
    ASSUME CpuInv, NoHoles
    PROVE  /\ \A k \in 1 .. n_cpus - 1 : At(k) \in Online \ {main_cpu} /\ Distance(At(k)) = k
           /\ \A c \in Online \ {main_cpu} : Distance(c) \in 1 .. n_cpus - 1 /\ At(Distance(c)) = c
<1>1. n_cpus \in Nat \ {0} /\ main_cpu \in 0 .. n_cpus - 1 /\ Online = 0 .. n_cpus - 1
  BY CpuCounts DEF NoHoles, CpuInv
<1>2. \A k \in 0 .. n_cpus :
          At(k) = IF main_cpu + k < n_cpus THEN main_cpu + k ELSE main_cpu + k - n_cpus
  BY <1>1, WrapsOnce DEF At
<1>3. ASSUME NEW k \in 1 .. n_cpus - 1
      PROVE  At(k) \in Online \ {main_cpu} /\ Distance(At(k)) = k
  BY <1>1, <1>2 DEF Distance
<1>4. ASSUME NEW c \in Online \ {main_cpu}
      PROVE  Distance(c) \in 1 .. n_cpus - 1 /\ At(Distance(c)) = c
  <2>1. Distance(c) \in 1 .. n_cpus - 1
    BY <1>1 DEF Distance
  <2> QED BY <1>1, <1>2, <2>1 DEF Distance
<1> QED BY <1>3, <1>4

\* What is read of a CPU that is online.
LEMMA OnlineIsRead ==
    ASSUME CpuInv, NEW c \in Online
    PROVE  /\ ReadSocket(c) = topology[c].socket /\ ReadSocket(c) >= 0
           /\ ReadCore(c) = topology[c].core
<1>1. topology[c].socket \in Nat
  BY CpuAssumption DEF CpuInv
<1>2. ReadSocket(c) = topology[c].socket /\ ReadCore(c) = topology[c].core
  BY DEF ReadSocket, ReadCore
<1>3. \A n \in Nat : n >= 0
  OBVIOUS
<1> QED BY <1>1, <1>2, <1>3

LEMMA ChoiceIsWell ==
    ASSUME CpuInv
    PROVE  /\ Choice # main_cpu
           /\ NoHoles /\ n_cpus > 1 => Choice \in Online
           /\ NoHoles /\ Neighbours # {} =>
                 Choice \in Neighbours /\ \A c \in Neighbours : Distance(Choice) <= Distance(c)
<1>1. n_cpus \in Nat \ {0} /\ main_cpu \in Nat
  BY CpuCounts
<1>2. Choice = NoCpu \/ \E k \in 1 .. n_cpus - 1 : Choice = At(k)
  BY ChoiceIs, TryPickIs
<1>3. Choice # main_cpu
  BY <1>1, <1>2, ScannedIs DEF NoCpu
<1>4. ASSUME NoHoles, n_cpus > 1 PROVE Choice \in Online
  <2>1. 1 \in 1 .. n_cpus - 1 /\ At(1) \in Online
    BY <1>1, <1>4, PlacesBehind
  <2>2. Suits(At(1), FALSE, FALSE)
    BY <2>1, OnlineIsRead DEF Suits
  <2>3. \A k \in 1 .. n_cpus - 1 : At(k) \in Online
    BY <1>4, PlacesBehind
  <2>4. TryPick(FALSE, FALSE) \in Online
    BY <2>1, <2>2, <2>3, TryPickIs
  <2>5. NoCpu \notin Online
    BY CpuAssumption DEF NoCpu, CpuInv, Online
  <2> QED BY <1>2, <2>3, <2>4, <2>5, ChoiceIs
<1>5. ASSUME NoHoles, Neighbours # {}
      PROVE  Choice \in Neighbours /\ \A c \in Neighbours : Distance(Choice) <= Distance(c)
  <2>1. \A c \in Online : Suits(c, TRUE, TRUE) /\ c # main_cpu <=> c \in Neighbours
    <3>1. main_cpu \in Online
      BY DEF CpuInv
    <3> QED BY <3>1, OnlineIsRead DEF Suits, Neighbours
  <2>2. \A c \in Neighbours :
            Distance(c) \in 1 .. n_cpus - 1 /\ At(Distance(c)) = c /\ Suits(At(Distance(c)), TRUE, TRUE)
    BY <1>5, <2>1, PlacesBehind DEF Neighbours
  <2>3. PICK k \in 1 .. n_cpus - 1 :
            /\ TryPick(TRUE, TRUE) = At(k) /\ Suits(At(k), TRUE, TRUE)
            /\ \A j \in 1 .. n_cpus - 1 : Suits(At(j), TRUE, TRUE) => k <= j
    BY <1>5, <2>2, TryPickIs
  <2>4. At(k) \in Online \ {main_cpu} /\ Distance(At(k)) = k
    BY <1>5, PlacesBehind
  <2>5. Choice = At(k)
    <3>1. NoCpu \notin Online
      BY CpuAssumption DEF NoCpu, CpuInv, Online
    <3> QED BY <2>3, <2>4, <3>1, ChoiceIs
  <2> QED BY <2>1, <2>2, <2>3, <2>4, <2>5
<1> QED BY <1>3, <1>4, <1>5

(***************************************************************************)
(* pick_worker_cpu, for any number of CPUs, sockets and cores: the worker  *)
(* never gets the CPU of main, wherever the numbers of offline CPUs are.   *)
(* Without holes in the numbers it gets none only where there is one CPU,  *)
(* and gets the next one that shares main's socket and not its core if     *)
(* there is one.                                                           *)
(***************************************************************************)
THEOREM WorkerPlaced == CpuSpec => []WorkerIsWellPlaced
<1> DEFINE I == CpuInv /\ WorkerIsWellPlaced
<1>1. CpuInit => I
  <2> SUFFICES ASSUME CpuInit PROVE I
    OBVIOUS
  <2>1. PICK on \in SUBSET CpuNumbers \ {{}} : topology \in [on -> [socket : Sockets, core : Cores]]
    BY DEF CpuInit
  <2>2. DOMAIN topology = on
    BY <2>1
  <2>3. CpuInv
    BY <2>1, <2>2 DEF CpuInit, CpuInv, Online
  <2> QED BY <2>3 DEF CpuInit, WorkerIsWellPlaced
<1>2. I /\ [PickWorkerCpu]_cpuVars => I'
  <2> SUFFICES ASSUME I, [PickWorkerCpu]_cpuVars PROVE I'
    OBVIOUS
  <2>1. CASE PickWorkerCpu
    <3>1. UNCHANGED <<topology, main_cpu>> /\ picked' = Choice
      BY <2>1 DEF PickWorkerCpu
    <3>2. CpuInv'
      BY <3>1 DEF CpuInv, Online
    <3>3. /\ NoHoles' = NoHoles /\ n_cpus' = n_cpus /\ Online' = Online
          /\ Neighbours' = Neighbours /\ \A c : Distance(c)' = Distance(c)
      BY <3>1 DEF NoHoles, n_cpus, Online, Neighbours, Distance
    <3> QED BY <3>1, <3>2, <3>3, ChoiceIsWell DEF WorkerIsWellPlaced
  <2>2. CASE UNCHANGED cpuVars
    BY <2>2 DEF cpuVars, CpuInv, WorkerIsWellPlaced, NoHoles, n_cpus, Online, Neighbours, Distance
  <2> QED BY <2>1, <2>2
<1> QED BY <1>1, <1>2, PTL DEF CpuSpec

-----------------------------------------------------------------------------
(***************************************************************************)
(* TraceAnswer.  The trace of A B^T, one product for each cell, is the sum *)
(* of the diagonal of the product matrix: its terms are the same, row by   *)
(* row.                                                                    *)
(***************************************************************************)
\* The operators of RunningSum are the same in every instance.
LEMMA TracesSum == \A u, n : Traces!SumTo(u, n) = SumTo(u, n)
BY Zenon DEF Traces!SumTo, SumTo

LEMMA SumsSum ==
    \A u, n, m : Sums!SumTo(u, n) = SumTo(u, n) /\ Sums!ReducedSumTo(u, n, m) = ReducedSumTo(u, n, m)
BY Zenon DEF Sums!SumTo, SumTo, Sums!ReducedSumTo, ReducedSumTo

\* Whole matrices of numbers.
TracesParsed == \A p \in 1 .. Size * Size : parsedA[p] \in Int /\ parsedB[p] \in Int

LEMMA TracesEqual ==
    ASSUME Size \in Nat \ {0}, TracesParsed
    PROVE  Traces!TraceABT = Traces!NaiveTrace
<1> DEFINE u == [j \in 1 .. Size * Size |-> Traces!A(j - 1) * Traces!B(j - 1)]
           row == [i \in 1 .. Size |->
                     [k \in 1 .. Size |-> parsedA[Size * (i - 1) + k] * parsedB[(Size * (k - 1) + (i - 1)) + 1]]]
           v == [i \in 1 .. Size |-> Traces!C(i - 1, i - 1)]
<1>1. Traces!TraceABT = SumTo(u, Size * Size) /\ Traces!NaiveTrace = SumTo(v, Size)
  BY TracesSum DEF Traces!TraceABT, Traces!NaiveTrace
<1>2. ASSUME NEW i \in 1 .. Size PROVE v[i] = SumTo(row[i], Size)
  BY TracesSum DEF Traces!C
<1>3. ASSUME NEW i \in 1 .. Size, NEW k \in 1 .. Size
      PROVE  row[i][k] = u[Size * (i - 1) + k] /\ row[i][k] \in Int
  <2> DEFINE j == Size * (i - 1) + k
             q == Size * (k - 1) + i
  <2>1. j \in 1 .. Size * Size /\ (j - 1) \div Size = i - 1 /\ (j - 1) % Size = k - 1 /\ q \in 1 .. Size * Size
    BY Cell
  <2>2. row[i][k] = parsedA[j] * parsedB[q]
    <3>1. (Size * (k - 1) + (i - 1)) + 1 = q
      OBVIOUS
    <3> HIDE DEF q
    <3> QED BY <3>1
  <2>3. parsedA[j] \in Int /\ parsedB[q] \in Int
    BY <2>1 DEF TracesParsed
  <2>4. (Size * (k - 1) + (i - 1)) + 1 = q
    OBVIOUS
  <2> HIDE DEF j, q, row
  <2>5. (j - 1) + 1 = j
    BY <2>1
  <2>6. Traces!A(j - 1) = parsedA[j]
    BY <2>5 DEF Traces!A
  <2>7. Traces!B(j - 1) = parsedB[q]
    BY <2>1, <2>4 DEF Traces!B
  <2>8. u[j] = parsedA[j] * parsedB[q]
    BY <2>1, <2>6, <2>7
  <2> HIDE DEF u
  <2> QED BY <2>2, <2>3, <2>8 DEF j
<1>4. Numbers(u, Size * Size)
  <2>1. ASSUME NEW j \in 1 .. Size * Size PROVE u[j] \in Int
    <3>1. parsedA[j] \in Int
      BY DEF TracesParsed
    <3>2. PICK q \in Int, r \in 0 .. Size - 1 : (j - 1) \div Size = q /\ (j - 1) % Size = r /\ j - 1 = Size * q + r
      BY Division
    <3>3. Size * r + q + 1 \in 1 .. Size * Size
      <4>1. q >= 0
        <5>1. CASE q <= -1
          <6>1. Size * q <= -Size
            BY <5>1
          <6> QED BY <6>1, <3>2
        <5> QED BY <5>1
      <4>2. q <= Size - 1
        <5>1. CASE q >= Size
          <6>1. Size * q >= Size * Size
            BY <5>1
          <6> QED BY <6>1, <3>2
        <5> QED BY <5>1
      <4>3. r + 1 \in 1 .. Size /\ q + 1 \in 1 .. Size
        BY <4>1, <4>2, <3>2
      <4> DEFINE i == r + 1
                 k == q + 1
      <4> HIDE DEF i, k
      <4>4. Size * (i - 1) + k \in 1 .. Size * Size
        BY <4>3, Cell DEF i, k
      <4>5. i - 1 = r /\ k = q + 1
        BY <3>2 DEF i, k
      <4> QED BY <4>4, <4>5, <3>2
    <3>4. parsedB[(Size * r + q) + 1] \in Int
      BY <3>3 DEF TracesParsed
    <3>5. Traces!B(j - 1) \in Int
      BY <3>2, <3>4 DEF Traces!B
    <3>6. Traces!A(j - 1) \in Int
      BY <3>1 DEF Traces!A
    <3> QED BY <3>5, <3>6
  <2> QED BY <2>1 DEF Numbers
<1> HIDE DEF u, row, v
<1>5. SumTo(u, Size * Size) = SumTo(v, Size)
  <2>1. RowsOf(row, u, Size, Size)
    BY <1>3 DEF RowsOf
  <2>2. SumsOf(v, row, Size, Size)
    BY <1>2 DEF SumsOf
  <2>3. Size \in Nat
    OBVIOUS
  <2> QED BY ONLY <1>4, <2>1, <2>2, <2>3, SumOfRows
<1> QED BY <1>1, <1>5

\* Never more values than a matrix has.
TracesInv ==
    /\ parsedA \in Seq(Traces!Values) /\ Len(parsedA) <= Size * Size
    /\ parsedB \in Seq(Traces!Values) /\ Len(parsedB) <= Size * Size

LEMMA LongerSeq ==
    ASSUME NEW S, NEW s \in Seq(S), NEW v \in S, NEW n \in Nat, Len(s) < n
    PROVE  Append(s, v) \in Seq(S) /\ Len(Append(s, v)) <= n
OBVIOUS

LEMMA TracesInductive ==
    /\ Traces!Init => TracesInv
    /\ TracesInv /\ [Traces!Next]_(Traces!vars) => TracesInv'
    /\ TracesInv => Traces!ClientsAgree
<1>0. Size \in Nat \ {0} /\ TraceMod \in Nat \ {0} /\ Size * Size \in Nat
  <2>1. Size \in Nat \ {0} /\ TraceMod \in Nat \ {0}
    BY ComparisonAssumption DEF Traces!ParameterAssumption
  <2> QED BY <2>1
<1> DEFINE n == Size * Size
           V == Traces!Values
<1>1. Traces!Init => TracesInv
  BY <1>0 DEF Traces!Init, TracesInv
<1>2. ASSUME TracesInv, [Traces!Next]_(Traces!vars) PROVE TracesInv'
  <2>1. V' = V
    BY DEF Traces!Values
  <2>2. n \in Nat
    BY <1>0
  <2>3. parsedA \in Seq(V) /\ Len(parsedA) <= n /\ parsedB \in Seq(V) /\ Len(parsedB) <= n
    BY <1>2 DEF TracesInv
  <2>4. CASE UNCHANGED Traces!vars
    BY <2>4, <1>2 DEF Traces!vars, TracesInv, Traces!Values
  <2>5. CASE Traces!Answer
    BY <2>5, <1>0 DEF Traces!Answer, TracesInv
  <2>6. ASSUME NEW v \in V, Traces!ParseA(v) PROVE TracesInv'
    <3>1. Len(parsedA) < n /\ parsedA' = Append(parsedA, v) /\ parsedB' = parsedB
      BY <2>6 DEF Traces!ParseA
    <3>2. parsedA' \in Seq(V) /\ Len(parsedA') <= n /\ parsedB' \in Seq(V) /\ Len(parsedB') <= n
      <4> HIDE DEF V, n
      <4>1. Append(parsedA, v) \in Seq(V) /\ Len(Append(parsedA, v)) <= n
        BY <2>2, <2>3, <3>1, LongerSeq
      <4> QED BY <4>1, <2>3, <3>1
    <3> QED BY <3>2 DEF TracesInv, Traces!Values
  <2>7. ASSUME NEW v \in V, Traces!ParseB(v) PROVE TracesInv'
    <3>1. Len(parsedB) < n /\ parsedB' = Append(parsedB, v) /\ parsedA' = parsedA
      BY <2>7 DEF Traces!ParseB
    <3>2. parsedA' \in Seq(V) /\ Len(parsedA') <= n /\ parsedB' \in Seq(V) /\ Len(parsedB') <= n
      <4> HIDE DEF V, n
      <4>1. Append(parsedB, v) \in Seq(V) /\ Len(Append(parsedB, v)) <= n
        BY <2>2, <2>3, <3>1, LongerSeq
      <4> QED BY <4>1, <2>3, <3>1
    <3> QED BY <3>2 DEF TracesInv, Traces!Values
  <2>8. UNCHANGED Traces!vars \/ Traces!Answer \/ \E v \in V : Traces!ParseA(v) \/ Traces!ParseB(v)
    BY <1>2 DEF Traces!Next
  <2> QED BY <2>4, <2>5, <2>6, <2>7, <2>8
<1>3. ASSUME TracesInv, Traces!Parsed PROVE Traces!TraceABT = Traces!NaiveTrace
  <2>1. V \subseteq Int
    BY <1>0 DEF Traces!Values
  <2>2. parsedA \in Seq(V) /\ Len(parsedA) = n /\ parsedB \in Seq(V) /\ Len(parsedB) = n
    BY <1>3 DEF TracesInv, Traces!Parsed
  <2>3. TracesParsed
    <3> HIDE DEF V, n
    <3>0. \A p \in 1 .. n : parsedA[p] \in V /\ parsedB[p] \in V
      BY <2>2
    <3>1. \A p \in 1 .. n : parsedA[p] \in Int /\ parsedB[p] \in Int
      BY <2>1, <3>0
    <3> QED BY <3>1 DEF TracesParsed, n
  <2> QED BY <2>3, <1>0, TracesEqual
<1>4. TracesInv => Traces!ClientsAgree
  BY <1>3 DEF Traces!ClientsAgree
<1> QED BY <1>1, <1>2, <1>4

LEMMA TracesAgree == Traces!Spec => []Traces!ClientsAgree
BY TracesInductive, PTL DEF Traces!Spec

-----------------------------------------------------------------------------
(***************************************************************************)
(* Checksum.  While A is read colA holds the sums of its columns, over the *)
(* cells read so far; while B is read the rows that are complete have each *)
(* met the sum of their column, and sumB is the sum of the next row so     *)
(* far.  Once both are read, the sum of the entries of the product is that *)
(* of column sums times row sums: the double sum taken in the other order. *)
(***************************************************************************)
\* Column k of the values of A read so far, and row k of those of B.
Column(a, k) ==
    [i \in 1 .. Size |-> IF Size * (i - 1) + k <= Len(a) THEN a[Size * (i - 1) + k] ELSE 0]

RowOf(b, k) == [j \in 1 .. Size |-> b[Size * (k - 1) + j]]

\* What the row sums of B contribute, each with its column sum.
Met(cols, b) == [k \in 1 .. Size |-> cols[k - 1] * SumTo(RowOf(b, k), Size)]

ReadOf(s) == s \in Seq(Sums!Values) /\ Len(s) <= Size * Size

ColumnsOK(a, cols) ==
    /\ cols \in [Sums!Positions -> Int]
    /\ \A k \in 1 .. Size : cols[k - 1] = SumTo(Column(a, k), Size)

\* r rows of B are met, and s is the sum of the first c values of the next.
RowsOK(b, cols, s, sum, r, c) ==
    /\ Len(b) = Size * r + c
    /\ s = SumTo(RowOf(b, r + 1), c)
    /\ sum = SumTo(Met(cols, b), r)

SumsInv ==
    /\ ReadOf(matrixA) /\ ReadOf(matrixB)
    /\ Len(matrixB) = 0 \/ Len(matrixA) = Size * Size
    /\ ColumnsOK(matrixA, colA)
    /\ \E r \in 0 .. Size, c \in 0 .. Size - 1 : RowsOK(matrixB, colA, sumB, checksum, r, c)

LEMMA SumsConstants ==
    Size \in Nat \ {0} /\ SumMod \in Nat \ {0} /\ Sums!Values \subseteq Int /\ Size * Size \in Nat
BY ComparisonAssumption DEF Sums!ParameterAssumption, Sums!Values

\* What is read are numbers.
LEMMA ReadValues ==
    ASSUME NEW s, ReadOf(s)
    PROVE  \A p \in 1 .. Len(s) : s[p] \in Int
<1>1. \A p \in 1 .. Len(s) : s[p] \in Sums!Values
  BY DEF ReadOf
<1> QED BY <1>1, SumsConstants

LEMMA ColumnNumbers ==
    ASSUME NEW a, ReadOf(a), NEW k \in 1 .. Size
    PROVE  Numbers(Column(a, k), Size)
<1>1. ASSUME NEW i \in 1 .. Size PROVE Column(a, k)[i] \in Int
  <2> DEFINE p == Size * (i - 1) + k
  <2>1. p \in 1 .. Size * Size
    BY Cell, SumsConstants
  <2>2. p <= Len(a) => a[p] \in Int
    <3> HIDE DEF p
    <3>1. p \in Int /\ p >= 1
      BY <2>1, SumsConstants
    <3> QED BY <3>1, ReadValues DEF ReadOf
  <2>3. Column(a, k)[i] = IF p <= Len(a) THEN a[p] ELSE 0
    BY DEF Column
  <2> HIDE DEF p
  <2> QED BY <2>2, <2>3
<1> QED BY <1>1 DEF Numbers

\* Two cells are at one place only if they are the same.
LEMMA OneCell ==
    ASSUME NEW i \in 1 .. Size, NEW k \in 1 .. Size, NEW h \in 1 .. Size, NEW j \in 1 .. Size,
           Size * (i - 1) + k = Size * (h - 1) + j
    PROVE  i = h /\ k = j
<1> DEFINE p == Size * (i - 1) + k
<1>0. p = Size * (h - 1) + j
  OBVIOUS
<1>1. (p - 1) \div Size = i - 1 /\ (p - 1) % Size = k - 1
  BY Cell, SumsConstants
<1>2. (p - 1) \div Size = h - 1 /\ (p - 1) % Size = j - 1
  <2> HIDE DEF p
  <2> QED BY <1>0, Cell, SumsConstants
<1> HIDE DEF p
<1> QED BY <1>1, <1>2

LEMMA ColumnsAfterRead ==
    ASSUME NEW a, ReadOf(a), Len(a) < Size * Size, NEW v \in Sums!Values, NEW cols, ColumnsOK(a, cols)
    PROVE  ColumnsOK(Append(a, v), [cols EXCEPT ![Len(a) % Size] = @ + v])
<1> DEFINE L == Len(a)
           b == Append(a, v)
<1>0. Size \in Nat \ {0} /\ v \in Int /\ L \in Nat /\ L < Size * Size /\ Size * Size \in Nat
  BY SumsConstants DEF ReadOf
<1>1. PICK q \in Int, c \in 0 .. Size - 1 : L \div Size = q /\ L % Size = c /\ L = Size * q + c
  <2>1. L \in Int
    BY <1>0
  <2> HIDE DEF L
  <2> QED BY <2>1, SumsConstants, Division
<1>2. b \in Seq(Sums!Values) /\ Len(b) = L + 1 /\ b[L + 1] = v /\ \A p \in 1 .. L : b[p] = a[p]
  BY DEF ReadOf
<1> HIDE DEF L, b
<1>3. q \in 0 .. Size - 1
  <2>1. CASE q <= -1
    <3>1. Size * q <= -Size
      BY <2>1, <1>0
    <3> QED BY <3>1, <1>0, <1>1
  <2>2. CASE q >= Size
    <3>1. Size * q >= Size * Size
      BY <2>2, <1>0
    <3> QED BY <3>1, <1>0, <1>1
  <2> QED BY <2>1, <2>2, <1>0
<1> DEFINE new == [cols EXCEPT ![c] = @ + v]
<1>4. /\ cols \in [Sums!Positions -> Int] /\ c \in Sums!Positions
      /\ \A k \in 1 .. Size : cols[k - 1] = SumTo(Column(a, k), Size)
  BY DEF ColumnsOK, Sums!Positions
<1>5. /\ new \in [Sums!Positions -> Int]
      /\ \A k \in Sums!Positions : new[k] = IF k = c THEN cols[c] + v ELSE cols[k]
  BY <1>4, <1>0
<1>6. ASSUME NEW k \in 1 .. Size, NEW i \in 1 .. Size
      PROVE  /\ k = c + 1 /\ i = q + 1 => Column(b, k)[i] = Column(a, k)[i] + v
             /\ ~(k = c + 1 /\ i = q + 1) => Column(b, k)[i] = Column(a, k)[i]
  <2> DEFINE p == Size * (i - 1) + k
  <2>1. p \in Int /\ p >= 1
    BY Cell, SumsConstants
  <2>2. k = c + 1 /\ i = q + 1 <=> p = L + 1
    <3>1. ASSUME k = c + 1, i = q + 1 PROVE p = L + 1
      <4>1. i - 1 = q
        BY <3>1, <1>3
      <4> QED BY <3>1, <4>1, <1>0, <1>1
    <3>2. ASSUME p = L + 1 PROVE k = c + 1 /\ i = q + 1
      <4> DEFINE h == q + 1
                 j == c + 1
      <4>1. h \in 1 .. Size /\ j \in 1 .. Size /\ h - 1 = q
        BY <1>0, <1>3
      <4>2. Size * (h - 1) + j = L + 1
        BY <4>1, <1>0, <1>1
      <4> HIDE DEF h, j
      <4>3. Size * (i - 1) + k = Size * (h - 1) + j
        BY <3>2, <4>2
      <4>4. i = h /\ k = j
        BY <4>1, <4>3, OneCell
      <4> QED BY <4>4 DEF h, j
    <3> QED BY <3>1, <3>2
  <2>3. /\ Column(a, k)[i] = IF p <= L THEN a[p] ELSE 0
        /\ Column(b, k)[i] = IF p <= L + 1 THEN b[p] ELSE 0
    BY <1>2 DEF Column, L
  <2> HIDE DEF p
  <2>4. CASE p <= L
    BY <2>1, <2>2, <2>3, <2>4, <1>0, <1>2
  <2>5. CASE p = L + 1
    BY <2>1, <2>2, <2>3, <2>5, <1>0, <1>2
  <2>6. CASE p > L + 1
    BY <2>1, <2>2, <2>3, <2>6, <1>0, <1>2
  <2> QED BY <2>1, <2>4, <2>5, <2>6, <1>0
<1>7. ASSUME NEW k \in 1 .. Size PROVE new[k - 1] = SumTo(Column(b, k), Size)
  <2> DEFINE x == Column(a, k)
             y == Column(b, k)
  <2>0. k - 1 \in Sums!Positions
    BY <1>0 DEF Sums!Positions
  <2>1. Numbers(x, Size)
    BY ColumnNumbers
  <2>2. CASE k = c + 1
    <3> DEFINE r == q + 1
    <3>1. r \in 1 .. Size
      BY <1>0, <1>3
    <3>2. y[r] = x[r] + v /\ \A i \in 1 .. Size : i # r => y[i] = x[i]
      BY <1>6, <2>2, <3>1
    <3> HIDE DEF x, y, r
    <3>3. SumTo(y, Size) = SumTo(x, Size) + v
      BY <1>0, <2>1, <3>1, <3>2, SumChanged
    <3>4. new[k - 1] = cols[k - 1] + v
      BY <2>0, <2>2, <1>5
    <3> HIDE DEF new
    <3> QED BY <1>4, <3>3, <3>4 DEF x, y
  <2>3. CASE k # c + 1
    <3>1. \A i \in 1 .. Size : y[i] = x[i]
      BY <1>6, <2>3
    <3> HIDE DEF x, y
    <3>2. SumTo(y, Size) = SumTo(x, Size)
      BY <1>0, <3>1, SameSums
    <3>3. k - 1 # c
      BY <2>3, <1>0
    <3>4. new[k - 1] = cols[k - 1]
      BY <2>0, <3>3, <1>5
    <3> HIDE DEF new
    <3> QED BY <1>4, <3>2, <3>4 DEF x, y
  <2> QED BY <2>2, <2>3
<1>8. ColumnsOK(b, new)
  <2> HIDE DEF new
  <2> QED BY <1>5, <1>7 DEF ColumnsOK
<1> QED BY <1>1, <1>8 DEF b, L

LEMMA ColumnsAtStart == ColumnsOK(<<>>, [k \in Sums!Positions |-> 0])
<1> DEFINE cols == [k \in Sums!Positions |-> 0]
<1>0. Size \in Nat
  BY SumsConstants
<1>1. ASSUME NEW k \in 1 .. Size PROVE cols[k - 1] = SumTo(Column(<<>>, k), Size)
  <2> DEFINE x == Column(<<>>, k)
  <2>1. ASSUME NEW i \in 1 .. Size PROVE x[i] = 0
    <3>1. Size * (i - 1) + k >= 1 /\ Size * (i - 1) + k \in Int
      BY Cell, SumsConstants
    <3> QED BY <3>1 DEF Column
  <2> HIDE DEF x
  <2>2. SumTo(x, Size) = 0
    BY <1>0, <2>1, SumOfNothing
  <2>3. cols[k - 1] = 0
    BY <1>0 DEF Sums!Positions
  <2> QED BY <2>2, <2>3 DEF x
<1>2. cols \in [Sums!Positions -> Int]
  OBVIOUS
<1> HIDE DEF cols
<1>3. ColumnsOK(<<>>, cols)
  BY <1>1, <1>2 DEF ColumnsOK
<1> QED BY <1>3 DEF cols

\* Before a value of B is read the rows are as they were, with any columns.
LEMMA RowsAtStart ==
    ASSUME NEW cols
    PROVE  \E r \in 0 .. Size, c \in 0 .. Size - 1 : RowsOK(<<>>, cols, 0, 0, r, c)
<1>1. Size \in Nat \ {0} /\ Size * 0 + 0 = 0
  BY SumsConstants
<1>2. RowsOK(<<>>, cols, 0, 0, 0, 0)
  BY <1>1, SumToNone DEF RowsOK
<1> QED BY <1>1, <1>2

LEMMA NothingRead ==
    ASSUME NEW b, Len(b) = 0, NEW cols, NEW new, NEW s, NEW sum,
           NEW r \in 0 .. Size, NEW c \in 0 .. Size - 1, RowsOK(b, cols, s, sum, r, c)
    PROVE  RowsOK(b, new, s, sum, r, c)
<1>1. Size \in Nat \ {0} /\ 0 = Size * r + c
  BY SumsConstants DEF RowsOK
<1>2. r = 0
  <2>1. CASE r >= 1
    <3>1. Size * r >= Size
      BY <2>1, <1>1
    <3> QED BY <1>1, <3>1
  <2> QED BY <2>1, <1>1
<1>3. SumTo(Met(cols, b), 0) = SumTo(Met(new, b), 0)
  BY SumToNone
<1> QED BY <1>2, <1>3 DEF RowsOK

\* A value more leaves the rows before it as they were.
LEMMA RowsKept ==
    ASSUME NEW b, ReadOf(b), Len(b) < Size * Size, NEW v \in Sums!Values,
           NEW r \in 0 .. Size, NEW c \in 0 .. Size - 1, Len(b) = Size * r + c
    PROVE  /\ r < Size
           /\ \A k \in 1 .. r : \A j \in 1 .. Size : RowOf(Append(b, v), k)[j] = RowOf(b, k)[j]
           /\ \A j \in 1 .. c : RowOf(Append(b, v), r + 1)[j] = RowOf(b, r + 1)[j]
           /\ RowOf(Append(b, v), r + 1)[c + 1] = v
<1> DEFINE L == Len(b)
           d == Append(b, v)
<1>0. Size \in Nat \ {0} /\ L \in Nat /\ L < Size * Size /\ Size * Size \in Nat
  BY SumsConstants DEF ReadOf
<1>1. Len(d) = L + 1 /\ d[L + 1] = v /\ \A p \in 1 .. L : d[p] = b[p]
  BY DEF ReadOf
<1>2. L = Size * r + c
  OBVIOUS
<1> HIDE DEF L, d
<1>3. r < Size
  <2>1. CASE r = Size
    BY <2>1, <1>0, <1>2
  <2> QED BY <2>1, <1>0
<1>4. ASSUME NEW k \in 1 .. r, NEW j \in 1 .. Size PROVE RowOf(d, k)[j] = RowOf(b, k)[j]
  <2> DEFINE p == Size * (k - 1) + j
  <2>1. p >= 1 /\ p \in Int
    BY <1>3, <1>0, Cell
  <2>2. p <= L
    <3>1. r - k \in Nat /\ r \in Nat /\ k \in Nat
      BY <1>0
    <3>2. Size * r = (Size * (k - 1) + Size) + Size * (r - k)
      BY <3>1, <1>0
    <3>3. Size * (r - k) \in Nat /\ Size * (k - 1) \in Int /\ Size * r \in Int
      BY <3>1, <1>0
    <3> QED BY <3>2, <3>3, <1>0, <1>2
  <2>3. RowOf(d, k)[j] = d[p] /\ RowOf(b, k)[j] = b[p]
    BY DEF RowOf
  <2> HIDE DEF p
  <2> QED BY <2>1, <2>2, <2>3, <1>0, <1>1
<1>5. (r + 1) - 1 = r /\ Size * r \in Nat
  BY <1>0
<1>6. ASSUME NEW j \in 1 .. c PROVE RowOf(d, r + 1)[j] = RowOf(b, r + 1)[j]
  <2> DEFINE p == Size * r + j
  <2>1. p \in 1 .. L
    BY <1>0, <1>2, <1>5
  <2>2. RowOf(d, r + 1)[j] = d[p] /\ RowOf(b, r + 1)[j] = b[p]
    BY <1>0, <1>5 DEF RowOf
  <2> HIDE DEF p
  <2> QED BY <2>1, <2>2, <1>1
<1>7. RowOf(d, r + 1)[c + 1] = v
  <2> DEFINE p == Size * r + (c + 1)
  <2>1. p = L + 1
    BY <1>0, <1>2, <1>5
  <2>2. RowOf(d, r + 1)[c + 1] = d[p]
    BY <1>0, <1>5 DEF RowOf
  <2> HIDE DEF p
  <2> QED BY <2>1, <2>2, <1>1
<1> QED BY <1>3, <1>4, <1>6, <1>7 DEF d

LEMMA RowNumbers ==
    ASSUME NEW b, ReadOf(b), NEW k \in 1 .. Size, NEW c \in 0 .. Size, Size * (k - 1) + c <= Len(b)
    PROVE  Numbers(RowOf(b, k), c)
<1>0. Size \in Nat \ {0} /\ Len(b) \in Nat
  BY SumsConstants DEF ReadOf
<1>1. ASSUME NEW j \in 1 .. c PROVE RowOf(b, k)[j] \in Int
  <2> DEFINE p == Size * (k - 1) + j
  <2>1. p >= 1 /\ p \in Int
    BY <1>0, Cell
  <2>2. p <= Len(b)
    <3>1. Size * (k - 1) \in Int
      BY <1>0
    <3> QED BY <3>1, <1>0
  <2>3. RowOf(b, k)[j] = b[p]
    BY <1>0 DEF RowOf
  <2> HIDE DEF p
  <2>4. b[p] \in Int
    BY <2>1, <2>2, <1>0, ReadValues
  <2> QED BY <2>3, <2>4
<1> QED BY <1>1 DEF Numbers

\* What ReadB makes of the sums.
LEMMA RowsAfterRead ==
    ASSUME NEW b, ReadOf(b), Len(b) < Size * Size, NEW v \in Sums!Values,
           NEW cols, cols \in [Sums!Positions -> Int], NEW s, NEW sum,
           NEW r \in 0 .. Size, NEW c \in 0 .. Size - 1, RowsOK(b, cols, s, sum, r, c)
    PROVE  /\ c + 1 # Size => /\ (Len(b) + 1) % Size # 0
                              /\ RowsOK(Append(b, v), cols, s + v, sum, r, c + 1)
           /\ c + 1 = Size => /\ (Len(b) + 1) % Size = 0
                              /\ RowsOK(Append(b, v), cols, 0,
                                    sum + cols[Len(b) \div Size] * (s + v), r + 1, 0)
<1> DEFINE L == Len(b)
           d == Append(b, v)
           k == r + 1
           x == RowOf(b, k)
           y == RowOf(d, k)
           met == Met(cols, b)
           new == Met(cols, d)
<1>0. Size \in Nat \ {0} /\ L \in Nat /\ v \in Int /\ Len(d) = L + 1
  BY SumsConstants DEF ReadOf
<1>1. L = Size * r + c /\ s = SumTo(x, c) /\ sum = SumTo(met, r)
  BY DEF RowsOK
<1>2. /\ r < Size
      /\ \A h \in 1 .. r : \A j \in 1 .. Size : RowOf(d, h)[j] = RowOf(b, h)[j]
      /\ \A j \in 1 .. c : y[j] = x[j]
      /\ y[c + 1] = v
  BY <1>1, RowsKept
<1>3. Size * r \in Nat /\ Size * (r + 1) = Size * r + Size /\ L \div Size = r
  <2>1. Size * r \in Nat /\ Size * (r + 1) = Size * r + Size
    BY <1>0
  <2> HIDE DEF L
  <2>2. r \in Int /\ c \in 0 .. Size - 1
    BY <1>0
  <2> QED BY <2>1, <2>2, <1>0, <1>1, DivisionIs
<1>4. SumTo(y, c + 1) = s + v
  <2> HIDE DEF x, y
  <2>1. c \in Nat
    BY <1>0
  <2>2. SumTo(y, c + 1) = SumTo(x, c) + y[c + 1]
    BY <2>1, <1>2, SumToNext
  <2> QED BY <2>2, <1>1, <1>2
<1>5. \A h \in 1 .. r : new[h] = met[h]
  <2>1. ASSUME NEW h \in 1 .. r PROVE new[h] = met[h]
    <3> DEFINE p == RowOf(b, h)
               q == RowOf(d, h)
    <3>1. \A j \in 1 .. Size : q[j] = p[j]
      BY <1>2
    <3>2. new[h] = cols[h - 1] * SumTo(q, Size) /\ met[h] = cols[h - 1] * SumTo(p, Size)
      BY <1>0, <1>2 DEF Met
    <3> HIDE DEF p, q, new, met
    <3>3. SumTo(q, Size) = SumTo(p, Size)
      BY <1>0, <3>1, SameSums
    <3> QED BY <3>2, <3>3
  <2> QED BY <2>1
<1>6. SumTo(new, r) = sum
  <2> HIDE DEF new, met
  <2>1. SumTo(new, r) = SumTo(met, r)
    BY <1>5, SameSums
  <2> QED BY <2>1, <1>1
<1>7. ASSUME c + 1 # Size
      PROVE  (L + 1) % Size # 0 /\ RowsOK(d, cols, s + v, sum, r, c + 1)
  <2> DEFINE j == c + 1
             z == L + 1
  <2>1. j \in 0 .. Size - 1 /\ r \in Int /\ z = Size * r + j /\ j # 0
    BY <1>0, <1>1, <1>3, <1>7
  <2>2. z % Size = j
    <3> HIDE DEF j, z
    <3> QED BY <2>1, <1>0, DivisionIs
  <2>3. RowsOK(d, cols, s + v, sum, r, j)
    <3>1. Len(d) = Size * r + j
      BY <1>0, <2>1
    <3> HIDE DEF d
    <3> QED BY <3>1, <1>4, <1>6 DEF RowsOK
  <2> QED BY <2>1, <2>2, <2>3
<1>8. ASSUME c + 1 = Size
      PROVE  (L + 1) % Size = 0 /\ RowsOK(d, cols, 0, sum + cols[L \div Size] * (s + v), r + 1, 0)
  <2> DEFINE z == L + 1
             h == r + 1
             u == sum + cols[r] * (s + v)
  <2>1. z = Size * h + 0 /\ h \in Int /\ 0 \in 0 .. Size - 1 /\ r \in Nat
    BY <1>0, <1>1, <1>3, <1>8
  <2>2. z % Size = 0
    <3> HIDE DEF h, z
    <3> QED BY <2>1, <1>0, DivisionIs
  <2>3. new[h] = cols[r] * (s + v)
    <3>1. h \in 1 .. Size /\ h - 1 = r
      BY <1>0, <1>2
    <3>2. new[h] = cols[h - 1] * SumTo(y, Size)
      BY <3>1 DEF Met
    <3> HIDE DEF y, new
    <3> QED BY <3>1, <3>2, <1>4, <1>8
  <2>4. SumTo(new, h) = u
    <3> HIDE DEF new
    <3>1. SumTo(new, r + 1) = SumTo(new, r) + new[r + 1]
      BY <2>1, SumToNext
    <3> QED BY <3>1, <2>3, <1>6
  <2>5. SumTo(RowOf(d, h + 1), 0) = 0
    BY SumToNone
  <2>6. RowsOK(d, cols, 0, u, h, 0)
    <3>1. Len(d) = Size * h + 0
      BY <1>0, <2>1
    <3> HIDE DEF d, h, u
    <3> QED BY <3>1, <2>4, <2>5 DEF RowsOK, new
  <2> QED BY <2>2, <2>6, <1>3
<1> QED BY <1>7, <1>8

\* Once both matrices are read, what is met is the sum of the product.
LEMMA AnswerIs ==
    ASSUME SumsInv, Len(matrixB) = Size * Size
    PROVE  checksum % SumMod = Sums!ComputeChecksum
<1> DEFINE n == Size
           prod(i, j) == [k \in 1 .. n |-> matrixA[n * (i - 1) + k] * matrixB[n * (k - 1) + j]]
           z == [p \in 1 .. n * n |-> SumTo(prod(((p - 1) \div n) + 1, ((p - 1) % n) + 1), n)]
           w == [p \in 1 .. n * n |-> Sums!RowC((p - 1) \div n, (p - 1) % n)]
           met == Met(colA, matrixB)
<1>0. n \in Nat \ {0} /\ SumMod \in Nat \ {0} /\ n * n \in Nat /\ n * n >= 1
  BY SumsConstants
<1>1. /\ Len(matrixA) = n * n /\ Len(matrixB) = n * n
      /\ ReadOf(matrixA) /\ ReadOf(matrixB) /\ ColumnsOK(matrixA, colA)
  BY <1>0 DEF SumsInv
<1>2. Numbers(matrixA, n * n) /\ Numbers(matrixB, n * n)
  BY <1>1, ReadValues DEF Numbers
<1>3. checksum = SumTo(met, n)
  <2>1. PICK r \in 0 .. Size, c \in 0 .. Size - 1 : RowsOK(matrixB, colA, sumB, checksum, r, c)
    BY DEF SumsInv
  <2>2. n * n = n * r + c
    BY <1>1, <2>1 DEF RowsOK
  <2>3. r = n
    <3>1. CASE r <= n - 1
      <4>1. n * r <= n * (n - 1)
        BY <3>1, <1>0
      <4>2. n * (n - 1) = n * n - n
        BY <1>0
      <4> QED BY <4>1, <4>2, <2>2, <1>0
    <3> QED BY <3>1, <1>0
  <2> QED BY <2>1, <2>3 DEF RowsOK
<1>4. ASSUME NEW i \in 1 .. n, NEW j \in 1 .. n PROVE Numbers(prod(i, j), n)
  <2>1. ASSUME NEW k \in 1 .. n PROVE prod(i, j)[k] \in Int
    <3> DEFINE p == n * (i - 1) + k
               q == n * (k - 1) + j
    <3>1. p \in 1 .. n * n /\ q \in 1 .. n * n
      BY <1>0, Cell
    <3>2. matrixA[p] \in Int /\ matrixB[q] \in Int
      BY <3>1, <1>2 DEF Numbers
    <3>3. prod(i, j)[k] = matrixA[p] * matrixB[q]
      OBVIOUS
    <3> HIDE DEF p, q, prod
    <3> QED BY <3>2, <3>3
  <2> QED BY <2>1 DEF Numbers
<1>5. ASSUME NEW p \in 1 .. n * n
      PROVE  \E i, j \in 1 .. n : (p - 1) \div n = i - 1 /\ (p - 1) % n = j - 1 /\ p = n * (i - 1) + j
  <2>1. PICK q \in Int, r \in 0 .. n - 1 : (p - 1) \div n = q /\ (p - 1) % n = r /\ p - 1 = n * q + r
    BY <1>0, Division
  <2>2. q >= 0
    <3>1. CASE q <= -1
      <4>1. n * q <= -n
        BY <3>1, <1>0
      <4> QED BY <4>1, <2>1, <1>0
    <3> QED BY <3>1
  <2>3. q <= n - 1
    <3>1. CASE q >= n
      <4>1. n * q >= n * n
        BY <3>1, <1>0
      <4> QED BY <4>1, <2>1, <1>0
    <3> QED BY <3>1, <1>0
  <2>4. q + 1 \in 1 .. n /\ r + 1 \in 1 .. n /\ (q + 1) - 1 = q /\ (r + 1) - 1 = r /\ p = n * q + (r + 1)
    <3>1. n * q \in Int
      BY <1>0
    <3> QED BY <3>1, <2>1, <2>2, <2>3, <1>0
  <2> QED BY <2>1, <2>4
<1>6. ASSUME NEW p \in 1 .. n * n PROVE z[p] \in Int /\ w[p] = z[p] % SumMod
  <2>1. PICK i, j \in 1 .. n : (p - 1) \div n = i - 1 /\ (p - 1) % n = j - 1 /\ p = n * (i - 1) + j
    BY <1>5
  <2> DEFINE x == prod(i, j)
             y == [k \in 1 .. n |-> x[k] % SumMod]
  <2>2. Numbers(x, n)
    BY <1>4
  <2>3. z[p] = SumTo(x, n)
    <3>1. ((p - 1) \div n) + 1 = i /\ ((p - 1) % n) + 1 = j
      BY <2>1
    <3> HIDE DEF prod
    <3> QED BY <3>1
  <2>4. w[p] = ReducedSumTo(y, n, SumMod)
    <3>1. w[p] = Sums!RowC(i - 1, j - 1)
      BY <2>1
    <3>2. ASSUME NEW k \in 1 .. n PROVE Sums!Product(i - 1, j - 1, k) = x[k]
      <4>1. (n * (k - 1) + (j - 1)) + 1 = n * (k - 1) + j
        <5>1. n * (k - 1) \in Int
          BY <1>0
        <5> QED BY <5>1
      <4> QED BY <4>1 DEF Sums!Product
    <3> HIDE DEF x, w
    <3>3. [k \in 1 .. n |-> Sums!Product(i - 1, j - 1, k) % SumMod] = y
      BY <3>2
    <3> QED BY <3>1, <3>3, SumsSum DEF Sums!RowC
  <2> HIDE DEF x, z, w
  <2>5. Numbers(y, n)
    <3>1. ASSUME NEW k \in 1 .. n PROVE x[k] % SumMod \in Int
      <4>1. x[k] \in Int
        BY <2>2 DEF Numbers
      <4> QED BY <4>1, <1>0
    <3> QED BY <3>1 DEF Numbers
  <2>6. \A k \in 1 .. n : y[k] = x[k] % SumMod
    OBVIOUS
  <2> HIDE DEF y
  <2>7. ReducedSumTo(y, n, SumMod) = SumTo(y, n) % SumMod
    BY <2>5, <1>0, ReducedSumIs
  <2>8. SumTo(y, n) % SumMod = SumTo(x, n) % SumMod
    BY <2>2, <2>6, <1>0, SumOfRemainders
  <2>9. SumTo(x, n) \in Int
    BY <2>2, <1>0, SumsAreInts
  <2> QED BY <2>3, <2>4, <2>7, <2>8, <2>9
<1>7. Sums!ComputeChecksum = ReducedSumTo(w, n * n, SumMod)
  BY SumsSum DEF Sums!ComputeChecksum
<1>8. ReducedSumTo(w, n * n, SumMod) = SumTo(z, n * n) % SumMod
  <2> DEFINE m == n * n
  <2>1. m \in Nat /\ \A p \in 1 .. m : z[p] \in Int /\ w[p] = z[p] % SumMod
    BY <1>0, <1>6
  <2> HIDE DEF m, z, w
  <2>2. Numbers(z, m)
    BY <2>1 DEF Numbers
  <2>3. Numbers(w, m)
    <3>1. ASSUME NEW p \in 1 .. m PROVE w[p] \in Int
      BY <2>1, <1>0
    <3> QED BY <3>1 DEF Numbers
  <2>4. ReducedSumTo(w, m, SumMod) = SumTo(w, m) % SumMod
    BY <2>1, <2>3, <1>0, ReducedSumIs
  <2>5. SumTo(w, m) % SumMod = SumTo(z, m) % SumMod
    BY <2>1, <2>2, <1>0, SumOfRemainders
  <2>6. ReducedSumTo(w, m, SumMod) = SumTo(z, m) % SumMod
    BY <2>4, <2>5
  <2> QED BY <2>6 DEF m
<1>9. SumTo(z, n * n) = SumTo(met, n)
  <2>1. ASSUME NEW i \in 1 .. n, NEW j \in 1 .. n
        PROVE  z[n * (i - 1) + j] = SumTo(prod(i, j), n)
    <3> DEFINE p == n * (i - 1) + j
    <3>1. p \in 1 .. n * n /\ (p - 1) \div n = i - 1 /\ (p - 1) % n = j - 1
      BY <1>0, Cell
    <3>2. (i - 1) + 1 = i /\ (j - 1) + 1 = j
      OBVIOUS
    <3> HIDE DEF p, prod
    <3>3. z[p] = SumTo(prod(i, j), n)
      BY <3>1, <3>2
    <3> QED BY <3>3 DEF p
  <2>2. ASSUME NEW k \in 1 .. n
        PROVE  met[k] = SumTo([i \in 1 .. n |-> matrixA[n * (i - 1) + k]], n)
                         * SumTo([j \in 1 .. n |-> matrixB[n * (k - 1) + j]], n)
    <3> DEFINE c == [i \in 1 .. n |-> matrixA[n * (i - 1) + k]]
    <3>1. colA[k - 1] = SumTo(Column(matrixA, k), n)
      BY <1>1 DEF ColumnsOK
    <3>2. Column(matrixA, k) = c
      <4>1. \A i \in 1 .. n : n * (i - 1) + k <= Len(matrixA)
        BY <1>0, <1>1, Cell
      <4> QED BY <4>1 DEF Column
    <3>3. met[k] = colA[k - 1] * SumTo(RowOf(matrixB, k), n)
      BY DEF Met
    <3>4. RowOf(matrixB, k) = [j \in 1 .. n |-> matrixB[n * (k - 1) + j]]
      BY DEF RowOf
    <3> HIDE DEF c, met
    <3>5. met[k] = SumTo(c, n) * SumTo([j \in 1 .. n |-> matrixB[n * (k - 1) + j]], n)
      BY <3>1, <3>2, <3>3, <3>4
    <3> QED BY <3>5 DEF c
  <2>3. Numbers(z, n * n)
    <3> HIDE DEF z
    <3> QED BY <1>6 DEF Numbers
  <2> HIDE DEF z, met
  <2>4. EntriesOfProduct(z, matrixA, matrixB, n)
    BY <2>1 DEF EntriesOfProduct
  <2>5. SumsMultiplied(met, matrixA, matrixB, n)
    BY <2>2 DEF SumsMultiplied
  <2> QED BY ONLY <1>0, <1>2, <2>3, <2>4, <2>5, SumOfProduct
<1> HIDE DEF z, w, met
<1> QED BY <1>3, <1>7, <1>8, <1>9

\* SumsInv of given values, with no prime inside.
SumsOK(a, b, cols, s, sum) ==
    /\ ReadOf(a) /\ ReadOf(b)
    /\ Len(b) = 0 \/ Len(a) = Size * Size
    /\ ColumnsOK(a, cols)
    /\ \E r \in 0 .. Size, c \in 0 .. Size - 1 : RowsOK(b, cols, s, sum, r, c)

LEMMA SumsInvIs ==
    /\ SumsInv <=> SumsOK(matrixA, matrixB, colA, sumB, checksum)
    /\ SumsInv' <=> SumsOK(matrixA', matrixB', colA', sumB', checksum')
<1>1. SumsInv <=> SumsOK(matrixA, matrixB, colA, sumB, checksum)
  BY DEF SumsInv, SumsOK
<1>2. SumsInv' <=> SumsOK(matrixA', matrixB', colA', sumB', checksum')
  BY DEF SumsInv, SumsOK, ReadOf, ColumnsOK, RowsOK, Column, RowOf, Met, Sums!Values, Sums!Positions
<1> QED BY <1>1, <1>2

LEMMA SumsAtStart == SumsOK(<<>>, <<>>, [k \in Sums!Positions |-> 0], 0, 0)
<1>1. ReadOf(<<>>)
  BY SumsConstants DEF ReadOf
<1> DEFINE cols == [k \in Sums!Positions |-> 0]
<1>2. ColumnsOK(<<>>, cols)
  BY ColumnsAtStart
<1> HIDE DEF cols
<1>3. SumsOK(<<>>, <<>>, cols, 0, 0)
  <2>1. \E r \in 0 .. Size, c \in 0 .. Size - 1 : RowsOK(<<>>, cols, 0, 0, r, c)
    BY RowsAtStart
  <2>2. Len(<<>>) = 0
    OBVIOUS
  <2> QED BY ONLY <1>1, <1>2, <2>1, <2>2 DEF SumsOK
<1> QED BY <1>3 DEF cols

LEMMA SumsNext == SumsInv /\ [Sums!Next]_(Sums!vars) => SumsInv'
<1> SUFFICES ASSUME SumsInv, [Sums!Next]_(Sums!vars) PROVE SumsInv'
  OBVIOUS
<1> DEFINE n == Size * Size
<1>0. Size \in Nat \ {0} /\ n \in Nat /\ n >= 1
  BY SumsConstants
<1>1. /\ ReadOf(matrixA) /\ ReadOf(matrixB)
      /\ Len(matrixB) = 0 \/ Len(matrixA) = n
      /\ ColumnsOK(matrixA, colA)
  BY DEF SumsInv
<1>2. PICK r \in 0 .. Size, c \in 0 .. Size - 1 : RowsOK(matrixB, colA, sumB, checksum, r, c)
  BY DEF SumsInv
<1>3. Len(matrixA) \in Nat /\ Len(matrixB) \in Nat
  BY <1>1 DEF ReadOf
<1>4. ASSUME NEW s, ReadOf(s), Len(s) < n, NEW v \in Sums!Values
      PROVE  ReadOf(Append(s, v))
  <2> DEFINE V == Sums!Values
  <2>1. s \in Seq(V) /\ v \in V
    BY <1>4 DEF ReadOf
  <2> HIDE DEF V, n
  <2>2. Append(s, v) \in Seq(V) /\ Len(Append(s, v)) <= n
    BY <2>1, <1>0, <1>4, LongerSeq
  <2> QED BY <2>2 DEF ReadOf, V, n
<1>5. CASE UNCHANGED Sums!vars
  <2>1. /\ matrixA' = matrixA /\ matrixB' = matrixB /\ colA' = colA
        /\ sumB' = sumB /\ checksum' = checksum
    BY <1>5 DEF Sums!vars
  <2> QED BY <2>1, SumsInvIs
<1>6. CASE Sums!Answer
  <2>1. /\ matrixA' = <<>> /\ matrixB' = <<>> /\ colA' = [k \in Sums!Positions |-> 0]
        /\ sumB' = 0 /\ checksum' = 0
    BY <1>6 DEF Sums!Answer
  <2> QED BY <2>1, SumsAtStart, SumsInvIs
<1>7. ASSUME NEW v \in Sums!Values, Sums!ReadA(v) PROVE SumsInv'
  <2>1. /\ Len(matrixA) < n /\ matrixA' = Append(matrixA, v) /\ matrixB' = matrixB
        /\ colA' = [colA EXCEPT ![Len(matrixA) % Size] = @ + v]
        /\ sumB' = sumB /\ checksum' = checksum
    BY <1>7 DEF Sums!ReadA
  <2>2. Len(matrixB) = 0
    <3> HIDE DEF n
    <3> QED BY <2>1, <1>0, <1>1, <1>3
  <2>3. ReadOf(matrixA')
    BY <2>1, <1>1, <1>4
  <2>4. ColumnsOK(matrixA', colA')
    BY <2>1, <1>1, ColumnsAfterRead
  <2>5. RowsOK(matrixB', colA', sumB', checksum', r, c)
    BY <2>1, <2>2, <1>2, NothingRead
  <2> QED BY <2>1, <2>2, <2>3, <2>4, <2>5, <1>1, SumsInvIs DEF SumsOK
<1>8. ASSUME NEW v \in Sums!Values, Sums!ReadB(v) PROVE SumsInv'
  <2> DEFINE b == Append(matrixB, v)
  <2>1. /\ Len(matrixA) = n /\ Len(matrixB) < n /\ matrixB' = b
        /\ matrixA' = matrixA /\ colA' = colA
    BY <1>8 DEF Sums!ReadB
  <2>2. ReadOf(b)
    BY <2>1, <1>1, <1>4
  <2>3. colA \in [Sums!Positions -> Int] /\ c + 1 \in Int
    BY <1>1, <1>0 DEF ColumnsOK
  <2>4. Len(b) = Len(matrixB) + 1
    BY <1>1 DEF ReadOf
  <2>5. \E p \in 0 .. Size, q \in 0 .. Size - 1 : RowsOK(b, colA, sumB', checksum', p, q)
    <3>1. CASE c + 1 = Size
      <4>1. /\ (Len(matrixB) + 1) % Size = 0
            /\ RowsOK(b, colA, 0, checksum + colA[Len(matrixB) \div Size] * (sumB + v), r + 1, 0)
        BY <3>1, <2>1, <2>3, <1>1, <1>2, RowsAfterRead
      <4>2. sumB' = 0 /\ checksum' = checksum + colA[Len(matrixB) \div Size] * (sumB + v)
        BY <4>1, <2>1, <2>4, <1>8 DEF Sums!ReadB
      <4>3. r + 1 \in 0 .. Size /\ 0 \in 0 .. Size - 1
        <5>1. r < Size
          BY <2>1, <1>1, <1>2, RowsKept DEF RowsOK
        <5> QED BY <5>1, <1>0
      <4> HIDE DEF b
      <4> QED BY <4>1, <4>2, <4>3
    <3>2. CASE c + 1 # Size
      <4>1. /\ (Len(matrixB) + 1) % Size # 0
            /\ RowsOK(b, colA, sumB + v, checksum, r, c + 1)
        BY <3>2, <2>1, <2>3, <1>1, <1>2, RowsAfterRead
      <4>2. sumB' = sumB + v /\ checksum' = checksum
        BY <4>1, <2>1, <2>4, <1>8 DEF Sums!ReadB
      <4>3. c + 1 \in 0 .. Size - 1
        BY <3>2, <1>0
      <4> HIDE DEF b
      <4> QED BY <4>1, <4>2, <4>3
    <3> QED BY <3>1, <3>2
  <2> HIDE DEF b
  <2> QED BY <2>1, <2>2, <2>5, <1>1, SumsInvIs DEF SumsOK
<1>9. UNCHANGED Sums!vars \/ Sums!Answer \/ \E v \in Sums!Values : Sums!ReadA(v) \/ Sums!ReadB(v)
  BY DEF Sums!Next
<1> QED BY <1>5, <1>6, <1>7, <1>8, <1>9

LEMMA ChecksumsAgree == Sums!Spec => []Sums!AnswersAgree
<1>1. Sums!Init => SumsInv
  <2>1. Sums!Init => /\ matrixA = <<>> /\ matrixB = <<>> /\ colA = [k \in Sums!Positions |-> 0]
                     /\ sumB = 0 /\ checksum = 0
    BY DEF Sums!Init
  <2> QED BY <2>1, SumsAtStart, SumsInvIs
<1>2. SumsInv => Sums!AnswersAgree
  BY AnswerIs DEF Sums!AnswersAgree
<1> QED BY <1>1, <1>2, SumsNext, PTL DEF Sums!Spec

-----------------------------------------------------------------------------
(***************************************************************************)
(* TickEngine.  An instrument's window is always the latest of the prices  *)
(* the feed gave it, and the orders are those that this window asks for at *)
(* each tick.                                                              *)
(***************************************************************************)
LEMMA TicksConstants ==
    /\ Traded \in Nat \ {0} /\ TickPrices \subseteq Nat
    /\ Low \in Int /\ High \in Int
    /\ Window \in Nat /\ Window >= 3 /\ Enough \in 1 .. Window /\ MaxTicks \in Nat
BY ComparisonAssumption DEF Ticks!TickAssumption

LEMMA TicksSum == \A u, n : Ticks!SumTo(u, n) = SumTo(u, n)
BY Zenon DEF Ticks!SumTo, SumTo

\* The function that PricesOf is defined by.
IsPricesOf(own, ticks, i, n) ==
    own = [k \in 0 .. n |->
              IF k = 0 THEN <<>>
              ELSE IF ticks[k].instrument = i THEN Append(own[k - 1], ticks[k].price) ELSE own[k - 1]]

LEMMA PricesExist ==
    ASSUME NEW ticks, NEW i, NEW n \in Nat
    PROVE  \E own : IsPricesOf(own, ticks, i, n)
<1> DEFINE S == {m \in 0 .. n : \E own : IsPricesOf(own, ticks, i, m)}
<1>1. 0 \in S
  <2> DEFINE f == [k \in 0 .. 0 |-> <<>>]
  <2>1. IsPricesOf(f, ticks, i, 0)
    BY DEF IsPricesOf
  <2> QED BY <2>1
<1>2. ASSUME NEW m \in 1 .. n, m - 1 \in S PROVE m \in S
  <2>1. PICK f : IsPricesOf(f, ticks, i, m - 1)
    BY <1>2
  <2> DEFINE g == [k \in 0 .. m |->
                      IF k = m THEN IF ticks[m].instrument = i
                                    THEN Append(f[m - 1], ticks[m].price) ELSE f[m - 1]
                      ELSE f[k]]
  <2>2. ASSUME NEW k \in 0 .. m
        PROVE  g[k] = IF k = 0 THEN <<>>
                      ELSE IF ticks[k].instrument = i THEN Append(g[k - 1], ticks[k].price) ELSE g[k - 1]
    <3>1. CASE k = m
      <4>1. g[k - 1] = f[m - 1]
        BY <3>1
      <4> QED BY <4>1, <3>1
    <3>2. CASE k # m /\ k # 0
      <4>1. k \in 0 .. m - 1 /\ k - 1 \in 0 .. m - 1 /\ k - 1 # m
        BY <3>2
      <4>2. f[k] = IF ticks[k].instrument = i THEN Append(f[k - 1], ticks[k].price) ELSE f[k - 1]
        BY <2>1, <3>2, <4>1 DEF IsPricesOf
      <4>3. g[k] = f[k] /\ g[k - 1] = f[k - 1]
        BY <3>2, <4>1
      <4> QED BY <3>2, <4>2, <4>3
    <3>3. CASE k = 0
      <4>1. f[0] = <<>>
        BY <2>1 DEF IsPricesOf
      <4> QED BY <4>1, <3>3
    <3> QED BY <3>1, <3>2, <3>3
  <2>3. g = [k \in 0 .. m |-> g[k]]
    OBVIOUS
  <2> HIDE DEF g
  <2>4. IsPricesOf(g, ticks, i, m)
    <3>1. [k \in 0 .. m |-> g[k]] =
             [k \in 0 .. m |->
                 IF k = 0 THEN <<>>
                 ELSE IF ticks[k].instrument = i THEN Append(g[k - 1], ticks[k].price) ELSE g[k - 1]]
      BY <2>2, Zenon
    <3> QED BY <2>3, <3>1 DEF IsPricesOf
  <2> QED BY <2>4
<1>3. 0 .. n \subseteq S
  <2> HIDE DEF S
  <2> QED BY <1>1, <1>2, Climb
<1> QED BY <1>3

LEMMA PricesStep ==
    ASSUME NEW n \in Nat, NEW i, NEW t, NEW f, IsPricesOf(f, t, i, n), NEW k \in 1 .. n
    PROVE  f[k] = IF t[k].instrument = i THEN Append(f[k - 1], t[k].price) ELSE f[k - 1]
<1>1. k \in 0 .. n /\ k # 0
  OBVIOUS
<1> DEFINE e(j) == IF t[j].instrument = i THEN Append(f[j - 1], t[j].price) ELSE f[j - 1]
<1>2. f = [j \in 0 .. n |-> IF j = 0 THEN <<>> ELSE e(j)]
  BY DEF IsPricesOf
<1> HIDE DEF e
<1>3. f[k] = e(k)
  BY ONLY <1>1, <1>2
<1> QED BY <1>3 DEF e

\* The prices of the first m ticks, from any function that continues further.
LEMMA PricesAgree ==
    ASSUME NEW m \in Nat, NEW n \in Nat, m <= n, NEW i, NEW t, NEW u, \A k \in 1 .. m : t[k] = u[k],
           NEW f, IsPricesOf(f, t, i, m), NEW g, IsPricesOf(g, u, i, n)
    PROVE  \A k \in 0 .. m : f[k] = g[k]
<1> DEFINE S == {k \in 0 .. m : f[k] = g[k]}
<1>1. 0 \in S
  BY DEF IsPricesOf
<1>2. ASSUME NEW k \in 1 .. m, k - 1 \in S PROVE k \in S
  <2>1. f[k] = IF t[k].instrument = i THEN Append(f[k - 1], t[k].price) ELSE f[k - 1]
    BY PricesStep
  <2>2. g[k] = IF u[k].instrument = i THEN Append(g[k - 1], u[k].price) ELSE g[k - 1]
    <3>1. k \in 1 .. n
      OBVIOUS
    <3> QED BY <3>1, PricesStep
  <2>3. f[k - 1] = g[k - 1] /\ t[k] = u[k]
    BY <1>2
  <2> QED BY <2>1, <2>2, <2>3
<1>3. 0 .. m \subseteq S
  <2> HIDE DEF S
  <2> QED BY <1>1, <1>2, Climb
<1> QED BY <1>3

LEMMA PricesAre ==
    ASSUME NEW ticks, NEW i, NEW n \in Nat
    PROVE  \E own : IsPricesOf(own, ticks, i, n) /\ Ticks!PricesOf(ticks, i, n) = own[n]
<1> DEFINE own == CHOOSE f : IsPricesOf(f, ticks, i, n)
<1>1. IsPricesOf(own, ticks, i, n)
  BY PricesExist
<1>2. Ticks!PricesOf(ticks, i, n) = own[n]
  BY DEF Ticks!PricesOf, IsPricesOf
<1> QED BY <1>1, <1>2

LEMMA SamePrices ==
    ASSUME NEW n \in Nat, NEW i, NEW t, NEW u, \A k \in 1 .. n : t[k] = u[k]
    PROVE  Ticks!PricesOf(t, i, n) = Ticks!PricesOf(u, i, n)
<1>1. PICK f : IsPricesOf(f, t, i, n) /\ Ticks!PricesOf(t, i, n) = f[n]
  BY PricesAre
<1>2. PICK g : IsPricesOf(g, u, i, n) /\ Ticks!PricesOf(u, i, n) = g[n]
  BY PricesAre
<1>3. f[n] = g[n]
  <2>1. \A k \in 0 .. n : f[k] = g[k]
    BY <1>1, <1>2, PricesAgree
  <2> QED BY <2>1
<1> QED BY <1>1, <1>2, <1>3

LEMMA PricesNext ==
    ASSUME NEW n \in Nat, NEW i, NEW t
    PROVE  Ticks!PricesOf(t, i, n + 1) = IF t[n + 1].instrument = i
                                         THEN Append(Ticks!PricesOf(t, i, n), t[n + 1].price)
                                         ELSE Ticks!PricesOf(t, i, n)
<1>1. PICK f : IsPricesOf(f, t, i, n) /\ Ticks!PricesOf(t, i, n) = f[n]
  BY PricesAre
<1>2. PICK g : IsPricesOf(g, t, i, n + 1) /\ Ticks!PricesOf(t, i, n + 1) = g[n + 1]
  <2>1. n + 1 \in Nat
    OBVIOUS
  <2> QED BY <2>1, PricesAre
<1>3. f[n] = g[n]
  <2>1. \A k \in 0 .. n : f[k] = g[k]
    <3>1. n + 1 \in Nat /\ n <= n + 1
      OBVIOUS
    <3> QED BY <3>1, <1>1, <1>2, PricesAgree
  <2> QED BY <2>1
<1>4. g[n + 1] = IF t[n + 1].instrument = i THEN Append(g[n], t[n + 1].price) ELSE g[n]
  <2> DEFINE k == n + 1
  <2>1. k \in 1 .. k /\ k \in Nat /\ k - 1 = n
    OBVIOUS
  <2>2. IsPricesOf(g, t, i, k)
    BY <1>2
  <2> HIDE DEF k
  <2>3. g[k] = IF t[k].instrument = i THEN Append(g[k - 1], t[k].price) ELSE g[k - 1]
    BY <2>1, <2>2, PricesStep
  <2> QED BY <2>1, <2>3 DEF k
<1> QED BY <1>1, <1>2, <1>3, <1>4

LEMMA NoPrices == ASSUME NEW i, NEW t PROVE Ticks!PricesOf(t, i, 0) = <<>>
<1>1. PICK f : IsPricesOf(f, t, i, 0) /\ Ticks!PricesOf(t, i, 0) = f[0]
  BY PricesAre
<1> QED BY <1>1 DEF IsPricesOf

LEMMA PricesAreSeq ==
    ASSUME NEW n \in Nat, NEW i, NEW t, NEW P, \A k \in 1 .. n : t[k].price \in P
    PROVE  Ticks!PricesOf(t, i, n) \in Seq(P)
<1> DEFINE S == {k \in 0 .. n : Ticks!PricesOf(t, i, k) \in Seq(P)}
<1>1. 0 \in S
  <2>1. <<>> \in Seq(P)
    OBVIOUS
  <2>2. Ticks!PricesOf(t, i, 0) \in Seq(P)
    BY <2>1, NoPrices
  <2> QED BY <2>2
<1>2. ASSUME NEW k \in 1 .. n, k - 1 \in S PROVE k \in S
  <2> DEFINE m == k - 1
             s == Ticks!PricesOf(t, i, m)
  <2>1. m \in Nat /\ m + 1 = k /\ s \in Seq(P) /\ t[k].price \in P
    BY <1>2
  <2> HIDE DEF m
  <2>2. Ticks!PricesOf(t, i, m + 1) = IF t[m + 1].instrument = i THEN Append(s, t[m + 1].price) ELSE s
    BY <2>1, PricesNext
  <2> HIDE DEF s
  <2>3. Append(s, t[k].price) \in Seq(P)
    BY <2>1
  <2>4. Ticks!PricesOf(t, i, k) \in Seq(P)
    BY <2>1, <2>2, <2>3
  <2> QED BY <2>4
<1>3. 0 .. n \subseteq S
  <2> HIDE DEF S
  <2> QED BY <1>1, <1>2, Climb
<1> QED BY <1>3

\* The latest prices are the last Window of them, or all.
LEMMA LatestIs ==
    ASSUME NEW P, NEW s \in Seq(P)
    PROVE  LET n == IF Len(s) > Window THEN Window ELSE Len(s)
           IN  /\ Ticks!Latest(s) \in Seq(P) /\ Len(Ticks!Latest(s)) = n
               /\ \A j \in 1 .. n : Ticks!Latest(s)[j] = s[(Len(s) - n) + j]
<1> DEFINE L == Len(s)
           n == IF L > Window THEN Window ELSE L
           m == IF L > Window THEN L - Window + 1 ELSE 1
           e == SubSeq(s, m, L)
<1>1. Ticks!Latest(s) = e
  BY DEF Ticks!Latest
<1>2. Window \in Nat /\ L \in Nat
  BY TicksConstants
<1>3. m \in 1 .. L + 1 /\ n \in 0 .. L /\ m = (L - n) + 1
  BY <1>2
<1> HIDE DEF m, n
<1>4. \A j \in m .. L : s[j] \in P
  BY <1>3
<1>5. e \in Seq(P) /\ Len(e) = n /\ \A j \in 1 .. n : e[j] = s[(L - n) + j]
  <2>1. Len(e) = n
    BY <1>2, <1>3
  <2>2. ASSUME NEW j \in 1 .. n PROVE e[j] = s[(L - n) + j] /\ e[j] \in P
    <3>1. (m + j) - 1 = (L - n) + j /\ (m + j) - 1 \in m .. L
      BY <1>2, <1>3
    <3>2. e[j] = s[(m + j) - 1]
      BY <1>2, <1>3
    <3> QED BY <3>1, <3>2, <1>4
  <2>3. e \in Seq(P)
    BY <1>2, <1>3, <1>4
  <2> QED BY <2>1, <2>2, <2>3
<1> HIDE DEF e
<1> QED BY <1>1, <1>5 DEF n

LEMMA SameSequence ==
    ASSUME NEW P, NEW s \in Seq(P), NEW t \in Seq(P), Len(s) = Len(t), \A j \in 1 .. Len(s) : s[j] = t[j]
    PROVE  s = t
OBVIOUS

\* The window after a price is the window of the prices with it.
LEMMA UpdatedIs ==
    ASSUME NEW P, NEW s \in Seq(P), NEW p \in P
    PROVE  Ticks!Updated(Ticks!Latest(s), p) = Ticks!Latest(Append(s, p))
<1> DEFINE L == Len(s)
           t == Append(s, p)
           h == Ticks!Latest(s)
           n == IF L > Window THEN Window ELSE L
           w == Ticks!Latest(t)
           k == IF L + 1 > Window THEN Window ELSE L + 1
           a == Append(h, p)
<1>1. Window \in Nat /\ L \in Nat /\ Window >= 3
  BY TicksConstants
<1>2. t \in Seq(P) /\ Len(t) = L + 1 /\ t[L + 1] = p /\ \A j \in 1 .. L : t[j] = s[j]
  OBVIOUS
<1>3. h \in Seq(P) /\ Len(h) = n /\ \A j \in 1 .. n : h[j] = s[(L - n) + j]
  BY LatestIs
<1>4. w \in Seq(P) /\ Len(w) = k /\ \A j \in 1 .. k : w[j] = t[((L + 1) - k) + j]
  <2> HIDE DEF t
  <2> QED BY <1>2, LatestIs
<1> HIDE DEF L, t, h, w
<1>5. a \in Seq(P) /\ Len(a) = n + 1 /\ a[n + 1] = p /\ \A j \in 1 .. n : a[j] = h[j]
  BY <1>3
<1> HIDE DEF a
<1>6. CASE L < Window
  <2>1. n = L /\ k = L + 1
    BY <1>6, <1>1
  <2> HIDE DEF n, k
  <2>2. \A j \in 1 .. k : a[j] = w[j]
    <3>1. ASSUME NEW j \in 1 .. k PROVE a[j] = w[j]
      <4>1. w[j] = t[j]
        BY <1>1, <1>4, <2>1
      <4>2. CASE j = L + 1
        BY <4>1, <4>2, <1>2, <1>5, <2>1
      <4>3. CASE j # L + 1
        <5>1. j \in 1 .. L /\ (L - n) + j = j
          BY <4>3, <2>1, <1>1
        <5> QED BY <4>1, <5>1, <1>2, <1>3, <1>5, <2>1
      <4> QED BY <4>2, <4>3
    <3> QED BY <3>1
  <2>3. a = w
    BY <1>4, <1>5, <2>1, <2>2, SameSequence
  <2>4. ~(Len(a) > Window)
    BY <1>1, <1>5, <1>6, <2>1
  <2> QED BY <2>3, <2>4 DEF Ticks!Updated, a, w, h, t
<1>7. CASE L >= Window
  <2>1. n = Window /\ k = Window
    BY <1>7, <1>1
  <2> HIDE DEF n, k
  <2> DEFINE b == Tail(a)
  <2>2. b \in Seq(P) /\ Len(b) = Window /\ \A j \in 1 .. Window : b[j] = a[j + 1]
    BY <1>1, <1>5, <2>1
  <2> HIDE DEF b
  <2>3. \A j \in 1 .. Window : b[j] = w[j]
    <3>1. ASSUME NEW j \in 1 .. Window PROVE b[j] = w[j]
      <4>0. ((L + 1) - k) + j = ((L - n) + j) + 1 /\ ((L - n) + j) + 1 \in 1 .. L + 1
        BY <1>1, <1>7, <2>1
      <4>1. w[j] = t[((L - n) + j) + 1]
        BY <1>4, <2>1, <4>0
      <4>2. CASE j = Window
        <5>1. ((L - n) + j) + 1 = L + 1
          BY <4>2, <2>1, <1>1
        <5>2. b[j] = p
          BY <4>2, <2>1, <2>2, <1>1, <1>5
        <5> QED BY <4>1, <5>1, <5>2, <1>2
      <4>3. CASE j # Window
        <5>1. j + 1 \in 1 .. n /\ ((L - n) + j) + 1 \in 1 .. L /\ (L - n) + (j + 1) = ((L - n) + j) + 1
          BY <4>3, <2>1, <1>1, <1>7
        <5>2. b[j] = s[((L - n) + j) + 1]
          BY <5>1, <2>2, <1>3, <1>5
        <5> QED BY <4>1, <5>1, <5>2, <1>2
      <4> QED BY <4>2, <4>3
    <3> QED BY <3>1
  <2>4. b = w
    BY <1>1, <1>4, <2>1, <2>2, <2>3, SameSequence
  <2>5. Len(a) > Window
    BY <1>1, <1>5, <2>1
  <2> QED BY <2>4, <2>5 DEF Ticks!Updated, a, b, w, h, t
<1> QED BY <1>6, <1>7, <1>1

LEMMA TotalIs ==
    ASSUME NEW s \in Seq(Nat)
    PROVE  Ticks!Total(s) \in Nat
<1> DEFINE n == Len(s)
           S == {k \in 0 .. n : SumTo(s, k) >= 0}
<1>0. n \in Nat /\ Numbers(s, n) /\ \A k \in 1 .. n : s[k] >= 0
  BY DEF Numbers
<1> HIDE DEF n
<1>1. 0 \in S
  BY <1>0, SumToNone
<1>2. ASSUME NEW k \in 1 .. n, k - 1 \in S PROVE k \in S
  <2>1. SumTo(s, k) = SumTo(s, k - 1) + s[k] /\ SumTo(s, k - 1) \in Int
    BY <1>0, SumsAreInts
  <2>2. s[k] \in Int /\ s[k] >= 0 /\ SumTo(s, k - 1) >= 0
    BY <1>0, <1>2 DEF Numbers
  <2> QED BY <2>1, <2>2
<1>3. 0 .. n \subseteq S
  <2> HIDE DEF S
  <2> QED BY <1>0, <1>1, <1>2, Climb
<1>4. SumTo(s, n) >= 0 /\ SumTo(s, n) \in Int
  BY <1>0, <1>3, SumsAreInts
<1> QED BY <1>4, TicksSum DEF Ticks!Total, n

\* Three prices are enough to see a rise, and the window keeps three.
LEMMA RisingIs ==
    ASSUME NEW s \in Seq(Nat)
    PROVE  Ticks!signal3(Ticks!Latest(s)) <=> Ticks!Rising(s)
<1> DEFINE L == Len(s)
           h == Ticks!Latest(s)
           n == IF L > Window THEN Window ELSE L
<1>1. Window \in Nat /\ L \in Nat /\ Window >= 3
  BY TicksConstants
<1>2. Len(h) = n /\ \A j \in 1 .. n : h[j] = s[(L - n) + j]
  BY LatestIs
<1>3. \A j \in 1 .. L : s[j] \in Nat
  OBVIOUS
<1> HIDE DEF L, h
<1>4. n \in 0 .. L /\ (n >= 3 <=> L >= 3)
  BY <1>1
<1> HIDE DEF n
<1>5. ASSUME L >= 3
      PROVE  h[n] = s[L] /\ h[n - 1] = s[L - 1] /\ h[n - 2] = s[L - 2]
  <2>1. n \in 1 .. n /\ n - 1 \in 1 .. n /\ n - 2 \in 1 .. n
    BY <1>1, <1>4, <1>5
  <2>2. (L - n) + n = L /\ (L - n) + (n - 1) = L - 1 /\ (L - n) + (n - 2) = L - 2
    BY <1>1, <1>4
  <2> QED BY <1>2, <2>1, <2>2
<1>6. Ticks!signal3(h) <=> n >= 3 /\ h[n - 1] > h[n - 2] /\ h[n] > h[n - 1]
  BY <1>2 DEF Ticks!signal3
<1>7. Ticks!Rising(s) <=> L >= 3 /\ s[L - 1] > s[L - 2] /\ s[L] > s[L - 1]
  <2>1. ASSUME L >= 3 PROVE (\A j \in L - 1 .. L : s[j] > s[j - 1]) <=> (s[L - 1] > s[L - 2] /\ s[L] > s[L - 1])
    <3>1. \A j \in L - 1 .. L : j = L - 1 \/ j = L
      BY <1>1
    <3>2. L - 1 \in L - 1 .. L /\ L \in L - 1 .. L /\ (L - 1) - 1 = L - 2
      BY <1>1
    <3> QED BY <3>1, <3>2
  <2> QED BY <2>1 DEF Ticks!Rising, L
<1>8. Ticks!signal3(h) <=> Ticks!Rising(s)
  BY <1>4, <1>5, <1>6, <1>7
<1> QED BY <1>8 DEF h

Urged(s, p) == p \notin Low .. High \/ Ticks!Rising(s)
IsHigh(h, p) == ~(Len(h) < Enough) /\ 100 * p * Len(h) > 102 * Ticks!Total(h)
IsLow(h, p) == ~(Len(h) < Enough) /\ 100 * p * Len(h) < 98 * Ticks!Total(h)

\* What the signals ask for, over the prices so far.
LEMMA SideIs ==
    ASSUME NEW s \in Seq(TickPrices), NEW p \in TickPrices
    PROVE  /\ Ticks!Side(Ticks!Latest(s), p) \in {"buy", "sell", "none"}
           /\ Ticks!Side(Ticks!Latest(s), p) = "buy" <=> Urged(s, p) \/ IsLow(Ticks!Latest(s), p)
           /\ Ticks!Side(Ticks!Latest(s), p) = "sell" <=> IsHigh(Ticks!Latest(s), p) /\ ~Urged(s, p)
<1> DEFINE h == Ticks!Latest(s)
           T == Ticks!Total(h)
           n == Len(h)
           q == p * n
           below == Ticks!BelowAverage(h, p)
           two == Ticks!signal2(h, p)
           urged == Urged(s, p)
<1>1. TickPrices \subseteq Nat /\ Low \in Int /\ High \in Int /\ Enough \in Nat
  BY TicksConstants
<1>2. h \in Seq(TickPrices) /\ h \in Seq(Nat) /\ s \in Seq(Nat) /\ p \in Nat
  <2>1. h \in Seq(TickPrices)
    BY LatestIs
  <2> HIDE DEF h
  <2>2. ASSUME NEW e \in Seq(TickPrices) PROVE e \in Seq(Nat)
    <3>1. \A j \in 1 .. Len(e) : e[j] \in TickPrices
      OBVIOUS
    <3>2. \A j \in 1 .. Len(e) : e[j] \in Nat
      BY <1>1, <3>1
    <3> QED BY <3>2
  <2> QED BY <1>1, <2>1, <2>2
<1>3. T \in Nat /\ n \in Nat
  <2> HIDE DEF h
  <2> QED BY <1>2, TotalIs
<1>4. q \in Nat /\ 100 * p * n = 100 * q
  <2> HIDE DEF n
  <2> QED BY <1>2, <1>3
<1>5. /\ below <=> q < T
      /\ two <=> n >= Enough /\ (100 * q < 98 * T \/ 100 * q > 102 * T)
      /\ IsHigh(h, p) <=> n >= Enough /\ 100 * q > 102 * T
      /\ IsLow(h, p) <=> n >= Enough /\ 100 * q < 98 * T
  <2>1. below <=> q < T
    BY DEF Ticks!BelowAverage
  <2>2. two <=> n >= Enough /\ (100 * p * n < 98 * T \/ 100 * p * n > 102 * T)
    BY DEF Ticks!signal2
  <2>3. /\ IsHigh(h, p) <=> ~(n < Enough) /\ 100 * p * n > 102 * T
        /\ IsLow(h, p) <=> ~(n < Enough) /\ 100 * p * n < 98 * T
    BY DEF IsHigh, IsLow
  <2>4. ~(n < Enough) <=> n >= Enough
    <3> HIDE DEF n
    <3> QED BY <1>1, <1>3
  <2> HIDE DEF h, T, n, q, below, two
  <2> QED BY <2>1, <2>2, <2>3, <2>4, <1>4
<1>6. /\ two /\ below <=> IsLow(h, p)
      /\ two /\ ~below <=> IsHigh(h, p)
  <2> HIDE DEF h, T, n, q, below, two
  <2>1. /\ 100 * q < 98 * T => q < T
        /\ 100 * q > 102 * T => ~(q < T)
    BY <1>3, <1>4
  <2> QED BY <1>5, <2>1
<1>7. Ticks!signal1(p) \/ Ticks!signal3(h) <=> urged
  <2>1. Ticks!signal1(p) <=> p \notin Low .. High
    BY <1>1, <1>2 DEF Ticks!signal1
  <2>2. Ticks!signal3(h) <=> Ticks!Rising(s)
    BY <1>2, RisingIs
  <2> HIDE DEF h
  <2> QED BY <2>1, <2>2 DEF Urged
<1> DEFINE buy == Ticks!signal1(p) \/ (two /\ below) \/ Ticks!signal3(h)
           sell == two /\ ~below
<1>8. Ticks!Side(h, p) = IF buy THEN "buy" ELSE IF sell THEN "sell" ELSE "none"
  BY DEF Ticks!Side
<1>9. (buy <=> urged \/ IsLow(h, p)) /\ (sell <=> IsHigh(h, p))
  <2> HIDE DEF two, below, urged, h
  <2> QED BY <1>6, <1>7
<1>10. IsHigh(h, p) => ~IsLow(h, p)
  <2> HIDE DEF h, T, n, q
  <2> QED BY <1>3, <1>4, <1>5
<1> HIDE DEF buy, sell, urged, h
<1>11. /\ Ticks!Side(h, p) \in {"buy", "sell", "none"}
       /\ Ticks!Side(h, p) = "buy" <=> urged \/ IsLow(h, p)
       /\ Ticks!Side(h, p) = "sell" <=> IsHigh(h, p) /\ ~urged
  BY <1>8, <1>9, <1>10
<1> QED BY <1>11 DEF urged, h

TickOf == [instrument : 0 .. Traded - 1, price : TickPrices]

SideAt(t, k) == Ticks!Side(Ticks!Latest(Ticks!PricesOf(t, t[k].instrument, k)), t[k].price)

PlacedIn(o, k, side) == \E n \in DOMAIN o : o[n] = [tick |-> k, side |-> side]

\* The windows are the latest prices of each instrument, and the orders those
\* that the latest prices at each tick ask for.
TicksOK(t, h, o) ==
    /\ t \in Seq(TickOf)
    /\ h = [i \in 0 .. Traded - 1 |-> Ticks!Latest(Ticks!PricesOf(t, i, Len(t)))]
    /\ o \in Seq([tick : 1 .. Len(t), side : {"buy", "sell"}])
    /\ \A k \in 1 .. Len(t) : \A side \in {"buy", "sell"} :
          PlacedIn(o, k, side) <=> SideAt(t, k) = side

TicksInv == TicksOK(feed, history, placed)

LEMMA PricesInFeed ==
    ASSUME NEW t \in Seq(TickOf), NEW i, NEW k \in 0 .. Len(t)
    PROVE  Ticks!PricesOf(t, i, k) \in Seq(TickPrices)
<1>1. \A j \in 1 .. k : t[j] \in TickOf
  OBVIOUS
<1>2. \A j \in 1 .. k : t[j].price \in TickPrices
  BY <1>1 DEF TickOf
<1>3. k \in Nat
  OBVIOUS
<1> QED BY <1>2, <1>3, PricesAreSeq

LEMMA TicksAtStart == TicksOK(<<>>, [i \in 0 .. Traded - 1 |-> <<>>], <<>>)
<1>1. Ticks!Latest(<<>>) = <<>>
  <2>1. <<>> \in Seq(TickPrices) /\ Len(<<>>) = 0
    OBVIOUS
  <2>2. Window \in Nat
    BY TicksConstants
  <2> DEFINE s == <<>>
             n == IF Len(s) > Window THEN Window ELSE Len(s)
  <2>3. s \in Seq(TickPrices) /\ Len(s) = 0 /\ n = 0
    BY <2>1, <2>2
  <2> HIDE DEF s
  <2>4. Ticks!Latest(s) \in Seq(TickPrices) /\ Len(Ticks!Latest(s)) = n
    BY <2>3, LatestIs
  <2> HIDE DEF n
  <2>5. Ticks!Latest(s) \in Seq(TickPrices) /\ Len(Ticks!Latest(s)) = 0
    BY <2>3, <2>4
  <2> QED BY <2>5 DEF s
<1>2. \A i : Ticks!PricesOf(<<>>, i, 0) = <<>>
  BY NoPrices
<1> QED BY <1>1, <1>2 DEF TicksOK

\* What a tick makes of feed, windows and orders.
LEMMA TicksAfter ==
    ASSUME NEW t, NEW h, NEW o, TicksOK(t, h, o), NEW i \in 0 .. Traded - 1, NEW p \in TickPrices,
           NEW u, u = Append(t, [instrument |-> i, price |-> p]),
           NEW g, g = [h EXCEPT ![i] = Ticks!Updated(h[i], p)],
           NEW side, side = Ticks!Side(Ticks!Updated(h[i], p), p),
           NEW e, e = IF side = "none" THEN o ELSE Append(o, [tick |-> Len(t) + 1, side |-> side])
    PROVE  TicksOK(u, g, e)
<1> DEFINE L == Len(t)
           new == [instrument |-> i, price |-> p]
           P(j) == Ticks!PricesOf(t, j, L)
<1>1. /\ t \in Seq(TickOf) /\ L \in Nat
      /\ h = [j \in 0 .. Traded - 1 |-> Ticks!Latest(P(j))]
      /\ o \in Seq([tick : 1 .. L, side : {"buy", "sell"}])
      /\ \A k \in 1 .. L : \A s \in {"buy", "sell"} : PlacedIn(o, k, s) <=> SideAt(t, k) = s
  BY DEF TicksOK
<1>2. new \in TickOf /\ new.instrument = i /\ new.price = p
  BY DEF TickOf
<1> HIDE DEF new
<1>3. u \in Seq(TickOf) /\ Len(u) = L + 1 /\ u[L + 1] = new /\ \A k \in 1 .. L : u[k] = t[k]
  <2>1. u = Append(t, new)
    BY DEF new
  <2> QED BY <1>1, <1>2, <2>1
<1>4. ASSUME NEW j PROVE Ticks!PricesOf(u, j, L + 1) = IF i = j THEN Append(P(j), p) ELSE P(j)
  <2>1. Ticks!PricesOf(u, j, L + 1)
          = IF u[L + 1].instrument = j THEN Append(Ticks!PricesOf(u, j, L), u[L + 1].price)
            ELSE Ticks!PricesOf(u, j, L)
    <3>1. L \in Nat
      BY <1>1
    <3> HIDE DEF L, P
    <3> QED BY <3>1, PricesNext
  <2>2. Ticks!PricesOf(u, j, L) = P(j)
    BY <1>1, <1>3, SamePrices
  <2> QED BY <2>1, <2>2, <1>2, <1>3
<1>5. ASSUME NEW j PROVE P(j) \in Seq(TickPrices)
  <2>1. L \in 0 .. L
    BY <1>1
  <2> QED BY <2>1, <1>1, PricesInFeed
<1>6. ASSUME NEW j \in 0 .. Traded - 1
      PROVE  g[j] = Ticks!Latest(Ticks!PricesOf(u, j, L + 1))
  <2>1. h[j] = Ticks!Latest(P(j))
    BY <1>1
  <2>2. g[j] = IF j = i THEN Ticks!Updated(h[i], p) ELSE h[j]
    BY <1>1
  <2>3. CASE j = i
    <3>1. Ticks!Updated(Ticks!Latest(P(i)), p) = Ticks!Latest(Append(P(i), p))
      BY <1>5, UpdatedIs
    <3> HIDE DEF P
    <3> QED BY <2>1, <2>2, <2>3, <3>1, <1>4
  <2>4. CASE j # i
    <3> HIDE DEF P
    <3> QED BY <2>1, <2>2, <2>4, <1>4
  <2> QED BY <2>3, <2>4
<1>7. g = [j \in 0 .. Traded - 1 |-> Ticks!Latest(Ticks!PricesOf(u, j, Len(u)))]
  <2>1. DOMAIN g = 0 .. Traded - 1 /\ g = [j \in DOMAIN g |-> g[j]]
    BY <1>1
  <2> QED BY <2>1, <1>3, <1>6
<1>8. SideAt(u, L + 1) = side
  <2>1. g[i] = Ticks!Updated(h[i], p)
    BY <1>1
  <2>2. Ticks!Latest(Ticks!PricesOf(u, i, L + 1)) = Ticks!Updated(h[i], p)
    BY <2>1, <1>6
  <2>3. u[L + 1].instrument = i /\ u[L + 1].price = p
    BY <1>2, <1>3
  <2> QED BY <2>2, <2>3 DEF SideAt
<1>9. ASSUME NEW k \in 1 .. L PROVE SideAt(u, k) = SideAt(t, k)
  <2>1. u[k] = t[k] /\ \A j \in 1 .. k : u[j] = t[j]
    BY <1>1, <1>3
  <2>2. Ticks!PricesOf(u, t[k].instrument, k) = Ticks!PricesOf(t, t[k].instrument, k)
    <3>1. k \in Nat
      OBVIOUS
    <3> QED BY <2>1, <3>1, SamePrices
  <2> QED BY <2>1, <2>2 DEF SideAt
<1>10. side \in {"buy", "sell", "none"}
  <2>1. Ticks!Latest(Append(P(i), p)) = Ticks!Updated(h[i], p)
    BY <1>1, <1>5, UpdatedIs
  <2>2. Append(P(i), p) \in Seq(TickPrices)
    <3>1. P(i) \in Seq(TickPrices)
      BY <1>5
    <3> HIDE DEF P
    <3> QED BY <3>1
  <2>3. Ticks!Side(Ticks!Latest(Append(P(i), p)), p) \in {"buy", "sell", "none"}
    BY <2>2, SideIs
  <2> QED BY <2>1, <2>3
<1> DEFINE O == [tick : 1 .. L, side : {"buy", "sell"}]
           N == [tick : 1 .. L + 1, side : {"buy", "sell"}]
           rec == [tick |-> L + 1, side |-> side]
<1>11. ASSUME NEW n \in DOMAIN o PROVE o[n] \in N /\ o[n].tick # L + 1
  <2>1. o[n] \in O
    <3>1. o \in Seq(O) /\ n \in 1 .. Len(o)
      BY <1>1
    <3> HIDE DEF O
    <3> QED BY ONLY <3>1
  <2>2. o[n].tick \in 1 .. L /\ o[n] \in N
    <3> DEFINE r == o[n]
    <3>1. r \in O
      BY <2>1
    <3> HIDE DEF r, L
    <3>2. PICK k \in 1 .. L, s \in {"buy", "sell"} : r = [tick |-> k, side |-> s]
      BY <3>1
    <3>3. k \in 1 .. L + 1
      BY <1>1
    <3>4. r.tick \in 1 .. L /\ r \in N
      BY <3>2, <3>3
    <3> QED BY <3>4 DEF r
  <2> QED BY <2>2, <1>1
<1>12. o \in Seq(N)
  <2>1. o \in Seq(O) /\ \A n \in 1 .. Len(o) : o[n] \in N
    BY <1>1, <1>11
  <2> HIDE DEF O, N
  <2> QED BY <2>1
<1>13. \A s : ~PlacedIn(o, L + 1, s)
  <2> SUFFICES ASSUME NEW s, NEW n \in DOMAIN o, o[n] = [tick |-> L + 1, side |-> s] PROVE FALSE
    BY DEF PlacedIn
  <2>1. o[n].tick = L + 1
    OBVIOUS
  <2> QED BY <2>1, <1>11
<1>14. CASE side = "none"
  <2>1. e = o
    BY <1>14
  <2>2. ASSUME NEW k \in 1 .. L + 1, NEW s \in {"buy", "sell"}
        PROVE  PlacedIn(e, k, s) <=> SideAt(u, k) = s
    <3>1. CASE k \in 1 .. L
      BY <3>1, <2>1, <1>1, <1>9
    <3>2. CASE k = L + 1
      BY <3>2, <2>1, <1>8, <1>13, <1>14
    <3> QED BY <3>1, <3>2, <1>1
  <2> QED BY <2>1, <2>2, <1>3, <1>7, <1>12 DEF TicksOK
<1>15. CASE side # "none"
  <2>1. e = Append(o, rec) /\ rec \in N /\ rec.tick = L + 1 /\ rec.side = side
    <3>1. e = Append(o, rec)
      BY <1>15
    <3>2. rec \in N
      BY <1>1, <1>10, <1>15
    <3> QED BY <3>1, <3>2
  <2>2. \A k, s : rec = [tick |-> k, side |-> s] <=> k = L + 1 /\ s = side
    OBVIOUS
  <2> HIDE DEF rec, N
  <2>3. e \in Seq(N) /\ Len(e) = Len(o) + 1 /\ e[Len(o) + 1] = rec /\ \A n \in 1 .. Len(o) : e[n] = o[n]
    BY <2>1, <1>12
  <2>4. \A k, s : PlacedIn(e, k, s) <=> PlacedIn(o, k, s) \/ (k = L + 1 /\ s = side)
    <3>1. ASSUME NEW k, NEW s, PlacedIn(e, k, s) PROVE PlacedIn(o, k, s) \/ (k = L + 1 /\ s = side)
      <4>1. PICK n \in DOMAIN e : e[n] = [tick |-> k, side |-> s]
        BY <3>1 DEF PlacedIn
      <4>2. n \in 1 .. Len(o) \/ n = Len(o) + 1
        BY <2>3, <1>12
      <4>3. CASE n \in 1 .. Len(o)
        <5>1. n \in DOMAIN o /\ o[n] = [tick |-> k, side |-> s]
          BY <4>1, <4>3, <2>3, <1>12
        <5> QED BY <5>1 DEF PlacedIn
      <4>4. CASE n = Len(o) + 1
        BY <4>1, <4>4, <2>2, <2>3
      <4> QED BY <4>2, <4>3, <4>4
    <3>2. ASSUME NEW k, NEW s, PlacedIn(o, k, s) PROVE PlacedIn(e, k, s)
      <4>1. PICK n \in DOMAIN o : o[n] = [tick |-> k, side |-> s]
        BY <3>2 DEF PlacedIn
      <4>2. n \in DOMAIN e /\ e[n] = o[n]
        BY <2>3, <1>12
      <4> QED BY <4>1, <4>2 DEF PlacedIn
    <3>3. PlacedIn(e, L + 1, side)
      <4>1. Len(o) + 1 \in DOMAIN e /\ e[Len(o) + 1] = [tick |-> L + 1, side |-> side]
        BY <2>2, <2>3, <1>12
      <4> QED BY <4>1 DEF PlacedIn
    <3> QED BY <3>1, <3>2, <3>3
  <2>5. ASSUME NEW k \in 1 .. L + 1, NEW s \in {"buy", "sell"}
        PROVE  PlacedIn(e, k, s) <=> SideAt(u, k) = s
    <3>1. CASE k \in 1 .. L
      <4>1. k # L + 1
        BY <3>1, <1>1
      <4> QED BY <3>1, <4>1, <2>4, <1>1, <1>9
    <3>2. CASE k = L + 1
      BY <3>2, <2>4, <1>8, <1>13
    <3> QED BY <3>1, <3>2, <1>1
  <2> QED BY <2>3, <2>5, <1>3, <1>7 DEF TicksOK, N
<1> QED BY <1>14, <1>15

LEMMA TicksInvAfter == TicksInv' <=> TicksOK(feed', history', placed')
BY DEF TicksInv, TicksOK, PlacedIn, SideAt, TickOf

LEMMA TicksNext == TicksInv /\ [Ticks!Next]_(Ticks!vars) => TicksInv'
<1> SUFFICES ASSUME TicksInv, [Ticks!Next]_(Ticks!vars) PROVE TicksInv'
  OBVIOUS
<1>1. TicksOK(feed, history, placed)
  BY DEF TicksInv
<1>2. CASE UNCHANGED Ticks!vars
  <2>1. feed' = feed /\ history' = history /\ placed' = placed
    BY <1>2 DEF Ticks!vars
  <2> QED BY <2>1, <1>1, TicksInvAfter
<1>3. ASSUME NEW price \in TickPrices, Ticks!Tick(price) PROVE TicksInv'
  <2> DEFINE i == Len(feed) % Traded
             side == Ticks!Side(Ticks!Updated(history[i], price), price)
  <2>1. i \in 0 .. Traded - 1
    <3>1. Len(feed) \in Int
      BY <1>1 DEF TicksOK
    <3> QED BY <3>1, TicksConstants
  <2>2. /\ feed' = Append(feed, [instrument |-> i, price |-> price])
        /\ history' = [history EXCEPT ![i] = Ticks!Updated(history[i], price)]
        /\ placed' = IF side = "none" THEN placed
                     ELSE Append(placed, [tick |-> Len(feed) + 1, side |-> side])
    BY <1>3 DEF Ticks!Tick
  <2> HIDE DEF i, side
  <2>3. TicksOK(feed', history', placed')
    BY <1>1, <2>1, <2>2, TicksAfter DEF side
  <2> QED BY <2>3, TicksInvAfter
<1> QED BY <1>2, <1>3 DEF Ticks!Next

LEMMA TicksAgree == Ticks!Spec => []Ticks!OrdersAsOverFeed
<1>1. Ticks!Init => TicksInv
  BY TicksAtStart DEF Ticks!Init, TicksInv
<1>2. TicksInv => Ticks!OrdersAsOverFeed
  <2> SUFFICES ASSUME TicksInv, NEW k \in DOMAIN feed
               PROVE  LET s     == Ticks!Recent(k)
                          p     == feed[k].price
                          early == Len(s) < Enough
                          high  == ~early /\ 100 * p * Len(s) > 102 * Ticks!Total(s)
                          low   == ~early /\ 100 * p * Len(s) < 98 * Ticks!Total(s)
                          urged == p \notin Low .. High \/ Ticks!Rising(Ticks!PricesUpTo(k))
                      IN  /\ Ticks!Placed(k, "buy") <=> urged \/ low
                          /\ Ticks!Placed(k, "sell") <=> high /\ ~urged
    BY DEF Ticks!OrdersAsOverFeed
  <2> DEFINE all == Ticks!PricesOf(feed, feed[k].instrument, k)
             h == Ticks!Latest(all)
             price == feed[k].price
  <2>1. /\ feed \in Seq(TickOf) /\ k \in 1 .. Len(feed)
        /\ \A side \in {"buy", "sell"} : PlacedIn(placed, k, side) <=> SideAt(feed, k) = side
    BY DEF TicksInv, TicksOK
  <2>2. all \in Seq(TickPrices) /\ price \in TickPrices
    <3>1. feed[k] \in TickOf /\ k \in 0 .. Len(feed)
      BY <2>1
    <3>2. all \in Seq(TickPrices)
      BY <2>1, <3>1, PricesInFeed
    <3> QED BY <3>1, <3>2 DEF TickOf
  <2>3. SideAt(feed, k) = Ticks!Side(h, price)
    BY DEF SideAt
  <2>4. Ticks!Recent(k) = h /\ Ticks!PricesUpTo(k) = all
    BY DEF Ticks!Recent, Ticks!PricesUpTo
  <2>5. \A side : Ticks!Placed(k, side) <=> PlacedIn(placed, k, side)
    BY DEF Ticks!Placed, PlacedIn
  <2>6. /\ Ticks!Side(h, price) = "buy" <=> Urged(all, price) \/ IsLow(h, price)
        /\ Ticks!Side(h, price) = "sell" <=> IsHigh(h, price) /\ ~Urged(all, price)
    <3> HIDE DEF all, price
    <3> QED BY <2>2, SideIs
  <2>7. /\ Ticks!Placed(k, "buy") <=> Urged(all, price) \/ IsLow(h, price)
        /\ Ticks!Placed(k, "sell") <=> IsHigh(h, price) /\ ~Urged(all, price)
    <3> HIDE DEF all, price, h
    <3> QED BY <2>1, <2>3, <2>5, <2>6
  <2> HIDE DEF all, h
  <2> QED BY <2>4, <2>7 DEF Urged, IsHigh, IsLow
<1> QED BY <1>1, <1>2, TicksNext, PTL DEF Ticks!Spec

(***************************************************************************)
(* For matrices of any size, any moduli and any feed.  The checksum that   *)
(* the student client (hftclient2026/main.cpp) has from column sums and    *)
(* row sums, reduced once, is the one computeChecksum of the server gets   *)
(* from the product, reducing at every step.  The low-latency client's     *)
(* trace_AB_T over a transposed B answers what client_naive reads off the  *)
(* diagonal of the product.  And the orders hw3's engine places from its   *)
(* running windows are those that the whole feed asks for.                 *)
(***************************************************************************)
THEOREM AnswersInOnePass == OnePassSpec => []OnePassAgrees
BY ChecksumsAgree, TracesAgree, TicksAgree, PTL DEF OnePassSpec, OnePassAgrees

-----------------------------------------------------------------------------
(***************************************************************************)
(* RobinHood.  The invariant: each entry is as many places from home as    *)
(* its dib says, no entry is more than one place further from home than    *)
(* the one before it, and no key is there twice.  From the second part it  *)
(* follows that a search that has gone further than an entry's dib cannot  *)
(* miss its key.  Insert carries an entry on that would fit at the next    *)
(* slot; erase moves a hole whose two neighbours may differ by two places. *)
(***************************************************************************)

HashEntry == [dib : Nat \ {0}, key : Keys, value : MapValues]

IsTable(t, c) == t \in [0 .. c - 1 -> HashEntry \cup {Robin!Empty}]

\* Where round n for k looks in a table of c slots.
Place(c, k, n) == (Hash[k] + (n - 1)) % c

\* An entry is as many places from home as its dib says.
AtHome(t, c) == \A i \in 0 .. c - 1 : t[i].dib # 0 => Place(c, t[i].key, t[i].dib) = i

\* The slot behind i.
Behind(c, i) == (i + 1) % c

\* No entry is more than one place further from home than the one before it.
Near(t, c) == \A i \in 0 .. c - 1 : t[Behind(c, i)].dib <= t[i].dib + 1

\* No key is in two slots.
KeysOnce(t, c) == \A i, j \in 0 .. c - 1 : t[i].key = t[j].key /\ t[i].key \in Keys => i = j

InOrder(t, c) == IsTable(t, c) /\ AtHome(t, c) /\ Near(t, c) /\ KeysOnce(t, c)

HasKey(t, c, k) == \E i \in 0 .. c - 1 : t[i].key = k
HasEntry(t, c, k, v) == \E i \in 0 .. c - 1 : t[i].key = k /\ t[i].value = v
HasRoom(t, c) == \E i \in 0 .. c - 1 : t[i].dib = 0

LEMMA RobinConstants ==
    /\ Hash \in [Keys -> Nat] /\ Absent \notin Keys /\ Absent \notin MapValues
    /\ MinCapacity \in Nat /\ MinCapacity >= 8
BY ComparisonAssumption DEF Robin!ParameterAssumption

LEMMA SlotIs ==
    ASSUME NEW c, NEW t, IsTable(t, c), NEW i \in 0 .. c - 1
    PROVE  /\ t[i].dib \in Nat
           /\ t[i].dib = 0 => t[i] = Robin!Empty /\ t[i].key \notin Keys
           /\ t[i].dib # 0 => t[i] \in HashEntry /\ t[i].key \in Keys /\ t[i].value \in MapValues
<1>1. t[i] \in HashEntry \cup {Robin!Empty}
  BY DEF IsTable
<1>2. CASE t[i] \in HashEntry
  BY <1>2 DEF HashEntry
<1>3. CASE t[i] = Robin!Empty
  <2>1. t[i].dib = 0 /\ t[i].key = Absent
    BY <1>3 DEF Robin!Empty
  <2> QED BY <1>3, <2>1, RobinConstants
<1> QED BY <1>1, <1>2, <1>3

LEMMA SlotWithKey ==
    ASSUME NEW c, NEW t, IsTable(t, c), NEW i \in 0 .. c - 1, t[i].key \in Keys
    PROVE  t[i].dib # 0 /\ t[i].dib \in Nat /\ t[i] \in HashEntry /\ t[i].value \in MapValues
BY SlotIs

\* The instance has a copy of its own of what counts a set.
LEMMA RobinCardinality == ASSUME NEW S PROVE Robin!Cardinality(S) = Cardinality(S)
BY Zenon DEF Cardinality, Robin!Cardinality

LEMMA CapacityIs ==
    ASSUME NEW c \in Nat, NEW t, IsTable(t, c)
    PROVE  Robin!Capacity(t) = c
<1>1. DOMAIN t = 0 .. c - 1
  BY DEF IsTable
<1>2. Cardinality(0 .. c - 1) = c
  BY FS_Interval
<1>3. Robin!Capacity(t) = Cardinality(DOMAIN t)
  BY RobinCardinality DEF Robin!Capacity
<1> QED BY ONLY <1>1, <1>2, <1>3, Zenon

LEMMA BehindIs ==
    ASSUME NEW c \in Nat \ {0}, NEW i \in 0 .. c - 1
    PROVE  /\ Behind(c, i) \in 0 .. c - 1
           /\ c > 1 => Behind(c, i) # i
           /\ \A j \in 0 .. c - 1 : Behind(c, j) = Behind(c, i) => j = i
<1>1. ASSUME NEW j \in 0 .. c - 1 PROVE Behind(c, j) = IF j + 1 = c THEN 0 ELSE j + 1
  <2>1. CASE j + 1 = c
    <3>1. j + 1 = c * 1 + 0 /\ 0 \in 0 .. c - 1 /\ 1 \in Int
      BY <2>1
    <3>2. (j + 1) % c = 0
      BY <3>1, DivisionIs
    <3> QED BY <3>2, <2>1 DEF Behind
  <2>2. CASE j + 1 # c
    <3>1. j + 1 = c * 0 + (j + 1) /\ j + 1 \in 0 .. c - 1 /\ 0 \in Int
      BY <2>2
    <3>2. (j + 1) % c = j + 1
      BY <3>1, DivisionIs
    <3> QED BY <3>2, <2>2 DEF Behind
  <2> QED BY <2>1, <2>2
<1> QED BY <1>1

LEMMA PlaceIs ==
    ASSUME NEW c \in Nat \ {0}, NEW k \in Keys, NEW n \in Nat
    PROVE  /\ Place(c, k, n) \in 0 .. c - 1
           /\ Behind(c, Place(c, k, n)) = Place(c, k, n + 1)
<1> DEFINE x == Hash[k] + (n - 1)
<1>1. x \in Int /\ Hash[k] + ((n + 1) - 1) = x + 1
  BY RobinConstants
<1>2. Place(c, k, n) = x % c /\ Place(c, k, n + 1) = (x + 1) % c
  BY <1>1 DEF Place
<1> HIDE DEF x
<1>3. ((x % c) + 1) % c = (x + 1) % c
  <2>1. x \in Int /\ 1 \in Int /\ c \in Nat \ {0}
    BY <1>1
  <2> QED BY ONLY <2>1, RemainderOfSum
<1>4. x % c \in 0 .. c - 1
  BY <1>1
<1>5. (Place(c, k, n) + 1) % c = ((x % c) + 1) % c
  BY ONLY <1>2, Zenon
<1>6. (Place(c, k, n) + 1) % c = Place(c, k, n + 1)
  BY ONLY <1>2, <1>3, <1>5, Zenon
<1> QED BY <1>2, <1>4, <1>6 DEF Behind

LEMMA ProbedIs ==
    ASSUME NEW c \in Nat, NEW t, IsTable(t, c), NEW k, NEW n
    PROVE  Robin!Probed(t, k, n) = Place(c, k, n)
BY CapacityIs DEF Robin!Probed, Place

\* As many places behind x as there are slots are all the slots.
LEMMA AllPlaces ==
    ASSUME NEW c \in Nat \ {0}, NEW x \in Int, NEW i \in 0 .. c - 1
    PROVE  \E n \in 0 .. c - 1 : (x + n) % c = i
<1> DEFINE d == i - x
<1>1. d \in Int
  OBVIOUS
<1>2. PICK q \in Int, r \in 0 .. c - 1 : d = c * q + r
  BY <1>1, Division
<1>3. x + r = c * (-q) + i
  BY <1>2
<1>4. (x + r) % c = i
  <2>1. -q \in Int
    BY <1>2
  <2> QED BY <2>1, <1>3, DivisionIs
<1> QED BY <1>2, <1>4

LEMMA AllProbed ==
    ASSUME NEW c \in Nat \ {0}, NEW k \in Keys, NEW i \in 0 .. c - 1
    PROVE  \E n \in 1 .. c : Place(c, k, n) = i
<1>1. Hash[k] \in Int
  BY RobinConstants
<1>2. PICK m \in 0 .. c - 1 : (Hash[k] + m) % c = i
  BY <1>1, AllPlaces
<1>3. m + 1 \in 1 .. c /\ (m + 1) - 1 = m
  OBVIOUS
<1>4. Place(c, k, m + 1) = i
  BY <1>2, <1>3 DEF Place
<1> QED BY <1>3, <1>4

-----------------------------------------------------------------------------
\* From its home to its slot an entry passes none that is nearer to its own home.
LEMMA WayFromHome ==
    ASSUME NEW c \in Nat \ {0}, NEW t, InOrder(t, c), HasRoom(t, c),
           NEW i \in 0 .. c - 1, t[i].key \in Keys
    PROVE  /\ t[i].dib \in 1 .. c /\ Place(c, t[i].key, t[i].dib) = i
           /\ \A n \in 1 .. t[i].dib : t[Place(c, t[i].key, n)].dib >= n
<1> DEFINE k == t[i].key
           d == t[i].dib
           S == {m \in Nat : m < d => t[Place(c, k, d - m)].dib >= d - m}
<1>1. IsTable(t, c) /\ AtHome(t, c) /\ Near(t, c)
  BY DEF InOrder
<1>2. k \in Keys /\ d \in Nat \ {0}
  BY <1>1, SlotWithKey
<1>3. Place(c, k, d) = i
  BY <1>1, <1>2 DEF AtHome
<1>4. 0 \in S
  BY <1>2, <1>3
<1>5. ASSUME NEW m \in 1 .. d, m - 1 \in S PROVE m \in S
  <2> SUFFICES ASSUME m < d PROVE t[Place(c, k, d - m)].dib >= d - m
    BY <1>5
  <2>1. d - m \in Nat /\ (d - m) + 1 = d - (m - 1) /\ m - 1 < d
    BY <1>2
  <2>2. t[Place(c, k, d - (m - 1))].dib >= d - (m - 1)
    BY <1>5, <2>1
  <2> DEFINE p == Place(c, k, d - m)
  <2>3. p \in 0 .. c - 1 /\ Behind(c, p) = Place(c, k, d - (m - 1))
    <3>1. p \in 0 .. c - 1 /\ Behind(c, p) = Place(c, k, (d - m) + 1)
      BY <2>1, <1>2, PlaceIs
    <3> QED BY <3>1, <2>1
  <2>4. t[Behind(c, p)].dib <= t[p].dib + 1
    BY <2>3, <1>1 DEF Near
  <2>5. t[p].dib \in Nat /\ t[Behind(c, p)].dib \in Nat
    BY <2>3, <1>1, SlotIs, BehindIs
  <2> HIDE DEF p
  <2>6. t[p].dib >= d - m
    BY <2>1, <2>2, <2>3, <2>4, <2>5, <1>2
  <2> QED BY <2>6 DEF p
<1>6. 0 .. d \subseteq S
  <2> HIDE DEF S
  <2> QED BY <1>2, <1>4, <1>5, Climb
<1>7. ASSUME NEW n \in 1 .. d PROVE t[Place(c, k, n)].dib >= n
  <2>1. d - n \in 0 .. d /\ d - n < d /\ d - (d - n) = n
    BY <1>2
  <2>2. d - n \in S
    BY <2>1, <1>6
  <2>3. t[Place(c, k, d - (d - n))].dib >= d - (d - n)
    BY <2>1, <2>2
  <2> QED BY <2>1, <2>3
<1>8. d <= c
  <2>1. PICK e \in 0 .. c - 1 : t[e].dib = 0
    BY DEF HasRoom
  <2>2. PICK n \in 1 .. c : Place(c, k, n) = e
    BY <1>2, AllProbed
  <2> QED BY <2>1, <2>2, <1>2, <1>7
<1> QED BY <1>2, <1>3, <1>7, <1>8

\* A search ends, at its key's slot if there is one.
LEMMA SlotOfIs ==
    ASSUME NEW c \in Nat \ {0}, NEW t, InOrder(t, c), HasRoom(t, c), NEW k \in Keys
    PROVE  /\ \A i \in 0 .. c - 1 : t[i].key = k => Robin!SlotOf(t, k) = i
           /\ ~HasKey(t, c, k) => Robin!SlotOf(t, k) = -1
<1> DEFINE Over(n) == t[Place(c, k, n)].dib < n \/ t[Place(c, k, n)].key = k
           T == {n \in 1 .. c : Over(n)}
           r == Robin!RoundsTo(t, k)
           at == Place(c, k, r)
<1>1. IsTable(t, c) /\ KeysOnce(t, c)
  BY DEF InOrder
<1>2. \A n : Robin!Ends(t, k, n) <=> Over(n)
  BY <1>1, ProbedIs DEF Robin!Ends
<1>3. T # {}
  <2>1. PICK e \in 0 .. c - 1 : t[e].dib = 0
    BY DEF HasRoom
  <2>2. PICK n \in 1 .. c : Place(c, k, n) = e
    BY AllProbed
  <2> QED BY <2>1, <2>2
<1>4. PICK m \in T : \A j \in T : m <= j
  <2> HIDE DEF T
  <2>1. T \in SUBSET (1 .. c)
    BY DEF T
  <2> QED BY <2>1, <1>3, LeastPosition
<1>5. /\ Robin!Ends(t, k, m) /\ \A j \in 1 .. m - 1 : ~Robin!Ends(t, k, j)
      /\ m \in 1 .. c
  <2>1. m \in 1 .. c /\ Over(m)
    BY <1>4
  <2>2. ASSUME NEW j \in 1 .. m - 1 PROVE ~Over(j)
    <3>1. j \in 1 .. c /\ ~(m <= j)
      BY <2>1
    <3> QED BY <3>1, <1>4
  <2> HIDE DEF Over
  <2> QED BY <2>1, <2>2, <1>2
<1>6. r \in 1 .. c /\ Over(r) /\ \A j \in 1 .. r - 1 : ~Over(j)
  <2>1. r = CHOOSE n \in 1 .. c : Robin!Ends(t, k, n) /\ \A j \in 1 .. n - 1 : ~Robin!Ends(t, k, j)
    BY <1>1, CapacityIs DEF Robin!RoundsTo
  <2> HIDE DEF r, Over
  <2>2. r \in 1 .. c /\ Robin!Ends(t, k, r) /\ \A j \in 1 .. r - 1 : ~Robin!Ends(t, k, j)
    BY <2>1, <1>5
  <2> QED BY <2>2, <1>2
<1>7. at \in 0 .. c - 1
  BY <1>6, PlaceIs
<1>8. Robin!SlotOf(t, k) = IF t[at].dib < r THEN -1 ELSE at
  <2>1. Robin!Probed(t, k, r) = at
    BY <1>1, ProbedIs
  <2> QED BY <2>1 DEF Robin!SlotOf
<1>9. ASSUME NEW i \in 0 .. c - 1, t[i].key = k PROVE Robin!SlotOf(t, k) = i
  <2> DEFINE d == t[i].dib
  <2>1. /\ d \in 1 .. c /\ Place(c, k, d) = i
        /\ \A n \in 1 .. d : t[Place(c, k, n)].dib >= n
    BY <1>9, WayFromHome
  <2>2. Over(d)
    BY <2>1, <1>9
  <2>3. r <= d
    <3> HIDE DEF Over, r
    <3> QED BY <2>1, <2>2, <1>6
  <2>4. t[at].dib >= r /\ t[at].dib \in Nat
    <3>1. t[at].dib \in Nat
      BY <1>1, <1>7, SlotIs
    <3>2. r \in 1 .. d
      BY <2>1, <2>3, <1>6
    <3> QED BY <3>1, <3>2, <2>1
  <2>5. ~(t[at].dib < r)
    <3> HIDE DEF at, r
    <3> QED BY <2>4, <1>6
  <2>6. t[at].key = k
    BY <2>5, <1>6
  <2>7. at = i
    BY <2>6, <1>1, <1>7, <1>9 DEF KeysOnce
  <2> QED BY <2>5, <2>7, <1>8
<1>10. ASSUME ~HasKey(t, c, k) PROVE Robin!SlotOf(t, k) = -1
  <2>1. t[at].key # k
    BY <1>7, <1>10 DEF HasKey
  <2> QED BY <2>1, <1>6, <1>8
<1> QED BY <1>9, <1>10

\* What a search answers.
LEMMA FindIs ==
    ASSUME NEW c \in Nat \ {0}, NEW t, InOrder(t, c), HasRoom(t, c), NEW k \in Keys
    PROVE  /\ ~HasKey(t, c, k) => Robin!Find(t, k) = Absent
           /\ HasKey(t, c, k) => Robin!Find(t, k) \in MapValues /\ HasEntry(t, c, k, Robin!Find(t, k))
           /\ \A v : HasEntry(t, c, k, v) => Robin!Find(t, k) = v
<1>1. Robin!Find(t, k) = IF Robin!SlotOf(t, k) = -1 THEN Absent ELSE t[Robin!SlotOf(t, k)].value
  BY DEF Robin!Find
<1>2. ASSUME NEW i \in 0 .. c - 1, t[i].key = k
      PROVE  Robin!Find(t, k) = t[i].value /\ t[i].value \in MapValues
  <2>1. Robin!SlotOf(t, k) = i /\ i # -1
    BY <1>2, SlotOfIs
  <2>2. t[i].value \in MapValues
    BY <1>2, SlotWithKey DEF InOrder
  <2> QED BY <2>1, <2>2, <1>1
<1>3. ~HasKey(t, c, k) => Robin!Find(t, k) = Absent
  BY <1>1, SlotOfIs
<1> QED BY <1>2, <1>3 DEF HasKey, HasEntry

-----------------------------------------------------------------------------
\* An entry e that can stand at p: as far from home as it says, not further
\* from home by more than one place than the slot before, and of a new key.
FitsAt(t, c, p, e) ==
    /\ e \in HashEntry /\ Place(c, e.key, e.dib) = p
    /\ \A i \in 0 .. c - 1 : t[i].key # e.key
    /\ \A i \in 0 .. c - 1 : Behind(c, i) = p => e.dib <= t[i].dib + 1

\* Put where the entry there, if any, is nearer to its home, it leaves the table in order.
LEMMA PutIn ==
    ASSUME NEW c \in Nat, c > 1, NEW t, InOrder(t, c), NEW p \in 0 .. c - 1,
           NEW e, FitsAt(t, c, p, e), t[p].dib < e.dib,
           NEW u, u = [t EXCEPT ![p] = e]
    PROVE  InOrder(u, c) /\ u[p] = e /\ \A i \in 0 .. c - 1 : i # p => u[i] = t[i]
<1>1. IsTable(t, c) /\ AtHome(t, c) /\ Near(t, c) /\ KeysOnce(t, c)
  BY DEF InOrder
<1>2. e \in HashEntry /\ e.dib \in Nat \ {0} /\ e.key \in Keys
  BY DEF FitsAt, HashEntry
<1>3. IsTable(u, c)
  BY <1>1, <1>2 DEF IsTable
<1>4. u[p] = e /\ \A i \in 0 .. c - 1 : i # p => u[i] = t[i]
  BY <1>1 DEF IsTable
<1>5. AtHome(u, c)
  BY <1>1, <1>4 DEF AtHome, FitsAt
<1>6. Near(u, c)
  <2> SUFFICES ASSUME NEW i \in 0 .. c - 1 PROVE u[Behind(c, i)].dib <= u[i].dib + 1
    BY DEF Near
  <2>1. /\ Behind(c, i) \in 0 .. c - 1 /\ Behind(c, i) # i
        /\ Behind(c, p) \in 0 .. c - 1 /\ Behind(c, p) # p
    BY BehindIs
  <2>2. /\ t[i].dib \in Nat /\ t[Behind(c, i)].dib \in Nat
        /\ t[Behind(c, i)].dib <= t[i].dib + 1
    BY <1>1, <2>1, SlotIs DEF Near
  <2>3. CASE i = p
    <3>1. u[Behind(c, i)] = t[Behind(c, i)] /\ u[i] = e
      BY <2>1, <2>3, <1>4
    <3> QED BY <3>1, <2>2, <2>3, <1>2
  <2>4. CASE i # p /\ Behind(c, i) = p
    <3>1. u[Behind(c, i)] = e /\ u[i] = t[i]
      BY <2>4, <1>4
    <3>2. e.dib <= t[i].dib + 1
      BY <2>4 DEF FitsAt
    <3> QED BY <3>1, <3>2
  <2>5. CASE i # p /\ Behind(c, i) # p
    <3>1. u[Behind(c, i)] = t[Behind(c, i)] /\ u[i] = t[i]
      BY <2>1, <2>5, <1>4
    <3> QED BY <3>1, <2>2
  <2> QED BY <2>3, <2>4, <2>5
<1>7. KeysOnce(u, c)
  <2> SUFFICES ASSUME NEW i \in 0 .. c - 1, NEW j \in 0 .. c - 1, u[i].key = u[j].key, u[i].key \in Keys
               PROVE  i = j
    BY DEF KeysOnce
  <2>1. CASE i # p /\ j # p
    BY <2>1, <1>1, <1>4 DEF KeysOnce
  <2>2. CASE i = p /\ j # p
    BY <2>2, <1>4 DEF FitsAt
  <2>3. CASE i # p /\ j = p
    BY <2>3, <1>4 DEF FitsAt
  <2> QED BY <2>1, <2>2, <2>3
<1> QED BY <1>3, <1>4, <1>5, <1>6, <1>7 DEF InOrder

\* What the loop carries on from p: the entry itself, or the one it has put out.
LEMMA CarriedOn ==
    ASSUME NEW c \in Nat, c > 1, NEW t, InOrder(t, c), NEW p \in 0 .. c - 1,
           NEW e, FitsAt(t, c, p, e), e.dib <= t[p].dib
    PROVE  FitsAt(t, c, Behind(c, p), [e EXCEPT !.dib = @ + 1])
<1> DEFINE b == [e EXCEPT !.dib = @ + 1]
<1>1. /\ e \in HashEntry /\ e.dib \in Nat \ {0} /\ e.key \in Keys
      /\ e.value \in MapValues /\ DOMAIN e = {"dib", "key", "value"}
  BY DEF FitsAt, HashEntry
<1>2. b \in HashEntry /\ b.dib = e.dib + 1 /\ b.key = e.key
  BY <1>1 DEF HashEntry
<1>3. Place(c, b.key, b.dib) = Behind(c, p)
  <2>1. Place(c, e.key, e.dib) = p
    BY DEF FitsAt
  <2>2. Behind(c, Place(c, e.key, e.dib)) = Place(c, e.key, e.dib + 1)
    BY <1>1, PlaceIs
  <2> QED BY <2>1, <2>2, <1>2
<1> HIDE DEF b
<1>4. \A i \in 0 .. c - 1 : t[i].key # b.key
  BY <1>2 DEF FitsAt
<1>5. \A i \in 0 .. c - 1 : Behind(c, i) = Behind(c, p) => b.dib <= t[i].dib + 1
  <2> SUFFICES ASSUME NEW i \in 0 .. c - 1, Behind(c, i) = Behind(c, p) PROVE b.dib <= t[i].dib + 1
    OBVIOUS
  <2>1. i = p
    BY BehindIs
  <2>2. t[p].dib \in Nat
    BY SlotIs DEF InOrder
  <2> QED BY <2>1, <2>2, <1>1, <1>2
<1> QED BY <1>2, <1>3, <1>4, <1>5 DEF FitsAt, b

LEMMA PutOut ==
    ASSUME NEW c \in Nat, c > 1, NEW t, InOrder(t, c), NEW p \in 0 .. c - 1,
           NEW e, FitsAt(t, c, p, e), t[p].dib < e.dib, t[p].dib # 0,
           NEW u, u = [t EXCEPT ![p] = e]
    PROVE  FitsAt(u, c, Behind(c, p), [t[p] EXCEPT !.dib = @ + 1])
<1> DEFINE d == t[p]
           b == [d EXCEPT !.dib = @ + 1]
<1>1. IsTable(t, c) /\ AtHome(t, c) /\ KeysOnce(t, c)
  BY DEF InOrder
<1>2. d \in HashEntry /\ d.dib \in Nat \ {0} /\ d.key \in Keys
  BY <1>1, SlotIs
<1>3. b \in HashEntry /\ b.dib = d.dib + 1 /\ b.key = d.key
  <2> HIDE DEF d
  <2> QED BY <1>2 DEF HashEntry
<1>4. u[p] = e /\ \A i \in 0 .. c - 1 : i # p => u[i] = t[i]
  BY <1>1 DEF IsTable
<1>5. Place(c, b.key, b.dib) = Behind(c, p)
  <2>1. Place(c, d.key, d.dib) = p
    BY <1>1, <1>2 DEF AtHome
  <2>2. Behind(c, Place(c, d.key, d.dib)) = Place(c, d.key, d.dib + 1)
    BY <1>2, PlaceIs
  <2> HIDE DEF d, b
  <2> QED BY <2>1, <2>2, <1>3
<1>6. ASSUME NEW i \in 0 .. c - 1 PROVE u[i].key # b.key
  <2>1. CASE i = p
    <3>1. t[p].key # e.key
      BY DEF FitsAt
    <3> HIDE DEF b
    <3> QED BY <2>1, <3>1, <1>3, <1>4
  <2>2. CASE i # p
    <3>1. t[i].key # t[p].key
      BY <2>2, <1>1, <1>2 DEF KeysOnce
    <3> HIDE DEF b
    <3> QED BY <2>2, <3>1, <1>3, <1>4
  <2> QED BY <2>1, <2>2
<1>7. ASSUME NEW i \in 0 .. c - 1, Behind(c, i) = Behind(c, p) PROVE b.dib <= u[i].dib + 1
  <2>1. i = p
    BY <1>7, BehindIs
  <2>2. e.dib \in Nat
    BY DEF FitsAt, HashEntry
  <2> HIDE DEF b
  <2> QED BY <2>1, <2>2, <1>2, <1>3, <1>4
<1> HIDE DEF b
<1>8. FitsAt(u, c, Behind(c, p), b)
  BY <1>3, <1>5, <1>6, <1>7 DEF FitsAt
<1> QED BY <1>8 DEF b

-----------------------------------------------------------------------------
\* The entry (x, y) is in the table or being carried on.
Carries(t, c, e, x, y) == HasEntry(t, c, x, y) \/ (e.key = x /\ e.value = y)

LEMMA PutInAdds ==
    ASSUME NEW c \in Nat, c > 1, NEW t, InOrder(t, c), NEW p \in 0 .. c - 1,
           NEW e, FitsAt(t, c, p, e), t[p].dib = 0,
           NEW u, u = [t EXCEPT ![p] = e], NEW x \in Keys, NEW y
    PROVE  HasEntry(u, c, x, y) <=> Carries(t, c, e, x, y)
<1>1. u[p] = e /\ \A i \in 0 .. c - 1 : i # p => u[i] = t[i]
  BY DEF InOrder, IsTable
<1>2. t[p].key \notin Keys
  BY SlotIs DEF InOrder
<1>3. HasEntry(u, c, x, y) => Carries(t, c, e, x, y)
  BY <1>1 DEF HasEntry, Carries
<1>4. e.key = x /\ e.value = y => HasEntry(u, c, x, y)
  BY <1>1 DEF HasEntry
<1>5. HasEntry(t, c, x, y) => HasEntry(u, c, x, y)
  BY <1>1, <1>2 DEF HasEntry
<1> QED BY <1>3, <1>4, <1>5 DEF Carries

LEMMA PutOutKeeps ==
    ASSUME NEW c \in Nat, c > 1, NEW t, InOrder(t, c), NEW p \in 0 .. c - 1,
           NEW e, FitsAt(t, c, p, e), t[p].dib # 0,
           NEW u, u = [t EXCEPT ![p] = e], NEW x \in Keys, NEW y
    PROVE  Carries(u, c, [t[p] EXCEPT !.dib = @ + 1], x, y) <=> Carries(t, c, e, x, y)
<1> DEFINE b == [t[p] EXCEPT !.dib = @ + 1]
<1>1. u[p] = e /\ \A i \in 0 .. c - 1 : i # p => u[i] = t[i]
  BY DEF InOrder, IsTable
<1>2. t[p] \in HashEntry
  BY SlotIs DEF InOrder
<1>3. b.key = t[p].key /\ b.value = t[p].value
  BY <1>2 DEF HashEntry
<1> HIDE DEF b
<1>4. HasEntry(u, c, x, y) => Carries(t, c, e, x, y)
  BY <1>1 DEF HasEntry, Carries
<1>5. b.key = x /\ b.value = y => HasEntry(t, c, x, y)
  BY <1>3 DEF HasEntry
<1>6. e.key = x /\ e.value = y => HasEntry(u, c, x, y)
  BY <1>1 DEF HasEntry
<1>7. HasEntry(t, c, x, y) => Carries(u, c, b, x, y)
  <2> SUFFICES ASSUME NEW i \in 0 .. c - 1, t[i].key = x, t[i].value = y PROVE Carries(u, c, b, x, y)
    BY DEF HasEntry
  <2>1. CASE i = p
    BY <2>1, <1>3 DEF Carries
  <2>2. CASE i # p
    BY <2>2, <1>1 DEF Carries, HasEntry
  <2> QED BY <2>1, <2>2
<1>8. Carries(u, c, b, x, y) <=> Carries(t, c, e, x, y)
  BY <1>4, <1>5, <1>6, <1>7 DEF Carries
<1> QED BY <1>8 DEF b

-----------------------------------------------------------------------------
\* The loop of insert as it begins, and its first n rounds.
Begun(t, s, k, v) ==
    [table |-> t, size |-> s, probe |-> [dib |-> 1, key |-> k, value |-> v], done |-> FALSE]

RoundsOf(f, t, s, k, v, n) ==
    f = [j \in 0 .. n |->
            IF j = 0 THEN Begun(t, s, k, v) ELSE Robin!Round(f[j - 1], Robin!Probed(t, k, j))]

LEMMA RoundsExist ==
    ASSUME NEW t, NEW s, NEW k, NEW v, NEW n \in Nat
    PROVE  \E f : RoundsOf(f, t, s, k, v, n)
<1> DEFINE S == {m \in 0 .. n : \E f : RoundsOf(f, t, s, k, v, m)}
<1>1. 0 \in S
  <2> DEFINE f == [j \in 0 .. 0 |-> Begun(t, s, k, v)]
  <2>1. RoundsOf(f, t, s, k, v, 0)
    BY DEF RoundsOf
  <2> QED BY <2>1
<1>2. ASSUME NEW m \in 1 .. n, m - 1 \in S PROVE m \in S
  <2>1. PICK f : RoundsOf(f, t, s, k, v, m - 1)
    BY <1>2
  <2> DEFINE g == [j \in 0 .. m |->
                      IF j = m THEN Robin!Round(f[m - 1], Robin!Probed(t, k, m)) ELSE f[j]]
  <2>2. ASSUME NEW j \in 0 .. m
        PROVE  g[j] = IF j = 0 THEN Begun(t, s, k, v) ELSE Robin!Round(g[j - 1], Robin!Probed(t, k, j))
    <3>1. CASE j = m
      <4>1. g[j - 1] = f[m - 1] /\ j # 0
        BY <3>1
      <4> QED BY <4>1, <3>1
    <3>2. CASE j # m /\ j # 0
      <4>1. j \in 0 .. m - 1 /\ j - 1 \in 0 .. m - 1 /\ j - 1 # m
        BY <3>2
      <4>2. f[j] = Robin!Round(f[j - 1], Robin!Probed(t, k, j))
        BY <2>1, <3>2, <4>1 DEF RoundsOf
      <4>3. g[j] = f[j] /\ g[j - 1] = f[j - 1]
        BY <3>2, <4>1
      <4> QED BY <3>2, <4>2, <4>3
    <3>3. CASE j = 0
      <4>1. f[0] = Begun(t, s, k, v)
        BY <2>1 DEF RoundsOf
      <4> QED BY <4>1, <3>3
    <3> QED BY <3>1, <3>2, <3>3
  <2>3. g = [j \in 0 .. m |-> g[j]]
    OBVIOUS
  <2> HIDE DEF g
  <2>4. RoundsOf(g, t, s, k, v, m)
    <3>1. [j \in 0 .. m |-> g[j]] =
             [j \in 0 .. m |->
                 IF j = 0 THEN Begun(t, s, k, v) ELSE Robin!Round(g[j - 1], Robin!Probed(t, k, j))]
      BY <2>2, Zenon
    <3> QED BY <2>3, <3>1 DEF RoundsOf
  <2> QED BY <2>4
<1>3. 0 .. n \subseteq S
  <2> HIDE DEF S
  <2> QED BY <1>1, <1>2, Climb
<1> QED BY <1>3

\* The rounds that Placed takes, one after the other.
EndsIn(f, r, t, s, c, k, v) ==
    /\ f[0] = Begun(t, s, k, v)
    /\ \A j \in 1 .. c : f[j] = Robin!Round(f[j - 1], Place(c, k, j))
    /\ r = [table |-> f[c].table, size |-> f[c].size]

LEMMA PlacedRounds ==
    ASSUME NEW c \in Nat, NEW t, IsTable(t, c), NEW s, NEW k, NEW v,
           NEW r, r = Robin!Placed([table |-> t, size |-> s], k, v)
    PROVE  \E f : EndsIn(f, r, t, s, c, k, v)
<1> DEFINE m == [table |-> t, size |-> s]
           f == CHOOSE f : RoundsOf(f, t, s, k, v, c)
<1>1. RoundsOf(f, t, s, k, v, c)
  BY RoundsExist
<1>2. Robin!Capacity(t) = c
  BY CapacityIs
<1>3. m.table = t /\ m.size = s
  OBVIOUS
<1>4. Robin!Placed(m, k, v) = [table |-> f[c].table, size |-> f[c].size]
  <2> HIDE DEF m
  <2> QED BY <1>2, <1>3 DEF Robin!Placed, RoundsOf, Begun
<1> HIDE DEF f
<1>5. f[0] = Begun(t, s, k, v)
  BY <1>1 DEF RoundsOf
<1>6. ASSUME NEW j \in 1 .. c PROVE f[j] = Robin!Round(f[j - 1], Place(c, k, j))
  <2>1. f[j] = Robin!Round(f[j - 1], Robin!Probed(t, k, j))
    BY <1>1 DEF RoundsOf
  <2>2. Robin!Probed(t, k, j) = Place(c, k, j)
    BY ProbedIs
  <2> QED BY <2>1, <2>2
<1>7. r = [table |-> f[c].table, size |-> f[c].size]
  BY <1>4
<1>8. EndsIn(f, r, t, s, c, k, v)
  BY <1>5, <1>6, <1>7 DEF EndsIn
<1> QED BY <1>8

LEMMA RoundIs ==
    ASSUME NEW m, NEW i
    PROVE  LET cur == m.table[i]
               b == m.probe
           IN  /\ m.done => Robin!Round(m, i) = m
               /\ ~m.done /\ cur.dib = 0 =>
                      Robin!Round(m, i) = [table |-> [m.table EXCEPT ![i] = b], size |-> m.size + 1,
                                           probe |-> b, done |-> TRUE]
               /\ ~m.done /\ cur.dib # 0 /\ cur.key = b.key =>
                      Robin!Round(m, i) = [table |-> [m.table EXCEPT ![i] = [cur EXCEPT !.value = b.value]],
                                           size |-> m.size, probe |-> b, done |-> TRUE]
               /\ ~m.done /\ cur.dib # 0 /\ cur.key # b.key /\ cur.dib < b.dib =>
                      Robin!Round(m, i) = [table |-> [m.table EXCEPT ![i] = b], size |-> m.size,
                                           probe |-> [cur EXCEPT !.dib = @ + 1], done |-> FALSE]
               /\ ~m.done /\ cur.dib # 0 /\ cur.key # b.key /\ ~(cur.dib < b.dib) =>
                      Robin!Round(m, i) = [table |-> [m.table EXCEPT ![i] = cur], size |-> m.size,
                                           probe |-> [b EXCEPT !.dib = @ + 1], done |-> FALSE]
BY Zenon DEF Robin!Round

-----------------------------------------------------------------------------
Fresh(k, v) == [dib |-> 1, key |-> k, value |-> v]

\* The loop has put the entry k, v, or carries on what it has put out for it.
IsDone(m, t, s, c, k, v) ==
    /\ InOrder(m.table, c) /\ m.size = s + 1
    /\ \A x \in Keys : \A y : HasEntry(m.table, c, x, y) <=> Carries(t, c, Fresh(k, v), x, y)

IsOnTheWay(m, t, s, c, k, v, n) ==
    /\ InOrder(m.table, c) /\ m.size = s
    /\ FitsAt(m.table, c, Place(c, k, n + 1), m.probe)
    /\ \A x \in Keys : \A y : Carries(m.table, c, m.probe, x, y) <=> Carries(t, c, Fresh(k, v), x, y)
    /\ \A i \in 0 .. c - 1 : m.table[i].dib = 0 <=> t[i].dib = 0
    /\ \A j \in 1 .. n : t[Place(c, k, j)].dib # 0

Inserting(m, t, s, c, k, v, n) ==
    \/ m.done = TRUE /\ IsDone(m, t, s, c, k, v)
    \/ m.done = FALSE /\ IsOnTheWay(m, t, s, c, k, v, n)

LEMMA InsertingBegins ==
    ASSUME NEW c \in Nat, c > 1, NEW t, InOrder(t, c), NEW s,
           NEW k \in Keys, NEW v \in MapValues, ~HasKey(t, c, k)
    PROVE  Inserting(Begun(t, s, k, v), t, s, c, k, v, 0)
<1> DEFINE m == Begun(t, s, k, v)
           e == Fresh(k, v)
<1>1. m.table = t /\ m.size = s /\ m.probe = e /\ m.done = FALSE
  BY DEF Begun, Fresh
<1>2. e \in HashEntry /\ e.key = k /\ e.dib = 1
  BY DEF HashEntry, Fresh
<1> HIDE DEF m, e
<1>3. FitsAt(t, c, Place(c, k, 0 + 1), e)
  <2>1. \A i \in 0 .. c - 1 : t[i].key # e.key
    BY <1>2 DEF HasKey
  <2>2. \A i \in 0 .. c - 1 : e.dib <= t[i].dib + 1
    BY <1>2, SlotIs DEF InOrder
  <2>3. Place(c, e.key, e.dib) = Place(c, k, 0 + 1)
    BY <1>2
  <2> QED BY <1>2, <2>1, <2>2, <2>3 DEF FitsAt
<1>4. IsOnTheWay(m, t, s, c, k, v, 0)
  BY <1>1, <1>3 DEF IsOnTheWay, e
<1> QED BY <1>1, <1>4 DEF Inserting, m

LEMMA InsertingGoesOn ==
    ASSUME NEW c \in Nat, c > 1, NEW t, NEW s \in Nat, NEW k \in Keys, NEW v \in MapValues,
           NEW n \in 1 .. c, NEW m, Inserting(m, t, s, c, k, v, n - 1),
           NEW r, r = Robin!Round(m, Place(c, k, n))
    PROVE  Inserting(r, t, s, c, k, v, n)
<1> DEFINE p == Place(c, k, n)
           e == m.probe
           old == m.table
           u == [old EXCEPT ![p] = e]
<1>1. CASE m.done
  <2>1. r = m
    BY <1>1, RoundIs
  <2> QED BY <2>1, <1>1 DEF Inserting
<1>2. CASE ~m.done
  <2>1. /\ IsOnTheWay(m, t, s, c, k, v, n - 1) /\ m.done = FALSE /\ (n - 1) + 1 = n
    BY <1>2 DEF Inserting
  <2>2. /\ InOrder(old, c) /\ m.size = s
        /\ FitsAt(old, c, p, e)
        /\ \A x \in Keys : \A y : Carries(old, c, e, x, y) <=> Carries(t, c, Fresh(k, v), x, y)
        /\ \A i \in 0 .. c - 1 : old[i].dib = 0 <=> t[i].dib = 0
        /\ \A j \in 1 .. n - 1 : t[Place(c, k, j)].dib # 0
    BY <2>1 DEF IsOnTheWay
  <2>3. /\ p \in 0 .. c - 1 /\ Behind(c, p) = Place(c, k, n + 1)
    BY PlaceIs
  <2>4. e.dib \in Nat \ {0} /\ old[p].dib \in Nat
    BY <2>2, <2>3, SlotIs DEF FitsAt, HashEntry, InOrder
  <2>5. r = Robin!Round(m, p)
    OBVIOUS
  <2>6. DOMAIN old = 0 .. c - 1
    BY <2>2 DEF InOrder, IsTable
  <2> HIDE DEF p, e, old
  <2>7. CASE old[p].dib = 0
    <3>1. r = [table |-> u, size |-> m.size + 1, probe |-> e, done |-> TRUE]
      BY <1>2, <2>5, <2>7, RoundIs DEF old, e
    <3> HIDE DEF u
    <3>2. r.table = u /\ r.size = s + 1 /\ r.done = TRUE
      BY <3>1, <2>2
    <3>3. InOrder(u, c)
      BY <2>2, <2>3, <2>4, <2>7, PutIn DEF u
    <3>4. \A x \in Keys : \A y : HasEntry(u, c, x, y) <=> Carries(old, c, e, x, y)
      BY <2>2, <2>3, <2>7, PutInAdds DEF u
    <3>5. IsDone(r, t, s, c, k, v)
      BY <3>2, <3>3, <3>4, <2>2 DEF IsDone
    <3> QED BY <3>2, <3>5 DEF Inserting
  <2>8. CASE old[p].dib # 0
    <3>1. t[p].dib # 0
      BY <2>2, <2>3, <2>8
    <3>2. \A j \in 1 .. n : t[Place(c, k, j)].dib # 0
      BY <3>1, <2>2 DEF p
    <3>3. old[p].key # e.key
      BY <2>2, <2>3 DEF FitsAt
    <3>4. CASE old[p].dib < e.dib
      <4> DEFINE b == [old[p] EXCEPT !.dib = @ + 1]
      <4>1. r = [table |-> u, size |-> m.size, probe |-> b, done |-> FALSE]
        BY <1>2, <2>5, <2>8, <3>3, <3>4, RoundIs DEF old, e
      <4>2. InOrder(u, c) /\ u[p] = e /\ \A i \in 0 .. c - 1 : i # p => u[i] = old[i]
        <5>1. InOrder(u, c)
          BY <2>2, <2>3, <2>4, <3>4, PutIn
        <5>2. u[p] = e /\ \A i \in 0 .. c - 1 : i # p => u[i] = old[i]
          BY <2>3, <2>6
        <5> QED BY <5>1, <5>2
      <4>3. FitsAt(u, c, Behind(c, p), b)
        BY <2>2, <2>3, <2>8, <3>4, PutOut
      <4>4. \A x \in Keys : \A y : Carries(u, c, b, x, y) <=> Carries(old, c, e, x, y)
        BY <2>2, <2>3, <2>8, PutOutKeeps
      <4> HIDE DEF u, b
      <4>5. r.table = u /\ r.size = s /\ r.probe = b /\ r.done = FALSE
        BY <4>1, <2>2
      <4>6. \A i \in 0 .. c - 1 : u[i].dib = 0 <=> t[i].dib = 0
        BY <4>2, <2>2, <2>4, <2>8
      <4>7. IsOnTheWay(r, t, s, c, k, v, n)
        <5>1. FitsAt(u, c, Place(c, k, n + 1), b)
          BY <4>3, <2>3
        <5>2. \A x \in Keys : \A y : Carries(u, c, b, x, y) <=> Carries(t, c, Fresh(k, v), x, y)
          BY <4>4, <2>2
        <5> QED BY <4>2, <4>5, <4>6, <5>1, <5>2, <3>2 DEF IsOnTheWay
      <4> QED BY <4>5, <4>7 DEF Inserting
    <3>5. CASE ~(old[p].dib < e.dib)
      <4> DEFINE b == [e EXCEPT !.dib = @ + 1]
      <4>1. r = [table |-> [old EXCEPT ![p] = old[p]], size |-> m.size, probe |-> b, done |-> FALSE]
        BY <1>2, <2>5, <2>8, <3>3, <3>5, RoundIs DEF old, e
      <4>2. [old EXCEPT ![p] = old[p]] = old
        BY <2>2, <2>3 DEF InOrder, IsTable
      <4>3. FitsAt(old, c, Behind(c, p), b)
        BY <2>2, <2>3, <2>4, <3>5, CarriedOn
      <4>4. b.key = e.key /\ b.value = e.value
        BY <2>2 DEF FitsAt, HashEntry
      <4> HIDE DEF b
      <4>5. r.table = old /\ r.size = s /\ r.probe = b /\ r.done = FALSE
        BY <4>1, <4>2, <2>2
      <4>6. \A x \in Keys : \A y : Carries(old, c, b, x, y) <=> Carries(t, c, Fresh(k, v), x, y)
        BY <4>4, <2>2 DEF Carries
      <4>7. IsOnTheWay(r, t, s, c, k, v, n)
        <5>1. FitsAt(old, c, Place(c, k, n + 1), b)
          BY <4>3, <2>3
        <5> QED BY <4>5, <4>6, <5>1, <3>2, <2>2 DEF IsOnTheWay
      <4> QED BY <4>5, <4>7 DEF Inserting
    <3> QED BY <3>4, <3>5
  <2> QED BY <2>7, <2>8
<1> QED BY <1>1, <1>2

\* A new key is put into a free slot, and its entry is added.
LEMMA PlacedNew ==
    ASSUME NEW c \in Nat, c > 1, NEW t, InOrder(t, c), HasRoom(t, c), NEW s \in Nat,
           NEW k \in Keys, NEW v \in MapValues, ~HasKey(t, c, k),
           NEW r, r = Robin!Placed([table |-> t, size |-> s], k, v)
    PROVE  r = [table |-> r.table, size |-> r.size] /\ IsDone(r, t, s, c, k, v)
<1>1. PICK f : /\ f[0] = Begun(t, s, k, v)
               /\ \A j \in 1 .. c : f[j] = Robin!Round(f[j - 1], Place(c, k, j))
               /\ r = [table |-> f[c].table, size |-> f[c].size]
  <2>1. IsTable(t, c)
    BY DEF InOrder
  <2>2. PICK f : EndsIn(f, r, t, s, c, k, v)
    BY <2>1, PlacedRounds
  <2> QED BY <2>2, Zenon DEF EndsIn
<1> DEFINE S == {n \in 0 .. c : Inserting(f[n], t, s, c, k, v, n)}
<1>2. 0 \in S
  BY <1>1, InsertingBegins
<1>3. ASSUME NEW n \in 1 .. c, n - 1 \in S PROVE n \in S
  <2>1. Inserting(f[n - 1], t, s, c, k, v, n - 1)
    BY <1>3
  <2>2. f[n] = Robin!Round(f[n - 1], Place(c, k, n))
    BY <1>1
  <2>3. Inserting(f[n], t, s, c, k, v, n)
    BY <2>1, <2>2, InsertingGoesOn
  <2> QED BY <2>3
<1>4. c \in S
  <2> HIDE DEF S
  <2> QED BY <1>2, <1>3, Climb
<1>5. ~IsOnTheWay(f[c], t, s, c, k, v, c)
  <2>1. PICK i \in 0 .. c - 1 : t[i].dib = 0
    BY DEF HasRoom
  <2>2. PICK n \in 1 .. c : Place(c, k, n) = i
    BY AllProbed
  <2> QED BY <2>1, <2>2 DEF IsOnTheWay
<1>6. IsDone(f[c], t, s, c, k, v)
  BY <1>4, <1>5 DEF Inserting
<1> QED BY <1>1, <1>6 DEF IsDone

-----------------------------------------------------------------------------
\* A key that is there gets its new value where it is.
Revalued(t, i, v) == [t EXCEPT ![i] = [t[i] EXCEPT !.value = v]]

LEMMA NewValueIsInOrder ==
    ASSUME NEW c \in Nat, NEW t, InOrder(t, c), NEW i \in 0 .. c - 1, t[i].key \in Keys,
           NEW v \in MapValues, NEW u, u = Revalued(t, i, v)
    PROVE  /\ InOrder(u, c)
           /\ \A x \in Keys : \A y :
                  HasEntry(u, c, x, y) <=> IF x = t[i].key THEN y = v ELSE HasEntry(t, c, x, y)
<1> DEFINE e == [t[i] EXCEPT !.value = v]
<1>1. IsTable(t, c) /\ AtHome(t, c) /\ Near(t, c) /\ KeysOnce(t, c)
  BY DEF InOrder
<1>2. t[i] \in HashEntry /\ t[i].dib # 0
  BY <1>1, SlotWithKey
<1>3. e \in HashEntry /\ e.dib = t[i].dib /\ e.key = t[i].key /\ e.value = v
  BY <1>2 DEF HashEntry
<1> HIDE DEF e
<1>4. DOMAIN u = 0 .. c - 1 /\ u[i] = e /\ \A j \in 0 .. c - 1 : j # i => u[j] = t[j]
  BY <1>1 DEF IsTable, Revalued, e
<1>5. \A j \in 0 .. c - 1 : u[j].dib = t[j].dib /\ u[j].key = t[j].key
  BY <1>3, <1>4
<1>6. IsTable(u, c)
  <2>1. u = [t EXCEPT ![i] = e]
    BY DEF e, Revalued
  <2> QED BY <2>1, <1>1, <1>3 DEF IsTable
<1>7. AtHome(u, c)
  BY <1>1, <1>5 DEF AtHome
<1>8. Near(u, c)
  <2> SUFFICES ASSUME NEW j \in 0 .. c - 1 PROVE u[Behind(c, j)].dib <= u[j].dib + 1
    BY DEF Near
  <2>1. Behind(c, j) \in 0 .. c - 1
    BY BehindIs
  <2> QED BY <2>1, <1>1, <1>5 DEF Near
<1>9. KeysOnce(u, c)
  BY <1>1, <1>5 DEF KeysOnce
<1>10. ASSUME NEW x \in Keys, NEW y
       PROVE  HasEntry(u, c, x, y) <=> IF x = t[i].key THEN y = v ELSE HasEntry(t, c, x, y)
  <2>1. CASE x = t[i].key
    <3>1. \A j \in 0 .. c - 1 : u[j].key = x <=> j = i
      BY <2>1, <1>1, <1>5 DEF KeysOnce
    <3> QED BY <2>1, <3>1, <1>3, <1>4 DEF HasEntry
  <2>2. CASE x # t[i].key
    <3>1. \A j \in 0 .. c - 1 : u[j].key = x => j # i
      BY <2>2, <1>5
    <3> QED BY <2>2, <3>1, <1>4, <1>5 DEF HasEntry
  <2> QED BY <2>1, <2>2
<1> QED BY <1>6, <1>7, <1>8, <1>9, <1>10 DEF InOrder

LEMMA PlacedAgain ==
    ASSUME NEW c \in Nat, c > 1, NEW t, InOrder(t, c), HasRoom(t, c), NEW s \in Nat,
           NEW k \in Keys, NEW v \in MapValues, NEW i \in 0 .. c - 1, t[i].key = k,
           NEW r, r = Robin!Placed([table |-> t, size |-> s], k, v)
    PROVE  r = [table |-> Revalued(t, i, v), size |-> s]
<1>1. PICK f : /\ f[0] = Begun(t, s, k, v)
               /\ \A j \in 1 .. c : f[j] = Robin!Round(f[j - 1], Place(c, k, j))
               /\ r = [table |-> f[c].table, size |-> f[c].size]
  <2>1. IsTable(t, c)
    BY DEF InOrder
  <2>2. PICK f : EndsIn(f, r, t, s, c, k, v)
    BY <2>1, PlacedRounds
  <2> QED BY <2>2, Zenon DEF EndsIn
<1> DEFINE u == Revalued(t, i, v)
           d == t[i].dib
           Way(n) == [table |-> t, size |-> s, probe |-> [dib |-> n + 1, key |-> k, value |-> v],
                      done |-> FALSE]
           Ended(m) == m.table = u /\ m.size = s /\ m.done
<1>2. /\ d \in 1 .. c /\ Place(c, k, d) = i
      /\ \A n \in 1 .. d : t[Place(c, k, n)].dib >= n
  BY WayFromHome
<1> DEFINE S == {n \in 0 .. c : Ended(f[n]) \/ (f[n] = Way(n) /\ n < d)}
<1>3. 0 \in S
  BY <1>1, <1>2 DEF Begun
<1>4. ASSUME NEW n \in 1 .. c, n - 1 \in S PROVE n \in S
  <2> DEFINE m == f[n - 1]
             p == Place(c, k, n)
  <2>1. f[n] = Robin!Round(m, p)
    BY <1>1
  <2>2. p \in 0 .. c - 1
    BY PlaceIs
  <2>3. CASE Ended(m)
    <3>1. f[n] = m
      BY <2>1, <2>3, RoundIs
    <3>2. Ended(f[n])
      BY <3>1, <2>3
    <3> QED BY <3>2
  <2>4. CASE m = Way(n - 1) /\ n - 1 < d
    <3>1. n \in 1 .. d
      BY <2>4, <1>2
    <3>2. t[p].dib >= n /\ t[p].dib \in Nat
      BY <3>1, <2>2, <1>2, SlotIs DEF InOrder
    <3>3. /\ m.table = t /\ m.size = s /\ ~m.done
          /\ m.probe.dib = n /\ m.probe.key = k /\ m.probe.value = v
          /\ m.probe = [dib |-> n, key |-> k, value |-> v]
      BY <2>4
    <3>4. m.table[p].dib # 0 /\ ~(m.table[p].dib < m.probe.dib)
      BY <3>2, <3>3
    <3> HIDE DEF m, p
    <3>5. CASE p = i
      <4>1. m.table[p].key = m.probe.key
        BY <3>3, <3>5
      <4>2. f[n] = [table |-> [m.table EXCEPT ![p] = [m.table[p] EXCEPT !.value = m.probe.value]],
                    size |-> m.size, probe |-> m.probe, done |-> TRUE]
        BY <2>1, <3>3, <3>4, <4>1, RoundIs
      <4>3. Ended(f[n])
        BY <4>2, <3>3, <3>5 DEF Revalued
      <4> QED BY <4>3
    <3>6. CASE p # i
      <4>1. m.table[p].key # m.probe.key
        BY <3>3, <3>6, <2>2 DEF InOrder, KeysOnce
      <4>2. f[n] = [table |-> [m.table EXCEPT ![p] = m.table[p]], size |-> m.size,
                    probe |-> [m.probe EXCEPT !.dib = @ + 1], done |-> FALSE]
        BY <2>1, <3>3, <3>4, <4>1, RoundIs
      <4>3. [t EXCEPT ![p] = t[p]] = t
        BY <2>2 DEF InOrder, IsTable
      <4>4. [m.probe EXCEPT !.dib = @ + 1] = [dib |-> n + 1, key |-> k, value |-> v]
        BY <3>3
      <4>5. f[n] = Way(n)
        BY <4>2, <4>3, <4>4, <3>3
      <4>6. n # d
        BY <3>6, <1>2 DEF p
      <4>7. n < d
        BY <4>6, <3>1, <1>2
      <4> HIDE DEF Way, Ended, d
      <4> QED BY <4>5, <4>7
    <3> QED BY <3>5, <3>6
  <2> QED BY <2>3, <2>4, <1>4
<1>5. c \in S
  <2> HIDE DEF S
  <2> QED BY <1>3, <1>4, Climb
<1>6. Ended(f[c])
  BY <1>5, <1>2
<1> QED BY <1>1, <1>6

\* What an insert promises of the table u it makes of t.
Gives(t, c, u, d, k, v) ==
    \A x \in Keys : \A y : HasEntry(u, d, x, y) <=> IF x = k THEN y = v ELSE HasEntry(t, c, x, y)

LEMMA PlacedIs ==
    ASSUME NEW c \in Nat, c > 1, NEW t, InOrder(t, c), HasRoom(t, c), NEW s \in Nat,
           NEW k \in Keys, NEW v \in MapValues,
           NEW r, r = Robin!Placed([table |-> t, size |-> s], k, v)
    PROVE  /\ r = [table |-> r.table, size |-> r.size]
           /\ InOrder(r.table, c) /\ Gives(t, c, r.table, c, k, v)
           /\ r.size = IF HasKey(t, c, k) THEN s ELSE s + 1
<1>1. CASE HasKey(t, c, k)
  <2>1. PICK i \in 0 .. c - 1 : t[i].key = k
    BY <1>1 DEF HasKey
  <2> DEFINE u == Revalued(t, i, v)
  <2>2. r = [table |-> u, size |-> s]
    BY <2>1, PlacedAgain
  <2>3. InOrder(u, c) /\ \A x \in Keys : \A y :
                  HasEntry(u, c, x, y) <=> IF x = k THEN y = v ELSE HasEntry(t, c, x, y)
    <3>1. t[i].key \in Keys /\ u = Revalued(t, i, v)
      BY <2>1
    <3> HIDE DEF u
    <3>2. /\ InOrder(u, c)
          /\ \A x \in Keys : \A y :
                 HasEntry(u, c, x, y) <=> IF x = t[i].key THEN y = v ELSE HasEntry(t, c, x, y)
      <4>1. InOrder(u, c)
        BY <2>1, <3>1, NewValueIsInOrder
      <4>2. ASSUME NEW x \in Keys, NEW y
            PROVE  HasEntry(u, c, x, y) <=> IF x = t[i].key THEN y = v ELSE HasEntry(t, c, x, y)
        BY <2>1, <3>1, NewValueIsInOrder
      <4> QED BY <4>1, <4>2
    <3> QED BY <3>2, <2>1
  <2> HIDE DEF u
  <2> QED BY <2>2, <2>3, <1>1 DEF Gives
<1>2. CASE ~HasKey(t, c, k)
  <2>1. r = [table |-> r.table, size |-> r.size] /\ IsDone(r, t, s, c, k, v)
    BY <1>2, PlacedNew
  <2>2. \A y : ~HasEntry(t, c, k, y)
    BY <1>2 DEF HasKey, HasEntry
  <2>3. \A x \in Keys : \A y : Carries(t, c, Fresh(k, v), x, y)
                               <=> IF x = k THEN y = v ELSE HasEntry(t, c, x, y)
    BY <2>2 DEF Carries, Fresh
  <2> QED BY <2>1, <2>3, <1>2 DEF IsDone, Gives
<1> QED BY <1>1, <1>2

-----------------------------------------------------------------------------
\* A table in order but for the free slot h: what stood there stood between
\* the slot before and the one behind, which may be two places further from home.
HoleAt(u, c, h) ==
    /\ h \in 0 .. c - 1 /\ u[h] = Robin!Empty
    /\ IsTable(u, c) /\ AtHome(u, c) /\ KeysOnce(u, c)
    /\ \A i \in 0 .. c - 1 : i # h => u[Behind(c, i)].dib <= u[i].dib + 1
    /\ \A i \in 0 .. c - 1 : Behind(c, i) = h => u[Behind(c, h)].dib <= u[i].dib + 2

\* u has the entries of t but for that of k.
Loses(t, u, c, k) == \A x \in Keys : \A y : HasEntry(u, c, x, y) <=> HasEntry(t, c, x, y) /\ x # k

LEMMA EmptyIs == Robin!Empty.dib = 0 /\ Robin!Empty.key \notin Keys
BY RobinConstants DEF Robin!Empty

LEMMA HoleMade ==
    ASSUME NEW c \in Nat, c > 1, NEW t, InOrder(t, c), NEW h \in 0 .. c - 1, t[h].key \in Keys,
           NEW u, u = [t EXCEPT ![h] = Robin!Empty]
    PROVE  HoleAt(u, c, h) /\ Loses(t, u, c, t[h].key)
<1>1. IsTable(t, c) /\ AtHome(t, c) /\ Near(t, c) /\ KeysOnce(t, c)
  BY DEF InOrder
<1>2. u[h] = Robin!Empty /\ \A i \in 0 .. c - 1 : i # h => u[i] = t[i]
  BY <1>1 DEF IsTable
<1>3. IsTable(u, c)
  BY <1>1 DEF IsTable
<1>4. AtHome(u, c)
  BY <1>1, <1>2, EmptyIs DEF AtHome
<1>5. KeysOnce(u, c)
  BY <1>1, <1>2, EmptyIs DEF KeysOnce
<1>6. ASSUME NEW i \in 0 .. c - 1, i # h PROVE u[Behind(c, i)].dib <= u[i].dib + 1
  <2>1. Behind(c, i) \in 0 .. c - 1
    BY BehindIs
  <2>2. t[Behind(c, i)].dib <= t[i].dib + 1 /\ t[i].dib \in Nat
    BY <1>1, SlotIs DEF Near
  <2>3. u[i] = t[i]
    BY <1>2, <1>6
  <2>4. CASE Behind(c, i) = h
    BY <2>2, <2>3, <2>4, <1>2, EmptyIs
  <2>5. CASE Behind(c, i) # h
    BY <2>1, <2>2, <2>3, <2>5, <1>2
  <2> QED BY <2>4, <2>5
<1>7. ASSUME NEW i \in 0 .. c - 1, Behind(c, i) = h PROVE u[Behind(c, h)].dib <= u[i].dib + 2
  <2>1. /\ Behind(c, h) \in 0 .. c - 1 /\ Behind(c, h) # h /\ i # h
    BY <1>7, BehindIs
  <2>2. /\ t[Behind(c, h)].dib <= t[h].dib + 1 /\ t[Behind(c, i)].dib <= t[i].dib + 1
    BY <1>1 DEF Near
  <2>3. t[h].dib \in Nat /\ t[i].dib \in Nat /\ t[Behind(c, h)].dib \in Nat
    BY <1>1, <2>1, SlotIs
  <2>4. u[Behind(c, h)] = t[Behind(c, h)] /\ u[i] = t[i]
    BY <1>2, <2>1
  <2>5. t[h].dib <= t[i].dib + 1
    BY <2>2, <1>7
  <2> QED BY <2>2, <2>3, <2>4, <2>5
<1>8. HoleAt(u, c, h)
  BY <1>2, <1>3, <1>4, <1>5, <1>6, <1>7 DEF HoleAt
<1>9. ASSUME NEW x \in Keys, NEW y PROVE HasEntry(u, c, x, y) <=> HasEntry(t, c, x, y) /\ x # t[h].key
  <2>1. ASSUME NEW i \in 0 .. c - 1, u[i].key = x PROVE i # h /\ x # t[h].key
    <3>1. i # h
      BY <2>1, <1>2, EmptyIs
    <3>2. t[i].key = x
      BY <2>1, <3>1, <1>2
    <3> QED BY <3>1, <3>2, <1>1 DEF KeysOnce
  <2>2. HasEntry(u, c, x, y) => HasEntry(t, c, x, y) /\ x # t[h].key
    BY <2>1, <1>2 DEF HasEntry
  <2>3. HasEntry(t, c, x, y) /\ x # t[h].key => HasEntry(u, c, x, y)
    BY <1>2 DEF HasEntry
  <2> QED BY <2>2, <2>3
<1> QED BY <1>8, <1>9 DEF Loses

LEMMA HoleClosed ==
    ASSUME NEW c \in Nat, c > 1, NEW u, NEW h, HoleAt(u, c, h), u[Behind(c, h)].dib <= 1
    PROVE  InOrder(u, c)
<1>1. h \in 0 .. c - 1 /\ u[h].dib = 0 /\ IsTable(u, c) /\ AtHome(u, c) /\ KeysOnce(u, c)
  BY EmptyIs DEF HoleAt
<1>2. Near(u, c)
  <2> SUFFICES ASSUME NEW i \in 0 .. c - 1 PROVE u[Behind(c, i)].dib <= u[i].dib + 1
    BY DEF Near
  <2>1. CASE i = h
    BY <2>1, <1>1
  <2>2. CASE i # h
    BY <2>2 DEF HoleAt
  <2> QED BY <2>1, <2>2
<1> QED BY <1>1, <1>2 DEF InOrder

\* One place nearer to its home, the entry behind fills the hole and leaves one.
MovedTo(u, h, b) == [u EXCEPT ![h] = [u[b] EXCEPT !.dib = @ - 1], ![b] = Robin!Empty]

LEMMA HoleMoved ==
    ASSUME NEW c \in Nat, c > 1, NEW u, NEW h, HoleAt(u, c, h),
           NEW b, b = Behind(c, h), u[b].dib > 1, NEW w, w = MovedTo(u, h, b)
    PROVE  /\ HoleAt(w, c, b)
           /\ \A x \in Keys : \A y : HasEntry(w, c, x, y) <=> HasEntry(u, c, x, y)
           /\ \A i \in 0 .. c - 1 : i # h /\ u[i].dib = 0 => w[i].dib = 0
<1> DEFINE e == u[b]
           d == [e EXCEPT !.dib = @ - 1]
<1>1. /\ h \in 0 .. c - 1 /\ u[h] = Robin!Empty
      /\ IsTable(u, c) /\ AtHome(u, c) /\ KeysOnce(u, c)
      /\ \A i \in 0 .. c - 1 : i # h => u[Behind(c, i)].dib <= u[i].dib + 1
      /\ \A i \in 0 .. c - 1 : Behind(c, i) = h => u[Behind(c, h)].dib <= u[i].dib + 2
  BY DEF HoleAt
<1>2. b \in 0 .. c - 1 /\ b # h
  BY <1>1, BehindIs
<1>3. e.dib \in Nat /\ e.dib > 1 /\ e \in HashEntry /\ e.key \in Keys
  BY <1>1, <1>2, SlotIs
<1>4. d \in HashEntry /\ d.dib = e.dib - 1 /\ d.key = e.key /\ d.value = e.value
  <2> HIDE DEF e
  <2> QED BY <1>3 DEF HashEntry
<1>5. w = [u EXCEPT ![h] = d, ![b] = Robin!Empty]
  BY DEF MovedTo
<1> HIDE DEF d
<1>6. w[h] = d /\ w[b] = Robin!Empty /\ \A i \in 0 .. c - 1 : i # h /\ i # b => w[i] = u[i]
  BY <1>1, <1>2, <1>5 DEF IsTable
<1>7. IsTable(w, c)
  BY <1>1, <1>2, <1>4, <1>5 DEF IsTable
<1>8. AtHome(w, c)
  <2> SUFFICES ASSUME NEW i \in 0 .. c - 1, w[i].dib # 0 PROVE Place(c, w[i].key, w[i].dib) = i
    BY DEF AtHome
  <2>1. CASE i = h
    <3> DEFINE g == e.dib - 1
               k == e.key
               p == Place(c, k, g)
    <3>1. g \in Nat /\ g + 1 = e.dib /\ k \in Keys
      BY <1>3
    <3>2. Place(c, k, e.dib) = b
      BY <1>1, <1>2, <1>3 DEF AtHome
    <3>3. w[i].key = k /\ w[i].dib = g
      BY <2>1, <1>4, <1>6
    <3> HIDE DEF g, k
    <3>4. p \in 0 .. c - 1 /\ Behind(c, p) = Place(c, k, g + 1)
      BY <3>1, PlaceIs
    <3>5. Behind(c, p) = Behind(c, h)
      BY <3>1, <3>2, <3>4
    <3> HIDE DEF p
    <3>6. p = h
      BY <3>4, <3>5, <1>1, BehindIs
    <3> QED BY <3>3, <3>6, <2>1 DEF p
  <2>2. CASE i = b
    BY <2>2, <1>6, EmptyIs
  <2>3. CASE i # h /\ i # b
    BY <2>3, <1>1, <1>6 DEF AtHome
  <2> QED BY <2>1, <2>2, <2>3
<1>9. KeysOnce(w, c)
  <2> DEFINE from(i) == IF i = h THEN b ELSE i
  <2>1. ASSUME NEW i \in 0 .. c - 1, w[i].key \in Keys
        PROVE  from(i) \in 0 .. c - 1 /\ u[from(i)].key = w[i].key /\ i # b
    <3>1. i # b
      BY <2>1, <1>6, EmptyIs
    <3>2. CASE i = h
      BY <3>1, <3>2, <1>2, <1>4, <1>6
    <3>3. CASE i # h
      BY <3>1, <3>3, <1>6
    <3> QED BY <3>1, <3>2, <3>3
  <2> SUFFICES ASSUME NEW i \in 0 .. c - 1, NEW j \in 0 .. c - 1, w[i].key = w[j].key, w[i].key \in Keys
               PROVE  i = j
    BY DEF KeysOnce
  <2>2. /\ from(i) \in 0 .. c - 1 /\ u[from(i)].key = w[i].key /\ i # b
        /\ from(j) \in 0 .. c - 1 /\ u[from(j)].key = w[j].key /\ j # b
    BY <2>1
  <2>3. from(i) = from(j)
    <3> HIDE DEF from
    <3> QED BY <2>2, <1>1 DEF KeysOnce
  <2> QED BY <2>2, <2>3
<1>10. ASSUME NEW i \in 0 .. c - 1, i # b PROVE w[Behind(c, i)].dib <= w[i].dib + 1
  <2>1. Behind(c, i) \in 0 .. c - 1 /\ Behind(c, i) # i
    BY BehindIs
  <2>2. w[i].dib \in Nat /\ w[Behind(c, i)].dib \in Nat
    BY <1>7, <2>1, SlotIs
  <2>3. CASE Behind(c, i) = b
    BY <2>2, <2>3, <1>6, EmptyIs
  <2>4. CASE Behind(c, i) = h
    <3>1. e.dib <= u[i].dib + 2
      BY <2>4, <1>1
    <3>2. w[i] = u[i]
      BY <2>1, <2>4, <1>10, <1>6
    <3> QED BY <3>1, <3>2, <2>2, <2>4, <1>3, <1>4, <1>6
  <2>5. CASE Behind(c, i) # b /\ Behind(c, i) # h
    <3>1. i # h
      BY <2>5
    <3>2. w[i] = u[i] /\ w[Behind(c, i)] = u[Behind(c, i)]
      BY <2>1, <2>5, <3>1, <1>6, <1>10
    <3> QED BY <3>1, <3>2, <1>1
  <2> QED BY <2>3, <2>4, <2>5
<1>11. ASSUME NEW i \in 0 .. c - 1, Behind(c, i) = b PROVE w[Behind(c, b)].dib <= w[i].dib + 2
  <2>1. i = h
    BY <1>11, <1>1, BehindIs
  <2>2. Behind(c, b) \in 0 .. c - 1 /\ Behind(c, b) # b
    BY <1>2, BehindIs
  <2>3. w[i].dib = e.dib - 1
    BY <2>1, <1>4, <1>6
  <2>4. CASE Behind(c, b) = h
    BY <2>3, <2>4, <1>3, <1>4, <1>6
  <2>5. CASE Behind(c, b) # h
    <3>1. u[Behind(c, b)].dib <= e.dib + 1
      BY <1>1, <1>2
    <3>2. w[Behind(c, b)] = u[Behind(c, b)]
      BY <2>2, <2>5, <1>6
    <3>3. w[Behind(c, b)].dib \in Nat
      BY <2>2, <1>7, SlotIs
    <3> QED BY <3>1, <3>2, <3>3, <2>3, <1>3
  <2> QED BY <2>4, <2>5
<1>12. HoleAt(w, c, b)
  BY <1>2, <1>6, <1>7, <1>8, <1>9, <1>10, <1>11 DEF HoleAt
<1>13. ASSUME NEW x \in Keys, NEW y PROVE HasEntry(w, c, x, y) <=> HasEntry(u, c, x, y)
  <2>1. HasEntry(w, c, x, y) => HasEntry(u, c, x, y)
    <3> SUFFICES ASSUME NEW i \in 0 .. c - 1, w[i].key = x, w[i].value = y PROVE HasEntry(u, c, x, y)
      BY DEF HasEntry
    <3>1. i # b
      BY <1>6, EmptyIs
    <3>2. CASE i = h
      BY <3>2, <1>2, <1>4, <1>6 DEF HasEntry
    <3>3. CASE i # h
      BY <3>1, <3>3, <1>6 DEF HasEntry
    <3> QED BY <3>2, <3>3
  <2>2. HasEntry(u, c, x, y) => HasEntry(w, c, x, y)
    <3> SUFFICES ASSUME NEW i \in 0 .. c - 1, u[i].key = x, u[i].value = y PROVE HasEntry(w, c, x, y)
      BY DEF HasEntry
    <3>1. i # h
      BY <1>1, EmptyIs
    <3>2. CASE i = b
      BY <3>2, <1>1, <1>4, <1>6 DEF HasEntry
    <3>3. CASE i # b
      BY <3>1, <3>3, <1>6 DEF HasEntry
    <3> QED BY <3>2, <3>3
  <2> QED BY <2>1, <2>2
<1>14. ASSUME NEW i \in 0 .. c - 1, i # h, u[i].dib = 0 PROVE w[i].dib = 0
  BY <1>14, <1>6, EmptyIs
<1> QED BY <1>12, <1>13, <1>14

-----------------------------------------------------------------------------
\* n slots behind i
From(c, i, n) == (i + n) % c

LEMMA FromIs ==
    ASSUME NEW c \in Nat \ {0}, NEW i \in 0 .. c - 1, NEW n \in Nat
    PROVE  Behind(c, From(c, i, n)) = From(c, i, n + 1) /\ From(c, i, 0) = i
<1> DEFINE x == i + n
<1>1. x \in Int /\ i + (n + 1) = x + 1
  OBVIOUS
<1>2. From(c, i, n) = x % c /\ From(c, i, n + 1) = (x + 1) % c
  BY <1>1 DEF From
<1> HIDE DEF x
<1>3. ((x % c) + 1) % c = (x + 1) % c
  <2>1. x \in Int /\ 1 \in Int /\ c \in Nat \ {0}
    BY <1>1
  <2> QED BY ONLY <2>1, RemainderOfSum
<1>4. Behind(c, From(c, i, n)) = ((x % c) + 1) % c
  BY ONLY <1>2, Zenon DEF Behind
<1>5. From(c, i, 0) = i
  <2>1. i + 0 = c * 0 + i /\ 0 \in Int
    OBVIOUS
  <2>2. (i + 0) % c = i
    BY ONLY <2>1, DivisionIs, c \in Nat \ {0}, i \in 0 .. c - 1
  <2> QED BY <2>2 DEF From
<1> QED BY ONLY <1>2, <1>3, <1>4, <1>5, Zenon

\* The second loop of erase as it begins, and its first n rounds.
Holed(t, i) == [table |-> [t EXCEPT ![i] = Robin!Empty], at |-> i]

PullsOf(f, t, i, n) ==
    f = [j \in 0 .. n |-> IF j = 0 THEN Holed(t, i) ELSE Robin!Pulled(f[j - 1])]

LEMMA PullsExist ==
    ASSUME NEW t, NEW i, NEW n \in Nat
    PROVE  \E f : PullsOf(f, t, i, n)
<1> DEFINE S == {m \in 0 .. n : \E f : PullsOf(f, t, i, m)}
<1>1. 0 \in S
  <2> DEFINE f == [j \in 0 .. 0 |-> Holed(t, i)]
  <2>1. PullsOf(f, t, i, 0)
    BY DEF PullsOf
  <2> QED BY <2>1
<1>2. ASSUME NEW m \in 1 .. n, m - 1 \in S PROVE m \in S
  <2>1. PICK f : PullsOf(f, t, i, m - 1)
    BY <1>2
  <2> DEFINE g == [j \in 0 .. m |-> IF j = m THEN Robin!Pulled(f[m - 1]) ELSE f[j]]
  <2>2. ASSUME NEW j \in 0 .. m
        PROVE  g[j] = IF j = 0 THEN Holed(t, i) ELSE Robin!Pulled(g[j - 1])
    <3>1. CASE j = m
      <4>1. g[j - 1] = f[m - 1] /\ j # 0
        BY <3>1
      <4> QED BY <4>1, <3>1
    <3>2. CASE j # m /\ j # 0
      <4>1. j \in 0 .. m - 1 /\ j - 1 \in 0 .. m - 1 /\ j - 1 # m
        BY <3>2
      <4>2. f[j] = Robin!Pulled(f[j - 1])
        BY <2>1, <3>2, <4>1 DEF PullsOf
      <4>3. g[j] = f[j] /\ g[j - 1] = f[j - 1]
        BY <3>2, <4>1
      <4> QED BY <3>2, <4>2, <4>3
    <3>3. CASE j = 0
      <4>1. f[0] = Holed(t, i)
        BY <2>1 DEF PullsOf
      <4> QED BY <4>1, <3>3
    <3> QED BY <3>1, <3>2, <3>3
  <2>3. g = [j \in 0 .. m |-> g[j]]
    OBVIOUS
  <2> HIDE DEF g
  <2>4. PullsOf(g, t, i, m)
    <3>1. [j \in 0 .. m |-> g[j]] =
             [j \in 0 .. m |-> IF j = 0 THEN Holed(t, i) ELSE Robin!Pulled(g[j - 1])]
      BY <2>2, Zenon
    <3> QED BY <2>3, <3>1 DEF PullsOf
  <2> QED BY <2>4
<1>3. 0 .. n \subseteq S
  <2> HIDE DEF S
  <2> QED BY <1>1, <1>2, Climb
<1> QED BY <1>3

LEMMA PulledIs ==
    ASSUME NEW c \in Nat, NEW m, IsTable(m.table, c), NEW b, b = Behind(c, m.at)
    PROVE  /\ m.table[b].dib <= 1 => Robin!Pulled(m) = m
           /\ ~(m.table[b].dib <= 1) =>
                  Robin!Pulled(m) = [table |-> MovedTo(m.table, m.at, b), at |-> b]
<1>1. Robin!After(m.table, m.at) = b
  BY CapacityIs DEF Robin!After, Behind
<1> QED BY <1>1, Zenon DEF Robin!Pulled, MovedTo

\* The hole has moved n places, or nothing is left to be pulled into it.
Erasing(m, t, c, i, k, n) ==
    /\ HoleAt(m.table, c, m.at) /\ Loses(t, m.table, c, k)
    /\ \/ m.table[Behind(c, m.at)].dib <= 1
       \/ /\ m.at = From(c, i, n)
          /\ \A j \in 0 .. n : t[From(c, i, j)].dib # 0
          /\ \A j \in 0 .. c - 1 : t[j].dib = 0 => m.table[j].dib = 0

LEMMA ErasingBegins ==
    ASSUME NEW c \in Nat, c > 1, NEW t, InOrder(t, c), NEW i \in 0 .. c - 1, t[i].key \in Keys
    PROVE  Erasing(Holed(t, i), t, c, i, t[i].key, 0)
<1> DEFINE u == [t EXCEPT ![i] = Robin!Empty]
           m == Holed(t, i)
<1>1. m.table = u /\ m.at = i
  BY DEF Holed
<1>2. HoleAt(u, c, i) /\ Loses(t, u, c, t[i].key)
  BY HoleMade
<1>3. From(c, i, 0) = i
  BY FromIs
<1>4. t[i].dib # 0
  BY SlotWithKey DEF InOrder
<1>5. \A j \in 0 .. c - 1 : t[j].dib = 0 => u[j].dib = 0
  <2>1. \A j \in 0 .. c - 1 : j # i => u[j] = t[j]
    BY DEF InOrder, IsTable
  <2> HIDE DEF u
  <2> QED BY <2>1, <1>4
<1>6. \A j \in 0 .. 0 : t[From(c, i, j)].dib # 0
  BY <1>3, <1>4
<1> HIDE DEF u, m
<1> QED BY <1>1, <1>2, <1>3, <1>5, <1>6 DEF Erasing, m

LEMMA ErasingGoesOn ==
    ASSUME NEW c \in Nat, c > 1, NEW t, NEW i \in 0 .. c - 1, NEW k \in Keys,
           NEW n \in 1 .. c, NEW m, Erasing(m, t, c, i, k, n - 1), NEW r, r = Robin!Pulled(m)
    PROVE  Erasing(r, t, c, i, k, n)
<1> DEFINE b == Behind(c, m.at)
           u == m.table
           h == m.at
<1>1. HoleAt(u, c, h) /\ Loses(t, u, c, k) /\ IsTable(u, c) /\ h \in 0 .. c - 1
  BY DEF Erasing, HoleAt
<1>2. b \in 0 .. c - 1 /\ u[b].dib \in Nat
  BY <1>1, BehindIs, SlotIs
<1>3. CASE u[b].dib <= 1
  <2>1. r = m
    BY <1>1, <1>3, PulledIs
  <2> QED BY <2>1, <1>1, <1>3 DEF Erasing
<1>4. CASE ~(u[b].dib <= 1)
  <2>1. /\ h = From(c, i, n - 1)
        /\ \A j \in 0 .. n - 1 : t[From(c, i, j)].dib # 0
        /\ \A j \in 0 .. c - 1 : t[j].dib = 0 => u[j].dib = 0
    BY <1>4 DEF Erasing
  <2> DEFINE w == MovedTo(u, h, b)
  <2>2. r = [table |-> w, at |-> b]
    BY <1>1, <1>4, PulledIs
  <2> HIDE DEF u, h
  <2>3. /\ HoleAt(w, c, b)
        /\ \A x \in Keys : \A y : HasEntry(w, c, x, y) <=> HasEntry(u, c, x, y)
        /\ \A j \in 0 .. c - 1 : j # h /\ u[j].dib = 0 => w[j].dib = 0
    <3>1. u[b].dib > 1
      BY <1>2, <1>4
    <3>2. b = Behind(c, h)
      BY DEF h
    <3> HIDE DEF b
    <3> QED BY <3>1, <3>2, <1>1, HoleMoved
  <2>4. b = From(c, i, n)
    <3>1. n - 1 \in Nat /\ (n - 1) + 1 = n
      OBVIOUS
    <3>2. Behind(c, From(c, i, n - 1)) = From(c, i, (n - 1) + 1)
      BY <3>1, FromIs
    <3> QED BY <3>1, <3>2, <2>1 DEF h
  <2> HIDE DEF b, w
  <2>5. r.table = w /\ r.at = b
    BY <2>2
  <2>6. t[b].dib # 0 /\ t[h].dib # 0
    <3>1. n - 1 \in 0 .. n - 1
      OBVIOUS
    <3> QED BY <3>1, <2>1, <1>2, <1>4
  <2>7. \A j \in 0 .. n : t[From(c, i, j)].dib # 0
    BY <2>1, <2>4, <2>6
  <2>8. \A j \in 0 .. c - 1 : t[j].dib = 0 => w[j].dib = 0
    BY <2>1, <2>3, <2>6
  <2>9. Loses(t, w, c, k)
    BY <2>3, <1>1 DEF Loses
  <2> QED BY <2>3, <2>4, <2>5, <2>7, <2>8, <2>9 DEF Erasing
<1> QED BY <1>3, <1>4

\* With a slot free, the pulls end, and leave the table in order without k.
LEMMA BackshiftIs ==
    ASSUME NEW c \in Nat, c > 1, NEW t, InOrder(t, c), HasRoom(t, c),
           NEW i \in 0 .. c - 1, t[i].key \in Keys
    PROVE  InOrder(Robin!Backshift(t, i), c) /\ Loses(t, Robin!Backshift(t, i), c, t[i].key)
<1> DEFINE f == CHOOSE f : PullsOf(f, t, i, c)
           k == t[i].key
<1>1. PullsOf(f, t, i, c)
  BY PullsExist
<1>2. Robin!Backshift(t, i) = f[c].table
  <2>1. Robin!Capacity(t) = c
    BY CapacityIs DEF InOrder
  <2> QED BY <2>1, Zenon DEF Robin!Backshift, PullsOf, Holed
<1> HIDE DEF f, k
<1>3. f[0] = Holed(t, i) /\ \A j \in 1 .. c : f[j] = Robin!Pulled(f[j - 1])
  BY <1>1 DEF PullsOf
<1> DEFINE S == {n \in 0 .. c : Erasing(f[n], t, c, i, k, n)}
<1>4. 0 \in S
  <2>1. Erasing(Holed(t, i), t, c, i, k, 0)
    BY ErasingBegins DEF k
  <2> QED BY <2>1, <1>3
<1>5. ASSUME NEW n \in 1 .. c, n - 1 \in S PROVE n \in S
  <2>1. Erasing(f[n - 1], t, c, i, k, n - 1) /\ f[n] = Robin!Pulled(f[n - 1]) /\ k \in Keys
    BY <1>5, <1>3 DEF k
  <2>2. Erasing(f[n], t, c, i, k, n)
    BY <2>1, ErasingGoesOn
  <2> QED BY <2>2
<1>6. c \in S
  <2> HIDE DEF S
  <2> QED BY <1>4, <1>5, Climb
<1>7. Erasing(f[c], t, c, i, k, c)
  BY <1>6
<1>8. ~\A j \in 0 .. c : t[From(c, i, j)].dib # 0
  <2>1. PICK e \in 0 .. c - 1 : t[e].dib = 0
    BY DEF HasRoom
  <2>2. \E j \in 0 .. c - 1 : (i + j) % c = e
    <3>1. i \in Int /\ e \in 0 .. c - 1 /\ c \in Nat \ {0}
      BY <2>1
    <3> QED BY ONLY <3>1, AllPlaces
  <2> QED BY <2>1, <2>2 DEF From
<1>9. /\ HoleAt(f[c].table, c, f[c].at) /\ Loses(t, f[c].table, c, k)
      /\ f[c].table[Behind(c, f[c].at)].dib <= 1
  BY <1>7, <1>8 DEF Erasing
<1>10. InOrder(f[c].table, c)
  BY <1>9, HoleClosed
<1> QED BY <1>2, <1>9, <1>10 DEF k

-----------------------------------------------------------------------------
\* The keys in the table.
Present(t, c) == {k \in Keys : HasKey(t, c, k)}

LEMMA PresentIs ==
    ASSUME NEW c, NEW t, NEW k \in Keys
    PROVE  k \in Present(t, c) <=> \E y : HasEntry(t, c, k, y)
BY DEF Present, HasKey, HasEntry

LEMMA PresentGiven ==
    ASSUME NEW c, NEW t, NEW d, NEW u, NEW k \in Keys, NEW v, Gives(t, c, u, d, k, v)
    PROVE  Present(u, d) = Present(t, c) \cup {k}
<1>1. ASSUME NEW x \in Keys PROVE x \in Present(u, d) <=> x \in Present(t, c) \cup {k}
  <2>1. CASE x = k
    <3>1. HasEntry(u, d, k, v)
      BY DEF Gives
    <3> QED BY <2>1, <3>1, PresentIs
  <2>2. CASE x # k
    <3>1. \A y : HasEntry(u, d, x, y) <=> HasEntry(t, c, x, y)
      BY <2>2 DEF Gives
    <3> QED BY <2>2, <3>1, PresentIs
  <2> QED BY <2>1, <2>2
<1>2. Present(u, d) \subseteq Keys /\ Present(t, c) \cup {k} \subseteq Keys
  BY DEF Present
<1> QED BY <1>1, <1>2

LEMMA PresentLost ==
    ASSUME NEW c, NEW t, NEW u, NEW k \in Keys, Loses(t, u, c, k)
    PROVE  Present(u, c) = Present(t, c) \ {k}
<1>1. ASSUME NEW x \in Keys PROVE x \in Present(u, c) <=> x \in Present(t, c) \ {k}
  <2>1. \A y : HasEntry(u, c, x, y) <=> HasEntry(t, c, x, y) /\ x # k
    BY DEF Loses
  <2> QED BY <2>1, PresentIs
<1>2. Present(u, c) \subseteq Keys /\ Present(t, c) \subseteq Keys
  BY DEF Present
<1> QED BY <1>1, <1>2

\* A table with more slots than keys has a free one.
LEMMA RoomLeft ==
    ASSUME NEW c \in Nat, NEW t, IsTable(t, c), KeysOnce(t, c),
           IsFiniteSet(Present(t, c)), Cardinality(Present(t, c)) < c
    PROVE  HasRoom(t, c)
<1> SUFFICES ASSUME ~HasRoom(t, c) PROVE FALSE
  OBVIOUS
<1> DEFINE g == [i \in 0 .. c - 1 |-> t[i].key]
           P == Present(t, c)
<1>1. \A i \in 0 .. c - 1 : t[i].key \in Keys
  BY SlotIs DEF HasRoom
<1>2. \A i \in 0 .. c - 1 : t[i].key \in P
  BY <1>1 DEF Present, HasKey
<1>3. g \in Injection(0 .. c - 1, P)
  BY <1>1, <1>2 DEF Injection, IsInjective, KeysOnce
<1>4. Cardinality(0 .. c - 1) = c /\ IsFiniteSet(0 .. c - 1)
  BY FS_Interval
<1> HIDE DEF g, P
<1>5. Cardinality(0 .. c - 1) <= Cardinality(P)
  BY <1>3, <1>4, FS_Injection DEF P
<1>6. Cardinality(P) \in Nat
  BY FS_CardinalityType DEF P
<1> QED BY <1>4, <1>5, <1>6 DEF P

-----------------------------------------------------------------------------
\* What the searches show of an insert and of an erase.
LEMMA AnswersGiven ==
    ASSUME NEW c \in Nat \ {0}, NEW t, InOrder(t, c), HasRoom(t, c),
           NEW d \in Nat \ {0}, NEW u, InOrder(u, d), HasRoom(u, d),
           NEW k \in Keys, NEW v \in MapValues, Gives(t, c, u, d, k, v)
    PROVE  Robin!Answers(u) = [Robin!Answers(t) EXCEPT ![k] = v]
<1>1. ASSUME NEW x \in Keys PROVE Robin!Find(u, x) = IF x = k THEN v ELSE Robin!Find(t, x)
  <2>1. CASE x = k
    <3>1. HasEntry(u, d, k, v)
      BY DEF Gives
    <3> QED BY <2>1, <3>1, FindIs
  <2>2. CASE x # k
    <3>1. \A y : HasEntry(u, d, x, y) <=> HasEntry(t, c, x, y)
      BY <2>2 DEF Gives
    <3>2. CASE HasKey(t, c, x)
      <4>1. HasEntry(t, c, x, Robin!Find(t, x))
        BY <3>2, FindIs
      <4>2. HasEntry(u, d, x, Robin!Find(t, x))
        BY <3>1, <4>1
      <4>3. Robin!Find(u, x) = Robin!Find(t, x)
        BY <4>2, FindIs
      <4> QED BY <4>3, <2>2
    <3>3. CASE ~HasKey(t, c, x)
      <4>1. ~HasKey(u, d, x)
        BY <3>1, <3>3 DEF HasKey, HasEntry
      <4>2. Robin!Find(u, x) = Absent /\ Robin!Find(t, x) = Absent
        BY <3>3, <4>1, FindIs
      <4> QED BY <4>2, <2>2
    <3> QED BY <3>2, <3>3
  <2> QED BY <2>1, <2>2
<1> QED BY <1>1 DEF Robin!Answers

LEMMA AnswersLost ==
    ASSUME NEW c \in Nat \ {0}, NEW t, InOrder(t, c), HasRoom(t, c),
           NEW u, InOrder(u, c), HasRoom(u, c), NEW k \in Keys, Loses(t, u, c, k)
    PROVE  Robin!Answers(u) = [Robin!Answers(t) EXCEPT ![k] = Absent]
<1>1. ASSUME NEW x \in Keys PROVE Robin!Find(u, x) = IF x = k THEN Absent ELSE Robin!Find(t, x)
  <2>1. \A y : HasEntry(u, c, x, y) <=> HasEntry(t, c, x, y) /\ x # k
    BY DEF Loses
  <2>2. CASE HasKey(t, c, x) /\ x # k
    <3>1. HasEntry(t, c, x, Robin!Find(t, x))
      BY <2>2, FindIs
    <3>2. HasEntry(u, c, x, Robin!Find(t, x))
      BY <2>1, <2>2, <3>1
    <3>3. Robin!Find(u, x) = Robin!Find(t, x)
      BY <3>2, FindIs
    <3> QED BY <3>3, <2>2
  <2>3. CASE ~(HasKey(t, c, x) /\ x # k)
    <3>1. ~HasKey(u, c, x)
      BY <2>1, <2>3 DEF HasKey, HasEntry
    <3>2. Robin!Find(u, x) = Absent
      BY <3>1, FindIs
    <3>3. x # k => Robin!Find(t, x) = Absent
      BY <2>3, FindIs
    <3> QED BY <3>2, <3>3
  <2> QED BY <2>2, <2>3
<1> QED BY <1>1 DEF Robin!Answers

LEMMA AnswersPresent ==
    ASSUME NEW c \in Nat \ {0}, NEW t, InOrder(t, c), HasRoom(t, c)
    PROVE  {k \in Keys : Robin!Answers(t)[k] # Absent} = Present(t, c)
<1>1. ASSUME NEW k \in Keys PROVE Robin!Answers(t)[k] # Absent <=> HasKey(t, c, k)
  <2>1. Robin!Answers(t)[k] = Robin!Find(t, k)
    BY DEF Robin!Answers
  <2>2. HasKey(t, c, k) => Robin!Find(t, k) # Absent
    BY FindIs, RobinConstants
  <2>3. ~HasKey(t, c, k) => Robin!Find(t, k) = Absent
    BY FindIs
  <2> QED BY <2>1, <2>2, <2>3
<1> QED BY <1>1 DEF Present

-----------------------------------------------------------------------------
LEMMA NewTableIs ==
    ASSUME NEW c \in Nat \ {0}
    PROVE  /\ InOrder(Robin!NewTable(c), c) /\ HasRoom(Robin!NewTable(c), c)
           /\ \A k \in Keys : ~HasKey(Robin!NewTable(c), c, k)
<1> DEFINE t == Robin!NewTable(c)
<1>1. t = [i \in 0 .. c - 1 |-> Robin!Empty]
  BY DEF Robin!NewTable
<1> HIDE DEF t
<1>2. \A i \in 0 .. c - 1 : t[i] = Robin!Empty
  BY <1>1
<1>3. IsTable(t, c)
  BY <1>1 DEF IsTable
<1>4. AtHome(t, c) /\ KeysOnce(t, c)
  BY <1>2, EmptyIs DEF AtHome, KeysOnce
<1>5. Near(t, c)
  <2> SUFFICES ASSUME NEW i \in 0 .. c - 1 PROVE t[Behind(c, i)].dib <= t[i].dib + 1
    BY DEF Near
  <2>1. Behind(c, i) \in 0 .. c - 1
    BY BehindIs
  <2>2. t[Behind(c, i)].dib = 0 /\ t[i].dib = 0
    BY <2>1, <1>2, EmptyIs
  <2> QED BY <2>2
<1>6. HasRoom(t, c)
  BY <1>2, EmptyIs DEF HasRoom
<1>7. \A k \in Keys : ~HasKey(t, c, k)
  BY <1>2, EmptyIs DEF HasKey
<1> QED BY <1>3, <1>4, <1>5, <1>6, <1>7 DEF InOrder, t

\* The first n slots that rehash takes, one after the other.
Copy(g, e) == IF e.dib = 0 THEN g ELSE Robin!Placed(g, e.key, e.value)

CopiesOf(f, t, c, n) ==
    f = [j \in 0 .. n |->
            IF j = 0 THEN [table |-> Robin!NewTable(2 * c), size |-> 0] ELSE Copy(f[j - 1], t[j - 1])]

LEMMA CopiesExist ==
    ASSUME NEW t, NEW c, NEW n \in Nat
    PROVE  \E f : CopiesOf(f, t, c, n)
<1> DEFINE none == [table |-> Robin!NewTable(2 * c), size |-> 0]
           S == {m \in 0 .. n : \E f : CopiesOf(f, t, c, m)}
<1>1. 0 \in S
  <2> DEFINE f == [j \in 0 .. 0 |-> none]
  <2>1. CopiesOf(f, t, c, 0)
    BY DEF CopiesOf
  <2> QED BY <2>1
<1>2. ASSUME NEW m \in 1 .. n, m - 1 \in S PROVE m \in S
  <2>1. PICK f : CopiesOf(f, t, c, m - 1)
    BY <1>2
  <2> DEFINE g == [j \in 0 .. m |-> IF j = m THEN Copy(f[m - 1], t[m - 1]) ELSE f[j]]
  <2>2. ASSUME NEW j \in 0 .. m
        PROVE  g[j] = IF j = 0 THEN none ELSE Copy(g[j - 1], t[j - 1])
    <3> HIDE DEF none
    <3>1. CASE j = m
      <4>1. g[j - 1] = f[m - 1] /\ j # 0
        BY <3>1
      <4> QED BY <4>1, <3>1
    <3>2. CASE j # m /\ j # 0
      <4>1. j \in 0 .. m - 1 /\ j - 1 \in 0 .. m - 1 /\ j - 1 # m
        BY <3>2
      <4>2. f[j] = Copy(f[j - 1], t[j - 1])
        BY <2>1, <3>2, <4>1 DEF CopiesOf
      <4>3. g[j] = f[j] /\ g[j - 1] = f[j - 1]
        BY <3>2, <4>1
      <4> QED BY <3>2, <4>2, <4>3
    <3>3. CASE j = 0
      <4>1. f[0] = none
        BY <2>1 DEF CopiesOf, none
      <4> QED BY <4>1, <3>3
    <3> QED BY <3>1, <3>2, <3>3
  <2>3. g = [j \in 0 .. m |-> g[j]]
    OBVIOUS
  <2> HIDE DEF g
  <2>4. CopiesOf(g, t, c, m)
    <3>1. [j \in 0 .. m |-> g[j]] =
             [j \in 0 .. m |-> IF j = 0 THEN none ELSE Copy(g[j - 1], t[j - 1])]
      BY <2>2, Zenon
    <3> QED BY <2>3, <3>1 DEF CopiesOf
  <2> QED BY <2>4
<1>3. 0 .. n \subseteq S
  <2> HIDE DEF S
  <2> QED BY <1>1, <1>2, Climb
<1> QED BY <1>3

LEMMA RehashedCopies ==
    ASSUME NEW c \in Nat, NEW t, IsTable(t, c), NEW s,
           NEW r, r = Robin!Rehashed([table |-> t, size |-> s])
    PROVE  \E f : CopiesOf(f, t, c, c) /\ r = f[c]
<1> DEFINE m == [table |-> t, size |-> s]
           f == CHOOSE f : CopiesOf(f, t, c, c)
<1>1. CopiesOf(f, t, c, c)
  BY CopiesExist
<1>2. Robin!Capacity(t) = c
  BY CapacityIs
<1>3. m.table = t
  OBVIOUS
<1>4. Robin!Rehashed(m) = f[c]
  <2> HIDE DEF m
  <2> QED BY <1>2, <1>3, Zenon DEF Robin!Rehashed, CopiesOf, Copy
<1> HIDE DEF f
<1> QED BY <1>1, <1>4

\* The entries of the slots before j are in the new table g.
Copied(g, t, c, j) ==
    /\ g = [table |-> g.table, size |-> g.size] /\ InOrder(g.table, 2 * c)
    /\ \A x \in Keys : \A y :
           HasEntry(g.table, 2 * c, x, y) <=> \E i \in 0 .. j - 1 : t[i].key = x /\ t[i].value = y
    /\ IsFiniteSet(Present(g.table, 2 * c)) /\ g.size = Cardinality(Present(g.table, 2 * c))

LEMMA CopyIs ==
    ASSUME NEW c \in Nat, c > 1, NEW t, InOrder(t, c),
           IsFiniteSet(Present(t, c)), Cardinality(Present(t, c)) < 2 * c,
           NEW j \in 1 .. c, NEW g, Copied(g, t, c, j - 1)
    PROVE  Copied(Copy(g, t[j - 1]), t, c, j)
<1> DEFINE u == g.table
           s == g.size
           d == 2 * c
           e == t[j - 1]
           k == e.key
           v == e.value
<1>1. d \in Nat /\ d > 1 /\ d \in Nat \ {0} /\ j - 1 \in 0 .. c - 1
  OBVIOUS
<1>2. IsTable(t, c) /\ KeysOnce(t, c)
  BY DEF InOrder
<1>3. /\ g = [table |-> u, size |-> s] /\ InOrder(u, d)
      /\ \A x \in Keys : \A y :
             HasEntry(u, d, x, y) <=> \E i \in 0 .. (j - 1) - 1 : t[i].key = x /\ t[i].value = y
      /\ IsFiniteSet(Present(u, d)) /\ s = Cardinality(Present(u, d))
  BY DEF Copied
<1>4. CASE e.dib = 0
  <2>1. Copy(g, e) = g
    BY <1>4 DEF Copy
  <2>2. e.key \notin Keys
    BY <1>1, <1>2, <1>4, SlotIs
  <2>3. ASSUME NEW x \in Keys, NEW y
        PROVE  HasEntry(u, d, x, y) <=> \E i \in 0 .. j - 1 : t[i].key = x /\ t[i].value = y
    <3>1. \A i \in 0 .. j - 1 : t[i].key = x => i \in 0 .. (j - 1) - 1
      BY <2>2
    <3> QED BY <3>1, <1>3
  <2> QED BY <2>1, <2>3, <1>3 DEF Copied
<1>5. CASE e.dib # 0
  <2>1. e.key \in Keys /\ e.value \in MapValues
    BY <1>1, <1>2, <1>5, SlotIs
  <2> DEFINE r == Robin!Placed([table |-> u, size |-> s], k, v)
  <2>2. Copy(g, e) = r
    BY <1>3, <1>5 DEF Copy
  <2> HIDE DEF u, s, d, r
  <2>3. ~HasKey(u, d, k)
    <3> SUFFICES ASSUME HasKey(u, d, k) PROVE FALSE
      OBVIOUS
    <3>1. PICK y : HasEntry(u, d, k, y)
      BY DEF HasKey, HasEntry
    <3>2. PICK i \in 0 .. (j - 1) - 1 : t[i].key = k
      BY <3>1, <2>1, <1>3
    <3>3. i \in 0 .. c - 1 /\ i # j - 1
      BY <3>2
    <3> QED BY <3>2, <3>3, <2>1, <1>1, <1>2 DEF KeysOnce
  <2>4. HasRoom(u, d) /\ s \in Nat
    <3>1. Present(u, d) \subseteq Present(t, c)
      <4> SUFFICES ASSUME NEW x \in Keys, x \in Present(u, d) PROVE x \in Present(t, c)
        BY DEF Present
      <4>1. PICK y : HasEntry(u, d, x, y)
        BY PresentIs
      <4>2. PICK i \in 0 .. (j - 1) - 1 : t[i].key = x
        BY <4>1, <1>3
      <4>3. i \in 0 .. c - 1
        BY <4>2
      <4> QED BY <4>2, <4>3 DEF Present, HasKey
    <3>2. Cardinality(Present(u, d)) <= Cardinality(Present(t, c))
      BY <3>1, FS_Subset
    <3>3. Cardinality(Present(u, d)) \in Nat /\ Cardinality(Present(t, c)) \in Nat
      BY <1>3, FS_CardinalityType
    <3>4. Cardinality(Present(u, d)) < d
      BY <3>2, <3>3, <1>1 DEF d
    <3> QED BY <3>3, <3>4, <1>1, <1>3, RoomLeft DEF InOrder
  <2>5. /\ r = [table |-> r.table, size |-> r.size]
        /\ InOrder(r.table, d) /\ Gives(u, d, r.table, d, k, v)
        /\ r.size = s + 1
    <3> HIDE DEF k, v
    <3>1. k \in Keys /\ v \in MapValues
      BY <2>1 DEF k, v
    <3>2. r = Robin!Placed([table |-> u, size |-> s], k, v)
      BY DEF r
    <3>3. /\ r = [table |-> r.table, size |-> r.size]
          /\ InOrder(r.table, d) /\ Gives(u, d, r.table, d, k, v)
          /\ r.size = IF HasKey(u, d, k) THEN s ELSE s + 1
      BY <1>1, <1>3, <2>4, <3>1, <3>2, PlacedIs
    <3> QED BY <3>3, <2>3
  <2>6. Present(r.table, d) = Present(u, d) \cup {k}
    <3> HIDE DEF k, v
    <3>1. k \in Keys /\ Gives(u, d, r.table, d, k, v)
      BY <2>1, <2>5 DEF k
    <3> DEFINE w == r.table
    <3> HIDE DEF w
    <3>2. Gives(u, d, w, d, k, v)
      BY <3>1 DEF w
    <3>3. Present(w, d) = Present(u, d) \cup {k}
      BY ONLY <3>1, <3>2, PresentGiven
    <3> QED BY <3>3 DEF w
  <2>7. k \notin Present(u, d)
    BY <2>3 DEF Present
  <2>8. IsFiniteSet(Present(r.table, d)) /\ r.size = Cardinality(Present(r.table, d))
    <3> DEFINE P == Present(u, d)
    <3> HIDE DEF P, k
    <3>1. IsFiniteSet(P) /\ k \notin P
      BY <2>7, <1>3 DEF P
    <3>2. IsFiniteSet(P \cup {k}) /\ Cardinality(P \cup {k}) = Cardinality(P) + 1
      BY ONLY <3>1, FS_AddElement
    <3> QED BY <2>5, <2>6, <3>2, <1>3 DEF P
  <2>9. ASSUME NEW x \in Keys, NEW y
        PROVE  HasEntry(r.table, d, x, y) <=> \E i \in 0 .. j - 1 : t[i].key = x /\ t[i].value = y
    <3>1. HasEntry(r.table, d, x, y) <=> IF x = k THEN y = v ELSE HasEntry(u, d, x, y)
      BY <2>5 DEF Gives
    <3>2. CASE x = k
      <4>1. \A i \in 0 .. j - 1 : t[i].key = x <=> i = j - 1
        BY <3>2, <2>1, <1>1, <1>2 DEF KeysOnce
      <4>2. j - 1 \in 0 .. j - 1
        OBVIOUS
      <4> QED BY <3>1, <3>2, <4>1, <4>2
    <3>3. CASE x # k
      <4>1. \A i \in 0 .. j - 1 : t[i].key = x => i \in 0 .. (j - 1) - 1
        BY <3>3
      <4> QED BY <3>1, <3>3, <4>1, <1>3
    <3> QED BY <3>2, <3>3
  <2>10. Copied(r, t, c, j)
    BY <2>5, <2>8, <2>9 DEF Copied, d
  <2> QED BY <2>2, <2>10
<1> QED BY <1>4, <1>5

\* A table of twice the size gets all the entries.
LEMMA RehashedIs ==
    ASSUME NEW c \in Nat, c > 1, NEW t, InOrder(t, c),
           IsFiniteSet(Present(t, c)), Cardinality(Present(t, c)) < 2 * c, NEW s,
           NEW r, r = Robin!Rehashed([table |-> t, size |-> s])
    PROVE  /\ r = [table |-> r.table, size |-> r.size] /\ InOrder(r.table, 2 * c)
           /\ \A x \in Keys : \A y : HasEntry(r.table, 2 * c, x, y) <=> HasEntry(t, c, x, y)
           /\ Present(r.table, 2 * c) = Present(t, c) /\ r.size = Cardinality(Present(t, c))
<1>1. PICK f : CopiesOf(f, t, c, c) /\ r = f[c]
  BY RehashedCopies DEF InOrder
<1>2. /\ f[0] = [table |-> Robin!NewTable(2 * c), size |-> 0]
      /\ \A j \in 1 .. c : f[j] = Copy(f[j - 1], t[j - 1])
  BY <1>1 DEF CopiesOf
<1> DEFINE S == {j \in 0 .. c : Copied(f[j], t, c, j)}
<1>3. Copied(f[0], t, c, 0)
  <2> DEFINE u == Robin!NewTable(2 * c)
  <2>1. InOrder(u, 2 * c) /\ \A k \in Keys : ~HasKey(u, 2 * c, k)
    <3>1. 2 * c \in Nat \ {0}
      OBVIOUS
    <3> QED BY <3>1, NewTableIs
  <2> HIDE DEF u
  <2>2. f[0] = [table |-> f[0].table, size |-> f[0].size] /\ f[0].table = u /\ f[0].size = 0
    BY <1>2 DEF u
  <2>3. Present(u, 2 * c) = {}
    BY <2>1 DEF Present
  <2>4. \A x \in Keys : \A y : ~HasEntry(u, 2 * c, x, y)
    BY <2>1 DEF HasKey, HasEntry
  <2>5. 0 .. 0 - 1 = {}
    OBVIOUS
  <2>6. IsFiniteSet({}) /\ Cardinality({}) = 0
    BY FS_EmptySet
  <2>7. ASSUME NEW x \in Keys, NEW y
        PROVE  HasEntry(f[0].table, 2 * c, x, y) <=> \E i \in 0 .. 0 - 1 : t[i].key = x /\ t[i].value = y
    BY <2>2, <2>4, <2>5
  <2> QED BY <2>1, <2>2, <2>3, <2>6, <2>7 DEF Copied
<1>4. 0 \in S
  BY <1>3
<1>5. ASSUME NEW j \in 1 .. c, j - 1 \in S PROVE j \in S
  <2>1. Copied(Copy(f[j - 1], t[j - 1]), t, c, j)
    BY <1>5, CopyIs
  <2> QED BY <2>1, <1>2
<1>6. c \in S
  <2> HIDE DEF S
  <2> QED BY <1>4, <1>5, Climb
<1>7. Copied(r, t, c, c)
  BY <1>1, <1>6
<1>8. \A x \in Keys : \A y : HasEntry(r.table, 2 * c, x, y) <=> HasEntry(t, c, x, y)
  BY <1>7 DEF Copied, HasEntry
<1>9. Present(r.table, 2 * c) = Present(t, c)
  <2>1. \A x \in Keys : x \in Present(r.table, 2 * c) <=> x \in Present(t, c)
    BY <1>8, PresentIs
  <2> QED BY <2>1 DEF Present
<1> QED BY <1>7, <1>8, <1>9 DEF Copied

-----------------------------------------------------------------------------
\* The load that a table of c slots bears.
Load(c) == (85 * c) \div 100

\* A table of c slots with s entries, as it is between two operations.
Bears(t, s, c) ==
    /\ c \in Nat /\ c >= 8
    /\ InOrder(t, c) /\ IsFiniteSet(Present(t, c))
    /\ s = Cardinality(Present(t, c)) /\ s <= Load(c)

LEMMA LoadIs ==
    ASSUME NEW c \in Nat, c >= 8
    PROVE  Load(c) \in Nat /\ Load(c) < c /\ Load(c) + 1 <= Load(2 * c)
<1> DEFINE x == 85 * c
           y == 85 * (2 * c)
<1>1. x \in Nat /\ y = 2 * x /\ y \in Nat /\ x >= 680 /\ 100 * x = 85 * (100 * c)
  OBVIOUS
<1>2. PICK q \in Int, r \in 0 .. 100 - 1 : x \div 100 = q /\ x = 100 * q + r
  <2>1. x \in Int /\ 100 \in Nat \ {0}
    BY <1>1
  <2> HIDE DEF x
  <2> QED BY ONLY <2>1, Division
<1>3. PICK p \in Int, b \in 0 .. 100 - 1 : y \div 100 = p /\ y = 100 * p + b
  <2>1. y \in Int /\ 100 \in Nat \ {0}
    BY <1>1
  <2> HIDE DEF y
  <2> QED BY ONLY <2>1, Division
<1>4. Load(c) = q /\ Load(2 * c) = p
  BY <1>2, <1>3 DEF Load
<1>5. q >= 0 /\ q < c /\ q + 1 <= p
  BY <1>1, <1>2, <1>3
<1> QED BY <1>2, <1>3, <1>4, <1>5

LEMMA BearsRoom ==
    ASSUME NEW t, NEW s, NEW c, Bears(t, s, c)
    PROVE  HasRoom(t, c) /\ s \in Nat /\ s < c
<1>1. s \in Nat /\ s < c
  <2>1. s \in Nat
    BY FS_CardinalityType DEF Bears
  <2> QED BY <2>1, LoadIs DEF Bears
<1> QED BY <1>1, RoomLeft DEF Bears, InOrder

\* An insert into a table that bears one entry more.
LEMMA PlacedBears ==
    ASSUME NEW c \in Nat, c >= 8, NEW t, InOrder(t, c), IsFiniteSet(Present(t, c)),
           NEW s, s = Cardinality(Present(t, c)), s + 1 <= Load(c),
           NEW k \in Keys, NEW v \in MapValues,
           NEW r, r = Robin!Placed([table |-> t, size |-> s], k, v)
    PROVE  Bears(r.table, r.size, c) /\ Gives(t, c, r.table, c, k, v)
<1>1. s \in Nat
  BY FS_CardinalityType
<1>2. Load(c) \in Nat /\ s <= Load(c)
  BY <1>1, LoadIs
<1>3. HasRoom(t, c)
  BY <1>2, BearsRoom DEF Bears
<1>4. /\ InOrder(r.table, c) /\ Gives(t, c, r.table, c, k, v)
      /\ r.size = IF HasKey(t, c, k) THEN s ELSE s + 1
  BY <1>1, <1>3, PlacedIs
<1> DEFINE w == r.table
           P == Present(t, c)
<1>5. Present(w, c) = P \cup {k}
  <2>1. Gives(t, c, w, c, k, v)
    BY <1>4
  <2> HIDE DEF w
  <2> QED BY <2>1, PresentGiven
<1>6. HasKey(t, c, k) <=> k \in P
  BY DEF Present
<1> HIDE DEF w, P
<1>7. IsFiniteSet(P \cup {k}) /\ Cardinality(P \cup {k}) = IF k \in P THEN Cardinality(P) ELSE Cardinality(P) + 1
  <2>1. IsFiniteSet(P)
    BY DEF P
  <2> QED BY ONLY <2>1, FS_AddElement
<1>8. r.size = Cardinality(Present(w, c))
  BY <1>4, <1>5, <1>6, <1>7 DEF P
<1>9. r.size <= Load(c)
  BY <1>1, <1>2, <1>4
<1> QED BY <1>4, <1>5, <1>7, <1>8, <1>9 DEF Bears, w

LEMMA InsertedIs ==
    ASSUME NEW t, NEW s, NEW c, Bears(t, s, c), NEW k \in Keys, NEW v \in MapValues,
           NEW r, r = Robin!Inserted([table |-> t, size |-> s], k, v)
    PROVE  \E d : Bears(r.table, r.size, d) /\ Gives(t, c, r.table, d, k, v)
<1> DEFINE m == [table |-> t, size |-> s]
<1>1. /\ c \in Nat /\ c >= 8 /\ InOrder(t, c) /\ IsFiniteSet(Present(t, c))
      /\ s = Cardinality(Present(t, c)) /\ s <= Load(c)
  BY DEF Bears
<1>2. s \in Nat /\ s < c
  BY BearsRoom
<1>3. Robin!LoadLimit(t) = Load(c)
  BY <1>1, CapacityIs DEF Robin!LoadLimit, Load, InOrder
<1>4. r = Robin!Placed(IF s + 1 > Load(c) THEN Robin!Rehashed(m) ELSE m, k, v)
  <2>1. m.table = t /\ m.size = s
    OBVIOUS
  <2> HIDE DEF m
  <2> QED BY <2>1, <1>3 DEF Robin!Inserted, m
<1>5. Load(c) \in Nat /\ Load(c) + 1 <= Load(2 * c)
  BY <1>1, LoadIs
<1>6. CASE s + 1 > Load(c)
  <2> DEFINE h == Robin!Rehashed(m)
             d == 2 * c
             u == h.table
  <2>1. c > 1 /\ Cardinality(Present(t, c)) < 2 * c
    BY <1>1, <1>2
  <2>2. /\ h = [table |-> h.table, size |-> h.size] /\ InOrder(h.table, 2 * c)
        /\ \A x \in Keys : \A y : HasEntry(h.table, 2 * c, x, y) <=> HasEntry(t, c, x, y)
        /\ Present(h.table, 2 * c) = Present(t, c) /\ h.size = Cardinality(Present(t, c))
    <3> HIDE DEF h
    <3>1. h = Robin!Rehashed([table |-> t, size |-> s])
      BY DEF h
    <3> QED BY <2>1, <3>1, <1>1, RehashedIs
  <2>3. r = Robin!Placed(h, k, v)
    BY <1>4, <1>6
  <2> HIDE DEF h
  <2>4. /\ InOrder(u, d) /\ IsFiniteSet(Present(u, d)) /\ s = Cardinality(Present(u, d))
        /\ h = [table |-> u, size |-> s]
        /\ \A x \in Keys : \A y : HasEntry(u, d, x, y) <=> HasEntry(t, c, x, y)
    BY <2>2, <1>1
  <2>5. d \in Nat /\ d >= 8 /\ s + 1 <= Load(d)
    <3>1. d \in Nat /\ d >= 8
      BY <1>1
    <3>2. Load(c) \in Nat /\ Load(c) + 1 <= Load(d)
      BY <1>5
    <3> HIDE DEF d
    <3>3. Load(d) \in Nat
      BY <3>1, LoadIs
    <3>4. s \in Nat /\ s <= Load(c)
      BY <1>1, <1>2
    <3> QED BY ONLY <3>1, <3>2, <3>3, <3>4
  <2>6. r = Robin!Placed([table |-> u, size |-> s], k, v)
    BY <2>3, <2>4
  <2> HIDE DEF u, d
  <2>7. Bears(r.table, r.size, d) /\ Gives(u, d, r.table, d, k, v)
    BY <2>4, <2>5, <2>6, PlacedBears
  <2>8. Gives(t, c, r.table, d, k, v)
    BY <2>4, <2>7 DEF Gives
  <2> QED BY <2>7, <2>8
<1>7. CASE ~(s + 1 > Load(c))
  <2>1. r = Robin!Placed([table |-> t, size |-> s], k, v)
    BY <1>4, <1>7
  <2>2. s + 1 <= Load(c)
    BY <1>2, <1>5, <1>7
  <2>3. Bears(r.table, r.size, c) /\ Gives(t, c, r.table, c, k, v)
    BY <2>1, <2>2, <1>1, PlacedBears
  <2> QED BY <2>3
<1> QED BY <1>6, <1>7

LEMMA ErasedIs ==
    ASSUME NEW t, NEW s, NEW c, Bears(t, s, c), NEW k \in Keys, Robin!SlotOf(t, k) # -1,
           NEW u, u = Robin!Backshift(t, Robin!SlotOf(t, k))
    PROVE  Bears(u, s - 1, c) /\ Loses(t, u, c, k) /\ HasKey(t, c, k)
<1>1. /\ c \in Nat /\ c >= 8 /\ InOrder(t, c) /\ IsFiniteSet(Present(t, c))
      /\ s = Cardinality(Present(t, c)) /\ s <= Load(c)
  BY DEF Bears
<1>2. HasRoom(t, c) /\ s \in Nat
  BY BearsRoom
<1>3. c \in Nat \ {0} /\ c > 1
  BY <1>1
<1>4. HasKey(t, c, k)
  BY <1>1, <1>2, <1>3, SlotOfIs
<1>5. PICK i \in 0 .. c - 1 : t[i].key = k
  BY <1>4 DEF HasKey
<1>6. Robin!SlotOf(t, k) = i
  BY <1>1, <1>2, <1>3, <1>5, SlotOfIs
<1>7. InOrder(u, c) /\ Loses(t, u, c, k)
  BY <1>1, <1>2, <1>3, <1>5, <1>6, BackshiftIs
<1> DEFINE P == Present(t, c)
<1>8. Present(u, c) = P \ {k}
  BY <1>7, PresentLost
<1>9. k \in P
  BY <1>4 DEF Present
<1> HIDE DEF P
<1>10. IsFiniteSet(P \ {k}) /\ Cardinality(P \ {k}) = Cardinality(P) - 1
  <2>1. IsFiniteSet(P)
    BY <1>1 DEF P
  <2> QED BY ONLY <2>1, <1>9, FS_RemoveElement
<1>11. s - 1 = Cardinality(Present(u, c)) /\ s - 1 <= Load(c)
  <2>1. Load(c) \in Nat
    BY <1>1, LoadIs
  <2> QED BY <2>1, <1>1, <1>2, <1>8, <1>10 DEF P
<1>12. IsFiniteSet(Present(u, c))
  BY <1>8, <1>10
<1> QED BY <1>1, <1>4, <1>7, <1>11, <1>12 DEF Bears

-----------------------------------------------------------------------------
\* The inductive invariant: the table is in order, and as full as it says.
RobinInv == \E c : Bears(table, entries, c)

LEMMA RobinBegins ==
    Robin!Init => RobinInv /\ Robin!Answers(table) = [k \in Keys |-> Absent]
<1> SUFFICES ASSUME Robin!Init PROVE RobinInv /\ Robin!Answers(table) = [k \in Keys |-> Absent]
  OBVIOUS
<1> DEFINE c == MinCapacity
<1>1. table = Robin!NewTable(c) /\ entries = 0
  BY DEF Robin!Init
<1>2. c \in Nat /\ c >= 8 /\ c \in Nat \ {0}
  BY RobinConstants
<1> HIDE DEF c
<1>3. InOrder(table, c) /\ HasRoom(table, c) /\ \A k \in Keys : ~HasKey(table, c, k)
  BY <1>1, <1>2, NewTableIs
<1>4. Present(table, c) = {}
  BY <1>3 DEF Present
<1>5. IsFiniteSet({}) /\ Cardinality({}) = 0
  BY FS_EmptySet
<1>6. Bears(table, entries, c)
  BY <1>1, <1>2, <1>3, <1>4, <1>5, LoadIs DEF Bears
<1>7. \A k \in Keys : Robin!Find(table, k) = Absent
  BY <1>2, <1>3, FindIs
<1>8. Robin!Answers(table) = [k \in Keys |-> Absent]
  BY <1>7 DEF Robin!Answers
<1> QED BY <1>6, <1>8 DEF RobinInv

\* Every operation keeps the table so, and does what it would to a map.
LEMMA RobinStep ==
    ASSUME RobinInv, Robin!Next
    PROVE  RobinInv' /\ Robin!StepsAsMap
<1>1. PICK c : Bears(table, entries, c)
  BY DEF RobinInv
<1>2. c \in Nat \ {0} /\ InOrder(table, c) /\ HasRoom(table, c)
  BY <1>1, BearsRoom DEF Bears
<1>3. PICK k \in Keys : (\E v \in MapValues : Robin!Insert(k, v)) \/ Robin!Erase(k)
  BY DEF Robin!Next
<1>4. ASSUME NEW v \in MapValues, Robin!Insert(k, v) PROVE RobinInv' /\ Robin!StepsAsMap
  <2> DEFINE r == Robin!Inserted([table |-> table, size |-> entries], k, v)
  <2>1. table' = r.table /\ entries' = r.size
    BY <1>4 DEF Robin!Insert
  <2>2. PICK d : Bears(r.table, r.size, d) /\ Gives(table, c, r.table, d, k, v)
    <3> HIDE DEF r
    <3>1. r = Robin!Inserted([table |-> table, size |-> entries], k, v)
      BY DEF r
    <3> QED BY <3>1, <1>1, InsertedIs
  <2> HIDE DEF r
  <2>3. Bears(table', entries', d) /\ Gives(table, c, table', d, k, v)
    BY <2>1, <2>2
  <2>4. d \in Nat \ {0} /\ InOrder(table', d) /\ HasRoom(table', d)
    BY <2>3, BearsRoom DEF Bears
  <2>5. Robin!Answers(table') = [Robin!Answers(table) EXCEPT ![k] = v]
    BY <2>3, <2>4, <1>2, AnswersGiven
  <2>6. Robin!StepsAsMap
    BY <2>5, <1>4, Zenon DEF Robin!StepsAsMap
  <2> QED BY <2>3, <2>6 DEF RobinInv
<1>5. ASSUME Robin!Erase(k) PROVE RobinInv' /\ Robin!StepsAsMap
  <2>1. /\ Robin!SlotOf(table, k) # -1
        /\ table' = Robin!Backshift(table, Robin!SlotOf(table, k)) /\ entries' = entries - 1
    BY <1>5 DEF Robin!Erase
  <2>2. Bears(table', entries - 1, c) /\ Loses(table, table', c, k) /\ HasKey(table, c, k)
    BY <2>1, <1>1, ErasedIs
  <2>3. Bears(table', entries', c)
    BY <2>1, <2>2
  <2>4. InOrder(table', c) /\ HasRoom(table', c)
    BY <2>3, BearsRoom DEF Bears
  <2>5. Robin!Answers(table') = [Robin!Answers(table) EXCEPT ![k] = Absent]
    BY <2>2, <2>4, <1>2, AnswersLost
  <2>6. Robin!Answers(table)[k] # Absent
    <3>1. Robin!Answers(table)[k] = Robin!Find(table, k)
      BY DEF Robin!Answers
    <3> QED BY <3>1, <2>2, <1>2, FindIs, RobinConstants
  <2>7. Robin!StepsAsMap
    BY <2>5, <2>6, <1>5, Zenon DEF Robin!StepsAsMap
  <2> QED BY <2>3, <2>7 DEF RobinInv
<1> QED BY <1>3, <1>4, <1>5

LEMMA RobinCounted == RobinInv => Robin!SizeIsCount /\ Robin!RoomIsLeft
<1> SUFFICES ASSUME RobinInv PROVE Robin!SizeIsCount /\ Robin!RoomIsLeft
  OBVIOUS
<1>1. PICK c : Bears(table, entries, c)
  BY DEF RobinInv
<1>2. /\ c \in Nat /\ c >= 8 /\ InOrder(table, c) /\ entries = Cardinality(Present(table, c))
      /\ entries <= Load(c) /\ HasRoom(table, c) /\ entries \in Nat /\ entries < c
  BY <1>1, BearsRoom DEF Bears
<1>3. Robin!Capacity(table) = c
  BY <1>2, CapacityIs DEF InOrder
<1>4. {k \in Keys : Robin!Answers(table)[k] # Absent} = Present(table, c)
  <2>1. c \in Nat \ {0}
    BY <1>2
  <2> QED BY <2>1, <1>2, AnswersPresent
<1>5. Robin!LoadLimit(Robin!NewTable(2 * c)) = Load(2 * c)
  <2> DEFINE d == 2 * c
  <2>1. d \in Nat /\ d \in Nat \ {0}
    BY <1>2
  <2> HIDE DEF d
  <2>2. IsTable(Robin!NewTable(d), d)
    BY <2>1, NewTableIs DEF InOrder
  <2>3. Robin!Capacity(Robin!NewTable(d)) = d
    BY <2>1, <2>2, CapacityIs
  <2> QED BY <2>3 DEF Robin!LoadLimit, Load, d
<1>6. entries <= Load(2 * c)
  <2>1. Load(c) \in Nat /\ Load(c) + 1 <= Load(2 * c)
    BY <1>2, LoadIs
  <2>2. Load(2 * c) \in Nat
    <3>1. 2 * c \in Nat /\ 2 * c >= 8
      BY <1>2
    <3> QED BY <3>1, LoadIs
  <2> DEFINE x == Load(c)
             y == Load(2 * c)
  <2> HIDE DEF x, y
  <2>3. x \in Nat /\ y \in Nat /\ x + 1 <= y /\ entries \in Nat /\ entries <= x
    BY <2>1, <2>2, <1>2 DEF x, y
  <2>4. entries <= y
    BY ONLY <2>3
  <2> QED BY <2>4 DEF y
<1>7. entries = Robin!Cardinality({k \in Keys : Robin!Answers(table)[k] # Absent})
  BY <1>2, <1>4, RobinCardinality
<1>8. entries < Robin!Capacity(table)
  BY <1>2, <1>3
<1>9. entries <= Robin!LoadLimit(Robin!NewTable(2 * Robin!Capacity(table)))
  BY <1>3, <1>5, <1>6
<1> QED BY <1>7, <1>8, <1>9, Zenon DEF Robin!SizeIsCount, Robin!RoomIsLeft

(***************************************************************************)
(* A table that starts empty answers, after any inserts and erases, as a   *)
(* map would; its loops end and its counter is right.                      *)
(***************************************************************************)
THEOREM TableIsAMap == Robin!Spec => IsAMap
<1>1. Robin!Init => RobinInv /\ Robin!Answers(table) = [k \in Keys |-> Absent]
  BY RobinBegins
<1>2. RobinInv /\ [Robin!Next]_<<table, entries>> => RobinInv'
  <2>1. CASE Robin!Next
    BY <2>1, RobinStep
  <2>2. CASE UNCHANGED <<table, entries>>
    BY <2>2 DEF RobinInv
  <2> QED BY <2>1, <2>2
<1>3. RobinInv /\ [Robin!Next]_<<table, entries>> =>
         [UNCHANGED <<table, entries>> \/ Robin!StepsAsMap]_<<table, entries>>
  <2>1. CASE Robin!Next
    BY <2>1, RobinStep
  <2>2. CASE UNCHANGED <<table, entries>>
    BY <2>2
  <2> QED BY <2>1, <2>2
<1>4. RobinInv => Robin!SizeIsCount /\ Robin!RoomIsLeft
  BY RobinCounted
<1> QED BY <1>1, <1>2, <1>3, <1>4, PTL DEF Robin!Spec, Robin!vars, IsAMap
=============================================================================
