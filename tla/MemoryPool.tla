---- MODULE MemoryPool ----
(***************************************************************************)
(* MemoryPool of phase4: a fixed number of slots; the free ones are linked *)
(* through their own storage, which an object takes over when its slot is  *)
(* acquired.  next[i] is what slot i's link reads as: another slot, Nil,   *)
(* or Object while the storage holds an object and the link is lost.       *)
(***************************************************************************)
EXTENDS Integers, FiniteSets

CONSTANTS Cap,          \* cap_
          Nil, Object   \* no slot, and what is no link

ASSUME CapAssumption ==
    /\ Cap \in Nat \ {0}
    /\ Nil \notin 0 .. Cap - 1
    /\ Object \notin (0 .. Cap - 1) \cup {Nil}

VARIABLES head,  \* head_
          next,  \* Slot::next
          held,  \* the slots whose objects callers hold
          live   \* live_

poolVars == <<head, next, held, live>>

Slots == 0 .. Cap - 1

PoolInit ==
    /\ head = 0
    /\ next = [i \in Slots |-> IF i + 1 < Cap THEN i + 1 ELSE Nil]
    /\ held = {}
    /\ live = 0

\* The caller gets the slot at the head; an exhausted pool changes nothing.
Acquire ==
    /\ head # Nil
    /\ head' = next[head]
    /\ next' = [next EXCEPT ![head] = Object]
    /\ held' = held \cup {head}
    /\ live' = live + 1

\* Fault: the released slot does not point to the rest of the list.
ReleaseUnlinked(i) ==
    /\ i \in held
    /\ next' = [next EXCEPT ![i] = Nil]
    /\ head' = i
    /\ held' = held \ {i}
    /\ live' = live - 1

\* A caller gives back what it holds, once.
Release(i) ==
    /\ i \in held
    /\ next' = [next EXCEPT ![i] = head]
    /\ head' = i
    /\ held' = held \ {i}
    /\ live' = live - 1

PoolNext == Acquire \/ \E i \in Slots : Release(i)

PoolSpec == PoolInit /\ [][PoolNext]_poolVars

----------------------------------------------------------------------------
(***************************************************************************)
(* No object in use is overwritten: the slot that would be handed out next *)
(* is never one somebody holds, and live_ counts the held ones.            *)
(***************************************************************************)
HeadIsFree ==
    /\ head \in (Slots \ held) \cup {Nil}
    /\ held \subseteq Slots
    /\ live = Cardinality(held)

\* The links from the head on visit exactly the slots path names, in turn.
LinkedAlong(path, n) ==
    /\ head = IF n = 0 THEN Nil ELSE path[1]
    /\ \A k \in 1 .. n : next[path[k]] = IF k = n THEN Nil ELSE path[k + 1]

(***************************************************************************)
(* In whatever order objects are released, the slots nobody holds form one *)
(* list from the head that ends and visits each of them once: no slot is   *)
(* lost and none can be handed out twice.                                  *)
(***************************************************************************)
NoSlotLost ==
    \E path \in [1 .. Cap - live -> Slots] :
        /\ {path[k] : k \in 1 .. Cap - live} = Slots \ held
        /\ \A j, k \in 1 .. Cap - live : path[j] = path[k] => j = k
        /\ LinkedAlong(path, Cap - live)

(***************************************************************************)
(* acquire() fails only when every slot is held.                           *)
(***************************************************************************)
ExhaustedOnlyWhenFull == head = Nil => live = Cap
====
