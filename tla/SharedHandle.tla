---- MODULE SharedHandle ----
(***************************************************************************)
(* SharedTradeHandle of session3/part4: handles that share a Trade through *)
(* a control block with a count.  Handles are made, copied, moved,         *)
(* assigned (to themselves too) and destroyed in any order; a trade and    *)
(* its control block are one thing here, since they are made and deleted   *)
(* together.                                                               *)
(***************************************************************************)
EXTENDS Integers, FiniteSets

CONSTANTS Handles,  \* places a handle can be in
          Blocks,   \* control blocks; each is allocated at most once
          Null

ASSUME HandleAssumption ==
    /\ IsFiniteSet(Handles)
    /\ Null \notin Blocks

VARIABLES made,   \* the handles constructed and not destroyed
          cb,     \* the block a handle points to, or Null
          count,  \* ControlBlock::count
          state   \* of a block: fresh, live or deleted

handleVars == <<made, cb, count, state>>

HandleInit ==
    /\ made = {}
    /\ cb = [h \in Handles |-> Null]
    /\ count = [b \in Blocks |-> 0]
    /\ state = [b \in Blocks |-> "fresh"]

\* release(): the count and the block's state after handle h has let go of its block.
CountAfterRelease(h) ==
    IF cb[h] = Null THEN count ELSE [count EXCEPT ![cb[h]] = @ - 1]

StateAfterRelease(h) ==
    IF cb[h] # Null /\ count[cb[h]] = 1 THEN [state EXCEPT ![cb[h]] = "deleted"] ELSE state

\* if (cb) ++cb->count
Shared(counts, b) == IF b = Null THEN counts ELSE [counts EXCEPT ![b] = @ + 1]

Construct(h, b) ==
    /\ h \notin made
    /\ state[b] = "fresh"
    /\ made' = made \cup {h}
    /\ cb' = [cb EXCEPT ![h] = b]
    /\ count' = [count EXCEPT ![b] = 1]
    /\ state' = [state EXCEPT ![b] = "live"]

CopyConstruct(h, other) ==
    /\ h \notin made
    /\ other \in made
    /\ made' = made \cup {h}
    /\ cb' = [cb EXCEPT ![h] = cb[other]]
    /\ count' = Shared(count, cb[other])
    /\ UNCHANGED state

MoveConstruct(h, other) ==
    /\ h \notin made
    /\ other \in made
    /\ made' = made \cup {h}
    /\ cb' = [cb EXCEPT ![h] = cb[other], ![other] = Null]
    /\ UNCHANGED <<count, state>>

\* Fault: the old block is not released.
CopyAssignLeaking(h, other) ==
    /\ {h, other} \subseteq made
    /\ IF h = other
       THEN UNCHANGED <<cb, count, state>>
       ELSE /\ cb' = [cb EXCEPT ![h] = cb[other]]
            /\ count' = Shared(count, cb[other])
            /\ UNCHANGED state
    /\ UNCHANGED made

\* Self-assignment does nothing; otherwise release, then share.
CopyAssign(h, other) ==
    /\ {h, other} \subseteq made
    /\ IF h = other
       THEN UNCHANGED <<cb, count, state>>
       ELSE /\ cb' = [cb EXCEPT ![h] = cb[other]]
            /\ count' = Shared(CountAfterRelease(h), cb[other])
            /\ state' = StateAfterRelease(h)
    /\ UNCHANGED made

MoveAssign(h, other) ==
    /\ {h, other} \subseteq made
    /\ IF h = other
       THEN UNCHANGED <<cb, count, state>>
       ELSE /\ cb' = [cb EXCEPT ![h] = cb[other], ![other] = Null]
            /\ count' = CountAfterRelease(h)
            /\ state' = StateAfterRelease(h)
    /\ UNCHANGED made

Destroy(h) ==
    /\ h \in made
    /\ made' = made \ {h}
    /\ cb' = [cb EXCEPT ![h] = Null]
    /\ count' = CountAfterRelease(h)
    /\ state' = StateAfterRelease(h)

HandleNext ==
    \E h \in Handles :
        \/ \E b \in Blocks : Construct(h, b)
        \/ \E other \in Handles :
              \/ CopyConstruct(h, other) \/ MoveConstruct(h, other)
              \/ CopyAssign(h, other) \/ MoveAssign(h, other)
        \/ Destroy(h)

HandleSpec == HandleInit /\ [][HandleNext]_handleVars

----------------------------------------------------------------------------
HandleTypeOK ==
    /\ made \subseteq Handles
    /\ cb \in [Handles -> Blocks \cup {Null}]
    /\ count \in [Blocks -> Nat]
    /\ state \in [Blocks -> {"fresh", "live", "deleted"}]
    /\ \A h \in Handles \ made : cb[h] = Null

Owners(b) == {h \in Handles : cb[h] = b}

(***************************************************************************)
(* Over any sequence of copies, moves and assignments a block's count is   *)
(* the number of handles that point to it.                                 *)
(***************************************************************************)
CountIsOwners == \A b \in Blocks : count[b] = Cardinality(Owners(b))

(***************************************************************************)
(* A trade lives exactly as long as some handle points to it: none is      *)
(* deleted under a handle (or twice), and none is left behind.             *)
(***************************************************************************)
LiveIffOwned == \A b \in Blocks : state[b] = "live" <=> Owners(b) # {}
====
