---- MODULE UniqueHandle ----
(***************************************************************************)
(* TradeHandle of session3/part3: a handle that owns a Trade alone.        *)
(* Copying is deleted; moves empty their source.                           *)
(***************************************************************************)
CONSTANTS Places,  \* places a handle can be in
          Trades,  \* trades; each is allocated at most once
          NoTrade  \* the null pointer

ASSUME UniqueAssumption == NoTrade \notin Trades

VARIABLES handles,  \* the handles constructed and not destroyed
          ptr,      \* the trade a handle points to, or NoTrade
          trade,    \* of a trade: fresh, live or deleted
          again     \* a trade was deleted a second time

uniqueVars == <<handles, ptr, trade, again>>

UniqueInit ==
    /\ handles = {}
    /\ ptr = [h \in Places |-> NoTrade]
    /\ trade = [t \in Trades |-> "fresh"]
    /\ again = FALSE

\* delete ptr: nothing for a null pointer.
Delete(t) ==
    IF t = NoTrade
    THEN UNCHANGED <<trade, again>>
    ELSE /\ trade' = [trade EXCEPT ![t] = "deleted"]
         /\ again' = (again \/ trade[t] = "deleted")

ConstructOwner(h, t) ==
    /\ h \notin handles
    /\ trade[t] = "fresh"
    /\ handles' = handles \cup {h}
    /\ ptr' = [ptr EXCEPT ![h] = t]
    /\ trade' = [trade EXCEPT ![t] = "live"]
    /\ UNCHANGED again

MoveConstructOwner(h, other) ==
    /\ h \notin handles
    /\ other \in handles
    /\ handles' = handles \cup {h}
    /\ ptr' = [ptr EXCEPT ![h] = ptr[other], ![other] = NoTrade]
    /\ UNCHANGED <<trade, again>>

\* Fault: the source of a move keeps its pointer.
MoveAssignKeeping(h, other) ==
    /\ {h, other} \subseteq handles
    /\ IF h = other
       THEN UNCHANGED <<ptr, trade, again>>
       ELSE /\ Delete(ptr[h])
            /\ ptr' = [ptr EXCEPT ![h] = ptr[other]]
    /\ UNCHANGED handles

MoveAssignOwner(h, other) ==
    /\ {h, other} \subseteq handles
    /\ IF h = other
       THEN UNCHANGED <<ptr, trade, again>>
       ELSE /\ Delete(ptr[h])
            /\ ptr' = [ptr EXCEPT ![h] = ptr[other], ![other] = NoTrade]
    /\ UNCHANGED handles

DestroyOwner(h) ==
    /\ h \in handles
    /\ Delete(ptr[h])
    /\ handles' = handles \ {h}
    /\ ptr' = [ptr EXCEPT ![h] = NoTrade]

UniqueNext ==
    \E h \in Places :
        \/ \E t \in Trades : ConstructOwner(h, t)
        \/ \E other \in Places : MoveConstructOwner(h, other) \/ MoveAssignOwner(h, other)
        \/ DestroyOwner(h)

UniqueSpec == UniqueInit /\ [][UniqueNext]_uniqueVars

----------------------------------------------------------------------------
(***************************************************************************)
(* A live trade has exactly one handle that points to it and any other     *)
(* trade none, whatever moves came before; so nothing is deleted twice and *)
(* nothing is left behind.                                                 *)
(***************************************************************************)
OneOwner ==
    /\ \A h \in Places : ptr[h] # NoTrade => trade[ptr[h]] = "live"
    /\ \A t \in Trades : trade[t] = "live" => \E h \in Places : ptr[h] = t
    /\ \A h, g \in Places : ptr[h] = ptr[g] /\ ptr[h] # NoTrade => h = g
    /\ ~again
====
