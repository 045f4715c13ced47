---- MODULE MCServices ----
(***************************************************************************)
(* The other servers and the trader side by side: a behaviour is one of    *)
(* them, named by subject, from its start on, and the others stay as they  *)
(* begin.                                                                  *)
(***************************************************************************)
EXTENDS ResultsFile, PriceServer, MockServer, Strategy, BlastRounds

CONSTANTS c1, c2

TwoClients == {c1, c2}

VARIABLE subject

----------------------------------------------------------------------------
\* Where clients keep up, one that leaves frees its descriptor for another.
Leaves == [keepsUp \in BOOLEAN |-> IF keepsUp THEN 1 ELSE 0]

\* Where answers are in time, the clock goes on for longer and a client can
\* come back while another one is there.
Connections == [inTime \in BOOLEAN |-> IF inTime THEN 3 ELSE 2]
Ticks == [inTime \in BOOLEAN |-> IF inTime THEN 2 ELSE 1]

\* Every client of the blast server has a name of its own.
OwnNames == [k \in BlastClients |-> k]

----------------------------------------------------------------------------
Subjects == {"prices", "results file", "mock", "trader", "rounds"}

Init ==
    /\ subject \in Subjects
    /\ PriceInit /\ FileInit /\ MockInit /\ TraderInit /\ RoundsInit
    /\ prompt => subject = "prices"
    /\ paced => subject = "mock"

\* A program is still while another one is looked at.
Still(program, its) == IF subject = program THEN TRUE ELSE UNCHANGED its

OthersStill ==
    /\ UNCHANGED subject
    /\ Still("prices", priceVars)
    /\ Still("results file", fileVars)
    /\ Still("mock", mockVars)
    /\ Still("trader", traderVars)
    /\ Still("rounds", roundsVars)

Next ==
    /\ \/ subject = "prices" /\ PriceNext
       \/ subject = "results file" /\ FileNext
       \/ subject = "mock" /\ MockNext
       \/ subject = "trader" /\ TraderNext
       \/ subject = "rounds" /\ RoundsNext
    /\ OthersStill

Spec == Init /\ [][Next]_<<subject, priceVars, fileVars, mockVars, traderVars, roundsVars>>
====
