---- MODULE Contest ----
(***************************************************************************)
(* What the log of a challenge server promises: one entry per challenge,   *)
(* with answers that came in while it was open, of each name the last one, *)
(* and the fastest right one as the winner.  An answer that says which     *)
(* challenge it was given to counts for that one only.                     *)
(***************************************************************************)
EXTENDS Integers, Sequences

CONSTANTS
    Names,
    Tagging,       \* the names all of whose answers say to which challenge they were given
    MaxChallenges

VARIABLES open,     \* the challenge under way, 0 between challenges
          answers,  \* by name, what came in for it
          log       \* the entries written

vars == <<open, answers, log>>

NoAnswers == [n \in {} |-> 0]

Init == open = 0 /\ answers = NoAnswers /\ log = <<>>

Open(c) ==
    /\ open = 0
    /\ \A i \in DOMAIN log : log[i].cid # c
    /\ open' = c
    /\ UNCHANGED <<answers, log>>

\* An answer: how long it took, whether it is right, the challenge it was given to.
Receive(n) ==
    /\ open # 0
    /\ DOMAIN answers' = DOMAIN answers \union {n}
    /\ \A m \in DOMAIN answers \ {n} : answers'[m] = answers[m]
    /\ n \in Tagging => answers'[n].to = open /\ answers'[n].latency >= 0
    /\ UNCHANGED <<open, log>>

Winners == {n \in DOMAIN answers : /\ answers[n].right
                                   /\ \A m \in DOMAIN answers :
                                         answers[m].right => answers[n].latency <= answers[m].latency}

Close ==
    /\ open # 0
    /\ \E w \in IF Winners = {} THEN {<<>>} ELSE Winners :
          log' = Append(log, [cid |-> open, winner |-> w, players |-> answers])
    /\ open' = 0
    /\ answers' = NoAnswers

Next == (\E c \in 1 .. MaxChallenges : Open(c)) \/ (\E n \in Names : Receive(n)) \/ Close

Spec == Init /\ [][Next]_vars
====
