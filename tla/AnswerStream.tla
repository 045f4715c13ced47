---- MODULE AnswerStream ----
(***************************************************************************)
(* What a challenge client promises whatever its buffering: the server     *)
(* puts challenges on the stream one after the other, and the client       *)
(* answers each of them once, in that order, from that challenge's data.   *)
(***************************************************************************)
EXTENDS Naturals, Sequences

CONSTANT Questions  \* what the challenges ask

VARIABLES asked,    \* the questions put on the stream, in order
          answered  \* the questions the client has answered, in order

vars == <<asked, answered>>

Init == asked = <<>> /\ answered = <<>>

Ask == /\ \E q \in Questions : asked' = Append(asked, q)
       /\ UNCHANGED answered

Answer == /\ Len(answered) < Len(asked)
          /\ answered' = Append(answered, asked[Len(answered) + 1])
          /\ UNCHANGED asked

Next == Ask \/ Answer

Spec == Init /\ [][Next]_vars
====
