---- MODULE MCClients ----
(***************************************************************************)
(* The three challenge clients, each on a stream of its own: a behaviour   *)
(* is one of them from its start to its end.  Matrices have two values,    *)
(* and no two lines of the instance have the same widths.                  *)
(***************************************************************************)
EXTENDS LowLatencyClient, RetainingClient

CONSTANT Kinds  \* the clients looked at

vars == <<streamVars, overflow>>

\* Ids have up to three digits in the first thousand rounds; the last of these has four.
ShortIds == {[id |-> 1, a |-> <<1, 3>>, b |-> <<2, 1>>], [id |-> 3, a |-> <<2, 2>>, b |-> <<3, 1>>]}
FourDigits == [id |-> 4, a |-> <<2, 3>>, b |-> <<1, 1>>]
LongIds == ShortIds \cup {FourDigits}
Mixed == {[id |-> 1, a |-> <<1, 3>>, b |-> <<2, 1>>], [id |-> 4, a |-> <<2, 2>>, b |-> <<3, 1>>]}

Rounds999 == [hftclient2026 |-> Mixed, client |-> ShortIds, client_naive |-> LongIds]
Rounds1000 == [hftclient2026 |-> Mixed, client |-> LongIds, client_naive |-> LongIds]


Init ==
    /\ client \in Kinds
    /\ RetainingInit \/ (LowLatencyInit /\ overflow = FALSE)

Next ==
    \/ client = "hftclient2026" /\ RetainingNext
    \/ client # "hftclient2026" /\ LowLatencyNext /\ UNCHANGED overflow

\* recv returns when bytes have come, and each client's loop is one thread that waits for
\* nothing else.
ClientStep ==
    \/ client = "hftclient2026" /\ RetainingLoop
    \/ client # "hftclient2026" /\ LowLatencyLoop /\ UNCHANGED overflow

Spec == Init /\ [][Next]_vars /\ WF_vars(ClientStep)

----------------------------------------------------------------------------
(***************************************************************************)
(* Once the server has no more challenges to send and stays, each client   *)
(* comes to the end of its backlog: no challenge is left in a buffer, and  *)
(* none waits for a byte that is not coming.                               *)
(***************************************************************************)
AllAnswered == Len(sent) > Len(answers) ~> (Len(answers) = Len(sent) \/ closed)
====
