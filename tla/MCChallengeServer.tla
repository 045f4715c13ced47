------------------------- MODULE MCChallengeServer -------------------------
(* ChallengeServer on small instances.                                     *)
EXTENDS ChallengeServer

OwnTeams == [k \in Conns |-> k]
OneTeam == [k \in Conns |-> 1]

=============================================================================
