---------------------------- MODULE MCFireteams ----------------------------
(* Instances of Fireteams for TLC.                                         *)
EXTENDS Fireteams, TLC

CONSTANTS h1, h2, h3, b1

Humans == Permutations(Clients \ Bots)

\* Bound: no more than two fireteams at a time, and none of them private (who
\* asks for privacy gets it, and the run goes no further from there).
Few ==
    /\ Cardinality(InUse(fireTeams)) <= 2
    /\ \A f \in InUse(fireTeams) : ~fireTeams[f].priv
=============================================================================
