-------------------------- MODULE MCEdgeRevocation --------------------------
(* Instance of EdgeRevocation for TLC.                                     *)
EXTENDS EdgeRevocation, TLC

\* What is seen of the edges is the oldest and most likely to have changed.
MCAge(x) == IF x \in Ids THEN 2 ELSE IF x \in Cores THEN 1 ELSE 0

Sym ==
    Permutations(CAs) \cup Permutations(Replicas)
        \cup Permutations(Edges) \cup Permutations(Ids)
=============================================================================
