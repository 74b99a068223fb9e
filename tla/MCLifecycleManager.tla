------------------------- MODULE MCLifecycleManager -------------------------
(* Two nodes: n1 device level, n2 brought up after it.                     *)
EXTENDS LifecycleManager

CONSTANTS n1, n2

MCNode == {n1, n2}
MCRank == [n \in MCNode |-> IF n = n1 THEN 1 ELSE 2]
NoDisturbance == {}
=============================================================================
