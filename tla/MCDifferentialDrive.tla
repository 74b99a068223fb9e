------------------------ MODULE MCDifferentialDrive ------------------------
(* Straight on, and a turn around the left wheel, which then has target 0. *)
EXTENDS DifferentialDrive

MCTwist == {[linear |-> 1, angular |-> 0], [linear |-> 1, angular |-> 1]}
=============================================================================
