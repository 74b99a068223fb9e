---------------------- MODULE MCJointStateBroadcaster -----------------------
(* Two joints, two attempts, a service that keeps two requests.            *)
EXTENDS JointStateBroadcaster
CONSTANTS j1, j2
=============================================================================
