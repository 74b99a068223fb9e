---------------------------- MODULE ManagedNode -----------------------------
(***************************************************************************)
(* A managed node as the lifecycle manager relies on it.  It changes its   *)
(* state only by a transition; on the way up a transition may fail and     *)
(* leave the node where it was, the way down always ends at its goal.  A   *)
(* node that has gone down, has never been up, or has failed to go up      *)
(* leaves nothing running on the robot.                                    *)
(*                                                                         *)
(* CoreMotion, TrajectoryControl, DifferentialDrive and                    *)
(* JointStateBroadcaster show that their nodes implement it.               *)
(***************************************************************************)
EXTENDS Lifecycle

VARIABLES
  life,     \* a primary state, a transition state, absent or exiting
  acting    \* something the node started still moves, or has power

vars == <<life, acting>>

\* The transition state lifecycle_msgs has for a callback under way.
During(t) ==
  CASE t = "configure"  -> "configuring"
    [] t = "activate"   -> "activating"
    [] t = "deactivate" -> "deactivating"
    [] t = "cleanup"    -> "cleaningUp"
    [] t \in Shutdowns  -> "shuttingDown"

\* Where a node may set something moving: a callback of the active node may
\* still be under way when on_deactivate begins.  What moves may go on until
\* the way down is over.
Starting == {"activating", "active", "deactivating"}
Working == Starting \cup {"shuttingDown", "exiting"}

Init == life \in {"absent", "unconfigured"} /\ acting = FALSE

\* A callback is one step here, or two when others can see it under way.
Begin(t) == life = From(t) /\ life' = During(t)
Succeed(t) == life \in {From(t), During(t)} /\ life' = To(t)
Refuse(t) == t \in MayFail /\ life = During(t) /\ life' = From(t)

\* The process ends, at once or by way of its destructor; it starts, and may
\* have ended just before.
BeginExit == life # "absent" /\ life' = "exiting"
Exit == life # "absent" /\ life' = "absent"
Start == life' = "unconfigured"

Next ==
  /\ \/ \E t \in Transition : Begin(t) \/ Succeed(t) \/ Refuse(t)
     \/ BeginExit \/ Exit \/ Start
     \/ UNCHANGED life
  /\ acting' \in BOOLEAN
  /\ acting' => life' \in IF acting THEN Working ELSE Starting

Spec == Init /\ [][Next]_vars

=============================================================================
