----------------------------- MODULE Lifecycle ------------------------------
(***************************************************************************)
(* The transitions of a managed (lifecycle) node: from which state each    *)
(* starts, in which it ends, and which of them the nodes of this stack may *)
(* refuse.  LifecycleManager drives nodes of this kind; ManagedNode says   *)
(* what a node owes it.                                                    *)
(***************************************************************************)

\* The transition names of lifecycle_msgs.
Shutdowns == {"shutdownUnconfigured", "shutdownInactive", "shutdownActive"}
Transition == {"configure", "activate", "deactivate", "cleanup"} \cup Shutdowns

From(t) ==
  CASE t = "configure"  -> "unconfigured"
    [] t = "activate"   -> "inactive"
    [] t = "deactivate" -> "active"
    [] t = "cleanup"    -> "inactive"
    [] t = "shutdownUnconfigured" -> "unconfigured"
    [] t = "shutdownInactive"     -> "inactive"
    [] t = "shutdownActive"       -> "active"

To(t) ==
  CASE t = "configure"  -> "inactive"
    [] t = "activate"   -> "active"
    [] t = "deactivate" -> "inactive"
    [] t = "cleanup"    -> "unconfigured"
    [] t \in Shutdowns  -> "finalized"

\* The callbacks that may return FAILURE: the way down always succeeds.
MayFail == {"configure", "activate"}

=============================================================================
