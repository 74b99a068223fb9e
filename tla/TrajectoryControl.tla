------------------------- MODULE TrajectoryControl -------------------------
(***************************************************************************)
(* joint_trajectory_controller (planned motion) and                        *)
(* joint_position_controller (streamed motion) on the same axes, and the   *)
(* latch /moveit2_trajectory/execution_active between them.                *)
(*                                                                         *)
(* Both nodes spin on one thread, but the trajectory controller runs every *)
(* goal on a detached thread of its own, which its lifecycle callbacks     *)
(* reach only through isNodeActive_ and goalRunning_.                      *)
(***************************************************************************)
EXTENDS Naturals

CONSTANTS
  Goal,    \* the goals, and the threads that execute them
  None,    \* no message
  Crashes  \* whether a process may end at any time

Message == {"true", "false"}

ASSUME GoalAssumption ==
  /\ Goal \cap {"idle", "stream"} = {}
  /\ None \notin Message
  /\ Crashes \in BOOLEAN

VARIABLES
  jtc,           \* lifecycle state of the trajectory controller
  main,          \* where its executor thread is in a lifecycle callback
  isNodeActive_, goalRunning_,
  publisher,     \* execActivePub_ is there
  latched,       \* the last message of the latched topic
  pc,            \* where the thread of each goal is
  jpc,           \* lifecycle state of the position controller
  queue,         \* the message waiting for it (depth 1)
  inExecution_,
  streaming,     \* its trajectory callback passed the check of inExecution_
  axes,          \* what the axes do: idle, stream, or the spline of a goal
  unattended,    \* history: a Stop failed or the process ended since the last command
  fresh,         \* history: running goals that began in this activation
  crossed,       \* history: goals whose flags another goal reset
  timedOut       \* history: the last wait for a goal gave up

jtcVars == <<jtc, main, isNodeActive_, publisher, timedOut>>
goalVars == <<goalRunning_, pc, fresh, crossed>>
topicVars == <<latched, queue>>
jpcVars == <<jpc, inExecution_, streaming>>
axesVars == <<axes, unattended>>
vars == <<jtcVars, goalVars, topicVars, jpcVars, axesVars>>

TypeOK ==
  /\ jtc \in {"unconfigured", "inactive", "active"}
  /\ main \in {"idle", "activating", "stopping", "waiting", "publishing", "resetting"}
  /\ isNodeActive_ \in BOOLEAN /\ goalRunning_ \in BOOLEAN /\ publisher \in BOOLEAN
  /\ latched \in Message \cup {None} /\ queue \in Message \cup {None}
  /\ pc \in [Goal -> {"idle", "accepted", "running", "announced", "polling",
                      "leaving", "left"}]
  /\ fresh \subseteq Goal /\ crossed \subseteq Goal
  /\ jpc \in {"inactive", "active"}
  /\ inExecution_ \in Message /\ streaming \in BOOLEAN
  /\ axes \in Goal \cup {"idle", "stream"}
  /\ unattended \in BOOLEAN /\ timedOut \in BOOLEAN

Init ==
  /\ jtc = "unconfigured" /\ main = "idle"
  /\ isNodeActive_ = FALSE /\ goalRunning_ = FALSE /\ publisher = FALSE
  /\ latched = None /\ queue = None
  /\ pc = [g \in Goal |-> "idle"]
  /\ fresh = {} /\ crossed = {}
  /\ jpc = "inactive" /\ inExecution_ = "false" /\ streaming = FALSE
  /\ axes = "idle" /\ unattended = FALSE /\ timedOut = FALSE

-----------------------------------------------------------------------------
(***************************************************************************)
(* The device and the topic.  A command replaces the motion of the axes or *)
(* fails; Stop (and the Wait after it) may fail and leave the motion.      *)
(***************************************************************************)
Command(m) == axes' = m /\ unattended' = FALSE

Stop ==
  \/ Command("idle")
  \/ axes # "idle" /\ axes' = axes /\ unattended' = TRUE

MotionEnds ==
  /\ axes # "idle"
  /\ Command("idle")
  /\ UNCHANGED <<jtcVars, goalVars, topicVars, jpcVars>>

\* publishExecActive: nothing without a publisher.  The subscription keeps the
\* newest message only.
publishExecActive(b) ==
  IF publisher
  THEN /\ latched' = b
       /\ queue' = IF jpc = "active" THEN b ELSE queue
  ELSE UNCHANGED topicVars

-----------------------------------------------------------------------------
(***************************************************************************)
(* joint_trajectory_controller, its executor thread.                       *)
(***************************************************************************)
Configure ==
  /\ main = "idle" /\ jtc = "unconfigured"
  /\ jtc' = "inactive"
  /\ UNCHANGED <<main, isNodeActive_, publisher, timedOut, goalVars, topicVars, jpcVars, axesVars>>

Activate ==
  /\ main = "idle" /\ jtc = "inactive"
  /\ main' = "activating"
  /\ publisher' = TRUE /\ isNodeActive_' = TRUE /\ timedOut' = FALSE
  /\ fresh' = {}
  /\ UNCHANGED <<jtc, goalRunning_, pc, crossed, topicVars, jpcVars, axesVars>>

AnnounceIdleMutant == UNCHANGED topicVars
AnnounceIdle == publishExecActive("false")

Activated ==
  /\ main = "activating"
  /\ AnnounceIdle
  /\ jtc' = "active" /\ main' = "idle"
  /\ UNCHANGED <<isNodeActive_, publisher, timedOut, goalVars, jpcVars, axesVars>>

RaiseFlagMutant == UNCHANGED isNodeActive_
RaiseFlag == isNodeActive_' = FALSE

\* on_deactivate: raise the flag, stop, wait for the goal, publish, let go.
Deactivate ==
  /\ main = "idle" /\ jtc = "active"
  /\ RaiseFlag
  /\ main' = "stopping"
  /\ UNCHANGED <<jtc, publisher, timedOut, goalVars, topicVars, jpcVars, axesVars>>

DeactivateStop ==
  /\ main = "stopping"
  /\ Stop
  /\ main' = "waiting"
  /\ UNCHANGED <<jtc, isNodeActive_, publisher, timedOut, goalVars, topicVars, jpcVars>>

GiveUp == timedOut' = goalRunning_

\* The wait ends when no goal runs, or with a warning after kGoalStopTimeoutMs.
waitForGoalToFinish ==
  /\ main = "waiting"
  /\ GiveUp
  /\ main' = "publishing"
  /\ UNCHANGED <<jtc, isNodeActive_, publisher, goalVars, topicVars, jpcVars, axesVars>>

DeactivatePublish ==
  /\ main = "publishing"
  /\ publishExecActive("false")
  /\ main' = "resetting"
  /\ UNCHANGED <<jtc, isNodeActive_, publisher, timedOut, goalVars, jpcVars, axesVars>>

Deactivated ==
  /\ main = "resetting"
  /\ publisher' = FALSE /\ latched' = None
  /\ jtc' = "inactive" /\ main' = "idle"
  /\ UNCHANGED <<isNodeActive_, timedOut, goalVars, queue, jpcVars, axesVars>>

Cleanup ==
  /\ main = "idle" /\ jtc = "inactive"
  /\ isNodeActive_' = FALSE
  /\ GiveUp
  /\ jtc' = "unconfigured"
  /\ UNCHANGED <<main, publisher, goalVars, topicVars, jpcVars, axesVars>>

\* The process ends, its goal threads and its publisher with it.
Crash ==
  /\ Crashes
  /\ jtc' = "unconfigured" /\ main' = "idle"
  /\ isNodeActive_' = FALSE /\ goalRunning_' = FALSE /\ publisher' = FALSE /\ timedOut' = FALSE
  /\ latched' = None
  /\ pc' = [g \in Goal |-> "idle"]
  /\ fresh' = {} /\ crossed' = {}
  /\ unattended' = TRUE
  /\ UNCHANGED <<queue, jpcVars, axes>>

LifecycleStep ==
  \/ Activated \/ DeactivateStop \/ waitForGoalToFinish \/ DeactivatePublish \/ Deactivated

\* handleGoal and handleAccepted.  handleCancel accepts every request; that one
\* was made is for Poll to find.
Accept(g) ==
  /\ main = "idle" /\ jtc = "active"
  /\ pc[g] = "idle"
  /\ pc' = [pc EXCEPT ![g] = "accepted"]
  /\ UNCHANGED <<jtcVars, goalRunning_, fresh, crossed, topicVars, jpcVars, axesVars>>

-----------------------------------------------------------------------------
(***************************************************************************)
(* executeGoal, on the thread of goal g.                                   *)
(***************************************************************************)
At(g, here, there) == pc[g] = here /\ pc' = [pc EXCEPT ![g] = there]

MarkRunningMutant == UNCHANGED goalRunning_
MarkRunning == goalRunning_' = TRUE

Enter(g) ==
  /\ At(g, "accepted", "running")
  /\ MarkRunning
  /\ fresh' = IF jtc = "active" /\ isNodeActive_ THEN fresh \cup {g} ELSE fresh
  /\ UNCHANGED <<jtcVars, crossed, topicVars, jpcVars, axesVars>>

AnnounceGoalMutant == UNCHANGED topicVars
AnnounceGoal == publishExecActive("true")

Announce(g) ==
  /\ At(g, "running", "announced")
  /\ AnnounceGoal
  /\ UNCHANGED <<jtcVars, goalRunning_, fresh, crossed, jpcVars, axesVars>>

\* buildSplineInput and startCSplinePos; both may fail, which aborts the goal.
StartSpline(g) ==
  /\ \/ At(g, "announced", "polling") /\ jtc # "unconfigured" /\ Command(g)
     \/ At(g, "announced", "leaving") /\ UNCHANGED axesVars
  /\ UNCHANGED <<jtcVars, goalRunning_, fresh, crossed, topicVars, jpcVars>>

\* The turn of the polling loop that leaves it: deactivated or canceled, with a
\* Stop; a status error, which leaves the axes alone; in place.
Poll(g) ==
  /\ At(g, "polling", "leaving")
  /\ Stop \/ (isNodeActive_ /\ UNCHANGED axesVars)
  /\ UNCHANGED <<jtcVars, goalRunning_, fresh, crossed, topicVars, jpcVars>>

\* goal g has published TRUE and not yet FALSE
announced(g) == pc[g] \in {"announced", "polling", "leaving"}

\* The scope exit: publish, then clear goalRunning_.
Leave(g) ==
  /\ At(g, "leaving", "left")
  /\ publishExecActive("false")
  /\ crossed' = crossed \cup {h \in Goal : h # g /\ announced(h)}
  /\ UNCHANGED <<jtcVars, goalRunning_, fresh, jpcVars, axesVars>>

Finish(g) ==
  /\ At(g, "left", "idle")
  /\ goalRunning_' = FALSE
  /\ fresh' = fresh \ {g}
  /\ crossed' = {h \in Goal \ {g} : h \in crossed \/ pc[h] \notin {"idle", "accepted"}}
  /\ UNCHANGED <<jtcVars, topicVars, jpcVars, axesVars>>

\* What the thread does sooner or later.  Within the loop it polls for ever;
\* it has to leave only when it is told to, or when the axes are in place.
told(g) == ~isNodeActive_ \/ axes = "idle"
GoalStep(g) ==
  Enter(g) \/ Announce(g) \/ StartSpline(g) \/ (told(g) /\ Poll(g)) \/ Leave(g) \/ Finish(g)

-----------------------------------------------------------------------------
(***************************************************************************)
(* joint_position_controller.                                              *)
(***************************************************************************)
PositionActivate ==
  /\ jpc = "inactive"
  /\ jpc' = "active"
  /\ queue' = latched
  /\ UNCHANGED <<jtcVars, goalVars, latched, inExecution_, streaming, axesVars>>

PositionDeactivate ==
  /\ jpc = "active" /\ ~streaming
  /\ Stop
  /\ jpc' = "inactive"
  /\ queue' = None
  /\ UNCHANGED <<jtcVars, goalVars, latched, inExecution_, streaming>>

PositionCrash ==
  /\ Crashes
  /\ jpc' = "inactive" /\ queue' = None /\ inExecution_' = "false" /\ streaming' = FALSE
  /\ UNCHANGED <<jtcVars, goalVars, latched, axesVars>>

DeliveredMutant == jpc = "active"
Delivered == queue # None

execActiveCallback ==
  /\ ~streaming /\ Delivered
  /\ inExecution_' = queue
  /\ queue' = None
  /\ UNCHANGED <<jtcVars, goalVars, latched, jpc, streaming, axesVars>>

\* jointTrajectoryCallback: check, build the command, start the interpolation.
Receive ==
  /\ jpc = "active" /\ ~streaming /\ inExecution_ = "false"
  /\ streaming' = TRUE
  /\ UNCHANGED <<jtcVars, goalVars, topicVars, jpc, inExecution_, axesVars>>

Interpolate ==
  /\ streaming
  /\ streaming' = FALSE
  /\ Command("stream") \/ UNCHANGED axesVars
  /\ UNCHANGED <<jtcVars, goalVars, topicVars, jpc, inExecution_>>

Next ==
  \/ Configure \/ Activate \/ Deactivate \/ Cleanup \/ Crash \/ LifecycleStep
  \/ \E g \in Goal :
       \/ Accept(g) \/ Enter(g) \/ Announce(g) \/ StartSpline(g)
       \/ Poll(g) \/ Leave(g) \/ Finish(g)
  \/ PositionActivate \/ PositionDeactivate \/ PositionCrash
  \/ execActiveCallback \/ Receive \/ Interpolate
  \/ MotionEnds

(***************************************************************************)
(* Threads run: a callback that has begun goes on (its waits and the Wait  *)
(* of Stop have an end), a goal thread that may leave its loop does.       *)
(***************************************************************************)
Fairness ==
  /\ WF_vars(LifecycleStep)
  /\ WF_vars(execActiveCallback) /\ WF_vars(Interpolate)
  /\ \A g \in Goal : WF_vars(GoalStep(g))

Spec == Init /\ [][Next]_vars
FairSpec == Spec /\ Fairness

-----------------------------------------------------------------------------
(***************************************************************************)
(* Safety.                                                                 *)
(***************************************************************************)
\* What the latch and the flags owe to the goals that run: the inductive part of
\* the properties below.
LatchHolds == queue = "true" \/ (queue = None /\ inExecution_ = "true")

ActiveFlag ==
  isNodeActive_ => publisher /\ (main = "activating" \/ (main = "idle" /\ jtc = "active"))

NothingYet == main = "activating" => fresh = {} /\ jtc = "inactive"

Marked ==
  /\ \A g \in fresh : pc[g] \notin {"idle", "accepted"}
  /\ goalRunning_ \/ fresh \subseteq crossed

LatchFollows ==
  isNodeActive_ => \A g \in fresh \ crossed :
    announced(g) => latched = "true" /\ (jpc = "active" => LatchHolds)

Waited ==
  (main \in {"publishing", "resetting"} \/ (jtc # "active" /\ main = "idle")) /\ ~timedOut =>
    fresh \subseteq crossed

IInv == TypeOK /\ ActiveFlag /\ NothingYet /\ Marked /\ LatchFollows /\ Waited

\* While a goal of this activation runs, the position controller has the latch
\* or its message, whenever it was activated: it streams nothing new over the
\* plan.  Goals that overlap break this (publishExecActive, execActiveCallback).
LatchCoversGoal ==
  jpc = "active" /\ isNodeActive_ =>
    \A g \in fresh \ crossed : announced(g) => LatchHolds

\* Once the node is inactive, no goal that began while it was active is still
\* running, so none uses the interfaces it has let go of, unless the wait for it
\* gave up; and each has cleared its flag by then (on_deactivate, executeGoal).
DeactivationWaits ==
  jtc # "active" /\ main = "idle" /\ ~timedOut => fresh \subseteq crossed

\* What the latch is while the controller is active: inductive, and enough for
\* the property below.
LatchTracks ==
  /\ publisher <=> main = "activating" \/ jtc = "active"
  /\ main \notin {"idle", "activating"} => jtc = "active"
  /\ ~publisher => latched = None
  /\ jtc = "active" => latched # None
  /\ latched = "true" => \E g \in Goal : announced(g)
  /\ jtc = "active" /\ jpc = "active" =>
       queue = latched \/ (queue = None /\ inExecution_ = latched)

\* While both controllers are active and no goal is between its TRUE and its
\* FALSE, the position controller has the FALSE or its message: no order of
\* goals that overlap, activations and crashes leaves the latch closed behind
\* them (publishExecActive, on_activate, execActiveCallback).
LatchIsLetGo ==
  jtc = "active" /\ jpc = "active" /\ (\A g \in Goal : ~announced(g)) =>
    queue = "false" \/ (queue = None /\ inExecution_ = "false")

\* The position controller holds the latch and nobody is left to release it.
abandoned == jpc = "active" /\ ~publisher /\ LatchHolds

\* The latch is abandoned in one way only, crashes aside: on_deactivate drops the
\* publisher while a goal that it did not wait for is between its TRUE and its
\* FALSE, one that began after the flag was raised, that overlapped another, or
\* that outlasted the wait.  Else the position controller starts with a latch it
\* had before it went down (on_deactivate, publishExecActive, executeGoal).
AbandonedOnlyByLateGoal ==
  [][abandoned' =>
       \/ abandoned
       \/ /\ main = "resetting" /\ latched = "true"
          /\ \E g \in Goal : announced(g) /\ (timedOut \/ g \notin fresh \/ g \in crossed)
       \/ jpc = "inactive" /\ ~publisher /\ inExecution_ = "true"
       \/ Crash]_vars

(***************************************************************************)
(* The trajectory controller is one the lifecycle manager can rely on.     *)
(***************************************************************************)
lifeState ==
  CASE main = "activating" -> "activating"
    [] main \in {"stopping", "waiting", "publishing", "resetting"} -> "deactivating"
    [] OTHER -> jtc

Managed == INSTANCE ManagedNode WITH
  life <- lifeState, acting <- ~timedOut /\ ~(fresh \subseteq crossed)

\* The trajectory controller goes up and down as the manager's model of a node
\* does, and no goal that began while it was active outlives the deactivation,
\* unless the wait for it gave up (on_deactivate, waitForGoalToFinish).
ImplementsNode == Managed!Spec

(***************************************************************************)
(* Liveness.                                                               *)
(***************************************************************************)
\* If the controller is deactivated for good, no spline keeps running: not one
\* of a thread that was late, unless a Stop failed (on_deactivate, executeGoal).
DeactivationStopsSpline ==
  <>[](jtc # "active" /\ main = "idle") => <>[](axes \in Goal => unattended)

\* If both controllers stay active and no goal runs any more, streaming is
\* allowed again, whatever crashed or was restarted before.
LatchReleases ==
  <>[](jtc = "active" /\ jpc = "active" /\ \A g \in Goal : pc[g] = "idle") =>
    <>[](inExecution_ = "false")

(***************************************************************************)
(* What the documentation says and the code does not do.                   *)
(***************************************************************************)

\* doc/reference_manipulator.md, goal execution, step 6: every exit path
\* publishes execution_active: false.  So when no goal runs any more, the
\* position controller does not keep dropping what is streamed.
ExitReleasesLatch ==
  <>[](jpc = "active" /\ \A g \in Goal : pc[g] = "idle") => <>[](inExecution_ = "false")

=============================================================================
