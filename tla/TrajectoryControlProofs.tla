---------------------- MODULE TrajectoryControlProofs ----------------------
(***************************************************************************)
(* IInv of TrajectoryControl is inductive: for every set of goals the      *)
(* latch covers the goals that run, and deactivation waits for them.       *)
(***************************************************************************)
EXTENDS TrajectoryControl, TLAPS

(***************************************************************************)
(* The actions in groups, by what they leave alone.                        *)
(***************************************************************************)
LifecycleChange ==
  \/ Configure \/ Activate \/ Deactivate \/ Cleanup \/ Crash \/ LifecycleStep

\* Every step keeps the variables in their types.
LEMMA TypeStep ==
  ASSUME TypeOK, Next
  PROVE  TypeOK'
<1> USE GoalAssumption
<1> USE DEF TypeOK, Message, jtcVars, goalVars, topicVars, jpcVars, axesVars
<1>1. CASE Configure BY <1>1 DEF Configure
<1>2. CASE Activate
  <2>1. publisher' \in BOOLEAN /\ isNodeActive_' \in BOOLEAN /\ timedOut' \in BOOLEAN
    BY <1>2, Zenon DEF Activate
  <2> QED BY <1>2, <2>1 DEF Activate
<1>3. CASE Activated BY <1>3 DEF Activated, AnnounceIdle, publishExecActive
<1>4. CASE Deactivate
  <2>1. isNodeActive_' \in BOOLEAN BY <1>4, Zenon DEF Deactivate, RaiseFlag
  <2> QED BY <1>4, <2>1 DEF Deactivate, RaiseFlag
<1>5. CASE DeactivateStop
  <2>1. unattended' \in BOOLEAN BY <1>5, Zenon DEF DeactivateStop, Stop, Command
  <2> QED BY <1>5, <2>1 DEF DeactivateStop, Stop, Command
<1>6. CASE waitForGoalToFinish BY <1>6 DEF waitForGoalToFinish, GiveUp
<1>7. CASE DeactivatePublish BY <1>7 DEF DeactivatePublish, publishExecActive
<1>8. CASE Deactivated
  <2>1. publisher' \in BOOLEAN BY <1>8, Zenon DEF Deactivated
  <2> QED BY <1>8, <2>1 DEF Deactivated
<1>9. CASE Cleanup
  <2>1. isNodeActive_' \in BOOLEAN BY <1>9, Zenon DEF Cleanup, GiveUp
  <2>2. timedOut' \in BOOLEAN BY <1>9, Zenon DEF Cleanup, GiveUp
  <2> QED BY <1>9, <2>1, <2>2 DEF Cleanup, GiveUp
<1>10. CASE Crash
  <2>1. unattended' \in BOOLEAN BY <1>10, Zenon DEF Crash
  <2> QED BY <1>10, <2>1 DEF Crash
<1>11. ASSUME NEW g \in Goal,
              Accept(g) \/ Enter(g) \/ Announce(g) \/ StartSpline(g)
                \/ Poll(g) \/ Leave(g) \/ Finish(g)
       PROVE  TypeOK'
  <2> USE DEF At
  <2>1. CASE Accept(g) BY <2>1 DEF Accept
  <2>2. CASE Enter(g) BY <2>2 DEF Enter, MarkRunning
  <2>3. CASE Announce(g) BY <2>3 DEF Announce, AnnounceGoal, publishExecActive
  <2>4. CASE StartSpline(g)
    <3>1. unattended' \in BOOLEAN BY <2>4, Zenon DEF StartSpline, Command
    <3> QED BY <2>4, <3>1 DEF StartSpline, Command
  <2>5. CASE Poll(g)
    <3>1. unattended' \in BOOLEAN BY <2>5, Zenon DEF Poll, Stop, Command
    <3> QED BY <2>5, <3>1 DEF Poll, Stop, Command
  <2>6. CASE Leave(g) BY <2>6 DEF Leave, publishExecActive
  <2>7. CASE Finish(g)
    <3>1. goalRunning_' \in BOOLEAN BY <2>7, Zenon DEF Finish
    <3> QED BY <2>7, <3>1 DEF Finish
  <2> QED BY <1>11, <2>1, <2>2, <2>3, <2>4, <2>5, <2>6, <2>7
<1>12. CASE PositionActivate BY <1>12 DEF PositionActivate
<1>13. CASE PositionDeactivate
  <2>1. streaming' \in BOOLEAN BY <1>13, Zenon DEF PositionDeactivate, Stop, Command
  <2>2. unattended' \in BOOLEAN BY <1>13, Zenon DEF PositionDeactivate, Stop, Command
  <2> QED BY <1>13, <2>1, <2>2 DEF PositionDeactivate, Stop, Command
<1>14. CASE PositionCrash
  <2>1. streaming' \in BOOLEAN BY <1>14, Zenon DEF PositionCrash
  <2> QED BY <1>14, <2>1 DEF PositionCrash
<1>15. CASE execActiveCallback BY <1>15 DEF execActiveCallback, Delivered
<1>16. CASE Receive BY <1>16 DEF Receive
<1>17. CASE Interpolate
  <2>1. unattended' \in BOOLEAN BY <1>17, Zenon DEF Interpolate, Command
  <2>2. axes' \in Goal \cup {"idle", "stream"} BY <1>17, Zenon DEF Interpolate, Command
  <2>3. UNCHANGED <<jtcVars, goalVars, topicVars, jpc, inExecution_>> BY <1>17 DEF Interpolate
  <2>4. streaming' \in BOOLEAN BY <1>17, Zenon DEF Interpolate
  <2> QED BY <2>1, <2>2, <2>3, <2>4
<1>18. CASE MotionEnds
  <2>1. unattended' \in BOOLEAN BY <1>18, Zenon DEF MotionEnds, Command
  <2> QED BY <1>18, <2>1 DEF MotionEnds, Command
<1> QED BY <1>1, <1>2, <1>3, <1>4, <1>5, <1>6, <1>7, <1>8, <1>9, <1>10, <1>11, <1>12,
           <1>13, <1>14, <1>15, <1>16, <1>17, <1>18 DEF Next, LifecycleStep

\* The lifecycle callbacks of the trajectory controller preserve IInv.
LEMMA LifecyclePreserves ==
  ASSUME IInv, LifecycleChange
  PROVE  IInv'
<1>0. TypeOK' BY TypeStep DEF IInv, Next, LifecycleChange
<1> USE GoalAssumption
<1> USE DEF IInv, TypeOK, Message, ActiveFlag, NothingYet, Marked, LatchFollows, Waited,
       LatchHolds, announced, jtcVars, goalVars, topicVars, jpcVars, axesVars
<1>1. CASE Configure BY <1>1, <1>0 DEF Configure
<1>2. CASE Activate BY <1>2, <1>0 DEF Activate
<1>3. CASE Activated BY <1>3, <1>0 DEF Activated, AnnounceIdle, publishExecActive
<1>4. CASE Deactivate
  <2>1. TypeOK' BY <1>0
  <2>2. ActiveFlag' BY <1>4 DEF Deactivate, RaiseFlag
  <2>3. NothingYet' BY <1>4 DEF Deactivate, RaiseFlag
  <2>4. Marked' BY <1>4 DEF Deactivate, RaiseFlag
  <2>5. LatchFollows' BY <1>4 DEF Deactivate, RaiseFlag
  <2>6. Waited' BY <1>4 DEF Deactivate, RaiseFlag
  <2> QED BY <2>1, <2>2, <2>3, <2>4, <2>5, <2>6
<1>5. CASE DeactivateStop
  <2>1. TypeOK' BY <1>0
  <2>2. ActiveFlag' BY <1>5 DEF DeactivateStop, Stop, Command
  <2>3. NothingYet' BY <1>5 DEF DeactivateStop, Stop, Command
  <2>4. Marked' BY <1>5 DEF DeactivateStop, Stop, Command
  <2>5. LatchFollows' BY <1>5 DEF DeactivateStop, Stop, Command
  <2>6. Waited' BY <1>5 DEF DeactivateStop, Stop, Command
  <2> QED BY <2>1, <2>2, <2>3, <2>4, <2>5, <2>6
<1>6. CASE waitForGoalToFinish BY <1>6, <1>0 DEF waitForGoalToFinish, GiveUp
<1>7. CASE DeactivatePublish BY <1>7, <1>0 DEF DeactivatePublish, publishExecActive
<1>8. CASE Deactivated BY <1>8, <1>0 DEF Deactivated
<1>9. CASE Cleanup
  <2>1. TypeOK' BY <1>0
  <2>2. ActiveFlag' BY <1>9 DEF Cleanup, GiveUp
  <2>3. NothingYet' BY <1>9 DEF Cleanup, GiveUp
  <2>4. Marked' BY <1>9 DEF Cleanup, GiveUp
  <2>5. LatchFollows' BY <1>9 DEF Cleanup, GiveUp
  <2>6. Waited' BY <1>9 DEF Cleanup, GiveUp
  <2> QED BY <2>1, <2>2, <2>3, <2>4, <2>5, <2>6
<1>10. CASE Crash
  <2>1. TypeOK' BY <1>0
  <2>2. ActiveFlag' BY <1>10 DEF Crash
  <2>3. NothingYet' BY <1>10 DEF Crash
  <2>4. Marked' BY <1>10 DEF Crash
  <2>5. LatchFollows' BY <1>10 DEF Crash
  <2>6. Waited' BY <1>10 DEF Crash
  <2> QED BY <2>1, <2>2, <2>3, <2>4, <2>5, <2>6
<1> QED BY <1>1, <1>2, <1>3, <1>4, <1>5, <1>6, <1>7, <1>8, <1>9, <1>10
        DEF LifecycleChange, LifecycleStep

\* So do the steps of a goal thread, in particular the scope exit, which marks the
\* goals whose latch and flag it resets.
LEMMA GoalPreserves ==
  ASSUME IInv, NEW g \in Goal,
         Accept(g) \/ Enter(g) \/ Announce(g) \/ StartSpline(g) \/ Poll(g) \/ Leave(g) \/ Finish(g)
  PROVE  IInv'
<1>0. TypeOK' BY TypeStep DEF IInv, Next
<1> USE GoalAssumption
<1> USE DEF IInv, TypeOK, Message, ActiveFlag, NothingYet, Marked, LatchFollows, Waited,
       LatchHolds, announced, jtcVars, goalVars, topicVars, jpcVars, axesVars, At
<1>1. CASE Accept(g) BY <1>1, <1>0 DEF Accept
<1>2. CASE Enter(g) BY <1>2, <1>0 DEF Enter, MarkRunning
<1>3. CASE Announce(g) BY <1>3, <1>0 DEF Announce, AnnounceGoal, publishExecActive
<1>4. CASE StartSpline(g)
  <2>1. TypeOK' BY <1>0
  <2>2. ActiveFlag' BY <1>4 DEF StartSpline, Command
  <2>3. NothingYet' BY <1>4 DEF StartSpline, Command
  <2>4. Marked' BY <1>4 DEF StartSpline, Command
  <2>5. LatchFollows' BY <1>4 DEF StartSpline, Command
  <2>6. Waited' BY <1>4 DEF StartSpline, Command
  <2> QED BY <2>1, <2>2, <2>3, <2>4, <2>5, <2>6
<1>5. CASE Poll(g)
  <2>1. TypeOK' BY <1>0
  <2>2. ActiveFlag' BY <1>5 DEF Poll, Stop, Command
  <2>3. NothingYet' BY <1>5 DEF Poll, Stop, Command
  <2>4. Marked' BY <1>5 DEF Poll, Stop, Command
  <2>5. LatchFollows' BY <1>5 DEF Poll, Stop, Command
  <2>6. Waited' BY <1>5 DEF Poll, Stop, Command
  <2> QED BY <2>1, <2>2, <2>3, <2>4, <2>5, <2>6
<1>6. CASE Leave(g) BY <1>6, <1>0 DEF Leave, publishExecActive
<1>7. CASE Finish(g)
  <2>1. TypeOK' BY <1>0
  <2>2. ActiveFlag' BY <1>7 DEF Finish
  <2>3. NothingYet' BY <1>7 DEF Finish
  <2>4. Marked' BY <1>7 DEF Finish
  <2>5. LatchFollows' BY <1>7 DEF Finish
  <2>6. Waited' BY <1>7 DEF Finish
  <2> QED BY <2>1, <2>2, <2>3, <2>4, <2>5, <2>6
<1> QED BY <1>1, <1>2, <1>3, <1>4, <1>5, <1>6, <1>7

\* And the position controller, which takes the latch over when it is activated,
\* and the axes.
LEMMA PositionPreserves ==
  ASSUME IInv,
         \/ PositionActivate \/ PositionDeactivate \/ PositionCrash
         \/ execActiveCallback \/ Receive \/ Interpolate \/ MotionEnds
  PROVE  IInv'
<1>0. TypeOK' BY TypeStep DEF IInv, Next
<1> USE GoalAssumption
<1> USE DEF IInv, TypeOK, Message, ActiveFlag, NothingYet, Marked, LatchFollows, Waited,
       LatchHolds, announced, jtcVars, goalVars, topicVars, jpcVars, axesVars
<1>1. CASE PositionActivate BY <1>1, <1>0 DEF PositionActivate
<1>2. CASE PositionDeactivate
  <2>1. TypeOK' BY <1>0
  <2>2. ActiveFlag' BY <1>2 DEF PositionDeactivate, Stop, Command
  <2>3. NothingYet' BY <1>2 DEF PositionDeactivate, Stop, Command
  <2>4. Marked' BY <1>2 DEF PositionDeactivate, Stop, Command
  <2>5. LatchFollows' BY <1>2 DEF PositionDeactivate, Stop, Command
  <2>6. Waited' BY <1>2 DEF PositionDeactivate, Stop, Command
  <2> QED BY <2>1, <2>2, <2>3, <2>4, <2>5, <2>6
<1>3. CASE PositionCrash
  <2>1. TypeOK' BY <1>0
  <2>2. ActiveFlag' BY <1>3 DEF PositionCrash
  <2>3. NothingYet' BY <1>3 DEF PositionCrash
  <2>4. Marked' BY <1>3 DEF PositionCrash
  <2>5. LatchFollows' BY <1>3 DEF PositionCrash
  <2>6. Waited' BY <1>3 DEF PositionCrash
  <2> QED BY <2>1, <2>2, <2>3, <2>4, <2>5, <2>6
<1>4. CASE execActiveCallback BY <1>4, <1>0 DEF execActiveCallback, Delivered
<1>5. CASE Receive BY <1>5, <1>0 DEF Receive
<1>6. CASE Interpolate
  <2>1. TypeOK' BY <1>0
  <2>2. ActiveFlag' BY <1>6 DEF Interpolate, Command
  <2>3. NothingYet' BY <1>6 DEF Interpolate, Command
  <2>4. Marked' BY <1>6 DEF Interpolate, Command
  <2>5. LatchFollows' BY <1>6 DEF Interpolate, Command
  <2>6. Waited' BY <1>6 DEF Interpolate, Command
  <2> QED BY <2>1, <2>2, <2>3, <2>4, <2>5, <2>6
<1>7. CASE MotionEnds
  <2>1. TypeOK' BY <1>0
  <2>2. ActiveFlag' BY <1>7 DEF MotionEnds, Command
  <2>3. NothingYet' BY <1>7 DEF MotionEnds, Command
  <2>4. Marked' BY <1>7 DEF MotionEnds, Command
  <2>5. LatchFollows' BY <1>7 DEF MotionEnds, Command
  <2>6. Waited' BY <1>7 DEF MotionEnds, Command
  <2> QED BY <2>1, <2>2, <2>3, <2>4, <2>5, <2>6
<1> QED BY <1>1, <1>2, <1>3, <1>4, <1>5, <1>6, <1>7

(***************************************************************************)
(* The theorems.                                                           *)
(***************************************************************************)

\* In every reachable state the flags, the latch and the goals agree (IInv).
THEOREM Invariance == Spec => []IInv
<1>1. Init => IInv
  BY GoalAssumption DEF Init, IInv, TypeOK, Message, ActiveFlag, NothingYet, Marked, LatchFollows,
     Waited, announced
<1>2. IInv /\ [Next]_vars => IInv'
  <2> SUFFICES ASSUME IInv, [Next]_vars PROVE IInv'
    OBVIOUS
  <2>1. CASE Next
    BY <2>1, LifecyclePreserves, GoalPreserves, PositionPreserves DEF Next, LifecycleChange
  <2>2. CASE UNCHANGED vars
    BY <2>2 DEF vars, jtcVars, goalVars, topicVars, jpcVars, axesVars,
       IInv, TypeOK, ActiveFlag, NothingYet, Marked, LatchFollows, Waited, LatchHolds, announced
  <2> QED BY <2>1, <2>2
<1> QED BY <1>1, <1>2, PTL DEF Spec

\* While a goal of this activation runs, the position controller is latched, or
\* about to be (publishExecActive, execActiveCallback).
THEOREM LatchCovers == Spec => []LatchCoversGoal
<1>1. IInv => LatchCoversGoal
  BY DEF IInv, LatchFollows, LatchCoversGoal
<1> QED BY <1>1, Invariance, PTL

\* An inactive node has no goal running that began while it was active, unless its
\* wait gave up (on_deactivate, on_cleanup, waitForGoalToFinish).
THEOREM WaitCovers == Spec => []DeactivationWaits
<1>1. IInv => DeactivationWaits
  BY DEF IInv, Waited, DeactivationWaits
<1> QED BY <1>1, Invariance, PTL

\* The variables have their types in every reachable state.
THEOREM TypeCorrect == Spec => []TypeOK
<1>1. IInv => TypeOK
  BY DEF IInv
<1> QED BY <1>1, Invariance, PTL

(***************************************************************************)
(* The latch is let go.                                                    *)
(***************************************************************************)

\* LatchTracks is inductive: who publishes TRUE still owes a FALSE.
LEMMA LatchStep ==
  ASSUME TypeOK, NothingYet, LatchTracks, [Next]_vars
  PROVE  LatchTracks'
<1> USE GoalAssumption
<1> USE DEF TypeOK, NothingYet, Message, LatchTracks, announced, publishExecActive, At,
            jtcVars, goalVars, topicVars, jpcVars, axesVars
<1>1. CASE Configure \/ Cleanup BY <1>1 DEF Configure, Cleanup
<1>2. CASE Activate BY <1>2 DEF Activate
<1>3. CASE Activated BY <1>3 DEF Activated, AnnounceIdle
<1>4. CASE Deactivate BY <1>4 DEF Deactivate
<1>5. CASE DeactivateStop \/ waitForGoalToFinish
  BY <1>5 DEF DeactivateStop, waitForGoalToFinish
<1>6. CASE DeactivatePublish BY <1>6 DEF DeactivatePublish
<1>7. CASE Deactivated BY <1>7 DEF Deactivated
<1>8. CASE Crash BY <1>8 DEF Crash
<1>9. ASSUME NEW g \in Goal, Accept(g) \/ Enter(g) \/ Finish(g) PROVE LatchTracks'
  BY <1>9 DEF Accept, Enter, Finish
<1>10. ASSUME NEW g \in Goal, Announce(g) PROVE LatchTracks'
  BY <1>10 DEF Announce, AnnounceGoal
<1>11. ASSUME NEW g \in Goal, StartSpline(g) \/ Poll(g) PROVE LatchTracks'
  BY <1>11 DEF StartSpline, Poll
<1>12. ASSUME NEW g \in Goal, Leave(g) PROVE LatchTracks'
  BY <1>12 DEF Leave
<1>13. CASE PositionActivate \/ PositionDeactivate \/ PositionCrash
  BY <1>13 DEF PositionActivate, PositionDeactivate, PositionCrash
<1>14. CASE execActiveCallback BY <1>14 DEF execActiveCallback, Delivered
<1>15. CASE Receive \/ Interpolate \/ MotionEnds \/ UNCHANGED vars
  BY <1>15 DEF Receive, Interpolate, MotionEnds, vars
<1> QED BY <1>1, <1>2, <1>3, <1>4, <1>5, <1>6, <1>7, <1>8, <1>9, <1>10, <1>11, <1>12, <1>13,
           <1>14, <1>15 DEF Next, LifecycleStep

\* The topic keeps what the goals owe, in every reachable state (LatchTracks).
LEMMA LatchTracking == Spec => []LatchTracks
<1>1. Init => LatchTracks
  BY GoalAssumption DEF Init, LatchTracks, announced, Message
<1>2. IInv /\ LatchTracks /\ [Next]_vars => LatchTracks'
  BY LatchStep DEF IInv
<1> QED BY <1>1, <1>2, Invariance, PTL DEF Spec

\* No order of goals, activations and crashes leaves the latch closed behind the
\* last goal: what LatchReleases needs besides the delivery of the message.
THEOREM LatchIsReleased == Spec => []LatchIsLetGo
<1>1. TypeOK /\ LatchTracks => LatchIsLetGo
  BY DEF TypeOK, Message, LatchTracks, LatchIsLetGo
<1> QED BY <1>1, LatchTracking, TypeCorrect, PTL

\* Nobody abandons the latch but a deactivation that drops the publisher under a
\* late goal, or a crash: what the code keeps of the promise that every exit of a
\* goal publishes FALSE.
THEOREM LatchIsAbandonedLate == Spec => AbandonedOnlyByLateGoal
<1>1. ASSUME IInv, LatchTracks, [Next]_vars, abandoned', ~abandoned, ~Crash
      PROVE  \/ /\ main = "resetting" /\ latched = "true"
                /\ \E g \in Goal : announced(g) /\ (timedOut \/ g \notin fresh \/ g \in crossed)
             \/ jpc = "inactive" /\ ~publisher /\ inExecution_ = "true"
  <2> USE <1>1, GoalAssumption
  <2> USE DEF IInv, TypeOK, Message, abandoned, LatchHolds, LatchTracks, publishExecActive,
              jtcVars, goalVars, topicVars, jpcVars, axesVars
  <2>1. CASE Deactivated
    <3>1. main = "resetting" /\ latched = "true"
      BY <2>1 DEF Deactivated
    <3>2. timedOut \/ fresh \subseteq crossed
      BY <3>1 DEF Waited
    <3> QED BY <3>1, <3>2
  <2>2. CASE Configure \/ Activate \/ Activated \/ Deactivate \/ Cleanup
    BY <2>2 DEF Configure, Activate, Activated, AnnounceIdle, Deactivate, Cleanup
  <2>3. CASE DeactivateStop \/ waitForGoalToFinish \/ DeactivatePublish
    BY <2>3 DEF DeactivateStop, waitForGoalToFinish, DeactivatePublish
  <2>4. ASSUME NEW g \in Goal, Accept(g) \/ Enter(g) \/ StartSpline(g) \/ Poll(g) \/ Finish(g)
        PROVE  FALSE
    BY <2>4 DEF Accept, Enter, StartSpline, Poll, Finish
  <2>5. ASSUME NEW g \in Goal, Announce(g) \/ Leave(g) PROVE FALSE
    BY <2>5 DEF Announce, AnnounceGoal, Leave
  <2>6. CASE PositionActivate
    BY <2>6 DEF PositionActivate
  <2>7. CASE PositionDeactivate \/ PositionCrash
    BY <2>7 DEF PositionDeactivate, PositionCrash
  <2>8. CASE execActiveCallback
    BY <2>8 DEF execActiveCallback, Delivered
  <2>9. CASE Receive \/ Interpolate \/ MotionEnds \/ UNCHANGED vars
    BY <2>9 DEF Receive, Interpolate, MotionEnds, vars
  <2> QED BY <2>1, <2>2, <2>3, <2>4, <2>5, <2>6, <2>7, <2>8, <2>9 DEF Next, LifecycleStep
<1>2. IInv /\ LatchTracks /\ [Next]_vars =>
        [abandoned' =>
           \/ abandoned
           \/ /\ main = "resetting" /\ latched = "true"
              /\ \E g \in Goal : announced(g) /\ (timedOut \/ g \notin fresh \/ g \in crossed)
           \/ jpc = "inactive" /\ ~publisher /\ inExecution_ = "true"
           \/ Crash]_vars
  BY <1>1
<1> QED BY <1>2, Invariance, LatchTracking, PTL DEF Spec, AbandonedOnlyByLateGoal

(***************************************************************************)
(* The trajectory controller implements ManagedNode.                       *)
(***************************************************************************)

\* The lifecycle callbacks take the transitions of a managed node; a process that
\* ended is back, unconfigured.
LEMMA LifeMoves ==
  ASSUME TypeOK, [Next]_vars
  PROVE  \/ UNCHANGED lifeState
         \/ \E t \in Managed!Transition : Managed!Begin(t) \/ Managed!Succeed(t)
         \/ Managed!Start
<1> USE DEF TypeOK, lifeState, jtcVars, Managed!Transition, Managed!Shutdowns, Managed!Begin,
            Managed!Succeed, Managed!Start, Managed!From, Managed!To, Managed!During
<1>1. CASE Configure
  <2>1. Managed!Succeed("configure") BY <1>1 DEF Configure
  <2> QED BY <2>1
<1>2. CASE Activate
  <2>1. Managed!Begin("activate") BY <1>2 DEF Activate
  <2> QED BY <2>1
<1>3. CASE Activated
  <2>1. Managed!Succeed("activate") BY <1>3 DEF Activated
  <2> QED BY <2>1
<1>4. CASE Deactivate
  <2>1. Managed!Begin("deactivate") BY <1>4 DEF Deactivate
  <2> QED BY <2>1
<1>5. CASE DeactivateStop \/ waitForGoalToFinish \/ DeactivatePublish
  BY <1>5 DEF DeactivateStop, waitForGoalToFinish, DeactivatePublish
<1>6. CASE Deactivated
  <2>1. Managed!Succeed("deactivate") BY <1>6 DEF Deactivated
  <2> QED BY <2>1
<1>7. CASE Cleanup
  <2>1. Managed!Succeed("cleanup") BY <1>7 DEF Cleanup
  <2> QED BY <2>1
<1>8. CASE Crash BY <1>8 DEF Crash
<1>9. CASE \/ \E g \in Goal : \/ Accept(g) \/ Enter(g) \/ Announce(g) \/ StartSpline(g)
                              \/ Poll(g) \/ Leave(g) \/ Finish(g)
           \/ PositionActivate \/ PositionDeactivate \/ PositionCrash
           \/ execActiveCallback \/ Receive \/ Interpolate \/ MotionEnds \/ UNCHANGED vars
  BY <1>9 DEF Accept, Enter, Announce, StartSpline, Poll, Leave, Finish, PositionActivate,
    PositionDeactivate, PositionCrash, execActiveCallback, Receive, Interpolate, MotionEnds, vars
<1> QED BY <1>1, <1>2, <1>3, <1>4, <1>5, <1>6, <1>7, <1>8, <1>9 DEF Next, LifecycleStep

\* The trajectory controller goes up and down as a managed node does, and its
\* goals run only between the end of an activation and that of the wait.
THEOREM Implementation == Spec => ImplementsNode
<1>1. Init => Managed!Init
  BY DEF Init, Managed!Init, lifeState
<1>2. IInv /\ IInv' /\ [Next]_vars => [Managed!Next]_(Managed!vars)
  <2> SUFFICES ASSUME IInv, IInv', [Next]_vars PROVE Managed!Next
    OBVIOUS
  <2>1. \/ UNCHANGED lifeState
        \/ \E t \in Managed!Transition : Managed!Begin(t) \/ Managed!Succeed(t)
        \/ Managed!Start
    BY LifeMoves DEF IInv
  <2>2. ASSUME ~timedOut', ~(fresh' \subseteq crossed')
        PROVE  lifeState' \in {"active", "deactivating"}
    BY <2>2 DEF IInv, TypeOK, NothingYet, Waited, lifeState
  <2> QED BY <2>1, <2>2 DEF Managed!Next, Managed!Working, Managed!Starting
<1> QED BY <1>1, <1>2, Invariance, PTL DEF Spec, ImplementsNode, Managed!Spec

=============================================================================
