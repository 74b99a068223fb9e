---------------------- MODULE DifferentialDriveProofs ----------------------
(***************************************************************************)
(* IInv of DifferentialDrive is inductive, for every set of commands and   *)
(* every bound: an inactive drive stands still, the resend cache tells the *)
(* truth and the odometry spans no gap.                                    *)
(***************************************************************************)
EXTENDS DifferentialDrive, TLAPS

\* What two StartVel do: each wheel has the new velocity or the old one, and a
\* wheel that refused a stop is recorded.
LEMMA StartVelFacts ==
  ASSUME TypeOK, NEW omega \in Speeds, NEW ok \in SUBSET Wheel, StartVel(omega, ok)
  PROVE  /\ wheel' \in Speeds /\ stopFailed' \subseteq Wheel /\ failures' \in 0 .. MaxFailures
         /\ \A w \in Wheel : wheel'[w] = IF w \in ok THEN omega[w] ELSE wheel[w]
         /\ \A w \in Wheel : omega[w] = 0 => wheel'[w] = 0 \/ w \in stopFailed'
<1>1. failures' \in 0 .. MaxFailures
  BY DriveAssumption DEF StartVel, TypeOK
<1>2. wheel' = [w \in Wheel |-> IF w \in ok THEN omega[w] ELSE wheel[w]]
  BY DEF StartVel
<1>3. wheel' \in Speeds
  BY <1>2 DEF TypeOK, Speeds
<1>4. stopFailed' = {w \in Wheel \ ok : omega[w] = 0}
  BY DEF StartVel
<1> QED BY <1>1, <1>2, <1>3, <1>4

\* The targets are velocities for both wheels.
LEMMA KinematicsType ==
  /\ Still \in Speeds
  /\ \A t \in Twist \cup {Halt} : inverseKinematics(t) \in Speeds
BY DriveAssumption DEF Still, Speeds, Halt, inverseKinematics

\* Every step keeps the variables in their types.
LEMMA TypeStep ==
  ASSUME TypeOK, Next
  PROVE  TypeOK'
<1> USE DriveAssumption, KinematicsType
<1> USE DEF TypeOK, lifeVars, cacheVars, cmdVars, odomVars, stepVars, wheelVars, faultVars
<1>1. CASE DeviceStep
  <2>1. CASE GoOffline
    <3>1. wheel' \in Speeds BY <2>1 DEF GoOffline
    <3>2. online' \in BOOLEAN BY <2>1, Zenon DEF GoOffline
    <3>3. UNCHANGED <<alarmed, stopFailed, failures>> BY <2>1 DEF GoOffline
    <3>4. UNCHANGED <<lifeVars, cacheVars, cmdVars, odomVars, stepVars>> BY <1>1 DEF DeviceStep
    <3> QED BY <3>1, <3>2, <3>3, <3>4
  <2>2. CASE GoOnline BY <1>1, <2>2 DEF DeviceStep, GoOnline
  <2>3. ASSUME NEW w \in Wheel, Fault(w) PROVE TypeOK'
    BY <1>1, <2>3 DEF DeviceStep, Fault, Speeds
  <2>4. ASSUME NEW w \in Wheel, Repair(w) PROVE TypeOK'
    BY <1>1, <2>4 DEF DeviceStep, Repair
  <2>5. ASSUME NEW w \in Wheel, StopService(w) PROVE TypeOK'
    BY <1>1, <2>5 DEF DeviceStep, StopService, Speeds
  <2> QED BY <1>1, <2>1, <2>2, <2>3, <2>4, <2>5 DEF DeviceStep
<1>2. CASE Configure BY <1>2 DEF Configure
<1>3. CASE Activate BY <1>3 DEF Activate, ForgetBaseline
<1>4. CASE Enable
  <2>1. /\ driveEnabled_' \in BOOLEAN /\ sentOmegaValid_' \in BOOLEAN
        /\ listening' \in BOOLEAN /\ ticking' \in BOOLEAN
    BY <1>4, Zenon DEF Enable
  <2> QED BY <1>4, <2>1 DEF Enable
<1>5. CASE Deactivate
  <2>1. ticking' \in BOOLEAN BY <1>5, Zenon DEF Deactivate
  <2> QED BY <1>5, <2>1 DEF Deactivate
<1>6. CASE Disable BY <1>6, StartVelFacts DEF Disable
<1>7. CASE Cleanup BY <1>7 DEF Cleanup
<1>8. CASE ReadStatus BY <1>8 DEF ReadStatus
<1>9. CASE ReadCommand BY <1>9 DEF ReadCommand
<1>10. CASE commandWheels
  <2>1. CASE Enabled /\ ~SameTarget
    <3>1. PICK ok \in SUBSET Wheel : StartVel(target, ok) /\ sentOmega_' = target
                                     /\ sentOmegaValid_' = Accepted(ok)
      BY <1>10, <2>1 DEF commandWheels
    <3>2. sentOmegaValid_' \in BOOLEAN BY <3>1, Zenon DEF Accepted
    <3>3. wheel' \in Speeds /\ stopFailed' \subseteq Wheel /\ failures' \in 0 .. MaxFailures
      BY <3>1, StartVelFacts
    <3> QED BY <1>10, <3>1, <3>2, <3>3 DEF commandWheels
  <2>2. CASE ~(Enabled /\ ~SameTarget) BY <1>10, <2>2 DEF commandWheels
  <2> QED BY <2>1, <2>2
<1>11. CASE stopWheelsOnFault
  <2>1. sentOmegaValid_' \in BOOLEAN BY <1>11, Zenon DEF stopWheelsOnFault
  <2>2. sentOmega_' \in Speeds BY <1>11, Zenon DEF stopWheelsOnFault
  <2>3. wheel' \in Speeds /\ stopFailed' \subseteq Wheel /\ failures' \in 0 .. MaxFailures
    <3>1. CASE driveEnabled_ /\ sentOmegaValid_
      <4>1. PICK ok \in SUBSET Wheel : StartVel(Still, ok)
        BY <1>11, <3>1 DEF stopWheelsOnFault
      <4> QED BY <4>1, StartVelFacts
    <3>2. CASE ~(driveEnabled_ /\ sentOmegaValid_)
      <4>1. UNCHANGED wheelVars BY <1>11, <3>2, Zenon DEF stopWheelsOnFault
      <4> QED BY <4>1
    <3> QED BY <3>1, <3>2
  <2>4. pc' = "idle" /\ UNCHANGED <<lifeVars, driveEnabled_, cmdVars, odomVars, target, faultVars>>
    BY <1>11, Zenon DEF stopWheelsOnFault
  <2> QED BY <2>1, <2>2, <2>3, <2>4
<1>12. CASE Tick BY <1>12 DEF Tick, Sooner
<1>13. CASE publishMotorFeedback BY <1>13 DEF publishMotorFeedback
<1>14. ASSUME NEW t \in Twist, NEW a \in -MaxAhead .. Timeout + 1, cmdStampedCallback(t, a)
       PROVE  TypeOK'
  BY <1>14 DEF cmdStampedCallback
<1> QED BY <1>1, <1>2, <1>3, <1>4, <1>5, <1>6, <1>7, <1>8, <1>9, <1>10, <1>11, <1>12, <1>13, <1>14
        DEF Next, LifecycleStep, ControlStep

\* No step of the device makes a wheel turn.
LEMMA DeviceOnlyStops ==
  ASSUME TypeOK, DeviceStep
  PROVE  \A w \in Wheel : wheel'[w] \in {wheel[w], 0} /\ (w \in stopFailed => w \in stopFailed')
<1> USE DEF TypeOK, Speeds, wheelVars, faultVars
<1>1. CASE GoOffline BY <1>1 DEF GoOffline, Still
<1>2. CASE GoOnline BY <1>2 DEF GoOnline
<1>3. ASSUME NEW v \in Wheel, Fault(v) \/ Repair(v) \/ StopService(v)
      PROVE  \A w \in Wheel : wheel'[w] \in {wheel[w], 0} /\ (w \in stopFailed => w \in stopFailed')
  BY <1>3 DEF Fault, Repair, StopService
<1> QED BY <1>1, <1>2, <1>3 DEF DeviceStep

\* The flag under the lock follows the lifecycle callbacks and nothing else.
LEMMA LockStep ==
  ASSUME IInv, Next
  PROVE  LockAgrees' /\ OdometrySkipsGaps'
<1> USE DEF IInv, TypeOK, LockAgrees, OdometrySkipsGaps,
            lifeVars, cacheVars, cmdVars, odomVars, stepVars, wheelVars, faultVars
<1>1. CASE DeviceStep BY <1>1 DEF DeviceStep
<1>2. CASE Configure BY <1>2 DEF Configure
<1>3. CASE Activate BY <1>3 DEF Activate, ForgetBaseline
<1>4. CASE Enable BY <1>4 DEF Enable
<1>5. CASE Deactivate BY <1>5 DEF Deactivate
<1>6. CASE Disable BY <1>6 DEF Disable
<1>7. CASE Cleanup BY <1>7 DEF Cleanup
<1>8. CASE ReadStatus BY <1>8 DEF ReadStatus
<1>9. CASE ReadCommand BY <1>9 DEF ReadCommand
<1>10. CASE commandWheels BY <1>10 DEF commandWheels
<1>11. CASE stopWheelsOnFault BY <1>11 DEF stopWheelsOnFault
<1>12. CASE Tick BY <1>12 DEF Tick
<1>13. CASE publishMotorFeedback BY <1>13 DEF publishMotorFeedback
<1>14. CASE \E t \in Twist, a \in -MaxAhead .. Timeout + 1 : cmdStampedCallback(t, a)
  BY <1>14 DEF cmdStampedCallback
<1> QED BY <1>1, <1>2, <1>3, <1>4, <1>5, <1>6, <1>7, <1>8, <1>9, <1>10, <1>11, <1>12, <1>13, <1>14
        DEF Next, LifecycleStep, ControlStep

\* A step that leaves the wheels and the cache alone, and does not clear the flag,
\* leaves the two facts about them alone.
LEMMA WheelsFrame ==
  ASSUME StoppedWheels, CacheIsTrue,
         UNCHANGED <<wheel, stopFailed, sentOmega_, sentOmegaValid_>>,
         driveEnabled_ => driveEnabled_'
  PROVE  StoppedWheels' /\ CacheIsTrue'
BY DEF StoppedWheels, CacheIsTrue

\* The steps that write the wheels: the device, on_deactivate, commandWheels and
\* stopWheelsOnFault, the last three under the lock.
LEMMA WheelStep ==
  ASSUME IInv, Next
  PROVE  StoppedWheels' /\ CacheIsTrue'
<1> USE DEF IInv, lifeVars, cacheVars, wheelVars
<1>1. CASE DeviceStep
  <2>1. UNCHANGED <<driveEnabled_, sentOmega_, sentOmegaValid_>>
    BY <1>1 DEF DeviceStep
  <2>2. \A w \in Wheel : wheel'[w] \in {wheel[w], 0} /\ (w \in stopFailed => w \in stopFailed')
    BY <1>1, DeviceOnlyStops
  <2>3. StoppedWheels' BY <2>1, <2>2 DEF StoppedWheels
  <2>4. CacheIsTrue' BY <2>1, <2>2 DEF CacheIsTrue
  <2> QED BY <2>3, <2>4
<1>2. CASE Configure BY <1>2, WheelsFrame DEF Configure
<1>3. CASE Activate BY <1>3, WheelsFrame DEF Activate
<1>4. CASE Enable BY <1>4 DEF Enable, StoppedWheels, CacheIsTrue
<1>5. CASE Deactivate BY <1>5, WheelsFrame DEF Deactivate
<1>6. CASE Disable
  <2>1. PICK ok \in SUBSET Wheel : StartVel(Still, ok)
    BY <1>6 DEF Disable
  <2>2. \A w \in Wheel : wheel'[w] = 0 \/ w \in stopFailed'
    BY <2>1, StartVelFacts, KinematicsType DEF Still
  <2>3. ~sentOmegaValid_' BY <1>6 DEF Disable
  <2> QED BY <2>2, <2>3 DEF StoppedWheels, CacheIsTrue
<1>7. CASE Cleanup BY <1>7, WheelsFrame DEF Cleanup
<1>8. CASE ReadStatus BY <1>8, WheelsFrame DEF ReadStatus
<1>9. CASE ReadCommand BY <1>9, WheelsFrame DEF ReadCommand
<1>10. CASE commandWheels
  <2>1. CASE Enabled /\ ~SameTarget
    <3>1. PICK ok \in SUBSET Wheel : StartVel(target, ok) /\ sentOmega_' = target
                                     /\ sentOmegaValid_' = Accepted(ok)
      BY <1>10, <2>1 DEF commandWheels
    <3>2. \A w \in Wheel : wheel'[w] = IF w \in ok THEN target[w] ELSE wheel[w]
      BY <3>1, StartVelFacts DEF TypeOK
    <3>3. sentOmegaValid_' => ok = Wheel BY <3>1, Zenon DEF Accepted
    <3>4. CacheIsTrue' BY <3>1, <3>2, <3>3 DEF CacheIsTrue
    <3>5. driveEnabled_' BY <1>10, <2>1 DEF commandWheels, Enabled
    <3> QED BY <3>4, <3>5 DEF StoppedWheels
  <2>2. CASE ~(Enabled /\ ~SameTarget) BY <1>10, <2>2, WheelsFrame DEF commandWheels
  <2> QED BY <2>1, <2>2
<1>11. CASE stopWheelsOnFault
  <2>1. CASE driveEnabled_
    <3>1. ~sentOmegaValid_' /\ driveEnabled_' BY <1>11, <2>1 DEF stopWheelsOnFault
    <3> QED BY <3>1 DEF StoppedWheels, CacheIsTrue
  <2>2. CASE ~driveEnabled_ BY <1>11, <2>2, WheelsFrame DEF stopWheelsOnFault
  <2> QED BY <2>1, <2>2
<1>12. CASE Tick BY <1>12, WheelsFrame DEF Tick
<1>13. CASE publishMotorFeedback BY <1>13, WheelsFrame DEF publishMotorFeedback
<1>14. CASE \E t \in Twist, a \in -MaxAhead .. Timeout + 1 : cmdStampedCallback(t, a)
  BY <1>14, WheelsFrame DEF cmdStampedCallback
<1> QED BY <1>1, <1>2, <1>3, <1>4, <1>5, <1>6, <1>7, <1>8, <1>9, <1>10, <1>11, <1>12, <1>13, <1>14
        DEF Next, LifecycleStep, ControlStep

(***************************************************************************)
(* The theorems.                                                           *)
(***************************************************************************)

\* In every reachable state the lock, the cache, the wheels and the odometry agree.
THEOREM Invariance == Spec => []IInv
<1>1. Init => IInv
  <2> SUFFICES ASSUME Init PROVE IInv
    OBVIOUS
  <2>1. TypeOK
    <3>1. online \in BOOLEAN /\ gap \in BOOLEAN BY Zenon DEF Init
    <3>2. listening \in BOOLEAN /\ ticking \in BOOLEAN /\ driveEnabled_ \in BOOLEAN
          /\ sentOmegaValid_ \in BOOLEAN /\ haveCmdVel_ \in BOOLEAN /\ haveFeedbackTime_ \in BOOLEAN
      BY Zenon DEF Init
    <3> QED BY <3>1, <3>2, DriveAssumption, KinematicsType DEF Init, TypeOK
  <2>2. LockAgrees BY DEF Init, LockAgrees
  <2>3. StoppedWheels /\ CacheIsTrue BY DEF Init, StoppedWheels, CacheIsTrue, Still
  <2>4. OdometrySkipsGaps BY DEF Init, OdometrySkipsGaps
  <2> QED BY <2>1, <2>2, <2>3, <2>4 DEF IInv
<1>2. IInv /\ [Next]_vars => IInv'
  <2> SUFFICES ASSUME IInv, [Next]_vars PROVE IInv'
    OBVIOUS
  <2>1. CASE Next
    BY <2>1, TypeStep, LockStep, WheelStep DEF IInv
  <2>2. CASE UNCHANGED vars
    BY <2>2 DEF vars, lifeVars, cacheVars, cmdVars, odomVars, stepVars, wheelVars, faultVars,
       IInv, TypeOK, LockAgrees, StoppedWheels, CacheIsTrue, OdometrySkipsGaps
  <2> QED BY <2>1, <2>2
<1> QED BY <1>1, <1>2, PTL DEF Spec

\* The variables have their types in every reachable state.
THEOREM TypeCorrect == Spec => []TypeOK
<1>1. IInv => TypeOK
  BY DEF IInv
<1> QED BY <1>1, Invariance, PTL

\* No control step in flight starts a wheel of a node that was deactivated
\* (driveMutex_, driveEnabled_).
THEOREM InactiveDriveIsStill == Spec => []DisabledMeansStill
<1>1. IInv => DisabledMeansStill
  BY DEF IInv, LockAgrees, StoppedWheels, DisabledMeansStill
<1> QED BY <1>1, Invariance, PTL

\* A target that commandWheels skips is one the wheels have (sentOmegaValid_).
THEOREM SkippedTargetsAreSent == Spec => []CacheIsTrue
<1>1. IInv => CacheIsTrue
  BY DEF IInv
<1> QED BY <1>1, Invariance, PTL

\* No pose step spans an outage or an inactive time (haveFeedbackTime_).
THEOREM OdometryIsContinuous == Spec => []OdometrySkipsGaps
<1>1. IInv => OdometrySkipsGaps
  BY DEF IInv
<1> QED BY <1>1, Invariance, PTL

\* The fault gate misses a wheel only after a command to move that was refused:
\* what the code keeps of the promise that a failed gate zeroes the wheels.
THEOREM GateMissesRefusedOnly == Spec => UnguardedOnlyByRefusal
<1> DEFINE Refused == commandWheels /\ target # Still /\ ~sentOmegaValid_'
<1>1. ASSUME IInv, Next, unguarded', ~unguarded PROVE Refused
  <2> USE <1>1 DEF IInv, unguarded, lifeVars, cacheVars, wheelVars
  <2>1. CASE DeviceStep
    <3>1. UNCHANGED <<driveEnabled_, sentOmega_, sentOmegaValid_>>
      BY <2>1 DEF DeviceStep
    <3> QED BY <2>1, <3>1, DeviceOnlyStops
  <2>2. CASE Configure \/ Activate \/ Deactivate \/ Cleanup
    BY <2>2 DEF Configure, Activate, Deactivate, Cleanup
  <2>3. CASE Enable
    BY <2>3 DEF Enable, LockAgrees, StoppedWheels
  <2>4. CASE Disable
    BY <2>4 DEF Disable
  <2>5. CASE ReadStatus \/ ReadCommand
    BY <2>5 DEF ReadStatus, ReadCommand
  <2>6. CASE commandWheels
    <3>1. PICK ok \in SUBSET Wheel : StartVel(target, ok)
      BY <2>6 DEF commandWheels
    <3>2. target # Still
      BY <3>1, StartVelFacts DEF TypeOK, Still
    <3> QED BY <2>6, <3>2
  <2>7. CASE stopWheelsOnFault
    <3>1. driveEnabled_ /\ sentOmegaValid_
      BY <2>7 DEF stopWheelsOnFault
    <3>2. PICK ok \in SUBSET Wheel : StartVel(Still, ok)
      BY <2>7, <3>1 DEF stopWheelsOnFault
    <3> QED BY <3>2, StartVelFacts, KinematicsType DEF Still
  <2>8. CASE Tick \/ publishMotorFeedback
    BY <2>8 DEF Tick, publishMotorFeedback
  <2>9. CASE \E t \in Twist, a \in -MaxAhead .. Timeout + 1 : cmdStampedCallback(t, a)
    BY <2>9 DEF cmdStampedCallback
  <2> QED BY <2>1, <2>2, <2>3, <2>4, <2>5, <2>6, <2>7, <2>8, <2>9 DEF Next, LifecycleStep, ControlStep
<1>2. IInv /\ [Next]_vars => [unguarded' => unguarded \/ Refused]_vars
  BY <1>1
<1> QED BY <1>2, Invariance, PTL DEF Spec, UnguardedOnlyByRefusal

(***************************************************************************)
(* The drive implements ManagedNode.                                       *)
(***************************************************************************)

\* The lifecycle callbacks take the transitions of a managed node, the longer two
\* in two steps; nothing else moves it.
LEMMA LifeMoves ==
  ASSUME TypeOK, LockAgrees, [Next]_vars
  PROVE  \/ UNCHANGED lifeState
         \/ \E t \in Managed!Transition : Managed!Begin(t) \/ Managed!Succeed(t)
<1> USE DEF TypeOK, lifeState, lifeVars, Managed!Transition, Managed!Shutdowns, Managed!Begin,
            Managed!Succeed, Managed!From, Managed!To, Managed!During
<1>1. CASE Configure
  <2>1. Managed!Succeed("configure") BY <1>1 DEF Configure
  <2> QED BY <2>1
<1>2. CASE Activate
  <2>1. Managed!Begin("activate") BY <1>2 DEF Activate
  <2> QED BY <2>1
<1>3. CASE Enable
  <2>1. Managed!Succeed("activate") BY <1>3 DEF Enable
  <2> QED BY <2>1
<1>4. CASE Deactivate
  <2>1. Managed!Begin("deactivate") BY <1>4 DEF Deactivate
  <2> QED BY <2>1
<1>5. CASE Disable
  <2>1. Managed!Succeed("deactivate") BY <1>5 DEF Disable
  <2> QED BY <2>1
<1>6. CASE Cleanup
  <2>1. Managed!Succeed("cleanup") BY <1>6 DEF Cleanup
  <2> QED BY <2>1
<1>7. CASE \/ DeviceStep \/ ControlStep \/ Tick \/ publishMotorFeedback \/ UNCHANGED vars
           \/ \E t \in Twist, a \in -MaxAhead .. Timeout + 1 : cmdStampedCallback(t, a)
  BY <1>7 DEF DeviceStep, ControlStep, ReadStatus, ReadCommand, commandWheels,
    stopWheelsOnFault, Tick, publishMotorFeedback, cmdStampedCallback, vars
<1> QED BY <1>1, <1>2, <1>3, <1>4, <1>5, <1>6, <1>7 DEF Next, LifecycleStep

\* The drive goes up and down as a managed node does, and a wheel turns only on
\* a node that is active, or whose on_deactivate waits for the lock.
THEOREM Implementation == Spec => ImplementsNode
<1>1. Init => Managed!Init
  BY DEF Init, Managed!Init, lifeState, Still
<1>2. IInv /\ IInv' /\ [Next]_vars => [Managed!Next]_(Managed!vars)
  <2> SUFFICES ASSUME IInv, IInv', [Next]_vars PROVE Managed!Next
    OBVIOUS
  <2>1. \/ UNCHANGED lifeState
        \/ \E t \in Managed!Transition : Managed!Begin(t) \/ Managed!Succeed(t)
    BY LifeMoves DEF IInv
  <2>2. (\E w \in Wheel \ stopFailed : wheel[w] # 0)' => lifeState' \in {"active", "deactivating"}
    BY DEF IInv, StoppedWheels, LockAgrees, TypeOK, lifeState
  <2> QED BY <2>1, <2>2 DEF Managed!Next, Managed!Working, Managed!Starting
<1> QED BY <1>1, <1>2, Invariance, PTL DEF Spec, ImplementsNode, Managed!Spec

=============================================================================
