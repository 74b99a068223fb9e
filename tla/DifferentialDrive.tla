-------------------------- MODULE DifferentialDrive --------------------------
(***************************************************************************)
(* differential_drive_controller: velocity commands to the two wheels of a *)
(* base, a resend cache, fault gates and dead-reckoned odometry.           *)
(*                                                                         *)
(* Two threads meet here: the control group (the command subscription and  *)
(* both timers, one callback at a time) and the lifecycle callbacks.  What *)
(* runs under driveMutex_ is one step; a control step reads the status,    *)
(* then the command, and takes the lock last, so it is three steps.        *)
(***************************************************************************)
EXTENDS Integers

CONSTANTS
  Twist,        \* the commands: records of a linear and an angular speed
  Timeout,      \* cmd_vel_timeout in clock ticks
  MaxAhead,     \* bound: how far a stamp is ahead of this node's clock
  MaxFailures   \* bound: how many transient StartVel failures happen

ASSUME DriveAssumption ==
  /\ Twist \subseteq [linear : Int, angular : Int]
  /\ Timeout \in Nat /\ MaxAhead \in Nat /\ MaxFailures \in Nat

Wheel == {"left", "right"}
Still == [w \in Wheel |-> 0]
Halt == [linear |-> 0, angular |-> 0]

\* In units of the geometry: a wheel base of two radii.
inverseKinematics(t) ==
  [w \in Wheel |-> IF w = "left" THEN t.linear - t.angular ELSE t.linear + t.angular]

VARIABLES
  life,           \* lifecycle state
  main,           \* the lifecycle callback that runs: idle, enabling, disabling
  listening,      \* the subscription exists
  ticking,        \* the timers exist
  driveEnabled_, sentOmega_, sentOmegaValid_,   \* under driveMutex_
  haveCmdVel_, lastCmdVel_,
  age,            \* now minus the stamp of the last command, at most Timeout + 1
  haveFeedbackTime_,
  pc, target,     \* where the control step is, the target it computed
  wheel,          \* the velocity each wheel runs at
  online,         \* GetStatus answers that the engine communicates
  alarmed,        \* wheels with an amp alarm or the servo off
  stopFailed,     \* history: wheels whose last command was a stop that failed
  silence,        \* history: ticks since a command arrived, at most Timeout + 1
  gap,            \* history: no pose was integrated since the last outage
  failures        \* history: how many transient failures happened

lifeVars == <<life, main, listening, ticking>>
cacheVars == <<driveEnabled_, sentOmega_, sentOmegaValid_>>
cmdVars == <<haveCmdVel_, lastCmdVel_, age, silence>>
odomVars == <<haveFeedbackTime_, gap>>
stepVars == <<pc, target>>
wheelVars == <<wheel, stopFailed, failures>>
faultVars == <<online, alarmed>>
vars == <<lifeVars, cacheVars, cmdVars, odomVars, stepVars, wheelVars, faultVars>>

Speeds == [Wheel -> Int]

TypeOK ==
  /\ life \in {"unconfigured", "inactive", "active"}
  /\ main \in {"idle", "enabling", "disabling"}
  /\ listening \in BOOLEAN /\ ticking \in BOOLEAN
  /\ driveEnabled_ \in BOOLEAN /\ sentOmega_ \in Speeds /\ sentOmegaValid_ \in BOOLEAN
  /\ haveCmdVel_ \in BOOLEAN /\ lastCmdVel_ \in Twist \cup {Halt}
  /\ age \in -MaxAhead .. Timeout + 1 /\ silence \in 0 .. Timeout + 1
  /\ haveFeedbackTime_ \in BOOLEAN /\ gap \in BOOLEAN
  /\ pc \in {"idle", "gated", "faulted", "command"} /\ target \in Speeds
  /\ wheel \in Speeds /\ stopFailed \subseteq Wheel /\ failures \in 0 .. MaxFailures
  /\ online \in BOOLEAN /\ alarmed \subseteq Wheel

Init ==
  /\ life = "unconfigured" /\ main = "idle" /\ listening = FALSE /\ ticking = FALSE
  /\ driveEnabled_ = FALSE /\ sentOmega_ = Still /\ sentOmegaValid_ = FALSE
  /\ haveCmdVel_ = FALSE /\ lastCmdVel_ = Halt /\ age = 0 /\ silence = 0
  /\ haveFeedbackTime_ = FALSE /\ gap = TRUE
  /\ pc = "idle" /\ target = Still
  /\ wheel = Still /\ stopFailed = {} /\ failures = 0
  /\ online = TRUE /\ alarmed = {}

-----------------------------------------------------------------------------
(***************************************************************************)
(* The device.  StartVel fails on a faulty wheel or without a device, it   *)
(* may fail while the engine is off, and now and then for no reason the    *)
(* node can see (Transient).                                               *)
(***************************************************************************)
mustFail(w) == w \in alarmed \/ life = "unconfigured"

\* StartVel for each wheel; ok is the set of wheels that accepted it.
StartVel(omega, ok) ==
  /\ \A w \in ok : ~mustFail(w)
  /\ IF online /\ \E w \in Wheel \ ok : ~mustFail(w)
     THEN failures < MaxFailures /\ failures' = failures + 1
     ELSE UNCHANGED failures
  /\ wheel' = [w \in Wheel |-> IF w \in ok THEN omega[w] ELSE wheel[w]]
  /\ stopFailed' = {w \in Wheel \ ok : omega[w] = 0}

Fault(w) ==
  /\ w \notin alarmed
  /\ alarmed' = alarmed \cup {w}
  /\ wheel' = [wheel EXCEPT ![w] = 0]
  /\ UNCHANGED <<online, stopFailed, failures>>

Repair(w) ==
  /\ w \in alarmed
  /\ alarmed' = alarmed \ {w}
  /\ UNCHANGED <<online, wheelVars>>

\* The status is not to be had, or the engine stops; the wheels run on, or not.
GoOffline ==
  /\ online
  /\ online' = FALSE
  /\ wheel' \in {wheel, Still}
  /\ UNCHANGED <<alarmed, stopFailed, failures>>

GoOnline ==
  /\ ~online
  /\ online' = TRUE
  /\ UNCHANGED <<alarmed, wheelVars>>

\* wmx/axes/stop of wmx_core_motion_node, which is never blocked.
StopService(w) ==
  /\ wheel[w] # 0
  /\ wheel' = [wheel EXCEPT ![w] = 0]
  /\ UNCHANGED <<faultVars, stopFailed, failures>>

DeviceStep ==
  /\ \/ GoOffline \/ GoOnline
     \/ \E w \in Wheel : Fault(w) \/ Repair(w) \/ StopService(w)
  /\ UNCHANGED <<lifeVars, cacheVars, cmdVars, odomVars, stepVars>>

-----------------------------------------------------------------------------
(***************************************************************************)
(* The lifecycle callbacks.  on_shutdown is on_deactivate in an active     *)
(* node, then on_cleanup.                                                  *)
(***************************************************************************)
Configure ==
  /\ main = "idle" /\ life = "unconfigured"
  /\ life' = "inactive"
  /\ UNCHANGED <<main, listening, ticking, cacheVars, cmdVars, odomVars, stepVars, wheelVars, faultVars>>

ForgetBaselineMutant == UNCHANGED haveFeedbackTime_
ForgetBaseline == haveFeedbackTime_' = FALSE

Activate ==
  /\ main = "idle" /\ life = "inactive"
  /\ ForgetBaseline
  /\ haveCmdVel_' = FALSE
  /\ main' = "enabling"
  /\ UNCHANGED <<life, listening, ticking, cacheVars, lastCmdVel_, age, silence, gap,
                 stepVars, wheelVars, faultVars>>

Enable ==
  /\ main = "enabling"
  /\ driveEnabled_' = TRUE /\ sentOmegaValid_' = FALSE /\ sentOmega_' = Still
  /\ listening' = TRUE /\ ticking' = TRUE
  /\ life' = "active" /\ main' = "idle"
  /\ UNCHANGED <<cmdVars, odomVars, stepVars, wheelVars, faultVars>>

\* on_deactivate drops the timers before it waits for the lock.
Deactivate ==
  /\ main = "idle" /\ life = "active"
  /\ ticking' = FALSE
  /\ main' = "disabling"
  /\ UNCHANGED <<life, listening, cacheVars, cmdVars, odomVars, stepVars, wheelVars, faultVars>>

Disable ==
  /\ main = "disabling"
  /\ driveEnabled_' = FALSE /\ sentOmegaValid_' = FALSE /\ sentOmega_' = Still
  /\ \E ok \in SUBSET Wheel : StartVel(Still, ok)
  /\ listening' = FALSE
  /\ gap' = TRUE
  /\ life' = "inactive" /\ main' = "idle"
  /\ UNCHANGED <<ticking, cmdVars, haveFeedbackTime_, stepVars, faultVars>>

Cleanup ==
  /\ main = "idle" /\ life = "inactive"
  /\ life' = "unconfigured"
  /\ UNCHANGED <<main, listening, ticking, cacheVars, cmdVars, odomVars, stepVars, wheelVars, faultVars>>

LifecycleStep == Configure \/ Activate \/ Enable \/ Deactivate \/ Disable \/ Cleanup

-----------------------------------------------------------------------------
(***************************************************************************)
(* The control group.                                                      *)
(***************************************************************************)
\* A command arrives; its stamp is zero (the arrival counts), late or ahead.
cmdStampedCallback(t, a) ==
  /\ listening /\ pc = "idle"
  /\ lastCmdVel_' = t /\ age' = a /\ haveCmdVel_' = TRUE /\ silence' = 0
  /\ UNCHANGED <<lifeVars, cacheVars, odomVars, stepVars, wheelVars, faultVars>>

SoonerMutant(i) == IF i <= Timeout + 1 THEN i + 1 ELSE i
Sooner(i) == IF i <= Timeout THEN i + 1 ELSE i
Tick ==
  /\ age' = Sooner(age) /\ silence' = Sooner(silence)
  /\ UNCHANGED <<lifeVars, cacheVars, haveCmdVel_, lastCmdVel_, odomVars, stepVars, wheelVars,
                 faultVars>>

\* controlStep: the gates, from one GetStatus.
ReadStatus ==
  /\ ticking /\ pc = "idle"
  /\ pc' = IF online /\ alarmed = {} THEN "gated" ELSE "faulted"
  /\ UNCHANGED <<lifeVars, cacheVars, cmdVars, odomVars, target, wheelVars, faultVars>>

stale == ~haveCmdVel_ \/ age > Timeout

ReadCommand ==
  /\ pc = "gated"
  /\ target' = inverseKinematics(IF stale THEN Halt ELSE lastCmdVel_)
  /\ pc' = "command"
  /\ UNCHANGED <<lifeVars, cacheVars, cmdVars, odomVars, wheelVars, faultVars>>

\* The cache is valid when both wheels accepted the target.
AcceptedMutant(ok) == ok # {}
Accepted(ok) == ok = Wheel

EnabledMutant == pc = "command"
Enabled == driveEnabled_

SameTargetMutant == target = sentOmega_
SameTarget == sentOmegaValid_ /\ target = sentOmega_

commandWheels ==
  /\ pc = "command"
  /\ pc' = "idle" /\ target' = Still
  /\ IF Enabled /\ ~SameTarget
     THEN \E ok \in SUBSET Wheel :
            /\ StartVel(target, ok)
            /\ sentOmega_' = target /\ sentOmegaValid_' = Accepted(ok)
     ELSE UNCHANGED <<sentOmega_, sentOmegaValid_, wheelVars>>
  /\ UNCHANGED <<lifeVars, driveEnabled_, cmdVars, odomVars, faultVars>>

\* A fault: the target is zero, and the stop is sent if the cache was valid.
stopWheelsOnFault ==
  /\ pc = "faulted"
  /\ pc' = "idle"
  /\ IF driveEnabled_
     THEN /\ sentOmega_' = Still /\ sentOmegaValid_' = FALSE
          /\ IF sentOmegaValid_
             THEN \E ok \in SUBSET Wheel : StartVel(Still, ok)
             ELSE UNCHANGED wheelVars
     ELSE UNCHANGED <<sentOmega_, sentOmegaValid_, wheelVars>>
  /\ UNCHANGED <<lifeVars, driveEnabled_, cmdVars, odomVars, target, faultVars>>

\* An outage drops the baseline, otherwise the pose moves on and it is renewed.
publishMotorFeedback ==
  /\ ticking /\ pc = "idle" /\ driveEnabled_
  /\ haveFeedbackTime_' = online
  /\ gap' = ~online
  /\ UNCHANGED <<lifeVars, cacheVars, cmdVars, stepVars, wheelVars, faultVars>>

ControlStep == ReadStatus \/ ReadCommand \/ commandWheels \/ stopWheelsOnFault

Next ==
  \/ DeviceStep \/ LifecycleStep \/ ControlStep \/ Tick \/ publishMotorFeedback
  \/ \E t \in Twist, a \in -MaxAhead .. Timeout + 1 : cmdStampedCallback(t, a)

(***************************************************************************)
(* The timer fires for ever, a callback that began goes on, time passes.   *)
(* No command has to arrive and no fault has to be repaired.               *)
(***************************************************************************)
Fairness ==
  /\ WF_vars(ReadStatus)
  /\ WF_vars(ReadCommand \/ commandWheels \/ stopWheelsOnFault)
  /\ WF_vars(Tick)

Spec == Init /\ [][Next]_vars
FairSpec == Spec /\ Fairness

-----------------------------------------------------------------------------
(***************************************************************************)
(* Safety.                                                                 *)
(***************************************************************************)

\* The flag under the lock agrees with the lifecycle, and a valid baseline is a new
\* one: with the properties below, the inductive invariant.
LockAgrees ==
  /\ driveEnabled_ <=> life = "active"
  /\ main = "enabling" => life = "inactive" /\ ~haveFeedbackTime_
  /\ main = "disabling" => life = "active"

StoppedWheels == ~driveEnabled_ => \A w \in Wheel : wheel[w] = 0 \/ w \in stopFailed

\* An inactive node has stopped both wheels, or its stop was refused: a control
\* step that was past its gates does not start them again (driveMutex_).
DisabledMeansStill ==
  life # "active" /\ main = "idle" => \A w \in Wheel : wheel[w] = 0 \/ w \in stopFailed

\* What the cache calls sent is what the wheels do, unless something stopped one:
\* a target that is skipped as a repetition is never one a wheel does not have,
\* so a stop is never swallowed (commandWheels, stopWheelsOnFault).
CacheIsTrue ==
  sentOmegaValid_ => \A w \in Wheel : wheel[w] \in {sentOmega_[w], 0}

\* A pose step never spans an outage the node saw, or a time it was inactive
\* (publishMotorFeedback, on_activate).
OdometrySkipsGaps ==
  haveFeedbackTime_ /\ driveEnabled_ => ~gap

IInv == TypeOK /\ LockAgrees /\ StoppedWheels /\ CacheIsTrue /\ OdometrySkipsGaps

\* A wheel turns that a fault gate would not stop: no cache is valid, and no stop
\* of it was refused.
unguarded ==
  driveEnabled_ /\ ~sentOmegaValid_ /\ \E w \in Wheel \ stopFailed : wheel[w] # 0

\* A wheel comes to turn beyond the reach of the fault gate in one way only: a
\* command to move was refused by a wheel and accepted by the other, or refused
\* by both while they moved.  No activation, stop or gate leaves one behind
\* (commandWheels, stopWheelsOnFault, on_activate).
UnguardedOnlyByRefusal ==
  [][unguarded' => unguarded \/ (commandWheels /\ target # Still /\ ~sentOmegaValid_')]_vars

(***************************************************************************)
(* The node is one the lifecycle manager can rely on.                      *)
(***************************************************************************)
lifeState ==
  CASE main = "enabling" -> "activating" [] main = "disabling" -> "deactivating" [] OTHER -> life

Managed == INSTANCE ManagedNode WITH
  life <- lifeState, acting <- \E w \in Wheel \ stopFailed : wheel[w] # 0

\* The drive goes up and down as the manager's model of a node does, and a wheel
\* turns only between the begin of an activation and the end of the
\* deactivation, unless its stop was refused (on_activate, on_deactivate).
ImplementsNode == Managed!Spec

(***************************************************************************)
(* Liveness.                                                               *)
(***************************************************************************)
gateOpen == online /\ alarmed = {}

\* If commands stop coming and the drive works, the wheels stop: the zero target
\* is sent again until both wheels took it (commandWheels).
StaleStops ==
  <>[](silence > Timeout /\ life = "active" /\ main = "idle" /\ gateOpen) =>
    <>[](wheel = Still)

(***************************************************************************)
(* What the documentation says and the code does not do.                   *)
(***************************************************************************)

\* doc/reference_differential.md:120: the last target sent to StartVel is zero while a
\* fault gate holds (:240 says it of the engine gate: "zero the wheels").  So a wheel
\* that still turns under a lasting fault is one whose stop was sent and refused.
FaultGateZeroes ==
  <>[](~gateOpen /\ life = "active" /\ main = "idle") =>
    <>[](\A w \in Wheel : wheel[w] = 0 \/ w \in stopFailed)

=============================================================================
