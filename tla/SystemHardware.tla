--------------------------- MODULE SystemHardware ---------------------------
(***************************************************************************)
(* WmxSystemHardware: the axes as a ros2_control hardware component.       *)
(*                                                                         *)
(* The controller manager calls one function of the component at a time:   *)
(* a lifecycle callback, or read() and write() in turn.  Every call of the *)
(* WMX library is a step, and it may fail; between two of them an axis     *)
(* comes to rest, loses its power, or is used by another client.  A loop   *)
(* over the joints takes them in any order.  A callback or a read() that   *)
(* returns ERROR is followed by on_error.                                  *)
(***************************************************************************)
EXTENDS Naturals

CONSTANTS
  Joint,          \* joints_
  VelocityJoint,  \* those with JointMode::Velocity, the others are StateOnly
  Speed,          \* velocities a controller asks for, besides zero
  MaxRetries      \* maxDeviceRetries_

Still == "still"
NaN == "nan"
Velocities == Speed \cup {Still}

ASSUME HardwareAssumption ==
  /\ VelocityJoint \subseteq Joint /\ Joint # {}
  /\ MaxRetries \in Nat \ {0}
  /\ Speed \cap {Still, NaN, "stopping", "off"} = {}

VARIABLES
  open, communication,   \* the component's device; the engine communicates
  axis,                  \* what each axis does
  state,                 \* the lifecycle state of the component
  op, pc, todo, attempt, \* the callback under way, its phase, its loops
  turn,                  \* what the real-time loop does next: read or write
  cmd, lastCmd,          \* of each WmxJoint
  feedback,              \* feedback_, as far as write() uses it
  communicating,         \* communicating_
  autoServoOn            \* autoServoOn_

VARIABLES                \* history
  excused,    \* joints whose lastCmd need not be what the axis does: a fault
              \* or another client changed the axis since, or on_activate
              \* could not seed the joint
  moved,      \* axes somebody set moving after waitForMotionComplete
  powered,    \* axes whose power the component switched on and has not
              \* switched off, nor failed to
  given,      \* joints a controller has given a command since they were seeded
  seeded      \* the last seedJointStates could seed the joints

axisVars == <<axis, excused, moved, powered>>
commandVars == <<cmd, given, seeded>>
jointVars == <<commandVars, lastCmd, feedback, communicating>>
callVars == <<state, op, pc, todo, attempt, turn>>
settings == <<communication, autoServoOn>>
vars == <<open, axisVars, jointVars, callVars, settings>>

Moving == Speed \cup {"stopping"}
Powered == Moving \cup {Still}
AxisState == Powered \cup {"off"}

Phase == {"idle", "create", "import", "seed", "await", "servoOn",
          "stop", "wait", "servoOff", "close", "write"}

TypeOK ==
  /\ open \in BOOLEAN /\ communication \in BOOLEAN
  /\ axis \in [Joint -> AxisState]
  /\ state \in {"unconfigured", "inactive", "active", "finalized"}
  /\ op \in {"none", "configure", "activate", "deactivate", "cleanup",
             "shutdown", "error", "write"}
  /\ pc \in Phase
  /\ todo \in SUBSET Joint
  /\ attempt \in 0 .. MaxRetries
  /\ turn \in {"read", "write"}
  /\ cmd \in [VelocityJoint -> Velocities \cup {NaN}]
  /\ lastCmd \in [VelocityJoint -> Velocities \cup {NaN}]
  /\ feedback \in [VelocityJoint -> {"ready", "lost", "unknown"}]
  /\ communicating \in BOOLEAN /\ autoServoOn \in BOOLEAN
  /\ excused \in SUBSET VelocityJoint
  /\ moved \in SUBSET Joint /\ powered \in SUBSET Joint
  /\ given \in SUBSET VelocityJoint /\ seeded \in BOOLEAN

Init ==
  /\ open = FALSE /\ communication \in BOOLEAN
  /\ axis = [j \in Joint |-> "off"]
  /\ state = "unconfigured" /\ op = "none" /\ pc = "idle" /\ todo = {}
  /\ attempt = 0 /\ turn = "read"
  /\ cmd = [j \in VelocityJoint |-> Still]
  /\ lastCmd = [j \in VelocityJoint |-> NaN]
  /\ feedback = [j \in VelocityJoint |-> "unknown"]
  /\ communicating = FALSE /\ autoServoOn \in BOOLEAN
  /\ excused = {} /\ moved = {} /\ powered = {} /\ given = {} /\ seeded = FALSE

-----------------------------------------------------------------------------
(***************************************************************************)
(* The world around the component.                                         *)
(***************************************************************************)

\* A fault, or another client: power is lost or switched, a powered axis is
\* moved or stopped.
Disturb(j) ==
  /\ \E a \in AxisState \ {axis[j]} :
       /\ a \in Moving => axis[j] \in Powered
       /\ axis' = [axis EXCEPT ![j] = a]
       /\ powered' = IF a \in Powered THEN powered ELSE powered \ {j}
       /\ moved' = IF a \in Moving /\ pc = "servoOff" THEN moved \cup {j} ELSE moved
  /\ excused' = IF axis[j] \in Powered THEN excused \cup ({j} \cap VelocityJoint) ELSE excused
  /\ UNCHANGED <<open, jointVars, callVars, settings>>

ComesToRest(j) ==
  /\ axis[j] = "stopping"
  /\ axis' = [axis EXCEPT ![j] = Still]
  /\ UNCHANGED <<open, excused, moved, powered, jointVars, callVars, settings>>

\* wmx_engine_node starts or stops the communication.
EngineChanges ==
  /\ communication' = ~communication
  /\ UNCHANGED <<open, axisVars, jointVars, callVars, autoServoOn>>

\* A controller's update(), between read() and write().
WriteCommand(j, v) ==
  /\ state = "active" /\ pc = "idle" /\ turn = "write"
  /\ cmd[j] # v
  /\ cmd' = [cmd EXCEPT ![j] = v]
  /\ given' = given \cup {j}
  /\ UNCHANGED <<open, axisVars, seeded, lastCmd, feedback, communicating, callVars, settings>>

-----------------------------------------------------------------------------
(***************************************************************************)
(* Flow of a callback.                                                     *)
(***************************************************************************)
Begin(o, phase, joints, n) ==
  /\ op' = o /\ pc' = phase /\ todo' = joints /\ attempt' = n
  /\ UNCHANGED <<state, turn>>

Goto(phase, joints, n) == Begin(op, phase, joints, n)

Return(s) ==
  /\ state' = s
  /\ op' = "none" /\ pc' = "idle" /\ todo' = {} /\ attempt' = 0 /\ turn' = "read"

\* A callback or read() returns ERROR: the framework calls on_error, which
\* is stopAllAxes.
OnError == Begin("error", "stop", Joint, 0)

\* One round of a loop over the joints, and what follows the last of them.
Done(j, Next) ==
  IF todo = {j} THEN Next ELSE Goto(pc, todo \ {j}, attempt)

-----------------------------------------------------------------------------
(***************************************************************************)
(* The library.                                                            *)
(***************************************************************************)
Works == open /\ communication

\* getStatus.
Observe ==
  /\ open
  /\ feedback' = [j \in VelocityJoint |-> IF axis[j] \in Powered THEN "ready" ELSE "lost"]
  /\ excused' = {j \in excused : axis[j] \in Powered}

BlindMutant == feedback' = [j \in VelocityJoint |-> "unknown"] /\ UNCHANGED communicating
Blind == feedback' = [j \in VelocityJoint |-> "unknown"] /\ communicating' = FALSE

\* An accepted command: StartVel, Stop or SetServoOn.
Command(j, a) ==
  /\ Works
  /\ axis' = [axis EXCEPT ![j] = a]
  /\ excused' = excused \ {j}

Slowed(j) == IF axis[j] \in Moving THEN "stopping" ELSE axis[j]

CloseDevice == open' \in {open, FALSE}

-----------------------------------------------------------------------------
(***************************************************************************)
(* on_configure: createDevice, importAndSetAll, seedJointStates.           *)
(***************************************************************************)
Configure ==
  /\ state = "unconfigured" /\ pc = "idle"
  /\ Begin("configure", "create", {}, 1)
  /\ UNCHANGED <<open, axisVars, jointVars, settings>>

Create ==
  /\ pc = "create"
  /\ \/ open' = TRUE /\ Goto("import", {}, 0)
     \/ open' \in BOOLEAN /\ OnError    \* SetDeviceName failed, and CloseDevice may fail
     \/ UNCHANGED open /\ OnError
     \/ /\ UNCHANGED open               \* the lock is busy
        /\ IF attempt < MaxRetries
           THEN Goto("create", {}, attempt + 1) ELSE OnError
  /\ UNCHANGED <<axisVars, jointVars, settings>>

Import ==
  /\ pc = "import"
  /\ Goto("seed", {}, 0) \/ OnError
  /\ UNCHANGED <<open, axisVars, jointVars, settings>>

\* seedJointStates, the end of on_configure and of on_activate.
Uncommanded ==
  /\ lastCmd' = [j \in VelocityJoint |-> NaN]
  /\ given' = {} /\ seeded' = TRUE
ReseedMutant == UNCHANGED cmd /\ Uncommanded
Reseed == cmd' = [j \in VelocityJoint |-> Still] /\ Uncommanded

Seed ==
  /\ pc = "seed"
  /\ \/ Observe /\ communicating' = communication /\ Reseed
     \/ /\ Blind /\ excused' = VelocityJoint
        /\ seeded' = FALSE /\ UNCHANGED <<cmd, given, lastCmd>>
  /\ Return(IF op = "configure" THEN "inactive" ELSE "active")
  /\ UNCHANGED <<open, axis, moved, powered, settings>>

-----------------------------------------------------------------------------
(***************************************************************************)
(* on_activate.                                                            *)
(***************************************************************************)
Activate ==
  /\ state = "inactive" /\ pc = "idle"
  /\ Begin("activate", "await", {}, 1)
  /\ UNCHANGED <<open, axisVars, jointVars, settings>>

AwaitAgainMutant == IF attempt <= MaxRetries THEN Goto("await", {}, attempt + 1) ELSE OnError
AwaitAgain == IF attempt < MaxRetries THEN Goto("await", {}, attempt + 1) ELSE OnError

\* waitForCommunicating: the answer goes to feedback_, and not to communicating_.
Await ==
  /\ pc = "await"
  /\ \/ /\ Observe /\ communication
        /\ IF autoServoOn THEN Goto("servoOn", Joint, 0) ELSE Goto("seed", {}, 0)
     \/ Observe /\ ~communication /\ AwaitAgain
     \/ /\ feedback' = [j \in VelocityJoint |-> "unknown"]
        /\ AwaitAgain /\ UNCHANGED excused
  /\ UNCHANGED <<open, axis, moved, powered, commandVars, lastCmd, communicating, settings>>

\* on_activate returns ERROR, not FAILURE: on_error follows.
ActivationFailsMutant == Return("inactive")
ActivationFails == OnError

\* The alarms have been cleared first, with the results ignored: an axis with
\* an alarm is one that is off.
ServoOn(j) ==
  /\ pc = "servoOn" /\ j \in todo
  /\ \/ /\ Command(j, IF axis[j] = "off" THEN Still ELSE axis[j])
        /\ powered' = powered \cup {j}
        /\ Done(j, Goto("seed", {}, 0))
     \/ ActivationFails /\ UNCHANGED <<axis, excused, powered>>
  /\ UNCHANGED <<open, moved, jointVars, settings>>

-----------------------------------------------------------------------------
(***************************************************************************)
(* stopAllAxes, the whole of on_deactivate and on_error.                   *)
(***************************************************************************)
Deactivate ==
  /\ state = "active" /\ pc = "idle"
  /\ Begin("deactivate", "stop", Joint, 0)
  /\ UNCHANGED <<open, axisVars, jointVars, settings>>

Shutdown ==
  /\ state \in {"unconfigured", "inactive", "active"} /\ pc = "idle"
  /\ Begin("shutdown", "stop", Joint, 0)
  /\ UNCHANGED <<open, axisVars, jointVars, settings>>

Stopped ==
  CASE op = "deactivate" -> Return("inactive")
    [] op = "error"      -> Return("unconfigured")
    [] op = "shutdown"   -> Goto("close", {}, 0)

\* StartVel 0 or Stop.  lastCmd is not told.
Stop(j) ==
  /\ pc = "stop" /\ j \in todo
  /\ \/ axis[j] \in Powered /\ Command(j, Slowed(j))
     \/ UNCHANGED <<axis, excused>>
  /\ Done(j, IF autoServoOn THEN Goto("wait", {}, 0) ELSE Stopped)
  /\ UNCHANGED <<open, moved, powered, jointVars, settings>>

AtRestMutant == TRUE
AtRest == \A j \in Joint : axis[j] \notin Moving

Wait ==
  /\ pc = "wait"
  /\ \/ /\ Works /\ AtRest
        /\ Goto("servoOff", Joint, 0) /\ UNCHANGED powered
     \/ powered' = {} /\ Stopped
  /\ moved' = {}
  /\ UNCHANGED <<open, axis, excused, jointVars, settings>>

\* Each result of SetServoOn is ignored.
ServoOff(j) ==
  /\ pc = "servoOff" /\ j \in todo
  /\ Command(j, "off") \/ UNCHANGED <<axis, excused>>
  /\ powered' = powered \ {j} /\ moved' = moved \ {j}
  /\ Done(j, Stopped)
  /\ UNCHANGED <<open, jointVars, settings>>

Cleanup ==
  /\ state = "inactive" /\ pc = "idle"
  /\ Begin("cleanup", "close", {}, 0)
  /\ UNCHANGED <<open, axisVars, jointVars, settings>>

\* The component is destroyed, or shut down for good: nothing reads it again.
End ==
  /\ CloseDevice
  /\ Return("finalized")
  /\ Reseed /\ Blind /\ excused' = {}

Close ==
  /\ pc = "close"
  /\ \/ /\ op = "cleanup"
        /\ CloseDevice /\ Return("unconfigured")
        /\ UNCHANGED <<excused, jointVars>>
     \/ op = "shutdown" /\ End
  /\ UNCHANGED <<axis, moved, powered, settings>>

\* The process ends: the destructor closes the device and stops nothing.
Destroy ==
  /\ state # "finalized" /\ pc = "idle"
  /\ End /\ powered' = {}
  /\ UNCHANGED <<axis, moved, settings>>

-----------------------------------------------------------------------------
(***************************************************************************)
(* read() and write(), while the component is inactive or active.          *)
(***************************************************************************)
Cycle(t) == state \in {"inactive", "active"} /\ pc = "idle" /\ turn = t

ReadReturns(ok) ==
  IF ok THEN turn' = "write" /\ UNCHANGED <<state, op, pc, todo, attempt>> ELSE OnError

Read ==
  /\ Cycle("read")
  /\ \/ Observe /\ communicating' = communication
     \/ Blind /\ UNCHANGED excused
  /\ ReadReturns(communicating')
  /\ UNCHANGED <<open, axis, moved, powered, commandVars, lastCmd, settings>>

Write ==
  /\ Cycle("write")
  /\ IF communicating /\ VelocityJoint # {}
     THEN Begin("write", "write", VelocityJoint, 0)
     ELSE Return(state)
  /\ UNCHANGED <<open, axisVars, jointVars, settings>>

Due(j) == feedback[j] = "ready" /\ cmd[j] # NaN /\ cmd[j] # lastCmd[j]

\* The next write() sends the command again.
ForgetMutant(j) == UNCHANGED lastCmd
ForgetTakenForSentMutant(j) == lastCmd' = [lastCmd EXCEPT ![j] = cmd[j]]
Forget(j) == lastCmd' = [lastCmd EXCEPT ![j] = NaN]

SendAccepted(j) ==
  /\ pc = "write" /\ j \in todo /\ Due(j)
  /\ axis[j] \in Powered
  /\ Command(j, IF cmd[j] = Still THEN Slowed(j) ELSE cmd[j])
  /\ lastCmd' = [lastCmd EXCEPT ![j] = cmd[j]]
  /\ Done(j, Return(state))
  /\ UNCHANGED <<open, moved, powered, commandVars, feedback, communicating, settings>>

SendRefused(j) ==
  /\ pc = "write" /\ j \in todo /\ Due(j)
  /\ Forget(j)
  /\ Done(j, Return(state))
  /\ UNCHANGED <<open, axisVars, commandVars, feedback, communicating, settings>>

\* Nothing is sent; an axis without power forgets what was sent to it.
Skip(j) ==
  /\ pc = "write" /\ j \in todo /\ ~Due(j)
  /\ IF feedback[j] = "lost" THEN Forget(j) ELSE UNCHANGED lastCmd
  /\ Done(j, Return(state))
  /\ UNCHANGED <<open, axisVars, commandVars, feedback, communicating, settings>>

-----------------------------------------------------------------------------
Step ==
  \/ Create \/ Import \/ Seed \/ Await \/ Wait \/ Close
  \/ \E j \in Joint : ServoOn(j) \/ Stop(j) \/ ServoOff(j)
  \/ \E j \in VelocityJoint : SendAccepted(j) \/ SendRefused(j) \/ Skip(j)

Request == Configure \/ Activate \/ Deactivate \/ Cleanup \/ Shutdown \/ Destroy

Environment ==
  \/ EngineChanges
  \/ \E j \in Joint : Disturb(j) \/ ComesToRest(j)
  \/ \E j \in VelocityJoint, v \in Velocities \cup {NaN} : WriteCommand(j, v)

Next == Step \/ Request \/ Read \/ Write \/ Environment

Spec == Init /\ [][Next]_vars

\* The functions return, the real-time loop goes on, an axis that slows down
\* comes to rest, and a StartVel that is sent again and again to an axis with
\* power is accepted in the end.
Fairness ==
  /\ WF_vars(Step) /\ WF_vars(Read) /\ WF_vars(Write)
  /\ \A j \in Joint : WF_vars(ComesToRest(j))
  /\ \A j \in VelocityJoint : SF_vars(SendAccepted(j))

FairSpec == Spec /\ Fairness

-----------------------------------------------------------------------------
(***************************************************************************)
(* Properties.                                                             *)
(***************************************************************************)

\* stopAllAxes never cuts the torque of a moving axis, unless somebody else
\* set it moving after waitForMotionComplete had seen it at rest.
TorqueCutAtRest ==
  [][\A j \in Joint :
       pc = "servoOff" /\ j \in todo \ todo' /\ axis[j] \in Moving /\ axis'[j] = "off"
         => j \in moved]_vars

\* Power the component switched on is switched off again however it stops
\* being active: by on_deactivate, on_shutdown, an error of read(), or an
\* on_activate that fails half way.  The exceptions are the axes a call of
\* stopAllAxes failed for.
PowerIsReturned ==
  pc = "idle" /\ state \in {"unconfigured", "inactive", "finalized"} => powered = {}

Obeys(j, v) == IF v = Still THEN axis[j] \in {Still, "stopping"} ELSE axis[j] = v

\* What an active component takes for sent, and will not send again, is what
\* the axis does, unless somebody else changed the axis since, or the loss of
\* its power has just been read, or on_activate could not seed the joints.
CommandCacheTrue ==
  state = "active" /\ pc \in {"idle", "write"} =>
    \A j \in VelocityJoint :
      lastCmd[j] # NaN => Obeys(j, lastCmd[j]) \/ j \in excused \/ feedback[j] = "lost"

\* write() trusts communicating_ to tell that feedback_ has its joints: an
\* empty feedback_ would silently drop every command.
WriteSeesFeedback ==
  state \in {"inactive", "active"} /\ pc \in {"idle", "write"} /\ communicating
    => \A j \in VelocityJoint : feedback[j] # "unknown"

\* An active component sets an axis moving only for a velocity that a controller has
\* asked for since on_activate: what was commanded before a deactivation or an error
\* is not sent again, also where it was never accepted or the axis had lost its power.
\* The exception is an on_activate whose seedJointStates failed, which returns SUCCESS
\* with the commands from before (seedJointStates, write).
CommandsAreFresh ==
  [][\A j \in VelocityJoint :
       state = "active" /\ seeded /\ lastCmd'[j] \in Speed /\ lastCmd'[j] # lastCmd[j]
         => j \in given]_vars

\* The phases in the order a callback goes through them.
PhasesLeft(phase) ==
  CASE phase = "create" -> 10   [] phase = "import" -> 9
    [] phase = "await" -> 8     [] phase = "servoOn" -> 7
    [] phase = "seed" -> 6      [] phase = "stop" -> 5
    [] phase = "wait" -> 4      [] phase = "servoOff" -> 3
    [] phase = "close" -> 2     [] phase = "write" -> 1
    [] phase = "idle" -> 0

\* A function the controller manager calls returns: each of its steps takes it to a
\* later phase, also the step that fails, or to the next attempt (of at most
\* MaxRetries), or past one more of the joints; on_error follows any callback at
\* most once (createDevice, waitForCommunicating, stopAllAxes).
CallsReturn ==
  [][pc # "idle" =>
       IF Step
       THEN \/ PhasesLeft(pc') < PhasesLeft(pc)
            \/ pc' = pc /\ (attempt' > attempt \/ (todo' \subseteq todo /\ todo' # todo))
       ELSE UNCHANGED callVars]_vars

\* The component is active and connected, and the command and the power of j stay.
Commanded(j, v) ==
  state = "active" /\ communication /\ cmd[j] = v /\ axis[j] \in Powered

\* A command that write() does not take for sent is sent and obeyed, if it stays, and
\* the axis keeps its power: after refusals, after a loss of power that read() saw,
\* and whatever other clients do to the axis meanwhile.  A command that is equal to
\* lastCmd is not sent again, although another client, a loss of power between two
\* reads, or the stop before an on_activate that could not seed the joints has changed
\* the axis: nothing is said of it (write).
CommandArrives ==
  \A j \in VelocityJoint, v \in Velocities :
    Commanded(j, v) /\ lastCmd[j] # v
      ~> (lastCmd[j] = v /\ Obeys(j, v)) \/ ~Commanded(j, v)

-----------------------------------------------------------------------------
(***************************************************************************)
(* What makes the invariants inductive.                                    *)
(***************************************************************************)

\* Which callback is under way, in which phase, in which state.
CallAgrees ==
  /\ pc = "idle" => op = "none"
  /\ pc \in {"create", "import"} => op = "configure"
  /\ pc \in {"await", "servoOn"} => op = "activate"
  /\ pc = "seed" => op \in {"configure", "activate"}
  /\ pc \in {"stop", "wait", "servoOff"} => op \in {"deactivate", "error", "shutdown"}
  /\ pc = "close" => op \in {"cleanup", "shutdown"}
  /\ pc = "write" => op = "write" /\ communicating /\ state \in {"inactive", "active"}
                      /\ todo \subseteq VelocityJoint
  /\ op = "configure" => state = "unconfigured"
  /\ op \in {"activate", "cleanup"} => state = "inactive"
  /\ op = "deactivate" => state = "active"
  /\ state = "finalized" => pc = "idle"
  /\ pc \in {"servoOn", "wait", "servoOff"} => autoServoOn
  /\ state \in {"inactive", "active"} /\ pc = "idle" /\ turn = "write" => communicating

\* Where the component may hold power: it is active, is activated or deactivated.
PowerAccounted ==
  /\ PowerIsReturned
  /\ pc \in {"create", "import", "await", "close"} \/ op = "configure" => powered = {}
  /\ state = "inactive" /\ pc = "write" => powered = {}
  /\ pc = "servoOff" => powered \subseteq todo
  /\ ~autoServoOn => powered = {}

\* An axis whose loss of power has been read is forgotten before the next read.
CacheAgrees ==
  state = "active" /\ pc \in {"idle", "write"} =>
    \A j \in VelocityJoint :
      lastCmd[j] # NaN =>
        \/ Obeys(j, lastCmd[j]) \/ j \in excused
        \/ feedback[j] = "lost" /\ ((pc = "idle" /\ turn = "write") \/ (pc = "write" /\ j \in todo))

\* feedback_ may be empty and communicating_ true only before a component is
\* inactive, while it is activated, and when that has failed.
FeedbackAgrees ==
  state \in {"inactive", "active"} /\ op \notin {"activate", "error"} /\ communicating
    => \A j \in VelocityJoint : feedback[j] # "unknown"

\* A command an active component was not seeded with is the controller's.
OriginAgrees ==
  state = "active" /\ seeded => \A j \in VelocityJoint : cmd[j] # Still => j \in given

RestAgrees == pc = "servoOff" => \A j \in todo : axis[j] \in Moving => j \in moved

IInv ==
  /\ TypeOK /\ CallAgrees /\ PowerAccounted /\ CacheAgrees /\ FeedbackAgrees
  /\ OriginAgrees /\ RestAgrees

=============================================================================
