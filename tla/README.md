# WMX R2: formal models of the ROS 2 nodes

WMX R2 is a set of ROS 2 nodes around the WMX motion engine. This directory holds TLA+
modules that model their control logic, TLC configurations that model-check them on small
instances, and proofs, checked by TLAPS, that the main results hold for every instance.

Paths below are relative to `src/`; `nodes/` stands for `wmx_r2_package/src/`.

## 1. Inventory

### Components

| component | source | state it keeps | operations | what makes it correct |
|---|---|---|---|---|
| engine node | `nodes/wmx_engine_node.cpp` | the device (open, communicating, parameters), `deviceMutex_` (recursive), the startup thread | set_engine, set_communication, import_and_set_all, get_axis_param, get_engine_status; start with retries; destructor | parameters are imported before the communication starts; a stop is not overtaken by a start; every call is answered; the process ends |
| lifecycle manager | `nodes/wmx_lifecycle_manager_node.cpp` | `handledNodes_`, `engineMissCount_`, `nodesAreUp_` | the discovery timer (sweep up, sweep down), set_node_state, get_node_states | the nodes follow the engine; no node keeps a dead device handle; nodes taken down by hand stay down; order up, reverse order down |
| core motion node | `nodes/wmx_core_motion_node.cpp` | the gate (`controllerActive_`), running jogs (`jogState_`), the number of axes (`numOfAxes_`), subscriptions and pending requests | motion services, jog and jog watchdog, homing, transition events, resync, axis setters | no manual motion under an active controller; no jog without a watched deadline; nothing left moving by an inactive node |
| joint trajectory controller | `nodes/joint_trajectory_controller.cpp` | `isNodeActive_`, `goalRunning_`, a thread per goal, the latched topic `execution_active` | action server, lifecycle | the latch covers every running goal and is released; a deactivation stops the goal and waits for it |
| joint position controller | `nodes/joint_position_controller.cpp` | `inExecution_` | streamed trajectory points, the latch | streams nothing while a goal runs, streams again afterwards |
| differential drive controller | `nodes/differential_drive_controller.cpp` | `driveEnabled_`, the resend cache, the last command, the odometry baseline | command subscription, control step, feedback step, lifecycle | inactive means stopped; a stop is never swallowed by the cache; a silent publisher stops the wheels; the pose spans no outage |
| joint state broadcaster | `nodes/joint_state_broadcaster.cpp` | its device, the request it waits for and the attempts made | servos on at activation, through services with retries; servos off at deactivation, shutdown and exit; joint states | active means the arm is under power; the power it took comes back, and no request sent again takes it a second time |
| gripper controller | `nodes/gripper_controller.cpp` | the initial outputs | set_gripper | outputs as configured |
| IO node, EtherCAT node | `nodes/wmx_io_node.cpp`, `nodes/wmx_ethercat_node.cpp` | the device handle | bit, byte and register services | ranges |
| system hardware | `wmx_r2_control/src/wmx_system_hardware.cpp` | the device, `feedback_`, `communicating_`, `cmd` and `lastCmd` of each joint | the ros2_control lifecycle, `read`, `write`, the error path | power comes back on every path; torque is cut at rest only; no command from before an activation is sent; a command that is not sent again is what the axis does |
| messages, launch, docker, parameter files | `wmx_r2_message`, `*/launch`, `docker`, `*/config` | – | – | – |

### How they interact

* Every node but the engine node is a managed (lifecycle) node. `on_configure` opens a
  handle to the engine's device, and fails without one; `on_cleanup` closes it. When the
  engine closes its device all these handles are dead.
* The manager polls `get_engine_status` and calls `get_state` and `change_state` of every
  lifecycle node on the graph, one call at a time, each with a timeout.
* The core motion node watches the lifecycle of the listed motion controllers: transition
  events, which may be lost, and a `get_state` answer per resync period.
* The trajectory controller tells the position controller through a latched topic that a
  goal is running. Both, and the core motion node, command the same axes, which only these
  conventions keep apart.
* The differential drive has its own axes; only `wmx/axes/stop` reaches them from elsewhere.
* The joint state broadcaster asks the core motion node for power (`clear_amp_alarm`,
  `set_servo_on`) and takes it back itself, through its own device.
* The system hardware stands beside all that: a ros2_control plugin with a device of its
  own, driven by the controller manager, one call at a time.

### Where it is hard

Remote calls that time out and are executed later; nodes that crash and respawn between two
calls; an engine that restarts between two polls; events that are lost or overtaken by
answers; a thread per goal against lifecycle callbacks; a control step against a
deactivation; partial failures of two wheels or several axes; a mutex held for a whole start
with retries. `PROJECT.json`, "hazards", lists each at its line with the properties that
watch it.

## 2. Modules

| module | models | extends |
|---|---|---|
| `EngineService` | abstract: the engine as its clients see it (no device, device, communicating; answers, busy, gone) | – |
| `EngineNode` | the engine node's threads and its mutex; implements `EngineService` | instance of `EngineService` |
| `Lifecycle` | the transitions of a managed node: where each starts and ends, which may fail | – |
| `ManagedNode` | abstract: a managed node as the manager relies on it | `Lifecycle` |
| `LifecycleManager` | the manager, the managed nodes, the operator | `EngineService`, `Lifecycle` |
| `CoreMotion` | the core motion node, the watched controllers, the axes | instance of `ManagedNode` |
| `TrajectoryControl` | trajectory controller and position controller on the same axes | instance of `ManagedNode` |
| `DifferentialDrive` | the differential drive controller | instance of `ManagedNode` |
| `SystemHardware` | the ros2_control hardware component, its axes and the controller manager's calls | – |
| `JointStateBroadcaster` | the broadcaster, the two services of the core motion node it calls, with their queues, and the axes | instance of `ManagedNode` |
| `<M>Proofs` | the theorems about `<M>` | `<M>`, `TLAPS` |
| `MC<M>` | small values for the constants of `<M>` | `<M>` |

`LifecycleManager` is composed with the engine through `EngineService`: its `EngineStep` is a
step of that module, and `EngineNode` implements that module (`ImplementsService`, theorem
`Implementation`). So what the manager's model lets the engine do includes all the node does.

The nodes it drives are composed with it the same way. `LifecycleManager` and `ManagedNode`
share the transitions of `Lifecycle`, among them that only `configure` and `activate` may
fail: the take-down of the manager relies on it. `CoreMotion`, `TrajectoryControl` (its
trajectory controller), `DifferentialDrive` and `JointStateBroadcaster` each implement
`ManagedNode` (`ImplementsNode`, theorems `Implementation`). The refinement mapping gives the
node's lifecycle state, a callback that others can see under way being a transition state, and
`acting`: something the node started still moves, or has power. What a node sets going it
sets going on its way up or while it is up, and it is over when the way down is. The
exceptions the code makes are in the mapping: an axis or a wheel whose stop failed, an axis that
`stopAllAxes` passed over because the node had not counted it, a
deactivation that gave up waiting for its goal, an activation of the broadcaster that failed
after it asked for power. Of the position controller the model keeps its activation only, so
there is nothing to refine; the system hardware is driven by the controller manager.

### Correspondence with the code

**Atomicity.** A callback is one step when nothing it waits for, and no lock it takes late,
lets another actor in. Where it does, it is cut there:

* *Manager*: one step per remote call (`QueryFor...`, `CallDone`, `CallRefused`,
  `CallUnavailable`, `CallTimedOut`), the query of a node that refused
  (`QueryAfterRefusal`) and those for a service's response (`QueryForAnswer`) included. `job`
  is the callback that runs (its timer and services share one mutually exclusive group), `todo`
  the rest of the loop that moves nodes, `asked` the rest of the one that reports their states;
  get_node_states (`GetNodeStates`) has the second only. A call that timed out stays in the
  node's queue (`late`) and may be executed at any time later.
* *Core motion*: one step per callback of the default group. `get_state` answers are taken
  and handled in two steps, since they run in a reentrant group, on several threads at once
  (`handling`); `start_home` homes one axis per step, since it has a group of its own.
  `on_configure` counts any set of axes (`counted`): `getNumOfAxes` does not look at whether
  `GetEngineStatus` succeeded, and the node goes on with the number it got.
* *Trajectory control*: `on_activate` and `on_deactivate` are cut at each access to what the
  goal threads see (the flags, the axes, the publisher); `executeGoal` likewise.
  `jointTrajectoryCallback` is cut between its check of `inExecution_` and its command.
* *Differential drive*: a control step reads the status, then the command, then takes
  `driveMutex_`: three steps, with the lifecycle callbacks between them. What runs under the
  mutex is one step.
* *Engine node*: a call takes the mutex, does one library call per step, releases the mutex.
* *System hardware*: one library call per step, each of which may fail; a loop over the
  joints takes them in any order. `read` and `write` alternate while the component is
  inactive or active, as the controller manager calls them, and a callback or a `read` that
  returns ERROR is followed by `on_error`. Between two steps an axis comes to rest, loses its
  power or is used by another client. An alarm is an axis without power.
* *Joint state broadcaster*: `callSetAxesService` is cut where it waits, for the service and
  for the answer; the core motion node handles a request axis by axis, one request of either
  service at a time. `remove_pending_request` forgets the answer, not the request: it stays
  in the queue of the service. All requests of one service are alike and the oldest is
  handled first, so a queue is their number, and the awaited one is the youngest.

**Data.** Nodes, axes, goals and controllers are model values; the time of the jog deadline
and of the command's age are ticks; a trajectory is the goal it belongs to; the motions that
`start_pos`, `start_mov` and `start_vel` start are one (`"move"`); the velocities of
the wheels are integers, so that equality of targets means what it does in the cache.
Messages, names, logging, pose and spline arithmetic are left out.

**Environment.** Library calls fail or not; drives raise alarms; processes end and come back;
topics lose events; the operator calls any service and any lifecycle transition. What a
library does is modelled from how the code uses it, and marked external in the map.

**Histories.** A few variables exist only to state properties (`disturbed`, `parked`,
`steady`, `held`, `leftOut`, `stopFailed`, `fresh`, `crossed`, `gap`, `closeFailed`, `excused`,
`powered`, `given`, `seeded`, `abandoned`, ...): they record what happened and guard nothing.
Most are the exceptions the code makes, named: a property that holds "unless a Stop failed" says
so through `stopFailed`.

## 3. Runs

| run | checks | result |
|---|---|---|
| `manager` | TakenDownClean, HandledMeansUp, ParkedStaysDown, DownInReverseOrder | hold |
| `manager_live` | UpFollowsEngine, DownFollowsEngine | hold |
| `manager_restart` | DeadHandlesAreDropped (README.md:111-113) | violated |
| `core_motion` | SteadyControllerBlocks, JogIsWatched, InactiveMeansStill, JogStops, GateAgrees | hold |
| `trajectory` | LatchCoversGoal, DeactivationWaits, DeactivationStopsSpline, LatchReleases | hold |
| `trajectory_exit` | ExitReleasesLatch (doc/reference_manipulator.md:274) | violated |
| `drive` | DisabledMeansStill, CacheIsTrue, OdometrySkipsGaps, StaleStops | hold |
| `drive_fault` | FaultGateZeroes (doc/reference_differential.md:120, :240) | violated |
| `engine` | ParamsBeforeCommunication, StopEndsStopped, ImplementsService, ServicesAnswer, ExitCompletes | hold |
| `hardware` | PowerIsReturned, CommandCacheTrue, WriteSeesFeedback, CommandsAreFresh, TorqueCutAtRest | hold |
| `hardware_live` | CommandArrives | hold |
| `broadcaster` | ActiveMeansPowered, PowerIsReturned, ImplementsNode | hold |

Every passing run but `manager_live` and `hardware_live` checks the type invariant of its
module as well.
The violated properties state what the documentation says; `PROJECT.json`, "findings", has
the sentence, the line and the reason for each.

### Bounds

* *Manager*: two nodes, since order is between two and an interleaving is between the node at
  hand and another one; one device-level and one not. Two disturbances per behaviour (one in
  the liveness run): enough for a timed-out call and a crash, a request and a late answer. Two
  devices, the least with a dead handle. One late request per node.
* *Core motion*: one controller and one axis: no action relates two axes, and the gate only
  asks whether any controller is left. The axis is counted or not, which is all an axis has of
  `numOfAxes_`. Two transition events on their way, so that they can be
  old; of the threads that hold an answer of a controller one per kind of answer, the least
  that hold both; a jog deadline one tick ahead, which leaves a running and an expired jog apart.
* *Trajectory control*: two goals, the least that cross; crashes at any time.
* *Differential drive*: two commands, one of which keeps one wheel still; a timeout of one
  tick; a stamp at most one tick ahead; one transient failure, besides those faults cause.
* *Engine node*: two attempts per start, three devices: one that is refused, one that is
  stopped, one that is started again.
* *System hardware*: one wheel and one joint without a command interface, since the two are
  stopped and sent to differently and a loop is left in the middle with one done and one
  to do; two attempts; one speed besides zero, and two speeds with one wheel in the liveness
  run, so that a command can replace another one that moves.
* *Joint state broadcaster*: two joints, the least for a request that half failed; two
  attempts, the least with a request sent again; queues of two, the least where an old request
  stands before the awaited one. A full queue drops its oldest request (`KEEP_LAST`).

Deadlock is checked in every run; no model stops.

### Fairness

* *Manager*: the discovery timer fires for ever and its callback goes on, since all its
  calls time out; a node's executor gets to the request in its queue. No fairness for the
  engine, the operator, or the processes of the nodes.
* *Core motion*: the timers and the executor. Strong fairness only for taking an answer: the
  resync drops an unhandled answer each period, and one that is answered in each period is
  taken in one of them.
* *Trajectory control*: callbacks that have begun go on, goal threads run; a goal leaves its
  polling loop when it is told to or when the axes are in place, not otherwise.
* *Differential drive*: the control timer, callbacks that have begun, the clock. No command
  has to arrive, no fault to be repaired.
* *Engine node*: a thread that can go on does and each library call returns (they carry a
  timeout); nobody has to call a service or end the process.
* *System hardware*: the controller manager goes on calling `read` and `write`, a call that
  has begun goes on, an axis that slows down comes to rest. Strong fairness for a `StartVel`
  that is accepted: one that is sent again and again to an axis under power is not refused
  for ever.

## 4. Proofs

Each `<M>Proofs` module proves its inductive invariant (`THEOREM Invariance`, or `Inductive`,
for any constants that satisfy the module's assumptions) and derives the safety properties of the
run from it.

* `LifecycleManagerProofs`: `IInv` adds to the types which places, calls and requests each job
  of the callback thread allows (`ThreadInv`) and, in `RestInv`, what the thread has done so
  far: lost calls and operator requests leave their mark in `disturbed` (`DisturbedInv`);
  outside a take-down an undisturbed handled node is active (`HandledInv`); a take-down
  leaves behind it only nodes that are down (`DownInv`); a parked node has no upward
  call under way (`ParkedInv`), so that what was late before is all that can bring it up; and a
  take-down walks down the ranks of the bring-up order (`OrderInv`). The invariants of the run
  say nothing in the middle of a sweep, so they are not inductive alone.
* `CoreMotionProofs`: `SteadyInv` says that no event or answer on its way could take a steady
  controller off the gate, but for the answer a thread held across `on_activate` (`held`);
  `JogInv` relates `jogState_` and the axes in every lifecycle state.
* `TrajectoryControlProofs`: `ActiveFlag`, `NothingYet`, `Marked`, `LatchFollows`, `Waited`
  say what the flags and the topic owe to the goals at each place of the two threads.
* `DifferentialDriveProofs`: `LockAgrees` ties the flag under the lock to the lifecycle, and
  `StoppedWheels` to the wheels.
* `EngineNodeProofs`: `Control` (one thread past its lock, the one the mutex names), and
  `Prepared` and `Stopping`: what the thread in the middle of a start or a stop knows of the
  device. `Implementation` shows that every step is a step of `EngineService` or none.
* `SystemHardwareProofs`: `CallAgrees` says which callback may be in which phase and state;
  `PowerAccounted` where in them power may still be held; `CacheAgrees` that a loss of power
  which was read is forgotten before the next read; `FeedbackAgrees` when `feedback_` may be
  empty although `communicating_` is true; `OriginAgrees` that a command which is not the
  seeded zero is a controller's; `RestAgrees` what `servoOff` knows of the axes it
  has still to switch off. `FreshCommands` and `TorqueSafe` are the action properties, from the
  last two.
* `JointStateBroadcasterProofs`: `CallAgrees` again; `AnswerAgrees` says that the request
  that is waited for is the youngest and answered once; `PoweredAgrees` what a request that
  has gone well so far has done; `PowerAccounted` where power may be held and where a request
  for it may be on its way.

### Refinement

`Implementation` in `CoreMotionProofs`, `TrajectoryControlProofs`, `DifferentialDriveProofs` and
`JointStateBroadcasterProofs` proves `Spec => ImplementsNode`. Each goes in two halves. A lemma
(`LifeMoves`, `StateMoves`) takes every action of the node to a transition of `Lifecycle` or to
none, with one case per callback. The inductive invariant gives the rest: `acting` holds only
in a working state (in the broadcaster, `PowerAccounted`), and turns true only in a starting
one (`PowerTaken`, `ManualStart`).

### Steps that have to end

A liveness property needs fairness, and that is out of the prover's reach. What it rests on
besides is an action property, and is proved for every value of the constants: a callback that
is under way gets nearer to its end with each step it takes, whatever fails, and no other actor
moves it. Together with the fairness of the calls it follows that the callback ends.

* `LifecycleManagerProofs!CallbacksEnd`: `Remaining`, six steps per node left to move, one per
  node left to report and those left at the node at hand, falls with every step of a callback. It
  makes at most five remote calls for a node it moves, the query after a refusal being the
  fifth, and one more for a node its response reports, although nodes crash, respawn and answer
  late meanwhile.
* `EngineNodeProofs!MutexReleased`: a thread inside `deviceMutex_` is at most
  `3 * MaxRetries + 3` steps from its release, and nobody moves it or its loop counter
  (`HolderAlone`). `ServicesAnswer` and `ExitCompletes` rest on it.
* `SystemHardwareProofs!FunctionsReturn`: a step of a callback leads to a later phase, to the
  next of at most `MaxRetries` attempts, or past one more joint, also where it fails and
  `on_error` follows.
* `JointStateBroadcasterProofs!CallbacksEnd`: an activation makes at most `MaxRetries` requests
  to each service; the way down makes one command per joint.

The ranks are plain operators of the place, the call and the counter, so that each place has a
lemma (`LeftFacts`, `PhaseFacts`), which the prover cites for the state before and after a step.
That the manager's rank is a number uses the cardinality theorems of the library.

### Safety under the liveness properties

* `TrajectoryControlProofs!LatchIsReleased` is what `LatchReleases` promises without the word
  "eventually": with both controllers active and no goal announced, the position controller is
  free or the message that frees it is on its way. It needs that the topic keeps the last
  message only and that every announcement is followed by one (`LatchTracks`).
* `CoreMotionProofs!GateHolds`: a manual motion begins only on an active node, and never while a
  controller is active that was active at `on_activate` already, unless the answer that a thread
  held across `on_activate` has opened the gate to it. It is the gate of the motion services,
  stated about the motion instead of the flag.

### Around the findings

For each violated property a theorem says how much of it the code keeps: which step, and no
other, leads out of it. The counterexample shows that the step happens.

* `LifecycleManagerProofs!OldHandlesByRestart` (`manager_restart`): a node comes to hold a past
  device's handle only when the engine makes another device while the node is up, which the
  manager had not taken down or others had moved. A sweep, a request or a late answer never
  hands one out, and a take-down leaves none on an undisturbed node. It needs `HandlesAgree`
  (`HandlesAreOpen`), and `DownInv` for what is up between two restarts.
* `TrajectoryControlProofs!LatchIsAbandonedLate` (`trajectory_exit`): the position controller is
  left latched only if `on_deactivate` drops the publisher while a goal is between its TRUE and
  its FALSE, and that goal began after the flag was raised, overlapped another or outlasted the
  wait; or a process crashed, or the position controller had the latch from before. It needs
  that while the callback runs the topic still tracks what it owes (`LatchTracks`) and that it
  has waited for every other goal (`Waited`).
* `DifferentialDriveProofs!GateMissesRefusedOnly` (`drive_fault`): a wheel comes to turn with no
  valid cache and no refused stop only by a command to move that a wheel refused. It needs
  `StoppedWheels`: an activation finds no wheel turning but one whose stop was refused.

With any of these steps left out of the property, TLC finds the action property violated on the
instance of the run.

### What is not proved

Only model-checked: the liveness properties (temporal reasoning under fairness is out of the
prover's reach) and the violated properties. The runs check no safety or action property that
has no theorem. The properties of this section that no run lists (`ImplementsNode` of three
nodes, the steps that have to end, `LatchIsLetGo`, `ManualStartsAtOpenGate`,
and those around the findings) hold on the instances of the runs as well.

## 5. Not modelled

* The gripper controller, the EtherCAT services and the IO services: each request is one
  library call and its result, with no state kept between requests and no other actor in
  between. `resetStatistics` makes three calls and returns at the first that fails, which
  the response tells and nothing else observes.
* Of the core motion node, the axis setters that keep no state in the node (command mode,
  polarity, gear) and the status topic; `set_servo_on` and `clear_amp_alarm` are in
  `JointStateBroadcaster`.
* What the joint state broadcaster and the trajectory controller publish as feedback.
* An engine process that is killed without its destructor: the device belongs to the WMX
  service then, which is not part of this repository.
* Real time: deadlines are ticks, and no property bounds a number of periods.
* Messages, launch files, containers, parameter files.

### Differences between documentation and code that no run covers

* `README.md:109-111` has the manager bring a respawned node up in the next sweep. A node
  that respawns between two sweeps is still in `handledNodes_`
  (`nodes/wmx_lifecycle_manager_node.cpp:390-392`) and is not asked again.
* `README.md:65-73` moves an axis right after the launch. Controllers that are listed but
  never launched count as active and keep the gate closed
  (`nodes/wmx_core_motion_node.cpp:602-604`, `:694`).
* `doc/reference_differential.md:94` and `:118` measure the age of a command from its arrival
  and call the stamp unread; the code takes the stamp when there is one
  (`nodes/differential_drive_controller.cpp:289-292`, `:337`).
* `doc/reference_general_nodes.md:26` lets the nodes follow set_engine(false) within one
  discovery period, the code within three sweeps.
* `doc/reference_manipulator.md:241` says a jog cannot fight a controller; the watchdog stops
  its axis by number, also under a controller that took it over.
* `doc/reference_differential.md:253` puts the feedback timer in the default group, the code
  in the control group.
* `doc/reference_manipulator.md:214-220` has the broadcaster try again while the core motion
  node is not active. The code tries again when the service is missing or late, and gives up
  at once on an answer with `success` false.
* The same passage calls `on_activate` the only place that touches servo power. Its own
  `on_deactivate`, the operator's `set_servo_on` and the system hardware do as well.

### Behaviour worth knowing, which the models show and no document denies

* A node taken down by hand comes up again if it still had to execute an `activate` the manager
  had given up on before (`ParkedStaysDown`).
* An answer "inactive" that a thread took before `on_deactivate` and handles after the next
  `on_activate` opens the gate under a controller that has been active all the time, until the
  next answer (`held` in `SteadyControllerBlocks`).
* A core motion node that could not read the engine's status counts no axes, and stops none when
  it goes down (`leftOut` in `InactiveMeansStill`).
* An activation of the broadcaster that fails after it asked for power leaves servos on, and
  may leave requests in the queue that switch them on later (`abandoned` in
  `PowerIsReturned`).
* A component of ros2_control that failed to import its parameters keeps its device, and the
  next `on_configure` calls CreateDevice with the old one open; only `on_shutdown`, `on_cleanup`
  and the destructor close it. No property is about that.
* `write` runs while the component is inactive. An axis that somebody else powers after
  `on_deactivate` is sent the last `cmd`, if `lastCmd` was forgotten when it lost its power:
  `CommandsAreFresh` speaks of active components only.
* An `on_activate` whose GetStatus fails in the seed returns SUCCESS with the commands from before
  (`seeded` in `CommandsAreFresh`).
* A wheel that is stopped through the library (`on_deactivate`, another client) leaves `lastCmd`
  as it was. A command equal to it is not sent again: only a seed that succeeds, a refused
  send or a loss of power that `read` sees forgets it. `CommandArrives` is about the commands
  unequal to `lastCmd`, and says nothing of this one.

## 6. Plan

Done, in this order: `LifecycleManager` (the centre of the system), `CoreMotion`,
`TrajectoryControl`, `DifferentialDrive`, `EngineService` and `EngineNode`,
`SystemHardware`, `JointStateBroadcaster`, each with its proofs; `Lifecycle` and `ManagedNode`
with the refinement proofs of the four nodes; the steps that have to end of four modules;
what the code keeps around each finding.

Next:

1. Composition of the core motion gate with the trajectory controller on the same axes,
   where the check of the gate and the homing loop meet a controller that takes over.
2. More proofs: the bounds of the jog deadline, and what the composition promises.
