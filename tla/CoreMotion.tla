----------------------------- MODULE CoreMotion -----------------------------
(***************************************************************************)
(* wmx_core_motion_node: manual motion over services, refused while a      *)
(* motion controller is active (the gate), and dead-man jogs (the jog      *)
(* watchdog).                                                              *)
(*                                                                         *)
(* All services but start_home, the watchdog and resync timers, the        *)
(* transition_event subscriptions and change_state share the node's        *)
(* default mutually exclusive group: each of those callbacks is one step.  *)
(* get_state answers run in a reentrant group and start_home in a group of *)
(* its own, so they interleave with everything.                            *)
(***************************************************************************)
EXTENDS Naturals, Sequences

CONSTANTS
  Controller,   \* the nodes listed in motion_controllers
  Axis,         \* the axes of the engine
  Unreliable,   \* the axes on which a Stop may fail
  JogTimeout,   \* jog_timeout_ms, in ticks
  MaxQueue,     \* bound: transition events of one controller on their way
  None          \* no jog

Jog == {"forward", "backward"}           \* the velocities of a jog
Manual == Jog \cup {"move"}              \* "move": start_pos, start_mov, start_vel
Motion == Manual \cup {"idle", "other"}   \* "other": homing, a trajectory of a controller

ASSUME AxisAssumption ==
  /\ Unreliable \subseteq Axis
  /\ JogTimeout \in Nat /\ MaxQueue \in Nat
  /\ None \notin [velocity : Jog, left : 0 .. JogTimeout]

VARIABLES
  ctl,               \* each controller: absent, inactive or active
  events,            \* its transition events on their way, TRUE for ACTIVE
  pending,           \* the get_state request of the last resync
  handling,          \* the answers threads took but did not act on yet
  state,             \* the node's lifecycle state
  counted,           \* the axes below numOfAxes_, as on_configure counted them
  controllerActive_, \* the controllers the gate takes for active
  jogState_,         \* the running jogs: velocity, ticks to the deadline
  homing,            \* the axes a start_home callback still has to home
  motion,            \* what each axis of the engine does
  stopFailed,        \* history: axes whose last Stop failed
  leftOut,           \* history: axes left moving by a stopAllAxes that did not count them
  steady,            \* history: controllers active ever since on_activate
  held               \* history: whose answer "inactive" a thread held at on_activate,
                     \* until an answer "active" has come after it

controllerVars == <<ctl, events, pending, handling>>
lifeVars == <<state, counted>>
gateVars == <<controllerActive_, steady, held>>
axisVars == <<motion, stopFailed, leftOut>>
vars == <<controllerVars, lifeVars, gateVars, jogState_, homing, axisVars>>

TypeOK ==
  /\ ctl \in [Controller -> {"absent", "inactive", "active"}]
  /\ events \in [Controller -> Seq(BOOLEAN)]
  /\ pending \in [Controller -> {"none", "asked", "active", "inactive"}]
  /\ handling \in [Controller -> SUBSET {"active", "inactive"}]
  /\ state \in {"unconfigured", "inactive", "active", "finalized"}
  /\ counted \subseteq Axis
  /\ controllerActive_ \subseteq Controller
  /\ jogState_ \in [Axis -> [velocity : Jog, left : 0 .. JogTimeout] \cup {None}]
  /\ homing \subseteq Axis
  /\ motion \in [Axis -> Motion]
  /\ stopFailed \subseteq Axis /\ leftOut \subseteq Axis
  /\ steady \subseteq Controller /\ held \subseteq Controller

Silence == [c \in Controller |-> <<>>]
NoJog == [a \in Axis |-> None]

Init ==
  /\ ctl \in [Controller -> {"absent", "inactive", "active"}]
  /\ events = Silence
  /\ pending = [c \in Controller |-> "none"]
  /\ handling = [c \in Controller |-> {}]
  /\ state = "unconfigured" /\ counted = {}
  /\ controllerActive_ = {} /\ jogState_ = NoJog
  /\ homing = {} /\ motion = [a \in Axis |-> "idle"]
  /\ stopFailed = {} /\ leftOut = {} /\ steady = {} /\ held = {}

-----------------------------------------------------------------------------
(***************************************************************************)
(* The device.  Starting a motion replaces what the axis does; a start     *)
(* that fails changes nothing.  A Stop may fail on an unreliable axis.     *)
(***************************************************************************)
Halt(S, F) ==
  \E failed \in SUBSET (S \cap F) :
    /\ motion' = [a \in Axis |-> IF a \in S \ failed THEN "idle" ELSE motion[a]]
    /\ stopFailed' = (stopFailed \ S) \cup {a \in failed : motion[a] # "idle"}

Stop(S) == Halt(S, Unreliable) /\ leftOut' = leftOut \ S

Start(a, m) ==
  /\ motion' = [motion EXCEPT ![a] = m]
  /\ stopFailed' = stopFailed \ {a} /\ leftOut' = leftOut \ {a}

\* A motion ends: it is complete, the run time of a jog is over, or the drive
\* drops it (servo off, alarm, limit switch).
MotionEnds(a) ==
  /\ motion[a] # "idle"
  /\ Start(a, "idle")
  /\ UNCHANGED <<controllerVars, lifeVars, gateVars, jogState_, homing>>

-----------------------------------------------------------------------------
(***************************************************************************)
(* The controllers.  rclcpp publishes the transition event once the        *)
(* transition is over; it is lost while the subscription is not matched.   *)
(***************************************************************************)
Publish(c, isActive) ==
  \/ UNCHANGED events
  \/ /\ state = "active" /\ Len(events[c]) < MaxQueue
     /\ events' = [events EXCEPT ![c] = Append(@, isActive)]

ControllerAppears(c) ==
  /\ ctl[c] = "absent"
  /\ ctl' = [ctl EXCEPT ![c] = "inactive"]
  /\ Publish(c, FALSE)
  /\ UNCHANGED <<pending, handling, lifeVars, gateVars, jogState_, homing, axisVars>>

ControllerActivates(c) ==
  /\ ctl[c] = "inactive"
  /\ ctl' = [ctl EXCEPT ![c] = "active"]
  /\ Publish(c, TRUE)
  /\ UNCHANGED <<pending, handling, lifeVars, gateVars, jogState_, homing, axisVars>>

\* on_deactivate of every controller stops its axes.
ControllerDeactivates(c) ==
  /\ ctl[c] = "active"
  /\ ctl' = [ctl EXCEPT ![c] = "inactive"]
  /\ Publish(c, FALSE)
  /\ steady' = steady \ {c}
  /\ Stop(Axis)
  /\ UNCHANGED <<pending, handling, lifeVars, controllerActive_, held, jogState_, homing>>

ControllerCrashes(c) ==
  /\ ctl[c] # "absent"
  /\ ctl' = [ctl EXCEPT ![c] = "absent"]
  /\ pending' = [pending EXCEPT ![c] = IF @ = "asked" THEN "none" ELSE @]
  /\ steady' = steady \ {c}
  /\ UNCHANGED <<events, handling, lifeVars, controllerActive_, held, jogState_, homing>>
  /\ UNCHANGED axisVars

ControllerMoves(c, a) ==
  /\ ctl[c] = "active"
  /\ Start(a, "other")
  /\ UNCHANGED <<controllerVars, lifeVars, gateVars, jogState_, homing>>

ControllerAnswers(c) ==
  /\ pending[c] = "asked"
  /\ pending' = [pending EXCEPT ![c] = ctl[c]]
  /\ UNCHANGED <<ctl, events, handling, lifeVars, gateVars, jogState_, homing, axisVars>>

ControllerStep ==
  \E c \in Controller :
    \/ ControllerAppears(c) \/ ControllerActivates(c) \/ ControllerDeactivates(c)
    \/ ControllerCrashes(c) \/ ControllerAnswers(c)
    \/ \E a \in Axis : ControllerMoves(c, a)

-----------------------------------------------------------------------------
(***************************************************************************)
(* The lifecycle of the node.                                              *)
(***************************************************************************)
\* getNumOfAxes adds up the axes of an EngineStatus that GetEngineStatus may have
\* failed to fill: the number may be any, also none, and the node goes on with it.
Configure ==
  /\ state = "unconfigured"
  /\ state' = "inactive"
  /\ counted' \in SUBSET Axis
  /\ UNCHANGED <<controllerVars, gateVars, jogState_, homing, axisVars>>

\* Every watched controller counts as active until it says otherwise.
AssumeActiveMutant == controllerActive_' = {}
AssumeActive == controllerActive_' = Controller

Activate ==
  /\ state = "inactive"
  /\ state' = "active"
  /\ AssumeActive
  /\ steady' = {c \in Controller : ctl[c] = "active"}
  /\ held' = {c \in Controller : "inactive" \in handling[c]}
  /\ UNCHANGED <<controllerVars, counted, jogState_, homing, axisVars>>

\* stopAllAxes(numOfAxes_): all the jogs are forgotten first, then the axes the node
\* has counted are stopped, none if it counted none.  The services start motions on
\* any axis they are given.  Once on_cleanup has closed the device any Stop may fail.
DeviceFails == IF state = "unconfigured" THEN Axis ELSE Unreliable
NotCounted == {a \in Axis \ counted : motion[a] # "idle"}
StopAllAxesMutant ==
  /\ jogState_' = NoJog
  /\ Halt({a \in counted : jogState_[a] # None}, DeviceFails)
  /\ leftOut' = NotCounted
StopAllAxes ==
  /\ jogState_' = NoJog
  /\ Halt(counted, DeviceFails)
  /\ leftOut' = NotCounted

\* Dropping the clients and subscriptions drops what is on its way to them.
StopListening ==
  /\ events' = Silence
  /\ pending' = [c \in Controller |-> "none"]
  /\ controllerActive_' = {} /\ steady' = {} /\ held' = {}

Deactivate ==
  /\ state = "active"
  /\ state' = "inactive"
  /\ StopAllAxes
  /\ StopListening
  /\ UNCHANGED <<ctl, handling, counted, homing>>

Cleanup ==
  /\ state = "inactive"
  /\ state' = "unconfigured"
  /\ StopAllAxes
  /\ UNCHANGED <<controllerVars, gateVars, counted, homing>>

Shutdown ==
  /\ state # "finalized"
  /\ state' = "finalized"
  /\ StopAllAxes
  /\ StopListening
  /\ UNCHANGED <<ctl, handling, counted, homing>>

LifecycleStep == Configure \/ Activate \/ Deactivate \/ Cleanup \/ Shutdown

-----------------------------------------------------------------------------
(***************************************************************************)
(* The gate: transition events and the get_state answers of the resync.    *)
(***************************************************************************)
setControllerActive(c, isActive) ==
  controllerActive_' = IF isActive THEN controllerActive_ \cup {c} ELSE controllerActive_ \ {c}

isMotionBlocked == controllerActive_ # {}

TransitionEvent(c) ==
  /\ events[c] # <<>>
  /\ setControllerActive(c, Head(events[c]))
  /\ events' = [events EXCEPT ![c] = Tail(@)]
  /\ UNCHANGED <<ctl, pending, handling, lifeVars, steady, held, jogState_, homing, axisVars>>

\* The resync asks the controllers whose service is there, and drops (prunes)
\* the request of the sweep before, answered or not.
ResyncMutant ==
  /\ state = "active"
  /\ pending' = [c \in Controller |->
                   IF ctl[c] # "absent" /\ c \in controllerActive_ THEN "asked" ELSE pending[c]]
  /\ UNCHANGED <<ctl, events, handling, lifeVars, gateVars, jogState_, homing, axisVars>>
Resync ==
  /\ state = "active"
  /\ pending' = [c \in Controller |-> IF ctl[c] = "absent" THEN pending[c] ELSE "asked"]
  /\ UNCHANGED <<ctl, events, handling, lifeVars, gateVars, jogState_, homing, axisVars>>

\* Bound: of the threads that hold an answer of c, one for each answer.
TakeAnswer(c) ==
  /\ pending[c] \in {"active", "inactive"} \ handling[c]
  /\ handling' = [handling EXCEPT ![c] = @ \cup {pending[c]}]
  /\ pending' = [pending EXCEPT ![c] = "none"]
  /\ UNCHANGED <<ctl, events, lifeVars, gateVars, jogState_, homing, axisVars>>

HandleAnswer(c, answer) ==
  /\ answer \in handling[c]
  /\ setControllerActive(c, answer = "active")
  /\ handling' = [handling EXCEPT ![c] = @ \ {answer}]
  /\ held' = IF handling[c] = {"active"} THEN held \ {c} ELSE held
  /\ UNCHANGED <<ctl, events, pending, lifeVars, steady, jogState_, homing, axisVars>>

GateStep ==
  \/ Resync
  \/ \E c \in Controller :
       \/ TransitionEvent(c) \/ TakeAnswer(c)
       \/ \E answer \in {"active", "inactive"} : HandleAnswer(c, answer)

-----------------------------------------------------------------------------
(***************************************************************************)
(* The motion services and the watchdog.                                   *)
(***************************************************************************)
StartMotion(a) ==
  /\ state = "active" /\ ~isMotionBlocked
  /\ Start(a, "move")
  /\ UNCHANGED <<controllerVars, lifeVars, gateVars, jogState_, homing>>

\* startJog: the velocity of the running jog only moves its deadline.
RefreshMutant(a, v) == jogState_[a] # None
Refresh(a, v) == jogState_[a] # None /\ jogState_[a].velocity = v

StartJog(a, v) ==
  /\ state = "active" /\ ~isMotionBlocked
  /\ jogState_' = [jogState_ EXCEPT ![a] = [velocity |-> v, left |-> JogTimeout]]
  /\ IF Refresh(a, v) THEN UNCHANGED axisVars ELSE Start(a, v)
  /\ UNCHANGED <<controllerVars, lifeVars, gateVars, homing>>

\* startJog with velocity 0.
ReleaseJog(a) ==
  /\ state = "active" /\ ~isMotionBlocked
  /\ jogState_[a] # None
  /\ jogState_' = [jogState_ EXCEPT ![a] = None]
  /\ Stop({a})
  /\ UNCHANGED <<controllerVars, lifeVars, gateVars, homing>>

StopAxis(a) ==
  /\ state = "active"
  /\ jogState_' = [jogState_ EXCEPT ![a] = None]
  /\ Stop({a})
  /\ UNCHANGED <<controllerVars, lifeVars, gateVars, homing>>

\* startHomeCallback checks the gate once, then homes axis after axis.
StartHome(S) ==
  /\ state = "active" /\ ~isMotionBlocked /\ homing = {}
  /\ homing' = S
  /\ UNCHANGED <<controllerVars, lifeVars, gateVars, jogState_, axisVars>>

HomeAxis(a) ==
  /\ a \in homing
  /\ homing' = homing \ {a}
  /\ \/ state \in {"inactive", "active"} /\ Start(a, "other")
     \/ UNCHANGED axisVars
  /\ UNCHANGED <<controllerVars, lifeVars, gateVars, jogState_>>

\* The clock: a tick brings every running jog closer to its deadline.
CloserMutant(j) == IF j # None THEN [j EXCEPT !.left = @ - 1] ELSE j
Closer(j) == IF j # None /\ j.left > 0 THEN [j EXCEPT !.left = @ - 1] ELSE j
Tick ==
  /\ jogState_' = [a \in Axis |-> Closer(jogState_[a])]
  /\ UNCHANGED <<controllerVars, lifeVars, gateVars, homing, axisVars>>

\* stopExpiredJogs forgets the expired jogs, then stops their axes.
ExpiredMutant == {a \in Axis : jogState_[a] # None /\ jogState_[a].left > 0}
Expired == {a \in Axis : jogState_[a] # None /\ jogState_[a].left = 0}
Watchdog ==
  /\ state = "active" /\ Expired # {}
  /\ jogState_' = [a \in Axis |-> IF a \in Expired THEN None ELSE jogState_[a]]
  /\ Stop(Expired)
  /\ UNCHANGED <<controllerVars, lifeVars, gateVars, homing>>

MotionStep ==
  \/ Tick \/ Watchdog
  \/ \E S \in (SUBSET Axis) \ {{}} : StartHome(S)
  \/ \E a \in Axis :
       \/ MotionEnds(a) \/ StartMotion(a) \/ ReleaseJog(a) \/ StopAxis(a) \/ HomeAxis(a)
       \/ \E v \in Jog : StartJog(a, v)

Next == ControllerStep \/ LifecycleStep \/ GateStep \/ MotionStep

(***************************************************************************)
(* The timers fire for ever, executors run what is ready, and an answer    *)
(* that comes back in every period is taken in one of them.                *)
(***************************************************************************)
Fairness ==
  /\ WF_vars(Watchdog) /\ WF_vars(Tick) /\ WF_vars(Resync)
  /\ \A c \in Controller :
       /\ WF_vars(TransitionEvent(c)) /\ WF_vars(ControllerAnswers(c))
       /\ SF_vars(TakeAnswer(c))
       /\ \A answer \in {"active", "inactive"} : WF_vars(HandleAnswer(c, answer))

Spec == Init /\ [][Next]_vars
FairSpec == Spec /\ Fairness

-----------------------------------------------------------------------------
(***************************************************************************)
(* Safety.                                                                 *)
(***************************************************************************)

\* A controller that was active when the node was activated, and has been ever
\* since, keeps the gate closed: no window at activation, no event and no answer
\* opens it, but for one: an answer "inactive" from before, which a thread had taken
\* when on_deactivate dropped the rest and acts on after on_activate.  The next
\* answer "active" closes the gate again (on_activate, on_deactivate,
\* resyncControllerStates).
SteadyControllerBlocks ==
  state = "active" => steady \ held \subseteq controllerActive_

\* An axis that jogs is known to the watchdog, with the velocity it jogs at,
\* unless a Stop of it failed, or the node went down and had not counted the axis:
\* no jog runs without its deadline (startJog, stopExpiredJogs, clearJog,
\* stopAllAxes).
JogIsWatched ==
  \A a \in Axis \ (stopFailed \cup leftOut) :
    motion[a] \in Jog => jogState_[a] # None /\ jogState_[a].velocity = motion[a]

\* No motion of a motion service outlives the activation it was started in, unless
\* a Stop failed, or stopAllAxes passed over the axis because on_configure had not
\* counted it (on_deactivate, stopAllAxes, getNumOfAxes).
InactiveMeansStill ==
  state # "active" => \A a \in Axis \ (stopFailed \cup leftOut) : motion[a] \notin Manual

\* A manual motion begins only on an active node, and never while a controller is
\* active that was active at on_activate already, unless the answer a thread held
\* then has opened the gate to it (gateMotion; "start_* is refused while a motion
\* controller is active").
ManualStartsAtOpenGate ==
  [][\A a \in Axis :
       motion'[a] \in Manual /\ motion'[a] # motion[a] =>
         state = "active" /\ steady \subseteq held]_vars

(***************************************************************************)
(* The node is one the lifecycle manager can rely on.                      *)
(***************************************************************************)
Managed == INSTANCE ManagedNode WITH
  life <- state,
  acting <- \E a \in Axis \ (stopFailed \cup leftOut) : motion[a] \in Manual

\* The core motion node goes up and down as the manager's model of a node does,
\* and what its services started does not survive the way down, unless a Stop
\* failed or stopAllAxes had not counted the axis (on_deactivate, on_cleanup,
\* on_shutdown).
ImplementsNode == Managed!Spec

(***************************************************************************)
(* Liveness.                                                               *)
(***************************************************************************)
StartsJog(a) == \E v \in Jog : StartJog(a, v)

\* The dead-man: once its refreshes cease, a jog stops, or its Stop failed, or
\* the node went down without stopping the axis it had not counted
\* (stopExpiredJogs, stopAllAxes).
JogStops ==
  \A a \in Axis :
    \/ []<><<StartsJog(a)>>_vars
    \/ motion[a] \in Jog ~> (motion[a] \notin Jog \/ a \in stopFailed \cup leftOut)

\* If a controller stays active, or stays inactive on the graph, the gate ends
\* up taking it for what it is, although events get lost and answers overtake
\* events (transitionEventCallback, resyncControllerStates).
GateAgrees ==
  \A c \in Controller :
    /\ <>[](state = "active" /\ ctl[c] = "active") => <>[](c \in controllerActive_)
    /\ <>[](state = "active" /\ ctl[c] = "inactive") => <>[](c \notin controllerActive_)

=============================================================================
