----------------------- MODULE JointStateBroadcaster ------------------------
(***************************************************************************)
(* joint_state_broadcaster and the power of the arm: on_activate asks the  *)
(* core motion node to clear the alarms and to switch the servos on, and   *)
(* sends a request again when its answer is late; on_deactivate switches   *)
(* the servos off through a device of its own.                             *)
(*                                                                         *)
(* A service keeps its requests in the order they came, the last Depth of  *)
(* them.  All requests of one service are alike, so their number stands    *)
(* for them; the one an activation waits for is the youngest.  The core    *)
(* motion node handles one request of either service at a time, axis by    *)
(* axis.  The feedback the node publishes while it is active is left out:  *)
(* the timer only reads, in the group of the lifecycle callbacks.          *)
(***************************************************************************)
EXTENDS Naturals

CONSTANTS
  Joint,       \* jointAxes_
  MaxRetries,  \* kServiceMaxRetries
  Depth        \* requests a service keeps: the depth of servicesQos

ASSUME BroadcasterAssumption ==
  /\ Joint # {} /\ MaxRetries \in Nat \ {0} /\ Depth \in Nat \ {0}

Service == {"clear_amp_alarm", "set_servo_on"}

VARIABLES                  \* the broadcaster
  state, open,             \* its lifecycle state; its device is open
  op, pc,                  \* the callback under way and its phase
  service, attempt,        \* the service callSetAxesService calls, the attempt
  answer,                  \* what the future holds
  offLeft                  \* the axes servoOff has still to switch off

VARIABLES                  \* the core motion node
  serving,                 \* its services exist
  pending,                 \* the requests each of them keeps
  handling, awaited,       \* the request under way; somebody waits for it
  left, all_success        \* the loop over its axes

VARIABLES
  axis,                    \* each axis: on or off
  held,       \* history: axes switched on for the broadcaster, and neither
              \* switched off again nor tried in vain through its device
  disturbed,  \* history: axes somebody else switched since
  abandoned   \* history: the last activation failed after it asked for power

callVars == <<state, op, pc, service, attempt, offLeft>>
handlerVars == <<handling, awaited, left, all_success>>
powerVars == <<axis, held, disturbed>>
vars == <<callVars, open, answer, serving, pending, handlerVars, powerVars, abandoned>>

TypeOK ==
  /\ state \in {"unconfigured", "inactive", "active", "finalized", "ended"}
  /\ open \in BOOLEAN
  /\ op \in {"none", "activate", "deactivate", "shutdown", "destroy"}
  /\ pc \in {"idle", "find", "wait", "servoOff", "close"}
  /\ service \in Service
  /\ attempt \in 0 .. MaxRetries
  /\ answer \in {"none", "success", "failure"}
  /\ offLeft \in SUBSET Joint
  /\ serving \in BOOLEAN
  /\ pending \in [Service -> 0 .. Depth]
  /\ handling \in Service \cup {"none"}
  /\ awaited \in BOOLEAN
  /\ left \in SUBSET Joint
  /\ all_success \in BOOLEAN
  /\ axis \in [Joint -> {"on", "off"}]
  /\ held \in SUBSET Joint /\ disturbed \in SUBSET Joint /\ abandoned \in BOOLEAN

NoRequests == [s \in Service |-> 0]

Init ==
  /\ state = "unconfigured" /\ open = FALSE
  /\ op = "none" /\ pc = "idle" /\ service = "clear_amp_alarm" /\ attempt = 0
  /\ answer = "none" /\ offLeft = {}
  /\ serving \in BOOLEAN /\ pending = NoRequests
  /\ handling = "none" /\ awaited = FALSE /\ left = {} /\ all_success = TRUE
  /\ axis = [j \in Joint |-> "off"]
  /\ held = {} /\ disturbed = {} /\ abandoned = FALSE

-----------------------------------------------------------------------------
(***************************************************************************)
(* The core motion node.                                                   *)
(***************************************************************************)
ServicesAppear ==
  /\ ~serving /\ serving' = TRUE
  /\ UNCHANGED <<callVars, open, answer, pending, handlerVars, powerVars, abandoned>>

\* The node is deactivated between two requests, or ends in the middle of one.
ServicesVanish ==
  /\ serving /\ serving' = FALSE
  /\ pending' = NoRequests
  /\ handling' = "none" /\ awaited' = FALSE /\ left' = {} /\ all_success' = TRUE
  /\ UNCHANGED <<callVars, open, answer, powerVars, abandoned>>

\* remove_pending_request: nobody takes the answer to a request that timed out.
IsAwaitedMutant(s) == pc = "wait" /\ service = s
IsAwaited(s) == pc = "wait" /\ service = s /\ pending[s] = 1

Take(s) ==
  /\ handling = "none" /\ pending[s] > 0
  /\ pending' = [pending EXCEPT ![s] = @ - 1]
  /\ handling' = s /\ left' = Joint /\ all_success' = TRUE
  /\ awaited' = IsAwaited(s)
  /\ UNCHANGED <<callVars, open, answer, serving, powerVars, abandoned>>

\* The loop goes on after an axis that failed.
AllSuccessMutant(ok) == ok
AllSuccess(ok) == IF ok THEN all_success ELSE FALSE

Handle(j) ==
  /\ handling # "none" /\ j \in left
  /\ left' = left \ {j}
  /\ \/ /\ all_success' = AllSuccess(TRUE)
        /\ IF handling = "set_servo_on"
           THEN /\ axis' = [axis EXCEPT ![j] = "on"]
                /\ held' = held \cup {j} /\ disturbed' = disturbed \ {j}
           ELSE UNCHANGED powerVars
     \/ all_success' = AllSuccess(FALSE) /\ UNCHANGED powerVars
  /\ UNCHANGED <<callVars, open, answer, serving, pending, handling, awaited, abandoned>>

Respond ==
  /\ handling # "none" /\ left = {}
  /\ handling' = "none" /\ awaited' = FALSE
  /\ answer' = IF awaited THEN IF all_success THEN "success" ELSE "failure" ELSE answer
  /\ UNCHANGED <<callVars, open, serving, pending, left, all_success, powerVars, abandoned>>

\* Another client, or a fault.
Disturb(j) ==
  /\ axis' = [axis EXCEPT ![j] = IF @ = "on" THEN "off" ELSE "on"]
  /\ held' = IF axis[j] = "on" THEN held \ {j} ELSE held
  /\ disturbed' = disturbed \cup {j}
  /\ UNCHANGED <<callVars, open, answer, serving, pending, handlerVars, abandoned>>

-----------------------------------------------------------------------------
(***************************************************************************)
(* on_activate: callSetAxesService for the alarms, then for the servos.    *)
(***************************************************************************)
Call(s, n) ==
  /\ op' = "activate" /\ pc' = "find" /\ service' = s /\ attempt' = n
  /\ UNCHANGED <<state, offLeft>>

Return(s) ==
  /\ state' = s /\ op' = "none" /\ pc' = "idle"
  /\ service' = "clear_amp_alarm" /\ attempt' = 0 /\ offLeft' = {}

Activate ==
  /\ state = "inactive" /\ pc = "idle"
  /\ Call("clear_amp_alarm", 1)
  /\ UNCHANGED <<open, answer, serving, pending, handlerVars, powerVars, abandoned>>

\* FAILURE, with the servos as they are and the requests where they are.
Fail ==
  /\ Return("inactive")
  /\ abandoned' = IF service = "set_servo_on" THEN TRUE ELSE abandoned

RetryMutant ==
  IF attempt <= MaxRetries THEN Call(service, attempt + 1) /\ UNCHANGED abandoned ELSE Fail
Retry ==
  IF attempt < MaxRetries THEN Call(service, attempt + 1) /\ UNCHANGED abandoned ELSE Fail

\* wait_for_service gives up; discovery may also lag behind a service.
NotAvailable ==
  /\ pc = "find"
  /\ Retry
  /\ UNCHANGED <<open, answer, serving, pending, handlerVars, powerVars>>

Send ==
  /\ pc = "find" /\ serving
  /\ pc' = "wait" /\ answer' = "none"
  /\ pending' = [pending EXCEPT ![service] = IF @ < Depth THEN @ + 1 ELSE @]
  /\ UNCHANGED <<state, op, service, attempt, offLeft, open, serving, handlerVars,
                 powerVars, abandoned>>

TimeOut ==
  /\ pc = "wait"
  /\ Retry
  /\ answer' = "none" /\ awaited' = FALSE
  /\ UNCHANGED <<open, serving, pending, handling, left, all_success, powerVars>>

Answered ==
  /\ pc = "wait" /\ answer # "none"
  /\ answer' = "none"
  /\ \/ answer = "failure" /\ Fail
     \/ /\ answer = "success" /\ service = "clear_amp_alarm"
        /\ Call("set_servo_on", 1) /\ UNCHANGED abandoned
     \/ /\ answer = "success" /\ service = "set_servo_on"
        /\ Return("active") /\ abandoned' = FALSE
  /\ UNCHANGED <<open, serving, pending, handlerVars, powerVars>>

-----------------------------------------------------------------------------
(***************************************************************************)
(* The other callbacks, and the destructor.                                *)
(***************************************************************************)
\* A createDevice that could not name the device fails, and may fail to close it.
Configure ==
  /\ state = "unconfigured" /\ pc = "idle"
  /\ \/ open' = TRUE /\ state' = "inactive"
     \/ open' \in BOOLEAN /\ UNCHANGED state
  /\ UNCHANGED <<op, pc, service, attempt, offLeft, answer, serving, pending, handlerVars,
                 powerVars, abandoned>>

GoOnToClose(o) ==
  /\ op' = o /\ pc' = "close" /\ offLeft' = {}
  /\ UNCHANGED <<state, service, attempt>>

SwitchOffMutant(o) ==
  /\ IF o = "deactivate"
     THEN op' = o /\ pc' = "servoOff" /\ offLeft' = Joint /\ UNCHANGED <<state, service, attempt>>
     ELSE GoOnToClose(o)
  /\ UNCHANGED <<open, answer, serving, pending, handlerVars, powerVars, abandoned>>
SwitchOff(o) ==
  /\ op' = o /\ pc' = "servoOff" /\ offLeft' = Joint
  /\ UNCHANGED <<state, service, attempt, open, answer, serving, pending, handlerVars,
                 powerVars, abandoned>>

Deactivate == state = "active" /\ pc = "idle" /\ SwitchOff("deactivate")

\* The destructor: the process ends, whatever the state.
Destroy == state # "ended" /\ pc = "idle" /\ SwitchOff("destroy")

Shutdown ==
  /\ pc = "idle"
  /\ \/ state = "active" /\ SwitchOff("shutdown")
     \/ /\ state \in {"unconfigured", "inactive"}
        /\ GoOnToClose("shutdown")
        /\ UNCHANGED <<open, answer, serving, pending, handlerVars, powerVars, abandoned>>

\* servoOff ignores the results.
ServoOff(j) ==
  /\ pc = "servoOff" /\ j \in offLeft
  /\ \/ open /\ axis' = [axis EXCEPT ![j] = "off"] /\ held' = held \ {j}
     \/ UNCHANGED axis /\ held' = IF open THEN held \ {j} ELSE held
  /\ IF offLeft # {j}
     THEN offLeft' = offLeft \ {j} /\ UNCHANGED <<state, op, pc, service, attempt>>
     ELSE IF op = "deactivate" THEN Return("inactive") ELSE GoOnToClose(op)
  /\ UNCHANGED <<open, answer, serving, pending, handlerVars, disturbed, abandoned>>

CloseDevice == open' \in {open, FALSE}

Close ==
  /\ pc = "close"
  /\ CloseDevice
  /\ Return(IF op = "destroy" THEN "ended" ELSE "finalized")
  /\ UNCHANGED <<answer, serving, pending, handlerVars, powerVars, abandoned>>

Cleanup ==
  /\ state = "inactive" /\ pc = "idle"
  /\ CloseDevice
  /\ state' = "unconfigured"
  /\ UNCHANGED <<op, pc, service, attempt, offLeft, answer, serving, pending, handlerVars,
                 powerVars, abandoned>>

-----------------------------------------------------------------------------
CoreMotionNode ==
  \/ ServicesAppear \/ ServicesVanish \/ Respond
  \/ \E s \in Service : Take(s)
  \/ \E j \in Joint : Handle(j) \/ Disturb(j)

Broadcaster ==
  \/ Configure \/ Activate \/ Deactivate \/ Cleanup \/ Shutdown \/ Destroy
  \/ NotAvailable \/ Send \/ TimeOut \/ Answered \/ Close
  \/ \E j \in Joint : ServoOff(j)

Next == CoreMotionNode \/ Broadcaster

Spec == Init /\ [][Next]_vars

-----------------------------------------------------------------------------
(***************************************************************************)
(* Properties.                                                             *)
(***************************************************************************)
Quiet == pending["set_servo_on"] = 0 /\ handling # "set_servo_on"

\* An active broadcaster has its joints under power, unless somebody else
\* switched one since its request did: no answer of an earlier attempt, of
\* the other service or of a half failed request passes for a success
\* (callSetAxesService, setServoOnCallback).
ActiveMeansPowered ==
  state = "active" /\ pc = "idle" =>
    \A j \in Joint : axis[j] = "on" \/ j \in disturbed

\* What the broadcaster had switched on is off once it is no longer active,
\* and stays off: none of the requests it sent again and again is left to
\* switch an axis on later.  The exceptions are an axis whose SetServoOn
\* failed, and an activation that failed after it had asked for power.
PowerIsReturned ==
  state # "active" /\ pc = "idle" /\ ~abandoned => held = {} /\ Quiet

\* How far an activation is from its end: the requests it may still make of the
\* two services, each looked for and then waited for.
LeftToAsk(where, s, n) ==
  (IF s = "clear_amp_alarm" THEN 2 * MaxRetries ELSE 0)
    + 2 * (MaxRetries - n) + (IF where = "find" THEN 2 ELSE 1)

\* A callback ends after finitely many steps, whatever the core motion node does:
\* an activation after at most MaxRetries requests to each service, the way down
\* after one command per joint, whichever of them fail (callSetAxesService,
\* servoOff).  Nobody else moves it on or back.
CallbackEnds ==
  [][op # "none" =>
       IF Broadcaster
       THEN \/ op' = "none"
            \/ op = "activate" /\ op' = op
               /\ LeftToAsk(pc', service', attempt') < LeftToAsk(pc, service, attempt)
            \/ op # "activate" /\ op' = op
               /\ offLeft' \subseteq offLeft /\ offLeft' # offLeft
       ELSE UNCHANGED callVars]_vars

(***************************************************************************)
(* The node is one the lifecycle manager can rely on.                      *)
(***************************************************************************)
lifeState ==
  CASE op = "activate"   -> "activating"
    [] op = "deactivate" -> "deactivating"
    [] op = "shutdown"   -> "shuttingDown"
    [] op = "destroy"    -> "exiting"
    [] op = "none"       -> IF state = "ended" THEN "absent" ELSE state

Managed == INSTANCE ManagedNode WITH
  life <- lifeState, acting <- ~abandoned /\ held # {}

\* The broadcaster goes up and down as the manager's model of a node does: only
\* on_configure and on_activate fail, and the power it asked for does not
\* survive its way down, nor is it taken on that way, unless an activation failed
\* after it had asked (on_deactivate, on_shutdown, callSetAxesService).
ImplementsNode == Managed!Spec

-----------------------------------------------------------------------------
(***************************************************************************)
(* What makes them inductive.                                              *)
(***************************************************************************)

\* Which callback is under way, in which phase, in which state.
CallAgrees ==
  /\ pc = "idle" <=> op = "none"
  /\ pc \in {"find", "wait"} <=> op = "activate"
  /\ op = "activate" => state = "inactive"
  /\ op = "deactivate" => state = "active" /\ pc = "servoOff"
  /\ state \in {"inactive", "active"} => open
  /\ state = "active" => ~abandoned
  /\ pc \in {"idle", "servoOff", "close"} => service = "clear_amp_alarm"
  /\ pc = "close" => op # "deactivate"
  /\ pc # "servoOff" => offLeft = {}

\* The request that is waited for is the youngest, and is answered once.
AnswerAgrees ==
  /\ awaited => pc = "wait" /\ handling = service /\ answer = "none" /\ pending[service] = 0
  /\ answer # "none" => pc = "wait" /\ handling # service /\ pending[service] = 0

\* A request that has gone well so far has its axes switched on.
SwitchedOn(S) == \A j \in S : axis[j] = "on" \/ j \in disturbed
PoweredAgrees ==
  /\ ActiveMeansPowered
  /\ awaited /\ handling = "set_servo_on" /\ all_success => SwitchedOn(Joint \ left)
  /\ answer = "success" /\ service = "set_servo_on" => SwitchedOn(Joint)

\* Where power may be held, and a request for it be on its way.
PowerAccounted ==
  ~abandoned /\ service = "clear_amp_alarm" =>
    /\ Quiet
    /\ state # "active" => held = {}
    /\ pc # "idle" => held \subseteq offLeft

IInv ==
  TypeOK /\ CallAgrees /\ AnswerAgrees /\ PoweredAgrees /\ PowerAccounted

=============================================================================
