----------------------------- MODULE EngineNode -----------------------------
(***************************************************************************)
(* wmx_engine_node: the owner of the WMX device.                           *)
(*                                                                         *)
(* Three threads call its API: the startup thread, the executor (one       *)
(* service callback at a time), and the main thread's destructors.  Every  *)
(* call holds deviceMutex_ from its first step to its last; the calls of   *)
(* the library in between are a step each, and each of them may fail.      *)
(***************************************************************************)
EXTENDS Naturals

CONSTANTS
  ParamFile,    \* wmx_param_file_path is set
  MaxRetries,   \* maxRetries_
  MaxEpoch,     \* bound: how many times the device is created
  None          \* no thread, no call

Thread == {"startup", "service", "main"}
Call == {"startEngine", "stopEngine", "startCommunication", "stopCommunication",
         "importAndSetAll", "read"}

ASSUME EngineAssumption ==
  /\ ParamFile \in BOOLEAN
  /\ MaxRetries \in Nat \ {0} /\ MaxEpoch \in Nat
  /\ None \notin Thread \cup Call

VARIABLES
  process,      \* running, exiting or gone
  holder,       \* the thread that holds deviceMutex_
  pc, call,     \* where each thread is, in which call
  attempt,      \* the loop counter of startEngine
  open,         \* isEngineStarted: the node's handle has a device
  communicating,
  params,       \* the parameters the device has: default or imported
  epoch,        \* which device was created last
  closeFailed   \* history: a CloseDevice failed and left this device open

threadVars == <<holder, pc, call, attempt>>
deviceVars == <<open, communicating, params, epoch, closeFailed>>
vars == <<process, threadVars, deviceVars>>

\* Where a thread may be while it holds the mutex.
Inside == {"check", "create", "name", "abandon", "import", "refuse", "connect",
           "stop", "close", "disconnect", "set", "unlock"}

TypeOK ==
  /\ process \in {"running", "exiting", "gone"}
  /\ holder \in Thread \cup {None}
  /\ pc \in [Thread -> Inside \cup {"idle", "lock"}]
  /\ call \in [Thread -> Call \cup {None}]
  /\ attempt \in 0 .. MaxRetries
  /\ open \in BOOLEAN /\ communicating \in BOOLEAN /\ closeFailed \in BOOLEAN
  /\ params \in {"default", "imported"}
  /\ epoch \in 0 .. MaxEpoch

\* The constructor starts the startup thread, which calls startEngine.
Launched ==
  /\ process' = "running"
  /\ pc' = [t \in Thread |-> IF t = "startup" THEN "lock" ELSE "idle"]
  /\ call' = [t \in Thread |-> IF t = "startup" THEN "startEngine" ELSE None]

Init ==
  /\ process = "running"
  /\ pc = [t \in Thread |-> IF t = "startup" THEN "lock" ELSE "idle"]
  /\ call = [t \in Thread |-> IF t = "startup" THEN "startEngine" ELSE None]
  /\ holder = None /\ attempt = 0
  /\ open = FALSE /\ communicating = FALSE /\ params = "default" /\ epoch = 0
  /\ closeFailed = FALSE

-----------------------------------------------------------------------------
(***************************************************************************)
(* The library.                                                            *)
(***************************************************************************)
CloseDevice ==
  \/ /\ open' = FALSE /\ communicating' = FALSE /\ closeFailed' = FALSE
     /\ UNCHANGED <<params, epoch>>
  \/ /\ closeFailed' = open
     /\ UNCHANGED <<open, communicating, params, epoch>>

\* A new device communicates with nobody and has the default parameters.
CreateDevice ==
  /\ ~open /\ epoch < MaxEpoch
  /\ open' = TRUE /\ communicating' = FALSE /\ params' = "default"
  /\ epoch' = epoch + 1 /\ closeFailed' = FALSE

Connected ==
  /\ open
  /\ communicating' = TRUE
  /\ UNCHANGED <<open, params, epoch, closeFailed>>

Disconnected ==
  /\ communicating' = FALSE
  /\ UNCHANGED <<open, params, epoch, closeFailed>>

\* The network breaks down on its own.
CommunicationLost ==
  /\ communicating
  /\ Disconnected
  /\ UNCHANGED <<process, threadVars>>

-----------------------------------------------------------------------------
(***************************************************************************)
(* Calls: the mutex is taken, the steps follow, the mutex is released.     *)
(***************************************************************************)
Go(t, there) == pc' = [pc EXCEPT ![t] = there]
Goto(t, there) == Go(t, there) /\ UNCHANGED <<process, holder, call, attempt>>

FirstStep(c) ==
  CASE c = "startEngine"        -> "check"
    [] c = "stopEngine"         -> "stop"
    [] c = "startCommunication" -> "connect"
    [] c = "stopCommunication"  -> "disconnect"
    [] c = "importAndSetAll"    -> "set"
    [] c = "read"               -> "unlock"

FreeMutant(t) == pc[t] = "lock"
Free(t) == holder = None

Lock(t) ==
  /\ pc[t] = "lock" /\ Free(t)
  /\ holder' = t
  /\ Go(t, FirstStep(call[t]))
  /\ UNCHANGED <<process, call, attempt, deviceVars>>

Unlock(t) ==
  /\ pc[t] = "unlock"
  /\ t # "main"
  /\ holder' = None
  /\ Go(t, "idle") /\ call' = [call EXCEPT ![t] = None]
  /\ UNCHANGED <<process, attempt, deviceVars>>

\* startEngine.
Check(t) ==
  /\ pc[t] = "check"
  /\ IF open
     THEN Goto(t, IF communicating THEN "unlock" ELSE "connect")
     ELSE Go(t, "create") /\ attempt' = 1 /\ UNCHANGED <<process, holder, call>>
  /\ UNCHANGED deviceVars

RetryMutant(t) == Goto(t, "create")
RetryOnceMoreMutant(t) ==
  IF attempt <= MaxRetries
  THEN Go(t, "create") /\ attempt' = attempt + 1 /\ UNCHANGED <<process, holder, call>>
  ELSE Goto(t, "unlock")
Retry(t) ==
  IF attempt < MaxRetries
  THEN Go(t, "create") /\ attempt' = attempt + 1 /\ UNCHANGED <<process, holder, call>>
  ELSE Goto(t, "unlock")

Create(t) ==
  /\ pc[t] = "create"
  /\ \/ CreateDevice /\ Goto(t, "name")
     \/ Retry(t) /\ UNCHANGED deviceVars

Name(t) ==
  /\ pc[t] = "name"
  /\ \/ Goto(t, IF ParamFile THEN "import" ELSE "connect")
     \/ Goto(t, "abandon")
  /\ UNCHANGED deviceVars

Abandon(t) ==
  /\ pc[t] = "abandon"
  /\ CloseDevice
  /\ Retry(t)

ImportedMutant(t) == Goto(t, "connect") /\ UNCHANGED params
Imported(t) ==
  \/ Goto(t, "connect") /\ params' = "imported"
  \/ Goto(t, "refuse") /\ UNCHANGED params

Import(t) ==
  /\ pc[t] = "import"
  /\ Imported(t)
  /\ UNCHANGED <<open, communicating, epoch, closeFailed>>

\* The result of this CloseDevice is ignored.
Refuse(t) ==
  /\ pc[t] = "refuse"
  /\ CloseDevice
  /\ Goto(t, "unlock")

\* startCommunication, which takes the mutex itself: it is a recursive one.
ReentersMutant(t) == holder = IF call[t] = "startEngine" THEN None ELSE t
Reenters(t) == holder \in {t, None}

Connect(t) ==
  /\ pc[t] = "connect" /\ Reenters(t)
  /\ \/ ~communicating /\ Connected
     \/ UNCHANGED deviceVars
  /\ Goto(t, "unlock")

\* stopEngine: the device is closed whether or not the engine stopped.
Stop(t) ==
  /\ pc[t] = "stop"
  /\ \/ ~open /\ Goto(t, "unlock") /\ UNCHANGED deviceVars
     \/ open /\ Goto(t, "close") /\ (Disconnected \/ UNCHANGED deviceVars)

Close(t) ==
  /\ pc[t] = "close"
  /\ CloseDevice
  /\ Goto(t, "unlock")

Disconnect(t) ==
  /\ pc[t] = "disconnect"
  /\ Disconnected \/ UNCHANGED deviceVars
  /\ Goto(t, "unlock")

\* importAndSetAll as a service.
Set(t) ==
  /\ pc[t] = "set"
  /\ \/ open /\ params' = "imported" /\ UNCHANGED <<open, communicating, epoch, closeFailed>>
     \/ UNCHANGED deviceVars
  /\ Goto(t, "unlock")

ThreadStep(t) ==
  \/ Lock(t) \/ Unlock(t) \/ Check(t) \/ Create(t) \/ Name(t) \/ Abandon(t) \/ Import(t)
  \/ Refuse(t) \/ Connect(t) \/ Stop(t) \/ Close(t) \/ Disconnect(t) \/ Set(t)

-----------------------------------------------------------------------------
(***************************************************************************)
(* The process.  A service callback runs only while the executor spins and *)
(* one at a time; the destructor joins the startup thread, then stops the  *)
(* communication and the engine.                                           *)
(***************************************************************************)
Request(c) ==
  /\ process = "running" /\ pc["service"] = "idle"
  /\ Go("service", "lock") /\ call' = [call EXCEPT !["service"] = c]
  /\ UNCHANGED <<process, holder, attempt, deviceVars>>

Exit ==
  /\ process = "running" /\ pc["service"] = "idle"
  /\ process' = "exiting"
  /\ UNCHANGED <<threadVars, deviceVars>>

Destroy ==
  /\ process = "exiting" /\ pc["main"] = "idle" /\ pc["startup"] = "idle"
  /\ Go("main", "lock") /\ call' = [call EXCEPT !["main"] = "stopCommunication"]
  /\ UNCHANGED <<process, holder, attempt, deviceVars>>

DestroyNext ==
  /\ pc["main"] = "unlock" /\ call["main"] = "stopCommunication"
  /\ holder' = None
  /\ Go("main", "lock") /\ call' = [call EXCEPT !["main"] = "stopEngine"]
  /\ UNCHANGED <<process, attempt, deviceVars>>

\* The process is gone, and its handle with it.
Gone ==
  /\ pc["main"] = "unlock" /\ call["main"] = "stopEngine"
  /\ process' = "gone" /\ holder' = None
  /\ Go("main", "idle") /\ call' = [call EXCEPT !["main"] = None]
  /\ open' = FALSE /\ communicating' = FALSE /\ closeFailed' = FALSE
  /\ UNCHANGED <<attempt, params, epoch>>

Launch ==
  /\ process = "gone"
  /\ Launched
  /\ attempt' = 0
  /\ UNCHANGED <<holder, deviceVars>>

Next ==
  \/ \E t \in Thread : ThreadStep(t)
  \/ \E c \in Call : Request(c)
  \/ Exit \/ Destroy \/ DestroyNext \/ Gone \/ Launch
  \/ CommunicationLost

(***************************************************************************)
(* A thread that can go on does; the library's calls all return.  Nobody   *)
(* has to call a service, or to end or launch the process.                 *)
(***************************************************************************)
Fairness ==
  /\ \A t \in Thread : WF_vars(ThreadStep(t))
  /\ WF_vars(Destroy \/ DestroyNext \/ Gone)

Spec == Init /\ [][Next]_vars
FairSpec == Spec /\ Fairness

-----------------------------------------------------------------------------
(***************************************************************************)
(* Safety.                                                                 *)
(***************************************************************************)

\* With a parameter file configured, the engine never communicates with the
\* default parameters, whatever calls arrive while it starts: unless a device
\* that was refused could not be closed (startEngine, set_communication).
ParamsBeforeCommunication ==
  ParamFile /\ communicating => params = "imported" \/ closeFailed

\* A set_engine(false) that comes while the engine starts is not overtaken by the
\* start: when it is answered the device is closed, or could not be (stopEngine).
StopEndsStopped ==
  [][Unlock("service") /\ call["service"] = "stopEngine" => ~open \/ closeFailed]_vars

\* How many steps a thread makes at most until it has released deviceMutex_.
LeftInside(where, n) ==
  CASE where = "check" -> 3 * MaxRetries + 3
    [] where = "create" -> 3 * (MaxRetries - n) + 5
    [] where = "name" -> 3 * (MaxRetries - n) + 4
    [] where = "abandon" -> 3 * (MaxRetries - n) + 3
    [] where \in {"import", "stop"} -> 3
    [] where \in {"refuse", "connect", "close", "disconnect", "set"} -> 2
    [] where = "unlock" -> 1
    [] where \in {"idle", "lock"} -> 0

\* deviceMutex_ is held for boundedly many library calls: whatever fails, the thread
\* that holds it gets nearer to its release with each step, and nobody else moves
\* it (startEngine's loop gives up after maxRetries_).
MutexIsReleased ==
  [][\A t \in Thread : pc[t] \in Inside =>
       IF ThreadStep(t)
       THEN LeftInside(pc'[t], attempt') < LeftInside(pc[t], attempt)
       ELSE pc'[t] \notin Inside \/ UNCHANGED <<pc[t], attempt>>]_vars

(***************************************************************************)
(* The node implements the engine its clients rely on.                     *)
(***************************************************************************)
engineState == IF ~open THEN "none" ELSE IF communicating THEN "communicating" ELSE "device"
serviceState == IF process = "gone" THEN "gone" ELSE IF holder = None THEN "answers" ELSE "busy"

Service == INSTANCE EngineService WITH engine <- engineState, service <- serviceState

\* What the manager's and the nodes' models assume of the engine: the device is
\* created, connected and closed only while no status is answered (deviceMutex_).
ImplementsService == Service!EngineSpec

(***************************************************************************)
(* Liveness.                                                               *)
(***************************************************************************)
\* A service is answered in the end, also one that came while the engine starts
\* (startEngine gives up after maxRetries_).
ServicesAnswer == pc["service"] # "idle" ~> pc["service"] = "idle"

\* The process ends once it is told to: neither the join of the startup thread nor
\* the mutex, which startCommunication takes twice, holds it up (~WmxEngineNode).
ExitCompletes == process = "exiting" ~> process = "gone"

=============================================================================
