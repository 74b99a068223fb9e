-------------------------- MODULE EngineNodeProofs --------------------------
(***************************************************************************)
(* IInv of EngineNode is inductive, for every number of attempts and of    *)
(* devices: the parameters come before the communication, set_engine(false)*)
(* leaves the engine stopped, and every step is one of EngineService's.    *)
(*                                                                         *)
(* Control: one thread at most is past its lock, the one deviceMutex_      *)
(* names; that is why what a thread saw of the device is still true when   *)
(* it acts on it.  Device: what a thread in the middle of a call knows.    *)
(***************************************************************************)
EXTENDS EngineNode, TLAPS

ControlType ==
  /\ process \in {"running", "exiting", "gone"}
  /\ holder \in Thread \cup {None}
  /\ pc \in [Thread -> Inside \cup {"idle", "lock"}]
  /\ call \in [Thread -> Call \cup {None}]

Mutex == \A t \in Thread : pc[t] \in Inside <=> holder = t

Calling == \A t \in Thread : pc[t] # "idle" => call[t] \in Call

Living ==
  /\ process = "gone" => \A t \in Thread : pc[t] = "idle"
  /\ process # "running" => pc["service"] = "idle"
  /\ pc["main"] # "idle" => process = "exiting" /\ pc["startup"] = "idle"

Control == ControlType /\ Mutex /\ Calling /\ Living

DeviceType ==
  /\ attempt \in 0 .. MaxRetries
  /\ open \in BOOLEAN /\ communicating \in BOOLEAN /\ closeFailed \in BOOLEAN
  /\ params \in {"default", "imported"}
  /\ epoch \in 0 .. MaxEpoch

\* Only an open device communicates, and only that of a living process is open.
Attached == (communicating => open) /\ (open => process # "gone")

\* A device without its parameters is in the hands of the thread that made it.
Prepared ==
  ParamFile /\ open =>
    \/ params = "imported" \/ closeFailed
    \/ \E t \in Thread : pc[t] \in {"name", "abandon", "import", "refuse"}

\* A thread that is stopping the engine does nothing else, and ends with it stopped.
Stopping ==
  \A t \in Thread : call[t] = "stopEngine" =>
    /\ pc[t] \in {"lock", "stop", "close", "unlock"}
    /\ pc[t] = "unlock" => ~open \/ closeFailed

IInv ==
  /\ Control /\ DeviceType
  /\ Attached /\ Prepared /\ ParamsBeforeCommunication /\ Stopping

-----------------------------------------------------------------------------
(***************************************************************************)
(* Control.                                                                *)
(***************************************************************************)

\* Moving on inside the mutex changes nobody's place but the mover's.
LEMMA GotoKeepsControl ==
  ASSUME Control, NEW t \in Thread, NEW there \in Inside, pc[t] \in Inside,
         Go(t, there), UNCHANGED <<process, holder, call>>
  PROVE  Control'
<1> USE DEF Control, ControlType, Go, Inside
<1>1. ControlType' OBVIOUS
<1>2. Mutex' BY DEF Mutex
<1>3. Calling' BY DEF Calling
<1>4. Living' BY DEF Living
<1> QED BY <1>1, <1>2, <1>3, <1>4

\* The first step of a call is one of its own.
LEMMA FirstStepFacts ==
  ASSUME NEW c \in Call
  PROVE  /\ FirstStep(c) \in {"check", "stop", "connect", "disconnect", "set", "unlock"}
         /\ c = "stopEngine" => FirstStep(c) = "stop"
BY DEF Call, FirstStep

\* Where the mover of a step inside the mutex goes.
LEMMA InsideStep ==
  ASSUME NEW t \in Thread,
         \/ Check(t) \/ Create(t) \/ Name(t) \/ Abandon(t) \/ Import(t) \/ Refuse(t)
         \/ Connect(t) \/ Stop(t) \/ Close(t) \/ Disconnect(t) \/ Set(t)
  PROVE  /\ pc[t] \in Inside \ {"unlock"}
         /\ \E there \in Inside : Go(t, there)
         /\ UNCHANGED <<process, holder, call>>
<1> USE DEF Inside, Goto
<1>1. CASE Check(t) BY <1>1 DEF Check
<1>2. CASE Create(t) BY <1>2 DEF Create, Retry
<1>3. CASE Name(t) BY <1>3 DEF Name
<1>4. CASE Abandon(t) BY <1>4 DEF Abandon, Retry
<1>5. CASE Import(t) BY <1>5 DEF Import, Imported
<1>6. CASE Refuse(t) BY <1>6 DEF Refuse
<1>7. CASE Connect(t) BY <1>7 DEF Connect
<1>8. CASE Stop(t) BY <1>8 DEF Stop
<1>9. CASE Close(t) BY <1>9 DEF Close
<1>10. CASE Disconnect(t) BY <1>10 DEF Disconnect
<1>11. CASE Set(t) BY <1>11 DEF Set
<1> QED BY <1>1, <1>2, <1>3, <1>4, <1>5, <1>6, <1>7, <1>8, <1>9, <1>10, <1>11

LEMMA ControlStep ==
  ASSUME Control, Next
  PROVE  Control'
<1> USE EngineAssumption
<1>1. ASSUME NEW t \in Thread, ThreadStep(t) PROVE Control'
  <2>1. CASE Lock(t)
    <3>1. pc[t] = "lock" /\ holder = None /\ holder' = t /\ UNCHANGED <<process, call>>
          /\ pc' = [pc EXCEPT ![t] = FirstStep(call[t])]
      BY <2>1 DEF Lock, Free, Go
    <3>2. FirstStep(call[t]) \in Inside
      BY <3>1, FirstStepFacts DEF Control, Calling, Inside
    <3> USE <3>1, <3>2 DEF Control, ControlType
    <3>3. ControlType' OBVIOUS
    <3>4. Mutex' BY DEF Mutex
    <3>5. Calling' BY DEF Calling, Inside
    <3>6. Living' BY DEF Living, Inside
    <3> QED BY <3>3, <3>4, <3>5, <3>6
  <2>2. CASE Unlock(t)
    <3> USE <2>2 DEF Unlock, Go, Control, ControlType
    <3>1. ControlType' OBVIOUS
    <3>2. Mutex' BY DEF Mutex, Inside
    <3>3. Calling' BY DEF Calling
    <3>4. Living' BY DEF Living
    <3> QED BY <3>1, <3>2, <3>3, <3>4
  <2>3. CASE ~Lock(t) /\ ~Unlock(t)
    BY <1>1, <2>3, InsideStep, GotoKeepsControl DEF ThreadStep
  <2> QED BY <2>1, <2>2, <2>3
<1>2. ASSUME NEW c \in Call, Request(c) PROVE Control'
  <2> USE <1>2 DEF Request, Go, Control, ControlType, Thread
  <2>1. ControlType' OBVIOUS
  <2>2. Mutex' BY DEF Mutex, Inside
  <2>3. Calling' BY DEF Calling
  <2>4. Living' BY DEF Living
  <2> QED BY <2>1, <2>2, <2>3, <2>4
<1>3. CASE Exit
  BY <1>3 DEF Exit, threadVars, Control, ControlType, Mutex, Calling, Living
<1>4. CASE Destroy
  <2> USE <1>4 DEF Destroy, Go, Control, ControlType, Thread, Call
  <2>1. ControlType' OBVIOUS
  <2>2. Mutex' BY DEF Mutex, Inside
  <2>3. Calling' BY DEF Calling
  <2>4. Living' BY DEF Living
  <2> QED BY <2>1, <2>2, <2>3, <2>4
<1>5. CASE DestroyNext
  <2> USE <1>5 DEF DestroyNext, Go, Control, ControlType, Thread, Call
  <2>1. ControlType' OBVIOUS
  <2>2. Mutex' BY DEF Mutex, Inside
  <2>3. Calling' BY DEF Calling
  <2>4. Living' BY DEF Living
  <2> QED BY <2>1, <2>2, <2>3, <2>4
<1>6. CASE Gone
  <2> USE <1>6 DEF Gone, Go, Control, ControlType, Thread
  <2>1. ControlType' OBVIOUS
  <2>2. Mutex' BY DEF Mutex, Inside
  <2>3. Calling' BY DEF Calling
  <2>4. Living' BY DEF Living
  <2> QED BY <2>1, <2>2, <2>3, <2>4
<1>7. CASE Launch
  <2> USE <1>7 DEF Launch, Launched, Control, ControlType, Thread, Call
  <2>1. ControlType' OBVIOUS
  <2>2. Mutex' BY DEF Mutex, Inside, Living
  <2>3. Calling' BY DEF Calling
  <2>4. Living' BY DEF Living
  <2> QED BY <2>1, <2>2, <2>3, <2>4
<1>8. CASE CommunicationLost
  BY <1>8 DEF CommunicationLost, threadVars, Control, ControlType, Mutex, Calling, Living
<1> QED BY <1>1, <1>2, <1>3, <1>4, <1>5, <1>6, <1>7, <1>8 DEF Next

-----------------------------------------------------------------------------
(***************************************************************************)
(* The device.                                                             *)
(***************************************************************************)

\* What CloseDevice does: the device is closed, or is still open and recorded.
LEMMA CloseDeviceFacts ==
  ASSUME DeviceType, CloseDevice
  PROVE  /\ open' \in BOOLEAN /\ communicating' \in BOOLEAN /\ closeFailed' \in BOOLEAN
         /\ UNCHANGED <<params, epoch>>
         /\ ~open' \/ closeFailed'
         /\ (~open' /\ ~communicating') \/ UNCHANGED <<open, communicating>>
<1> USE DEF DeviceType
<1>1. CASE /\ open' = FALSE /\ communicating' = FALSE /\ closeFailed' = FALSE
           /\ UNCHANGED <<params, epoch>>
  BY <1>1
<1>2. CASE /\ closeFailed' = open /\ UNCHANGED <<open, communicating, params, epoch>>
  <2>1. closeFailed' \in BOOLEAN BY <1>2, Zenon
  <2>2. ~open' \/ closeFailed' BY <1>2, Zenon
  <2> QED BY <1>2, <2>1, <2>2
<1> QED BY <1>1, <1>2 DEF CloseDevice

\* The steps that may connect or disconnect, and touch nothing else of the device.
LEMMA ConnectFacts ==
  ASSUME DeviceType, NEW t \in Thread, Connect(t) \/ Stop(t) \/ Disconnect(t)
  PROVE  /\ UNCHANGED <<open, closeFailed, params, epoch, attempt>>
         /\ communicating' \in BOOLEAN
         /\ communicating' => communicating \/ (open /\ pc[t] = "connect")
<1> USE DEF DeviceType, deviceVars
<1>1. attempt' = attempt BY DEF Connect, Stop, Disconnect, Goto
<1>2. \/ UNCHANGED deviceVars
      \/ Disconnected
      \/ Connected /\ pc[t] = "connect"
  BY Zenon DEF Connect, Stop, Disconnect
<1>3. CASE UNCHANGED deviceVars BY <1>1, <1>3
<1>4. CASE Disconnected
  <2>1. communicating' = FALSE BY <1>4 DEF Disconnected
  <2>2. UNCHANGED <<open, closeFailed, params, epoch>> BY <1>4 DEF Disconnected
  <2> QED BY <1>1, <2>1, <2>2
<1>5. CASE Connected /\ pc[t] = "connect"
  <2>1. communicating' = TRUE /\ open BY <1>5 DEF Connected
  <2>2. UNCHANGED <<open, closeFailed, params, epoch>> BY <1>5 DEF Connected
  <2> QED BY <1>1, <1>5, <2>1, <2>2
<1> QED BY <1>2, <1>3, <1>4, <1>5

\* The new device.
LEMMA CreateFacts ==
  ASSUME DeviceType, NEW t \in Thread, Create(t)
  PROVE  /\ attempt' \in 0 .. MaxRetries
         /\ \/ UNCHANGED deviceVars
            \/ /\ open' /\ ~communicating' /\ ~closeFailed' /\ params' = "default"
               /\ open' = TRUE /\ communicating' = FALSE /\ closeFailed' = FALSE
               /\ epoch' \in 0 .. MaxEpoch
               /\ ~open /\ epoch' = epoch + 1
               /\ Go(t, "name")
<1> USE EngineAssumption DEF DeviceType, Create
<1>1. CASE CreateDevice /\ Goto(t, "name")
  BY <1>1 DEF CreateDevice, Goto
<1>2. CASE Retry(t) /\ UNCHANGED deviceVars
  <2>1. attempt' \in 0 .. MaxRetries BY <1>2 DEF Retry, Goto
  <2> QED BY <1>2, <2>1
<1> QED BY <1>1, <1>2

\* While a thread is past its lock the service is busy, before and after its step.
LEMMA Busy ==
  ASSUME Control, NEW t \in Thread, pc[t] \in Inside
  PROVE  serviceState = "busy" /\ process # "gone" /\ holder = t
<1>1. holder = t BY DEF Control, Mutex
<1>2. process # "gone" BY DEF Control, Living, Inside
<1>3. holder # None BY <1>1, EngineAssumption
<1> QED BY <1>1, <1>2, <1>3 DEF serviceState

\* The values stay in their types, and only an open device communicates.
LEMMA DeviceTypeStep ==
  ASSUME Control, DeviceType, Attached, Next
  PROVE  DeviceType' /\ Attached'
<1> USE EngineAssumption DEF DeviceType, Attached, deviceVars, Goto
<1>1. ASSUME NEW t \in Thread, ThreadStep(t) PROVE DeviceType' /\ Attached'
  <2>1. CASE Lock(t) BY <2>1 DEF Lock
  <2>2. CASE Unlock(t) BY <2>2 DEF Unlock
  <2>3. CASE Check(t) BY <2>3 DEF Check
  <2>4. CASE Create(t)
    <3>1. process # "gone" /\ process' = process
      BY <2>4, InsideStep, Busy
    <3> QED BY <2>4, <3>1, CreateFacts
  <2>5. CASE Name(t) BY <2>5 DEF Name
  <2>6. CASE Abandon(t)
    <3>0. process' = process BY <2>6, InsideStep
    <3>1. attempt' \in 0 .. MaxRetries BY <2>6 DEF Abandon, Retry
    <3> QED BY <2>6, <3>0, <3>1, CloseDeviceFacts DEF Abandon
  <2>7. CASE Import(t) BY <2>7 DEF Import, Imported
  <2>8. CASE Refuse(t) BY <2>8, CloseDeviceFacts DEF Refuse
  <2>9. CASE Connect(t) BY <2>9, ConnectFacts DEF Connect
  <2>10. CASE Stop(t) BY <2>10, ConnectFacts DEF Stop
  <2>11. CASE Close(t) BY <2>11, CloseDeviceFacts DEF Close
  <2>12. CASE Disconnect(t) BY <2>12, ConnectFacts DEF Disconnect
  <2>13. CASE Set(t) BY <2>13 DEF Set
  <2> QED BY <1>1, <2>1, <2>2, <2>3, <2>4, <2>5, <2>6, <2>7, <2>8, <2>9, <2>10, <2>11,
             <2>12, <2>13 DEF ThreadStep
<1>2. ASSUME NEW c \in Call, Request(c) PROVE DeviceType' /\ Attached'
  BY <1>2 DEF Request
<1>3. CASE Exit \/ Destroy \/ DestroyNext \/ Launch
  BY <1>3 DEF Exit, Destroy, DestroyNext, Launch, threadVars
<1>4. CASE Gone BY <1>4 DEF Gone
<1>5. CASE CommunicationLost
  BY <1>5 DEF CommunicationLost, Disconnected, threadVars
<1> QED BY <1>1, <1>2, <1>3, <1>4, <1>5 DEF Next

\* What a thread past its lock may rely on: no other thread is past its own.
LEMMA Alone ==
  ASSUME Control, NEW t \in Thread, pc[t] \in Inside
  PROVE  \A u \in Thread \ {t} : pc[u] \in {"idle", "lock"}
BY DEF Control, ControlType, Mutex

\* The device has its parameters, or is in the hands of the thread that made it.
LEMMA PreparedStep ==
  ASSUME IInv, Next
  PROVE  Prepared'
<1> USE DEF IInv, Control, ControlType, DeviceType, Prepared, deviceVars, Go, Goto
<1>1. ASSUME NEW t \in Thread, ThreadStep(t) PROVE Prepared'
  <2>1. CASE Lock(t) BY <2>1 DEF Lock
  <2>2. CASE Unlock(t) BY <2>2 DEF Unlock
  <2>3. CASE Check(t) BY <2>3 DEF Check
  <2>4. CASE Create(t)
    <3>1. CASE CreateDevice /\ Goto(t, "name")
      BY <3>1 DEF Inside
    <3>2. CASE Retry(t) /\ UNCHANGED deviceVars
      BY <2>4, <3>2 DEF Create, Retry
    <3> QED BY <2>4, <3>1, <3>2 DEF Create
  <2>5. CASE Name(t) BY <2>5 DEF Name, Inside
  <2>6. CASE Abandon(t) BY <2>6, CloseDeviceFacts DEF Abandon
  <2>7. CASE Import(t) BY <2>7 DEF Import, Imported, Inside
  <2>8. CASE Refuse(t) BY <2>8, CloseDeviceFacts DEF Refuse
  <2>9. CASE Connect(t)
    <3>1. pc[t] = "connect" /\ pc' = [pc EXCEPT ![t] = "unlock"]
      BY <2>9 DEF Connect
    <3>2. UNCHANGED <<open, closeFailed, params>> BY <2>9, ConnectFacts
    <3> QED BY <3>1, <3>2
  <2>10. CASE Stop(t) BY <2>10, ConnectFacts DEF Stop
  <2>11. CASE Close(t) BY <2>11, CloseDeviceFacts DEF Close
  <2>12. CASE Disconnect(t) BY <2>12, ConnectFacts DEF Disconnect
  <2>13. CASE Set(t) BY <2>13 DEF Set
  <2> QED BY <1>1, <2>1, <2>2, <2>3, <2>4, <2>5, <2>6, <2>7, <2>8, <2>9, <2>10, <2>11,
             <2>12, <2>13 DEF ThreadStep
<1>2. ASSUME NEW c \in Call, Request(c) PROVE Prepared'
  BY <1>2 DEF Request, Thread
<1>3. CASE Exit \/ Destroy \/ DestroyNext
  BY <1>3 DEF Exit, Destroy, DestroyNext, threadVars, Thread
<1>4. CASE Gone BY <1>4 DEF Gone
<1>5. CASE Launch BY <1>5 DEF Launch, Launched, Living
<1>6. CASE CommunicationLost
  BY <1>6 DEF CommunicationLost, Disconnected, threadVars
<1> QED BY <1>1, <1>2, <1>3, <1>4, <1>5, <1>6 DEF Next

\* Only Connect starts the communication, and it finds a prepared device.
LEMMA ParamsStep ==
  ASSUME IInv, Next
  PROVE  ParamsBeforeCommunication'
<1> USE DEF IInv, DeviceType, ParamsBeforeCommunication, Attached, deviceVars, Goto
<1>1. ASSUME NEW t \in Thread, ThreadStep(t) PROVE ParamsBeforeCommunication'
  <2>1. CASE Lock(t) BY <2>1 DEF Lock
  <2>2. CASE Unlock(t) BY <2>2 DEF Unlock
  <2>3. CASE Check(t) BY <2>3 DEF Check
  <2>4. CASE Create(t) BY <2>4, CreateFacts
  <2>5. CASE Name(t) BY <2>5 DEF Name
  <2>6. CASE Abandon(t) BY <2>6, CloseDeviceFacts DEF Abandon
  <2>7. CASE Import(t) BY <2>7 DEF Import, Imported
  <2>8. CASE Refuse(t) BY <2>8, CloseDeviceFacts DEF Refuse
  <2>9. CASE Connect(t)
    <3>1. \A u \in Thread : pc[u] \notin {"name", "abandon", "import", "refuse"}
      BY <2>9, Alone DEF Connect, Inside
    <3> QED BY <2>9, <3>1, ConnectFacts DEF Prepared
  <2>10. CASE Stop(t) BY <2>10, ConnectFacts DEF Stop
  <2>11. CASE Close(t) BY <2>11, CloseDeviceFacts DEF Close
  <2>12. CASE Disconnect(t)
    <3>1. pc[t] = "disconnect" BY <2>12 DEF Disconnect
    <3>2. communicating' => communicating BY <2>12, <3>1, ConnectFacts
    <3>3. UNCHANGED <<closeFailed, params>> BY <2>12, ConnectFacts
    <3> QED BY <3>2, <3>3
  <2>13. CASE Set(t)
    <3>1. UNCHANGED <<communicating, closeFailed, params>> \/ params' = "imported"
      BY <2>13, Zenon DEF Set
    <3> QED BY <3>1
  <2> QED BY <1>1, <2>1, <2>2, <2>3, <2>4, <2>5, <2>6, <2>7, <2>8, <2>9, <2>10, <2>11,
             <2>12, <2>13 DEF ThreadStep
<1>2. ASSUME NEW c \in Call, Request(c) PROVE ParamsBeforeCommunication'
  BY <1>2 DEF Request
<1>3. CASE Exit \/ Destroy \/ DestroyNext \/ Launch
  BY <1>3 DEF Exit, Destroy, DestroyNext, Launch
<1>4. CASE Gone BY <1>4 DEF Gone
<1>5. CASE CommunicationLost BY <1>5 DEF CommunicationLost, Disconnected
<1> QED BY <1>1, <1>2, <1>3, <1>4, <1>5 DEF Next

\* A step of u leaves what t knows of its stop alone: the device is u's while u is inside.
LEMMA StoppingKept ==
  ASSUME Control, Stopping, NEW u \in Thread, pc[u] \in Inside,
         NEW there \in Inside, Go(u, there), UNCHANGED call,
         call[u] = "stopEngine" =>
           /\ there \in {"stop", "close", "unlock"}
           /\ there = "unlock" => ~open' \/ closeFailed'
  PROVE  Stopping'
<1> USE DEF Control, ControlType, Stopping, Go
<1>1. SUFFICES ASSUME NEW t \in Thread, call[t] = "stopEngine"
               PROVE  /\ pc'[t] \in {"lock", "stop", "close", "unlock"}
                      /\ pc'[t] = "unlock" => ~open' \/ closeFailed'
  BY Zenon
<1>2. CASE t = u
  <2>1. pc'[t] = there BY <1>2
  <2> QED BY <1>1, <1>2, <2>1
<1>3. CASE t # u
  <2>1. pc'[t] = pc[t] /\ pc[t] \in {"idle", "lock"} BY <1>3, Alone
  <2> QED BY <1>1, <2>1
<1> QED BY <1>2, <1>3

\* A set_engine(false) runs to its end alone.
LEMMA StoppingStep ==
  ASSUME IInv, Next
  PROVE  Stopping'
<1> USE DEF IInv
<1>1. ASSUME NEW t \in Thread, ThreadStep(t) PROVE Stopping'
  <2>1. CASE Lock(t)
    <3>1. /\ pc[t] = "lock" /\ pc' = [pc EXCEPT ![t] = FirstStep(call[t])]
          /\ UNCHANGED <<call, open, closeFailed>>
      BY <2>1 DEF Lock, Go, deviceVars
    <3>2. call[t] = "stopEngine" => FirstStep(call[t]) = "stop"
      BY <3>1, FirstStepFacts DEF Control, Calling
    <3> QED BY <3>1, <3>2 DEF Stopping, Control, ControlType
  <2>2. CASE Unlock(t)
    <3>1. /\ pc' = [pc EXCEPT ![t] = "idle"] /\ call' = [call EXCEPT ![t] = None]
          /\ UNCHANGED <<open, closeFailed>>
      BY <2>2 DEF Unlock, Go, deviceVars
    <3>2. None # "stopEngine" BY EngineAssumption DEF Call
    <3> QED BY <3>1, <3>2 DEF Stopping, Control, ControlType
  <2>3. CASE Stop(t)
    <3>1. CASE ~open /\ Goto(t, "unlock") /\ UNCHANGED deviceVars
      <4>1. ~open' /\ Go(t, "unlock") /\ UNCHANGED call BY <3>1 DEF Goto, deviceVars
      <4>2. pc[t] \in Inside /\ "unlock" \in Inside BY <2>3 DEF Stop, Inside
      <4> QED BY <4>1, <4>2, StoppingKept
    <3>2. CASE Goto(t, "close")
      <4>1. Go(t, "close") /\ UNCHANGED call BY <3>2 DEF Goto
      <4>2. pc[t] \in Inside /\ "close" \in Inside BY <2>3 DEF Stop, Inside
      <4> QED BY <4>1, <4>2, StoppingKept
    <3> QED BY <2>3, <3>1, <3>2 DEF Stop
  <2>4. CASE Close(t)
    <3>1. Go(t, "unlock") /\ UNCHANGED call BY <2>4 DEF Close, Goto
    <3>2. ~open' \/ closeFailed' BY <2>4, CloseDeviceFacts DEF Close
    <3>3. pc[t] \in Inside /\ "unlock" \in Inside BY <2>4 DEF Close, Inside
    <3> QED BY <3>1, <3>2, <3>3, StoppingKept
  <2>5. CASE ~Lock(t) /\ ~Unlock(t) /\ ~Stop(t) /\ ~Close(t)
    <3>1. pc[t] \in {"check", "create", "name", "abandon", "import", "refuse",
                     "connect", "disconnect", "set"}
      BY <1>1, <2>5 DEF ThreadStep, Check, Create, Name, Abandon, Import, Refuse,
                        Connect, Disconnect, Set
    <3>2. call[t] # "stopEngine" BY <3>1 DEF Stopping
    <3>3. pc[t] \in Inside BY <3>1 DEF Inside
    <3>4. (\E there \in Inside : Go(t, there)) /\ UNCHANGED call
      BY <1>1, <2>5, InsideStep DEF ThreadStep
    <3> QED BY <3>2, <3>3, <3>4, StoppingKept
  <2> QED BY <2>1, <2>2, <2>3, <2>4, <2>5
<1> USE DEF Stopping, Control, ControlType, Go, Thread, deviceVars
<1>2. ASSUME NEW c \in Call, Request(c) PROVE Stopping'
  BY <1>2 DEF Request
<1>3. CASE Exit BY <1>3 DEF Exit, threadVars
<1>4. CASE Destroy BY <1>4 DEF Destroy
<1>5. CASE DestroyNext BY <1>5 DEF DestroyNext
<1>6. CASE Gone
  <2>1. pc'["main"] = "idle" /\ call'["main"] = None /\ open' = FALSE
        /\ \A t \in Thread \ {"main"} : pc'[t] = pc[t] /\ call'[t] = call[t]
    BY <1>6 DEF Gone
  <2>2. None # "stopEngine" BY EngineAssumption DEF Call
  <2> QED BY <2>1, <2>2
<1>7. CASE Launch
  <2>1. None # "stopEngine" BY EngineAssumption DEF Call
  <2> QED BY <1>7, <2>1 DEF Launch, Launched
<1>8. CASE CommunicationLost
  BY <1>8 DEF CommunicationLost, Disconnected, threadVars
<1> QED BY <1>1, <1>2, <1>3, <1>4, <1>5, <1>6, <1>7, <1>8 DEF Next

-----------------------------------------------------------------------------
(***************************************************************************)
(* The theorems.                                                           *)
(***************************************************************************)

\* The startup thread is the only one with something to do at first.
LEMMA InitInv == Init => IInv
<1> SUFFICES ASSUME Init PROVE IInv OBVIOUS
<1> USE EngineAssumption DEF Init
<1>1. ControlType BY DEF ControlType, Thread, Call, Inside
<1>2. Mutex BY DEF Mutex, Thread, Inside
<1>3. Calling /\ Living BY DEF Calling, Living, Thread, Call
<1>4. DeviceType
  <2>1. attempt \in 0 .. MaxRetries /\ epoch \in 0 .. MaxEpoch OBVIOUS
  <2>2. open \in BOOLEAN /\ communicating \in BOOLEAN /\ closeFailed \in BOOLEAN BY Zenon
  <2> QED BY <2>1, <2>2 DEF DeviceType
<1>5. Attached /\ Prepared /\ ParamsBeforeCommunication
  BY DEF Attached, Prepared, ParamsBeforeCommunication
<1>6. Stopping BY DEF Stopping, Thread, Call
<1> QED BY <1>1, <1>2, <1>3, <1>4, <1>5, <1>6 DEF IInv, Control

\* A stutter changes none of it.
LEMMA Stutter == IInv /\ UNCHANGED vars => IInv'
BY DEF vars, threadVars, deviceVars, IInv, Control, ControlType, Mutex, Calling, Living,
       DeviceType, Attached, Prepared, ParamsBeforeCommunication, Stopping

LEMMA InvStep == IInv /\ [Next]_vars => IInv'
<1>1. ASSUME IInv, Next PROVE IInv'
  <2>1. Control' BY <1>1, ControlStep DEF IInv
  <2>2. DeviceType' /\ Attached' BY <1>1, DeviceTypeStep DEF IInv
  <2>3. Prepared' BY <1>1, PreparedStep
  <2>4. ParamsBeforeCommunication' BY <1>1, ParamsStep
  <2>5. Stopping' BY <1>1, StoppingStep
  <2> QED BY <2>1, <2>2, <2>3, <2>4, <2>5 DEF IInv
<1> QED BY <1>1, Stutter

\* IInv always holds.
THEOREM Invariance == Spec => []IInv
BY InitInv, InvStep, PTL DEF Spec

\* The engine node's state has its types.
THEOREM TypeCorrect == Spec => []TypeOK
<1>1. IInv => TypeOK BY DEF IInv, Control, ControlType, DeviceType, TypeOK
<1> QED BY <1>1, Invariance, PTL

\* The engine never communicates with the default parameters while a parameter file
\* is configured, unless a refused device could not be closed (startEngine).
THEOREM ParamsComeFirst == Spec => []ParamsBeforeCommunication
<1>1. IInv => ParamsBeforeCommunication BY DEF IInv
<1> QED BY <1>1, Invariance, PTL

\* A set_engine(false) is answered with the device closed, or not closable (stopEngine).
THEOREM StopIsNotOvertaken == Spec => StopEndsStopped
<1>1. IInv => (Unlock("service") /\ call["service"] = "stopEngine" => ~open \/ closeFailed)
  BY DEF IInv, Stopping, Unlock, Thread
<1> QED BY <1>1, Invariance, PTL DEF StopEndsStopped

(***************************************************************************)
(* The node implements EngineService: the thread that holds the mutex is   *)
(* the service that is busy.                                               *)
(***************************************************************************)

LEMMA InitImplements == Init => Service!EngineInit
<1> SUFFICES ASSUME Init PROVE Service!EngineInit OBVIOUS
<1>1. engineState = "none" BY DEF Init, engineState
<1>2. serviceState = "answers" BY DEF Init, serviceState
<1>3. epoch = 0 BY DEF Init
<1> QED BY <1>1, <1>2, <1>3 DEF Service!EngineInit

\* A device step of a thread past its lock is one of the engine's, or none.
LEMMA DeviceImplements ==
  ASSUME Attached, Attached', serviceState = "busy", serviceState' = "busy",
         DeviceType, DeviceType',
         \/ UNCHANGED <<open, communicating, epoch>>
         \/ ~open /\ open' /\ ~communicating' /\ epoch' = epoch + 1
         \/ ~open' /\ UNCHANGED epoch
         \/ UNCHANGED <<open, epoch>>
  PROVE  [Service!EngineNext]_(Service!engineVars)
<1> USE DEF engineState, Attached, DeviceType, Service!EngineNext, Service!engineVars
<1>1. CASE UNCHANGED <<open, communicating, epoch>> BY <1>1
<1>2. CASE ~open /\ open' /\ ~communicating' /\ epoch' = epoch + 1
  <2>1. engineState = "none" /\ engineState' = "device" BY <1>2
  <2>2. epoch < MaxEpoch BY <1>2, EngineAssumption
  <2> QED BY <1>2, <2>1, <2>2 DEF Service!CreateDevice
<1>3. CASE ~open' /\ UNCHANGED epoch
  <2>1. engineState' = "none" BY <1>3
  <2> QED BY <1>3, <2>1 DEF Service!CloseDevice
<1>4. CASE UNCHANGED <<open, epoch>>
  <2>1. \/ engineState' = engineState
        \/ engineState = "device" /\ engineState' = "communicating"
        \/ engineState = "communicating" /\ engineState' = "device"
    BY <1>4
  <2> QED BY <1>4, <2>1 DEF Service!StartCommunication, Service!StopCommunication
<1> QED BY <1>1, <1>2, <1>3, <1>4

\* Every step of a thread is a step of the engine's, or none.
LEMMA ThreadImplements ==
  ASSUME IInv, IInv', NEW t \in Thread, ThreadStep(t)
  PROVE  [Service!EngineNext]_(Service!engineVars)
<1> USE DEF IInv, Service!EngineNext, Service!engineVars
<1>1. CASE Lock(t)
  <2>1. holder = None /\ holder' = t /\ pc[t] = "lock" /\ UNCHANGED <<process, deviceVars>>
    BY <1>1 DEF Lock, Free
  <2>2. process # "gone" /\ t # None
    BY <2>1, EngineAssumption DEF Control, Living
  <2>3. serviceState = "answers" /\ serviceState' = "busy"
    BY <2>1, <2>2 DEF serviceState
  <2>4. UNCHANGED <<engineState, epoch>> BY <2>1 DEF engineState, deviceVars
  <2> QED BY <2>3, <2>4 DEF Service!BeginCall
<1>2. CASE Unlock(t)
  <2>1. pc[t] = "unlock" /\ holder' = None /\ UNCHANGED <<process, deviceVars>>
    BY <1>2 DEF Unlock
  <2>2. serviceState = "busy" /\ process # "gone" BY <2>1, Busy DEF Inside
  <2>3. serviceState' = "answers" BY <2>1, <2>2 DEF serviceState
  <2>4. UNCHANGED <<engineState, epoch>> BY <2>1 DEF engineState, deviceVars
  <2> QED BY <2>2, <2>3, <2>4 DEF Service!EndCall
<1>3. CASE ~Lock(t) /\ ~Unlock(t)
  <2>1. pc[t] \in Inside /\ UNCHANGED <<process, holder>>
    BY <1>3, InsideStep DEF ThreadStep
  <2>2. serviceState = "busy" BY <2>1, Busy
  <2>3. serviceState' = "busy" BY <2>1, <2>2 DEF serviceState
  <2>4. \/ UNCHANGED <<open, communicating, epoch>>
        \/ ~open /\ open' /\ ~communicating' /\ epoch' = epoch + 1
        \/ ~open' /\ UNCHANGED epoch
        \/ UNCHANGED <<open, epoch>>
    <3> USE DEF deviceVars
    <3>1. CASE Check(t) BY <3>1 DEF Check
    <3>2. CASE Create(t) BY <3>2, CreateFacts
    <3>3. CASE Name(t) BY <3>3 DEF Name
    <3>4. CASE Abandon(t) BY <3>4, CloseDeviceFacts DEF Abandon
    <3>5. CASE Import(t) BY <3>5 DEF Import
    <3>6. CASE Refuse(t) BY <3>6, CloseDeviceFacts DEF Refuse
    <3>7. CASE Connect(t) \/ Stop(t) \/ Disconnect(t) BY <3>7, ConnectFacts
    <3>8. CASE Close(t) BY <3>8, CloseDeviceFacts DEF Close
    <3>9. CASE Set(t) BY <3>9 DEF Set
    <3> QED BY <1>3, <3>1, <3>2, <3>3, <3>4, <3>5, <3>6, <3>7, <3>8, <3>9 DEF ThreadStep
  <2> QED BY <2>2, <2>3, <2>4, DeviceImplements
<1> QED BY <1>1, <1>2, <1>3

LEMMA StepImplements ==
  ASSUME IInv, IInv', [Next]_vars
  PROVE  [Service!EngineNext]_(Service!engineVars)
<1> USE DEF Service!engineVars
<1>1. ASSUME NEW t \in Thread, ThreadStep(t)
      PROVE  [Service!EngineNext]_(Service!engineVars)
  BY <1>1, ThreadImplements
<1>2. ASSUME NEW c \in Call, Request(c)
      PROVE  [Service!EngineNext]_(Service!engineVars)
  BY <1>2 DEF Request, engineState, serviceState, deviceVars
<1>3. CASE Exit \/ Destroy
  BY <1>3 DEF Exit, Destroy, engineState, serviceState, deviceVars, threadVars
<1>4. CASE DestroyNext
  <2>1. pc["main"] = "unlock" /\ holder' = None /\ UNCHANGED <<process, deviceVars>>
    BY <1>4 DEF DestroyNext
  <2>2. serviceState = "busy" /\ process # "gone"
    BY <2>1, Busy DEF Inside, Thread, IInv
  <2>3. serviceState' = "answers" BY <2>1, <2>2 DEF serviceState
  <2>4. UNCHANGED <<engineState, epoch>> BY <2>1 DEF engineState, deviceVars
  <2> QED BY <2>2, <2>3, <2>4 DEF Service!EndCall, Service!EngineNext
<1>5. CASE Gone
  <2>1. pc["main"] = "unlock" /\ process' = "gone" /\ open' = FALSE /\ UNCHANGED epoch
    BY <1>5 DEF Gone
  <2>2. serviceState = "busy" BY <2>1, Busy DEF Inside, Thread, IInv
  <2>3. serviceState' = "gone" /\ engineState' = "none"
    BY <2>1 DEF serviceState, engineState
  <2> QED BY <2>1, <2>2, <2>3 DEF Service!EngineExit, Service!EngineNext
<1>6. CASE Launch
  <2>1. process = "gone" /\ process' = "running" /\ UNCHANGED <<holder, deviceVars>>
    BY <1>6 DEF Launch, Launched
  <2>2. holder = None
    BY <2>1 DEF IInv, Control, ControlType, Mutex, Living, Inside
  <2>3. serviceState = "gone" /\ serviceState' = "answers"
    BY <2>1, <2>2 DEF serviceState
  <2>4. UNCHANGED <<engineState, epoch>> BY <2>1 DEF engineState, deviceVars
  <2> QED BY <2>3, <2>4 DEF Service!EngineLaunch, Service!EngineNext
<1>7. CASE CommunicationLost
  <2>1. communicating /\ communicating' = FALSE /\ UNCHANGED <<open, epoch, process, holder>>
    BY <1>7 DEF CommunicationLost, Disconnected, threadVars
  <2>2. open BY <2>1 DEF IInv, Attached
  <2>3. engineState = "communicating" /\ engineState' = "device"
    BY <2>1, <2>2 DEF engineState
  <2>4. serviceState' = serviceState BY <2>1 DEF serviceState
  <2>5. serviceState # "gone" BY <2>2 DEF IInv, Attached, serviceState
  <2> QED BY <2>1, <2>3, <2>4, <2>5 DEF Service!StopCommunication, Service!EngineNext
<1>8. CASE UNCHANGED vars
  BY <1>8 DEF vars, threadVars, deviceVars, engineState, serviceState
<1> QED BY <1>1, <1>2, <1>3, <1>4, <1>5, <1>6, <1>7, <1>8 DEF Next

\* The engine node implements the engine its clients rely on: the device is created,
\* connected and closed only while the service is busy (deviceMutex_).
THEOREM Implementation == Spec => ImplementsService
BY InitImplements, StepImplements, Invariance, PTL
   DEF Spec, ImplementsService, Service!EngineSpec

-----------------------------------------------------------------------------
(***************************************************************************)
(* Progress inside the mutex.                                              *)
(***************************************************************************)

\* How far each place inside the mutex is from the release.
LEMMA LeftFacts ==
  ASSUME NEW n \in 0 .. MaxRetries
  PROVE  /\ LeftInside("check", n) = 3 * MaxRetries + 3
         /\ LeftInside("create", n) = 3 * (MaxRetries - n) + 5
         /\ LeftInside("name", n) = 3 * (MaxRetries - n) + 4
         /\ LeftInside("abandon", n) = 3 * (MaxRetries - n) + 3
         /\ LeftInside("import", n) = 3 /\ LeftInside("stop", n) = 3
         /\ LeftInside("refuse", n) = 2 /\ LeftInside("connect", n) = 2
         /\ LeftInside("close", n) = 2 /\ LeftInside("disconnect", n) = 2
         /\ LeftInside("set", n) = 2 /\ LeftInside("unlock", n) = 1
         /\ LeftInside("idle", n) = 0
BY DEF LeftInside

\* Each step inside the mutex is one nearer to its release.
LEMMA NearerRelease ==
  ASSUME Control, DeviceType, DeviceType', NEW t \in Thread, pc[t] \in Inside, ThreadStep(t)
  PROVE  LeftInside(pc'[t], attempt') < LeftInside(pc[t], attempt)
<1> USE EngineAssumption
<1> USE DEF Control, ControlType, DeviceType, Go, Goto
<1>1. ~Lock(t) BY DEF Lock, Inside
<1>2. CASE Unlock(t)
  <2>1. pc[t] = "unlock" /\ pc'[t] = "idle" BY <1>2 DEF Unlock
  <2> QED BY <2>1, LeftFacts
<1>3. CASE Check(t)
  <2>1. pc[t] = "check" /\ \/ pc'[t] \in {"unlock", "connect"} /\ UNCHANGED attempt
                           \/ pc'[t] = "create" /\ attempt' = 1
    BY <1>3 DEF Check
  <2>2. 1 \in 0 .. MaxRetries OBVIOUS
  <2> QED BY <2>1, <2>2, LeftFacts
<1>4. CASE Create(t) \/ Abandon(t)
  <2>1. \/ pc[t] = "create" /\ pc'[t] = "name" /\ UNCHANGED attempt
        \/ /\ pc[t] \in {"create", "abandon"}
           /\ \/ pc'[t] = "create" /\ attempt' = attempt + 1
              \/ pc'[t] = "unlock" /\ UNCHANGED attempt
    BY <1>4 DEF Create, Abandon, Retry
  <2> QED BY <2>1, LeftFacts
<1>5. CASE Name(t)
  <2>1. pc[t] = "name" /\ pc'[t] \in {"import", "connect", "abandon"} /\ UNCHANGED attempt
    BY <1>5 DEF Name
  <2> QED BY <2>1, LeftFacts
<1>6. CASE Import(t) \/ Stop(t)
  <2>1. pc[t] \in {"import", "stop"} /\ pc'[t] \in {"connect", "refuse", "unlock", "close"}
        /\ UNCHANGED attempt
    BY <1>6 DEF Import, Imported, Stop
  <2> QED BY <2>1, LeftFacts
<1>7. CASE Refuse(t) \/ Connect(t) \/ Close(t) \/ Disconnect(t) \/ Set(t)
  <2>1. pc[t] \in {"refuse", "connect", "close", "disconnect", "set"} /\ pc'[t] = "unlock"
        /\ UNCHANGED attempt
    BY <1>7 DEF Refuse, Connect, Close, Disconnect, Set
  <2> QED BY <2>1, LeftFacts
<1> QED BY <1>1, <1>2, <1>3, <1>4, <1>5, <1>6, <1>7 DEF ThreadStep

\* A thread that does not hold the mutex moves no other thread and no loop counter of
\* the one that does.
LEMMA HolderAlone ==
  ASSUME Control, NEW t \in Thread, pc[t] \in Inside, [Next]_vars, ~ThreadStep(t)
  PROVE  pc'[t] \notin Inside \/ UNCHANGED <<pc[t], attempt>>
<1> USE DEF Control, ControlType, Go
<1>1. ASSUME NEW u \in Thread, u # t, ThreadStep(u) PROVE UNCHANGED <<pc[t], attempt>>
  <2>1. holder = t /\ pc[u] \notin Inside BY <1>1 DEF Mutex
  <2>2. Lock(u)
    BY <1>1, <2>1, InsideStep DEF ThreadStep, Unlock, Inside
  <2>3. holder = None BY <2>2 DEF Lock, Free
  <2> QED BY <2>1, <2>3, EngineAssumption
<1>2. ASSUME NEW c \in Call, Request(c) PROVE UNCHANGED <<pc[t], attempt>>
  BY <1>2 DEF Request, Inside, Thread
<1>3. CASE Exit \/ CommunicationLost \/ UNCHANGED vars
  BY <1>3 DEF Exit, CommunicationLost, threadVars, vars
<1>4. CASE Destroy
  BY <1>4 DEF Destroy, Inside, Thread
<1>5. CASE DestroyNext \/ Gone
  BY <1>5 DEF DestroyNext, Gone, Inside, Thread
<1>6. CASE Launch
  BY <1>6 DEF Launch, Living, Inside
<1> QED BY <1>1, <1>2, <1>3, <1>4, <1>5, <1>6 DEF Next

\* deviceMutex_ is held for boundedly many library calls, whatever fails.
THEOREM MutexReleased == Spec => MutexIsReleased
<1>1. ASSUME IInv, IInv', [Next]_vars
      PROVE  \A t \in Thread : pc[t] \in Inside =>
               IF ThreadStep(t)
               THEN LeftInside(pc'[t], attempt') < LeftInside(pc[t], attempt)
               ELSE pc'[t] \notin Inside \/ UNCHANGED <<pc[t], attempt>>
  <2> SUFFICES ASSUME NEW t \in Thread, pc[t] \in Inside
               PROVE  IF ThreadStep(t)
                      THEN LeftInside(pc'[t], attempt') < LeftInside(pc[t], attempt)
                      ELSE pc'[t] \notin Inside \/ UNCHANGED <<pc[t], attempt>>
    OBVIOUS
  <2> QED BY <1>1, NearerRelease, HolderAlone DEF IInv
<1> QED BY <1>1, Invariance, PTL DEF Spec, MutexIsReleased

=============================================================================
