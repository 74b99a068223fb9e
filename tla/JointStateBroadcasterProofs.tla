-------------------- MODULE JointStateBroadcasterProofs ---------------------
(***************************************************************************)
(* IInv of JointStateBroadcaster is inductive, for every set of joints,    *)
(* number of attempts and depth of a service's queue.                      *)
(***************************************************************************)
EXTENDS JointStateBroadcaster, TLAPS

\* Every step keeps the types.
LEMMA TypeStep ==
  ASSUME TypeOK, CallAgrees, Next
  PROVE  TypeOK'
<1> USE BroadcasterAssumption
<1> USE DEF TypeOK, CallAgrees, Service, callVars, handlerVars, powerVars
<1>1. CASE ServicesAppear BY <1>1 DEF ServicesAppear
<1>2. CASE ServicesVanish
  <2>1. serving' = TRUE \/ serving' = FALSE BY <1>2 DEF ServicesVanish
  <2>2. awaited' \in BOOLEAN /\ all_success' \in BOOLEAN BY <1>2, Zenon DEF ServicesVanish
  <2>3. pending' \in [Service -> 0 .. Depth] BY <1>2 DEF ServicesVanish, NoRequests
  <2>4. /\ handling' = "none" /\ left' = {}
        /\ UNCHANGED <<callVars, open, answer, powerVars, abandoned>>
    BY <1>2 DEF ServicesVanish
  <2> QED BY <2>1, <2>2, <2>3, <2>4
<1>3. CASE Respond
  <2>1. awaited' \in BOOLEAN BY <1>3, Zenon DEF Respond
  <2>2. answer' \in {"none", "success", "failure"} BY <1>3 DEF Respond
  <2>3. /\ handling' = "none"
        /\ UNCHANGED <<callVars, open, serving, pending, left, all_success, powerVars, abandoned>>
    BY <1>3 DEF Respond
  <2> QED BY <2>1, <2>2, <2>3
<1>4. CASE Activate BY <1>4 DEF Activate, Call
<1>5. CASE NotAvailable
  <2>1. abandoned' \in BOOLEAN BY <1>5, Zenon DEF NotAvailable, Retry, Fail
  <2>2. CASE attempt < MaxRetries /\ Call(service, attempt + 1)
    BY <1>5, <2>1, <2>2 DEF NotAvailable, Call
  <2>3. CASE Return("inactive") BY <1>5, <2>1, <2>3 DEF NotAvailable, Return
  <2> QED BY <1>5, <2>2, <2>3 DEF NotAvailable, Retry, Fail
<1>6. CASE Send BY <1>6 DEF Send
<1>7. CASE TimeOut
  <2>1. abandoned' \in BOOLEAN /\ awaited' \in BOOLEAN BY <1>7, Zenon DEF TimeOut, Retry, Fail
  <2>2. CASE attempt < MaxRetries /\ Call(service, attempt + 1)
    BY <1>7, <2>1, <2>2 DEF TimeOut, Call
  <2>3. CASE Return("inactive") BY <1>7, <2>1, <2>3 DEF TimeOut, Return
  <2> QED BY <1>7, <2>2, <2>3 DEF TimeOut, Retry, Fail
<1>8. CASE Answered
  <2>1. abandoned' \in BOOLEAN BY <1>8, Zenon DEF Answered, Fail
  <2>2. CASE Call("set_servo_on", 1) BY <1>8, <2>1, <2>2 DEF Answered, Call
  <2>3. CASE Return("inactive") \/ Return("active") BY <1>8, <2>1, <2>3 DEF Answered, Return
  <2> QED BY <1>8, <2>2, <2>3 DEF Answered, Fail
<1>9. CASE Configure BY <1>9 DEF Configure
<1>10. CASE Deactivate BY <1>10 DEF Deactivate, SwitchOff
<1>11. CASE Destroy BY <1>11 DEF Destroy, SwitchOff
<1>12. CASE Shutdown BY <1>12 DEF Shutdown, SwitchOff, GoOnToClose
<1>13. CASE Close
  <2>1. open' \in BOOLEAN BY <1>13, Zenon DEF Close, CloseDevice
  <2>2. /\ state' \in {"ended", "finalized"} /\ op' = "none" /\ pc' = "idle"
        /\ service' = "clear_amp_alarm" /\ attempt' = 0 /\ offLeft' = {}
    BY <1>13 DEF Close, Return
  <2> QED BY <1>13, <2>1, <2>2 DEF Close
<1>14. CASE Cleanup BY <1>14 DEF Cleanup, CloseDevice
<1>15. ASSUME NEW s \in Service, Take(s) PROVE TypeOK'
  BY <1>15 DEF Take, IsAwaited, Service
<1>16. ASSUME NEW j \in Joint, Handle(j) PROVE TypeOK'
  <2>1. all_success' \in BOOLEAN BY <1>16, Zenon DEF Handle, AllSuccess
  <2>2. /\ axis' \in [Joint -> {"on", "off"}] /\ left' \in SUBSET Joint
        /\ held' \in SUBSET Joint /\ disturbed' \in SUBSET Joint
        /\ UNCHANGED <<callVars, open, answer, serving, pending, handling, awaited, abandoned>>
    BY <1>16 DEF Handle
  <2> QED BY <2>1, <2>2
<1>17. ASSUME NEW j \in Joint, Disturb(j) PROVE TypeOK'
  BY <1>17 DEF Disturb
<1>18. ASSUME NEW j \in Joint, ServoOff(j) PROVE TypeOK'
  BY <1>18 DEF ServoOff, Return, GoOnToClose
<1> QED
  BY <1>1, <1>2, <1>3, <1>4, <1>5, <1>6, <1>7, <1>8, <1>9, <1>10, <1>11, <1>12,
            <1>13, <1>14, <1>15, <1>16, <1>17, <1>18
     DEF Next, CoreMotionNode, Broadcaster

\* Every step keeps callback, phase and state in agreement.
LEMMA CallStep ==
  ASSUME TypeOK, CallAgrees, Next
  PROVE  CallAgrees'
<1> USE BroadcasterAssumption
<1> USE DEF TypeOK, CallAgrees, Service, callVars, handlerVars, powerVars
<1>1. CASE ServicesAppear BY <1>1 DEF ServicesAppear
<1>2. CASE ServicesVanish BY <1>2 DEF ServicesVanish, NoRequests
<1>3. CASE Respond BY <1>3 DEF Respond
<1>4. CASE Activate BY <1>4 DEF Activate, Call
<1>5. CASE NotAvailable BY <1>5 DEF NotAvailable, Retry, Call, Fail, Return
<1>6. CASE Send BY <1>6 DEF Send
<1>7. CASE TimeOut BY <1>7 DEF TimeOut, Retry, Call, Fail, Return
<1>8. CASE Answered
  <2>1. CASE answer = "failure" /\ Fail BY <1>8, <2>1 DEF Answered, Fail, Return
  <2>2. CASE Call("set_servo_on", 1) /\ UNCHANGED abandoned BY <1>8, <2>2 DEF Answered, Call
  <2>3. CASE Return("active") /\ abandoned' = FALSE BY <1>8, <2>3 DEF Answered, Return
  <2> QED BY <1>8, <2>1, <2>2, <2>3 DEF Answered
<1>9. CASE Configure BY <1>9 DEF Configure
<1>10. CASE Deactivate BY <1>10 DEF Deactivate, SwitchOff
<1>11. CASE Destroy BY <1>11 DEF Destroy, SwitchOff
<1>12. CASE Shutdown BY <1>12 DEF Shutdown, SwitchOff, GoOnToClose
<1>13. CASE Close BY <1>13 DEF Close, CloseDevice, Return
<1>14. CASE Cleanup BY <1>14 DEF Cleanup, CloseDevice
<1>15. ASSUME NEW s \in Service, Take(s) PROVE CallAgrees'
  BY <1>15 DEF Take, IsAwaited, Service
<1>16. ASSUME NEW j \in Joint, Handle(j) PROVE CallAgrees'
  BY <1>16 DEF Handle, AllSuccess
<1>17. ASSUME NEW j \in Joint, Disturb(j) PROVE CallAgrees'
  BY <1>17 DEF Disturb
<1>18. ASSUME NEW j \in Joint, ServoOff(j) PROVE CallAgrees'
  BY <1>18 DEF ServoOff, Return, GoOnToClose
<1> QED
  BY <1>1, <1>2, <1>3, <1>4, <1>5, <1>6, <1>7, <1>8, <1>9, <1>10, <1>11, <1>12,
            <1>13, <1>14, <1>15, <1>16, <1>17, <1>18
     DEF Next, CoreMotionNode, Broadcaster

\* The request that is waited for stays the youngest, and is answered once.
LEMMA AnswerStep ==
  ASSUME TypeOK, CallAgrees, AnswerAgrees, Next
  PROVE  AnswerAgrees'
<1> USE BroadcasterAssumption
<1> USE DEF TypeOK, CallAgrees, AnswerAgrees, Service, callVars, handlerVars, powerVars
<1>1. CASE ServicesAppear BY <1>1 DEF ServicesAppear
<1>2. CASE ServicesVanish BY <1>2 DEF ServicesVanish, NoRequests
<1>3. CASE Respond BY <1>3 DEF Respond
<1>4. CASE Activate BY <1>4 DEF Activate, Call
<1>5. CASE NotAvailable BY <1>5 DEF NotAvailable, Retry, Call, Fail, Return
<1>6. CASE Send BY <1>6 DEF Send
<1>7. CASE TimeOut BY <1>7 DEF TimeOut, Retry, Call, Fail, Return
<1>8. CASE Answered BY <1>8 DEF Answered, Call, Fail, Return
<1>9. CASE Configure BY <1>9 DEF Configure
<1>10. CASE Deactivate BY <1>10 DEF Deactivate, SwitchOff
<1>11. CASE Destroy BY <1>11 DEF Destroy, SwitchOff
<1>12. CASE Shutdown BY <1>12 DEF Shutdown, SwitchOff, GoOnToClose
<1>13. CASE Close BY <1>13 DEF Close, CloseDevice, Return
<1>14. CASE Cleanup BY <1>14 DEF Cleanup, CloseDevice
<1>15. ASSUME NEW s \in Service, Take(s) PROVE AnswerAgrees'
  BY <1>15 DEF Take, IsAwaited, Service
<1>16. ASSUME NEW j \in Joint, Handle(j) PROVE AnswerAgrees'
  BY <1>16 DEF Handle, AllSuccess
<1>17. ASSUME NEW j \in Joint, Disturb(j) PROVE AnswerAgrees'
  BY <1>17 DEF Disturb
<1>18. ASSUME NEW j \in Joint, ServoOff(j) PROVE AnswerAgrees'
  BY <1>18 DEF ServoOff, Return, GoOnToClose
<1> QED
  BY <1>1, <1>2, <1>3, <1>4, <1>5, <1>6, <1>7, <1>8, <1>9, <1>10, <1>11, <1>12,
            <1>13, <1>14, <1>15, <1>16, <1>17, <1>18
     DEF Next, CoreMotionNode, Broadcaster

\* What a good answer stands for is true.
LEMMA PoweredStep ==
  ASSUME TypeOK, CallAgrees, AnswerAgrees, PoweredAgrees, Next
  PROVE  PoweredAgrees'
<1> USE BroadcasterAssumption
<1> USE DEF TypeOK, CallAgrees, AnswerAgrees, PoweredAgrees, SwitchedOn, ActiveMeansPowered, Service, callVars, handlerVars, powerVars
<1>1. CASE ServicesAppear BY <1>1 DEF ServicesAppear
<1>2. CASE ServicesVanish BY <1>2 DEF ServicesVanish, NoRequests
<1>3. CASE Respond BY <1>3 DEF Respond
<1>4. CASE Activate BY <1>4 DEF Activate, Call
<1>5. CASE NotAvailable BY <1>5 DEF NotAvailable, Retry, Call, Fail, Return
<1>6. CASE Send BY <1>6 DEF Send
<1>7. CASE TimeOut BY <1>7 DEF TimeOut, Retry, Call, Fail, Return
<1>8. CASE Answered BY <1>8 DEF Answered, Call, Fail, Return
<1>9. CASE Configure BY <1>9 DEF Configure
<1>10. CASE Deactivate BY <1>10 DEF Deactivate, SwitchOff
<1>11. CASE Destroy BY <1>11 DEF Destroy, SwitchOff
<1>12. CASE Shutdown BY <1>12 DEF Shutdown, SwitchOff, GoOnToClose
<1>13. CASE Close BY <1>13 DEF Close, CloseDevice, Return
<1>14. CASE Cleanup BY <1>14 DEF Cleanup, CloseDevice
<1>15. ASSUME NEW s \in Service, Take(s) PROVE PoweredAgrees'
  BY <1>15 DEF Take, IsAwaited, Service
<1>16. ASSUME NEW j \in Joint, Handle(j) PROVE PoweredAgrees'
  BY <1>16 DEF Handle, AllSuccess
<1>17. ASSUME NEW j \in Joint, Disturb(j) PROVE PoweredAgrees'
  BY <1>17 DEF Disturb
<1>18. ASSUME NEW j \in Joint, ServoOff(j) PROVE PoweredAgrees'
  BY <1>18 DEF ServoOff, Return, GoOnToClose
<1> QED
  BY <1>1, <1>2, <1>3, <1>4, <1>5, <1>6, <1>7, <1>8, <1>9, <1>10, <1>11, <1>12,
            <1>13, <1>14, <1>15, <1>16, <1>17, <1>18
     DEF Next, CoreMotionNode, Broadcaster

\* Power and the requests for it stay accounted for.
LEMMA PowerStep ==
  ASSUME TypeOK, CallAgrees, AnswerAgrees, PowerAccounted, Next
  PROVE  PowerAccounted'
<1> USE BroadcasterAssumption
<1> USE DEF TypeOK, CallAgrees, AnswerAgrees, PowerAccounted, Quiet, Service, callVars, handlerVars, powerVars
<1>1. CASE ServicesAppear BY <1>1 DEF ServicesAppear
<1>2. CASE ServicesVanish BY <1>2 DEF ServicesVanish, NoRequests
<1>3. CASE Respond BY <1>3 DEF Respond
<1>4. CASE Activate BY <1>4 DEF Activate, Call
<1>5. CASE NotAvailable BY <1>5 DEF NotAvailable, Retry, Call, Fail, Return
<1>6. CASE Send BY <1>6 DEF Send
<1>7. CASE TimeOut BY <1>7 DEF TimeOut, Retry, Call, Fail, Return
<1>8. CASE Answered BY <1>8 DEF Answered, Call, Fail, Return
<1>9. CASE Configure BY <1>9 DEF Configure
<1>10. CASE Deactivate BY <1>10 DEF Deactivate, SwitchOff
<1>11. CASE Destroy BY <1>11 DEF Destroy, SwitchOff
<1>12. CASE Shutdown BY <1>12 DEF Shutdown, SwitchOff, GoOnToClose
<1>13. CASE Close
  <2>1. offLeft' = {} /\ (~abandoned => held = {} /\ Quiet) BY <1>13 DEF Close, Return
  <2>2. UNCHANGED <<pending, handlerVars, powerVars, abandoned>> BY <1>13 DEF Close
  <2> QED BY <2>1, <2>2
<1>14. CASE Cleanup BY <1>14 DEF Cleanup, CloseDevice
<1>15. ASSUME NEW s \in Service, Take(s) PROVE PowerAccounted'
  BY <1>15 DEF Take, IsAwaited, Service
<1>16. ASSUME NEW j \in Joint, Handle(j) PROVE PowerAccounted'
  BY <1>16 DEF Handle, AllSuccess
<1>17. ASSUME NEW j \in Joint, Disturb(j) PROVE PowerAccounted'
  BY <1>17 DEF Disturb
<1>18. ASSUME NEW j \in Joint, ServoOff(j) PROVE PowerAccounted'
  <2>1. UNCHANGED <<pending, handlerVars, abandoned>> BY <1>18 DEF ServoOff
  <2>2. service = "clear_amp_alarm" BY <1>18 DEF ServoOff
  <2>3. ~abandoned => open \/ held = {} BY <1>18 DEF ServoOff
  <2> QED BY <1>18, <2>1, <2>2, <2>3 DEF ServoOff, Return, GoOnToClose
<1> QED
  BY <1>1, <1>2, <1>3, <1>4, <1>5, <1>6, <1>7, <1>8, <1>9, <1>10, <1>11, <1>12,
            <1>13, <1>14, <1>15, <1>16, <1>17, <1>18
     DEF Next, CoreMotionNode, Broadcaster

LEMMA InitIInv == Init => IInv
<1> SUFFICES ASSUME Init PROVE IInv
  OBVIOUS
<1> USE BroadcasterAssumption
<1>1. TypeOK
  <2>1. open \in BOOLEAN /\ serving \in BOOLEAN /\ awaited \in BOOLEAN
        /\ all_success \in BOOLEAN /\ abandoned \in BOOLEAN
    BY Zenon DEF Init
  <2>2. pending \in [Service -> 0 .. Depth] /\ axis \in [Joint -> {"on", "off"}]
    BY DEF Init, NoRequests
  <2> QED BY <2>1, <2>2 DEF TypeOK, Init, Service
<1>2. CallAgrees /\ AnswerAgrees BY DEF Init, CallAgrees, AnswerAgrees
<1>3. PoweredAgrees BY DEF Init, PoweredAgrees, ActiveMeansPowered
<1>4. PowerAccounted BY DEF Init, PowerAccounted, Quiet, NoRequests, Service
<1> QED BY <1>1, <1>2, <1>3, <1>4 DEF IInv

\* A stuttering step changes nothing of it.
LEMMA StutterIInv ==
  ASSUME IInv, UNCHANGED vars
  PROVE  IInv'
BY DEF IInv, TypeOK, CallAgrees, AnswerAgrees, PoweredAgrees, SwitchedOn, ActiveMeansPowered,
       PowerAccounted, Quiet, vars, callVars, handlerVars, powerVars

\* The invariant the theorems rest on holds in every reachable state.
THEOREM Inductive == Spec => []IInv
<1>1. ASSUME IInv, Next PROVE IInv'
  BY <1>1, TypeStep, CallStep, AnswerStep, PoweredStep, PowerStep DEF IInv
<1>2. IInv /\ [Next]_vars => IInv'
  BY <1>1, StutterIInv
<1> QED BY InitIInv, <1>2, PTL DEF Spec

\* Type correctness of the broadcaster and of the services it calls.
THEOREM TypeCorrect == Spec => []TypeOK
<1>1. IInv => TypeOK BY DEF IInv
<1> QED BY Inductive, <1>1, PTL

\* An activation succeeds only with every joint under power.
THEOREM ActivePowered == Spec => []ActiveMeansPowered
<1>1. IInv => ActiveMeansPowered BY DEF IInv, PoweredAgrees
<1> QED BY Inductive, <1>1, PTL

\* The power an activation took is given back, and no late request takes it
\* again, however often requests were repeated.
THEOREM PowerReturned == Spec => []PowerIsReturned
<1>1. IInv => PowerIsReturned BY DEF IInv, CallAgrees, PowerAccounted, PowerIsReturned
<1> QED BY Inductive, <1>1, PTL

(***************************************************************************)
(* The broadcaster implements ManagedNode.                                 *)
(***************************************************************************)

\* The callbacks take the transitions of a managed node: on_activate may give up,
\* the way down always ends where it should.
LEMMA LifeMoves ==
  ASSUME TypeOK, CallAgrees, [Next]_vars
  PROVE  \/ \E t \in Managed!Transition :
              Managed!Begin(t) \/ Managed!Succeed(t) \/ Managed!Refuse(t)
         \/ Managed!BeginExit \/ Managed!Exit \/ UNCHANGED lifeState
<1> DEFINE Goal ==
      \/ \E t \in Managed!Transition :
           Managed!Begin(t) \/ Managed!Succeed(t) \/ Managed!Refuse(t)
      \/ Managed!BeginExit \/ Managed!Exit \/ UNCHANGED lifeState
<1> USE DEF TypeOK, CallAgrees, lifeState, callVars, Managed!Transition, Managed!Shutdowns,
            Managed!MayFail, Managed!Begin, Managed!Succeed, Managed!Refuse, Managed!BeginExit,
            Managed!Exit, Managed!From, Managed!To, Managed!During
<1>1. CASE Configure
  <2>1. Managed!Succeed("configure") \/ UNCHANGED lifeState BY <1>1 DEF Configure
  <2> QED BY <2>1
<1>2. CASE Activate
  <2>1. Managed!Begin("activate") BY <1>2 DEF Activate, Call
  <2> QED BY <2>1
<1>3. CASE NotAvailable \/ TimeOut
  <2>1. op = "activate" /\ (op' = "activate" \/ Return("inactive"))
    BY <1>3 DEF NotAvailable, TimeOut, Retry, Call, Fail
  <2>2. UNCHANGED lifeState \/ Managed!Refuse("activate") BY <2>1 DEF Return
  <2> QED BY <2>2
<1>4. CASE Answered
  <2>1. op = "activate" /\ (op' = "activate" \/ Return("inactive") \/ Return("active"))
    BY <1>4 DEF Answered, Call, Fail
  <2>2. UNCHANGED lifeState \/ Managed!Refuse("activate") \/ Managed!Succeed("activate")
    BY <2>1 DEF Return
  <2> QED BY <2>2
<1>5. CASE Deactivate
  <2>1. Managed!Begin("deactivate") BY <1>5 DEF Deactivate, SwitchOff
  <2> QED BY <2>1
<1>6. CASE Destroy
  <2>1. Managed!BeginExit BY <1>6 DEF Destroy, SwitchOff
  <2> QED BY <2>1
<1>7. CASE Shutdown
  <2>1. \/ Managed!Begin("shutdownActive") \/ Managed!Begin("shutdownInactive")
        \/ Managed!Begin("shutdownUnconfigured")
    BY <1>7 DEF Shutdown, SwitchOff, GoOnToClose
  <2> QED BY <2>1
<1>8. ASSUME NEW j \in Joint, ServoOff(j) PROVE Goal
  <2>1. UNCHANGED lifeState \/ Managed!Succeed("deactivate")
    BY <1>8 DEF ServoOff, Return, GoOnToClose
  <2> QED BY <2>1
<1>9. CASE Close
  <2>1. op \in {"shutdown", "destroy"} /\ Return(IF op = "destroy" THEN "ended" ELSE "finalized")
    BY <1>9 DEF Close
  <2>2. Managed!Exit \/ Managed!Succeed("shutdownActive") BY <2>1 DEF Return
  <2> QED BY <2>2
<1>10. CASE Cleanup
  <2>1. Managed!Succeed("cleanup") BY <1>10 DEF Cleanup
  <2> QED BY <2>1
<1>11. CASE CoreMotionNode \/ Send \/ UNCHANGED vars
  BY <1>11 DEF CoreMotionNode, ServicesAppear, ServicesVanish, Respond, Take, Handle, Disturb,
    Send, vars
<1> QED BY <1>1, <1>2, <1>3, <1>4, <1>5, <1>6, <1>7, <1>8, <1>9, <1>10, <1>11
        DEF Next, Broadcaster

\* The broadcaster comes to hold power while it is activated, at no other time.
LEMMA PowerTaken ==
  ASSUME IInv, [Next]_vars, abandoned \/ held = {}, ~abandoned', held' # {}
  PROVE  lifeState' \in {"activating", "active"}
<1> USE DEF IInv, TypeOK, CallAgrees, Service, callVars, handlerVars, powerVars, lifeState
<1>1. CASE Answered
  BY <1>1 DEF Answered, Call, Fail, Return
<1>2. ASSUME NEW j \in Joint, Handle(j) PROVE lifeState' \in {"activating", "active"}
  <2>1. ~abandoned /\ handling = "set_servo_on" BY <1>2 DEF Handle
  <2>2. op = "activate" BY <2>1 DEF PowerAccounted, Quiet
  <2> QED BY <1>2, <2>2 DEF Handle
<1>3. CASE NotAvailable \/ TimeOut
  BY <1>3 DEF NotAvailable, TimeOut, Retry, Call, Fail, Return
<1>4. CASE \/ ServicesAppear \/ ServicesVanish \/ Respond \/ \E s \in Service : Take(s)
           \/ \E j \in Joint : Disturb(j) \/ ServoOff(j)
           \/ Configure \/ Activate \/ Deactivate \/ Cleanup \/ Shutdown \/ Destroy \/ Send
           \/ Close \/ UNCHANGED vars
  <2>1. abandoned' = abandoned /\ held' \subseteq held
    BY <1>4 DEF ServicesAppear, ServicesVanish, Respond, Take, Disturb, ServoOff, Configure,
      Activate, Deactivate, Cleanup, Shutdown, Destroy, SwitchOff, Send, Close, vars
  <2> QED BY <2>1
<1> QED BY <1>1, <1>2, <1>3, <1>4 DEF Next, CoreMotionNode, Broadcaster

\* The broadcaster goes up and down as a managed node does; it takes power on its
\* way up only, and holds none once it is down.
THEOREM Implementation == Spec => ImplementsNode
<1>1. Init => Managed!Init
  BY DEF Init, Managed!Init, lifeState
<1>2. IInv /\ IInv' /\ [Next]_vars => [Managed!Next]_(Managed!vars)
  <2> SUFFICES ASSUME IInv, IInv', [Next]_vars PROVE Managed!Next
    OBVIOUS
  <2>1. \/ \E t \in Managed!Transition :
             Managed!Begin(t) \/ Managed!Succeed(t) \/ Managed!Refuse(t)
        \/ Managed!BeginExit \/ Managed!Exit \/ UNCHANGED lifeState
    BY LifeMoves DEF IInv
  <2>2. ASSUME ~abandoned', held' # {}
        PROVE  lifeState' \in Managed!Working
    BY <2>2 DEF IInv, TypeOK, Service, CallAgrees, PowerAccounted, lifeState, Managed!Working,
      Managed!Starting
  <2>3. ASSUME ~abandoned', held' # {}, ~(~abandoned /\ held # {})
        PROVE  lifeState' \in Managed!Starting
    BY <2>3, PowerTaken DEF Managed!Starting
  <2> QED BY <2>1, <2>2, <2>3 DEF Managed!Next
<1> QED BY <1>1, <1>2, Inductive, PTL DEF Spec, ImplementsNode, Managed!Spec

\* An attempt, or the call of the other service after it, leaves less to ask.
LEMMA AskingEnds ==
  ASSUME TypeOK, CallAgrees, NotAvailable \/ Send \/ TimeOut \/ Answered
  PROVE  /\ op = "activate"
         /\ \/ op' = "none"
            \/ op' = op /\ LeftToAsk(pc', service', attempt') < LeftToAsk(pc, service, attempt)
<1> USE BroadcasterAssumption
<1> USE DEF TypeOK, CallAgrees, LeftToAsk, Service
<1>1. op = "activate"
  BY DEF NotAvailable, Send, TimeOut, Answered
<1>2. CASE NotAvailable \/ TimeOut
  <2>1. CASE attempt < MaxRetries /\ Call(service, attempt + 1)
    BY <1>1, <1>2, <2>1 DEF NotAvailable, TimeOut, Call
  <2>2. CASE Fail BY <1>1, <2>2 DEF Fail, Return
  <2> QED BY <1>2, <2>1, <2>2 DEF NotAvailable, TimeOut, Retry
<1>3. CASE Send BY <1>1, <1>3 DEF Send
<1>4. CASE Answered
  <2>1. CASE service = "clear_amp_alarm" /\ Call("set_servo_on", 1)
    BY <1>1, <1>4, <2>1 DEF Answered, Call
  <2>2. CASE Fail \/ Return("active") BY <1>1, <2>2 DEF Fail, Return
  <2> QED BY <1>4, <2>1, <2>2 DEF Answered
<1> QED BY <1>1, <1>2, <1>3, <1>4

\* A callback ends after finitely many steps of its own, and takes no others.
THEOREM CallbacksEnd == Spec => CallbackEnds
<1> DEFINE Progress ==
      \/ op' = "none"
      \/ op = "activate" /\ op' = op
         /\ LeftToAsk(pc', service', attempt') < LeftToAsk(pc, service, attempt)
      \/ op # "activate" /\ op' = op /\ offLeft' \subseteq offLeft /\ offLeft' # offLeft
<1>1. ASSUME IInv, [Next]_vars, op # "none"
      PROVE  IF Broadcaster THEN Progress ELSE UNCHANGED callVars
  <2>1. TypeOK /\ CallAgrees BY <1>1 DEF IInv
  <2>2. CASE NotAvailable \/ Send \/ TimeOut \/ Answered
    BY <2>1, <2>2, AskingEnds DEF Broadcaster
  <2>3. CASE Close
    <3>1. op' = "none" BY <2>3 DEF Close, Return
    <3> QED BY <2>3, <3>1 DEF Broadcaster
  <2>4. ASSUME NEW j \in Joint, ServoOff(j) PROVE Progress /\ Broadcaster
    <3>1. j \in offLeft /\ op # "activate" BY <2>1, <2>4 DEF ServoOff, CallAgrees
    <3>2. Progress BY <2>4, <3>1 DEF ServoOff, Return, GoOnToClose
    <3> QED BY <2>4, <3>2 DEF Broadcaster
  <2>5. ~(Configure \/ Activate \/ Deactivate \/ Cleanup \/ Shutdown \/ Destroy)
    BY <1>1, <2>1 DEF CallAgrees, Configure, Activate, Deactivate, Cleanup, Shutdown, Destroy
  <2>6. CASE ~Broadcaster
    BY <1>1, <2>6 DEF Next, CoreMotionNode, ServicesAppear, ServicesVanish, Respond, Take,
      Handle, Disturb, vars, callVars
  <2> QED BY <2>2, <2>3, <2>4, <2>5, <2>6 DEF Broadcaster
<1> QED BY <1>1, Inductive, PTL DEF Spec, CallbackEnds

=============================================================================
