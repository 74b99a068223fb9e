----------------------- MODULE SystemHardwareProofs ------------------------
(***************************************************************************)
(* IInv of SystemHardware is inductive, for every set of joints, of speeds *)
(* and every number of attempts: the component gives back the power it     *)
(* took, cuts it at rest only, and its command cache tells the truth.      *)
(***************************************************************************)
EXTENDS SystemHardware, TLAPS

\* What follows stopAllAxes: the callback returns, or the device is closed.
LEMMA StoppedCases ==
  ASSUME op \in {"deactivate", "error", "shutdown"}, Stopped
  PROVE  \/ op = "deactivate" /\ Return("inactive")
         \/ op = "error" /\ Return("unconfigured")
         \/ op = "shutdown" /\ Goto("close", {}, 0)
<1>1. CASE op = "deactivate" BY <1>1 DEF Stopped
<1>2. CASE op = "error" BY <1>2 DEF Stopped
<1>3. CASE op = "shutdown" BY <1>3 DEF Stopped
<1> QED BY <1>1, <1>2, <1>3

\* Every step keeps the variables in their types.
LEMMA TypeStep ==
  ASSUME TypeOK, CallAgrees, Next
  PROVE  TypeOK'
<1> USE HardwareAssumption
<1> USE DEF TypeOK, Powered, Moving, AxisState, Velocities, Phase, Still, NaN, CallAgrees,
           axisVars, commandVars, jointVars, callVars, settings
<1>1. CASE Create
  <2>1. open' \in BOOLEAN
    BY <1>1, Zenon DEF Create, CloseDevice
  <2>2. UNCHANGED <<axisVars, jointVars, settings>> BY <1>1 DEF Create
  <2>3. /\ UNCHANGED <<state, turn>> /\ op' \in {"configure", "error"}
        /\ pc' \in {"create", "import", "stop"} /\ todo' \in SUBSET Joint
        /\ attempt' \in 0 .. MaxRetries
    BY <1>1 DEF Create, Goto, Begin, OnError
  <2> QED BY <2>1, <2>2, <2>3
<1>2. CASE Import BY <1>2 DEF Import, Goto, Begin, OnError
<1>3. CASE Seed
  <2>1. communicating' \in BOOLEAN /\ seeded' \in BOOLEAN
    BY <1>3, Zenon DEF Seed, Blind, Reseed, Uncommanded
  <2>2. UNCHANGED <<open, axis, moved, powered, settings>> BY <1>3 DEF Seed
  <2>3. /\ cmd' \in [VelocityJoint -> Velocities \cup {NaN}]
        /\ lastCmd' \in [VelocityJoint -> Velocities \cup {NaN}]
        /\ feedback' \in [VelocityJoint -> {"ready", "lost", "unknown"}]
        /\ excused' \in SUBSET VelocityJoint /\ given' \in SUBSET VelocityJoint
    BY <1>3 DEF Seed, Observe, Blind, Reseed, Uncommanded
  <2>4. /\ state' \in {"inactive", "active"} /\ op' = "none" /\ pc' = "idle"
        /\ todo' = {} /\ attempt' = 0 /\ turn' = "read"
    BY <1>3 DEF Seed, Return
  <2> QED BY <2>1, <2>2, <2>3, <2>4
<1>4. CASE Await BY <1>4 DEF Await, Observe, AwaitAgain, Goto, Begin, OnError
<1>5. CASE Wait
  <2>1. UNCHANGED <<open, axis, excused, jointVars, settings>> BY <1>5 DEF Wait
  <2>2. moved' = {} /\ powered' \in SUBSET Joint BY <1>5 DEF Wait
  <2>3. op \in {"deactivate", "error", "shutdown"} BY <1>5 DEF Wait
  <2>4. CASE Goto("servoOff", Joint, 0) BY <2>1, <2>2, <2>4 DEF Goto, Begin
  <2>5. CASE Stopped
    BY <2>1, <2>2, <2>3, <2>5, StoppedCases DEF Return, Goto, Begin
  <2> QED BY <1>5, <2>4, <2>5 DEF Wait
<1>6. CASE Close
  <2>1. open' \in BOOLEAN
    BY <1>6, Zenon DEF Close, End, CloseDevice
  <2>2. communicating' \in BOOLEAN /\ seeded' \in BOOLEAN
    BY <1>6, Zenon DEF Close, End, Blind, Reseed, Uncommanded, jointVars, commandVars
  <2>3. /\ cmd' \in [VelocityJoint -> Velocities \cup {NaN}]
        /\ lastCmd' \in [VelocityJoint -> Velocities \cup {NaN}]
        /\ feedback' \in [VelocityJoint -> {"ready", "lost", "unknown"}]
        /\ excused' \in SUBSET VelocityJoint /\ given' \in SUBSET VelocityJoint
    BY <1>6 DEF Close, End, Blind, Reseed, Uncommanded
  <2>4. /\ state' \in {"unconfigured", "finalized"} /\ op' = "none" /\ pc' = "idle"
        /\ todo' = {} /\ attempt' = 0 /\ turn' = "read"
    BY <1>6 DEF Close, End, Return
  <2>5. UNCHANGED <<axis, moved, settings>> /\ powered' \in SUBSET Joint
    BY <1>6 DEF Close
  <2> QED BY <2>1, <2>2, <2>3, <2>4, <2>5
<1>7. CASE Configure BY <1>7 DEF Configure, Begin
<1>8. CASE Activate BY <1>8 DEF Activate, Begin
<1>9. CASE Deactivate BY <1>9 DEF Deactivate, Begin
<1>10. CASE Cleanup BY <1>10 DEF Cleanup, Begin
<1>11. CASE Shutdown BY <1>11 DEF Shutdown, Begin
<1>12. CASE Destroy
  <2>1. open' \in BOOLEAN
    BY <1>12, Zenon DEF Destroy, End, CloseDevice
  <2>2. communicating' \in BOOLEAN /\ seeded' \in BOOLEAN
    BY <1>12, Zenon DEF Destroy, End, Blind, Reseed, Uncommanded, jointVars, commandVars
  <2>3. /\ cmd' \in [VelocityJoint -> Velocities \cup {NaN}]
        /\ lastCmd' \in [VelocityJoint -> Velocities \cup {NaN}]
        /\ feedback' \in [VelocityJoint -> {"ready", "lost", "unknown"}]
        /\ excused' \in SUBSET VelocityJoint /\ given' \in SUBSET VelocityJoint
    BY <1>12 DEF Destroy, End, Blind, Reseed, Uncommanded
  <2>4. /\ state' \in {"unconfigured", "finalized"} /\ op' = "none" /\ pc' = "idle"
        /\ todo' = {} /\ attempt' = 0 /\ turn' = "read"
    BY <1>12 DEF Destroy, End, Return
  <2>5. UNCHANGED <<axis, moved, settings>> /\ powered' \in SUBSET Joint
    BY <1>12 DEF Destroy
  <2> QED BY <2>1, <2>2, <2>3, <2>4, <2>5
<1>13. CASE Read
  <2>1. communicating' \in BOOLEAN /\ seeded' \in BOOLEAN
    BY <1>13, Zenon DEF Read, Blind, commandVars
  <2>2. UNCHANGED <<open, axis, moved, powered, commandVars, lastCmd, settings>> BY <1>13 DEF Read
  <2>3. /\ feedback' \in [VelocityJoint -> {"ready", "lost", "unknown"}]
        /\ excused' \in SUBSET VelocityJoint
    BY <1>13 DEF Read, Observe, Blind
  <2>4. CASE turn' = "write" /\ UNCHANGED <<state, op, pc, todo, attempt>>
    BY <2>1, <2>2, <2>3, <2>4
  <2>5. CASE OnError BY <2>1, <2>2, <2>3, <2>5 DEF OnError, Begin
  <2> QED BY <1>13, <2>4, <2>5 DEF Read, ReadReturns
<1>14. CASE Write BY <1>14 DEF Write, Cycle, Begin, Return
<1>15. CASE EngineChanges BY <1>15 DEF EngineChanges
<1>16. ASSUME NEW j \in Joint, ServoOn(j) PROVE TypeOK'
  BY <1>16 DEF ServoOn, Command, Works, Done, Goto, Begin, ActivationFails, OnError
<1>17. ASSUME NEW j \in Joint, Stop(j) PROVE TypeOK'
  <2>1. UNCHANGED <<open, moved, powered, jointVars, settings>> BY <1>17 DEF Stop
  <2>2. axis' \in [Joint -> AxisState] /\ excused' \in SUBSET VelocityJoint
    BY <1>17 DEF Stop, Command, Slowed
  <2>3. op \in {"deactivate", "error", "shutdown"} BY <1>17 DEF Stop
  <2>4. CASE Goto("wait", {}, 0) \/ Goto(pc, todo \ {j}, attempt)
    BY <2>1, <2>2, <2>4 DEF Goto, Begin
  <2>5. CASE Stopped
    BY <2>1, <2>2, <2>3, <2>5, StoppedCases DEF Return, Goto, Begin
  <2> QED BY <1>17, <2>4, <2>5 DEF Stop, Done
<1>18. ASSUME NEW j \in Joint, ServoOff(j) PROVE TypeOK'
  <2>1. UNCHANGED <<open, jointVars, settings>> BY <1>18 DEF ServoOff
  <2>2. /\ axis' \in [Joint -> AxisState] /\ excused' \in SUBSET VelocityJoint
        /\ moved' \in SUBSET Joint /\ powered' \in SUBSET Joint
    BY <1>18 DEF ServoOff, Command
  <2>3. op \in {"deactivate", "error", "shutdown"} BY <1>18 DEF ServoOff
  <2>4. CASE Goto(pc, todo \ {j}, attempt) BY <2>1, <2>2, <2>4 DEF Goto, Begin
  <2>5. CASE Stopped
    BY <2>1, <2>2, <2>3, <2>5, StoppedCases DEF Return, Goto, Begin
  <2> QED BY <1>18, <2>4, <2>5 DEF ServoOff, Done
<1>19. ASSUME NEW j \in Joint, Disturb(j) PROVE TypeOK'
  BY <1>19 DEF Disturb
<1>20. ASSUME NEW j \in Joint, ComesToRest(j) PROVE TypeOK'
  BY <1>20 DEF ComesToRest
<1>21. ASSUME NEW j \in VelocityJoint, SendAccepted(j) PROVE TypeOK'
  BY <1>21 DEF SendAccepted, Due, Command, Works, Slowed, Done, Goto, Begin, Return
<1>22. ASSUME NEW j \in VelocityJoint, SendRefused(j) PROVE TypeOK'
  BY <1>22 DEF SendRefused, Due, Forget, Done, Goto, Begin, Return
<1>23. ASSUME NEW j \in VelocityJoint, Skip(j) PROVE TypeOK'
  BY <1>23 DEF Skip, Due, Forget, Done, Goto, Begin, Return
<1>24. ASSUME NEW j \in VelocityJoint, NEW v \in Velocities \cup {NaN}, WriteCommand(j, v) PROVE TypeOK'
  BY <1>24 DEF WriteCommand
<1> QED BY <1>1, <1>2, <1>3, <1>4, <1>5, <1>6, <1>7, <1>8, <1>9, <1>10, <1>11, <1>12, <1>13, <1>14, <1>15, <1>16, <1>17, <1>18, <1>19, <1>20, <1>21, <1>22, <1>23, <1>24
        DEF Next, Step, Request, Environment

\* Every step keeps the phase, the callback and the state together.
LEMMA CallStep ==
  ASSUME TypeOK, CallAgrees, Next
  PROVE  CallAgrees'
<1> USE HardwareAssumption
<1> USE DEF TypeOK, CallAgrees, Phase,
           axisVars, commandVars, jointVars, callVars, settings
<1>1. CASE Create BY <1>1 DEF Create, CloseDevice, Goto, Begin, OnError
<1>2. CASE Import BY <1>2 DEF Import, Goto, Begin, OnError
<1>3. CASE Seed BY <1>3 DEF Seed, Observe, Blind, Reseed, Uncommanded, Return
<1>4. CASE Await BY <1>4 DEF Await, Observe, AwaitAgain, Goto, Begin, OnError
<1>5. CASE Wait BY <1>5 DEF Wait, AtRest, Works, Goto, Begin, Stopped, Return
<1>6. CASE Close BY <1>6 DEF Close, CloseDevice, Return, End, Reseed, Uncommanded, Blind
<1>7. CASE Configure BY <1>7 DEF Configure, Begin
<1>8. CASE Activate BY <1>8 DEF Activate, Begin
<1>9. CASE Deactivate BY <1>9 DEF Deactivate, Begin
<1>10. CASE Cleanup BY <1>10 DEF Cleanup, Begin
<1>11. CASE Shutdown BY <1>11 DEF Shutdown, Begin
<1>12. CASE Destroy BY <1>12 DEF Destroy, End, CloseDevice, Return, Reseed, Uncommanded, Blind
<1>13. CASE Read BY <1>13 DEF Read, Cycle, Observe, Blind, ReadReturns, OnError, Begin
<1>14. CASE Write BY <1>14 DEF Write, Cycle, Begin, Return
<1>15. CASE EngineChanges BY <1>15 DEF EngineChanges
<1>16. ASSUME NEW j \in Joint, ServoOn(j) PROVE CallAgrees'
  BY <1>16 DEF ServoOn, Command, Works, Done, Goto, Begin, ActivationFails, OnError
<1>17. ASSUME NEW j \in Joint, Stop(j) PROVE CallAgrees'
  BY <1>17 DEF Stop, Command, Works, Slowed, Done, Goto, Begin, Stopped, Return
<1>18. ASSUME NEW j \in Joint, ServoOff(j) PROVE CallAgrees'
  BY <1>18 DEF ServoOff, Command, Works, Done, Goto, Begin, Stopped, Return
<1>19. ASSUME NEW j \in Joint, Disturb(j) PROVE CallAgrees'
  BY <1>19 DEF Disturb
<1>20. ASSUME NEW j \in Joint, ComesToRest(j) PROVE CallAgrees'
  BY <1>20 DEF ComesToRest
<1>21. ASSUME NEW j \in VelocityJoint, SendAccepted(j) PROVE CallAgrees'
  BY <1>21 DEF SendAccepted, Due, Command, Works, Slowed, Done, Goto, Begin, Return
<1>22. ASSUME NEW j \in VelocityJoint, SendRefused(j) PROVE CallAgrees'
  BY <1>22 DEF SendRefused, Due, Forget, Done, Goto, Begin, Return
<1>23. ASSUME NEW j \in VelocityJoint, Skip(j) PROVE CallAgrees'
  BY <1>23 DEF Skip, Due, Forget, Done, Goto, Begin, Return
<1>24. ASSUME NEW j \in VelocityJoint, NEW v \in Velocities \cup {NaN}, WriteCommand(j, v) PROVE CallAgrees'
  BY <1>24 DEF WriteCommand
<1> QED BY <1>1, <1>2, <1>3, <1>4, <1>5, <1>6, <1>7, <1>8, <1>9, <1>10, <1>11, <1>12, <1>13, <1>14, <1>15, <1>16, <1>17, <1>18, <1>19, <1>20, <1>21, <1>22, <1>23, <1>24
        DEF Next, Step, Request, Environment

\* Power is held while the component is active, and on the way there and back.
LEMMA PowerStep ==
  ASSUME TypeOK, CallAgrees, PowerAccounted, Next
  PROVE  PowerAccounted'
<1> USE HardwareAssumption
<1> USE DEF TypeOK, CallAgrees, Phase, PowerAccounted, PowerIsReturned,
           axisVars, commandVars, jointVars, callVars, settings
<1>1. CASE Create BY <1>1 DEF Create, CloseDevice, Goto, Begin, OnError
<1>2. CASE Import BY <1>2 DEF Import, Goto, Begin, OnError
<1>3. CASE Seed BY <1>3 DEF Seed, Observe, Blind, Reseed, Uncommanded, Return
<1>4. CASE Await BY <1>4 DEF Await, Observe, AwaitAgain, Goto, Begin, OnError
<1>5. CASE Wait BY <1>5 DEF Wait, AtRest, Works, Goto, Begin, Stopped, Return
<1>6. CASE Close BY <1>6 DEF Close, CloseDevice, Return, End, Reseed, Uncommanded, Blind
<1>7. CASE Configure BY <1>7 DEF Configure, Begin
<1>8. CASE Activate BY <1>8 DEF Activate, Begin
<1>9. CASE Deactivate BY <1>9 DEF Deactivate, Begin
<1>10. CASE Cleanup BY <1>10 DEF Cleanup, Begin
<1>11. CASE Shutdown BY <1>11 DEF Shutdown, Begin
<1>12. CASE Destroy BY <1>12 DEF Destroy, End, CloseDevice, Return, Reseed, Uncommanded, Blind
<1>13. CASE Read BY <1>13 DEF Read, Cycle, Observe, Blind, ReadReturns, OnError, Begin
<1>14. CASE Write BY <1>14 DEF Write, Cycle, Begin, Return
<1>15. CASE EngineChanges BY <1>15 DEF EngineChanges
<1>16. ASSUME NEW j \in Joint, ServoOn(j) PROVE PowerAccounted'
  BY <1>16 DEF ServoOn, Command, Works, Done, Goto, Begin, ActivationFails, OnError
<1>17. ASSUME NEW j \in Joint, Stop(j) PROVE PowerAccounted'
  BY <1>17 DEF Stop, Command, Works, Slowed, Done, Goto, Begin, Stopped, Return
<1>18. ASSUME NEW j \in Joint, ServoOff(j) PROVE PowerAccounted'
  BY <1>18 DEF ServoOff, Command, Works, Done, Goto, Begin, Stopped, Return
<1>19. ASSUME NEW j \in Joint, Disturb(j) PROVE PowerAccounted'
  BY <1>19 DEF Disturb
<1>20. ASSUME NEW j \in Joint, ComesToRest(j) PROVE PowerAccounted'
  BY <1>20 DEF ComesToRest
<1>21. ASSUME NEW j \in VelocityJoint, SendAccepted(j) PROVE PowerAccounted'
  BY <1>21 DEF SendAccepted, Due, Command, Works, Slowed, Done, Goto, Begin, Return
<1>22. ASSUME NEW j \in VelocityJoint, SendRefused(j) PROVE PowerAccounted'
  BY <1>22 DEF SendRefused, Due, Forget, Done, Goto, Begin, Return
<1>23. ASSUME NEW j \in VelocityJoint, Skip(j) PROVE PowerAccounted'
  BY <1>23 DEF Skip, Due, Forget, Done, Goto, Begin, Return
<1>24. ASSUME NEW j \in VelocityJoint, NEW v \in Velocities \cup {NaN}, WriteCommand(j, v) PROVE PowerAccounted'
  BY <1>24 DEF WriteCommand
<1> QED BY <1>1, <1>2, <1>3, <1>4, <1>5, <1>6, <1>7, <1>8, <1>9, <1>10, <1>11, <1>12, <1>13, <1>14, <1>15, <1>16, <1>17, <1>18, <1>19, <1>20, <1>21, <1>22, <1>23, <1>24
        DEF Next, Step, Request, Environment

\* What counts as sent is what the axis does.
LEMMA CacheStep ==
  ASSUME TypeOK, CallAgrees, CacheAgrees, Next
  PROVE  CacheAgrees'
<1> USE HardwareAssumption
<1> USE DEF TypeOK, Powered, Moving, AxisState, Velocities, Phase, Still, NaN, CallAgrees, CacheAgrees, Obeys,
           axisVars, commandVars, jointVars, callVars, settings
<1>1. CASE Create BY <1>1 DEF Create, CloseDevice, Goto, Begin, OnError
<1>2. CASE Import BY <1>2 DEF Import, Goto, Begin, OnError
<1>3. CASE Seed BY <1>3 DEF Seed, Observe, Blind, Reseed, Uncommanded, Return
<1>4. CASE Await BY <1>4 DEF Await, Observe, AwaitAgain, Goto, Begin, OnError
<1>5. CASE Wait BY <1>5 DEF Wait, AtRest, Works, Goto, Begin, Stopped, Return
<1>6. CASE Close BY <1>6 DEF Close, CloseDevice, Return, End, Reseed, Uncommanded, Blind
<1>7. CASE Configure BY <1>7 DEF Configure, Begin
<1>8. CASE Activate BY <1>8 DEF Activate, Begin
<1>9. CASE Deactivate BY <1>9 DEF Deactivate, Begin
<1>10. CASE Cleanup BY <1>10 DEF Cleanup, Begin
<1>11. CASE Shutdown BY <1>11 DEF Shutdown, Begin
<1>12. CASE Destroy BY <1>12 DEF Destroy, End, CloseDevice, Return, Reseed, Uncommanded, Blind
<1>13. CASE Read BY <1>13 DEF Read, Cycle, Observe, Blind, ReadReturns, OnError, Begin
<1>14. CASE Write BY <1>14 DEF Write, Cycle, Begin, Return
<1>15. CASE EngineChanges BY <1>15 DEF EngineChanges
<1>16. ASSUME NEW j \in Joint, ServoOn(j) PROVE CacheAgrees'
  BY <1>16 DEF ServoOn, Command, Works, Done, Goto, Begin, ActivationFails, OnError
<1>17. ASSUME NEW j \in Joint, Stop(j) PROVE CacheAgrees'
  BY <1>17 DEF Stop, Command, Works, Slowed, Done, Goto, Begin, Stopped, Return
<1>18. ASSUME NEW j \in Joint, ServoOff(j) PROVE CacheAgrees'
  BY <1>18 DEF ServoOff, Command, Works, Done, Goto, Begin, Stopped, Return
<1>19. ASSUME NEW j \in Joint, Disturb(j) PROVE CacheAgrees'
  BY <1>19 DEF Disturb
<1>20. ASSUME NEW j \in Joint, ComesToRest(j) PROVE CacheAgrees'
  BY <1>20 DEF ComesToRest
<1>21. ASSUME NEW j \in VelocityJoint, SendAccepted(j) PROVE CacheAgrees'
  BY <1>21 DEF SendAccepted, Due, Command, Works, Slowed, Done, Goto, Begin, Return
<1>22. ASSUME NEW j \in VelocityJoint, SendRefused(j) PROVE CacheAgrees'
  BY <1>22 DEF SendRefused, Due, Forget, Done, Goto, Begin, Return
<1>23. ASSUME NEW j \in VelocityJoint, Skip(j) PROVE CacheAgrees'
  BY <1>23 DEF Skip, Due, Forget, Done, Goto, Begin, Return
<1>24. ASSUME NEW j \in VelocityJoint, NEW v \in Velocities \cup {NaN}, WriteCommand(j, v) PROVE CacheAgrees'
  BY <1>24 DEF WriteCommand
<1> QED BY <1>1, <1>2, <1>3, <1>4, <1>5, <1>6, <1>7, <1>8, <1>9, <1>10, <1>11, <1>12, <1>13, <1>14, <1>15, <1>16, <1>17, <1>18, <1>19, <1>20, <1>21, <1>22, <1>23, <1>24
        DEF Next, Step, Request, Environment

\* feedback_ is there when communicating_ says so.
LEMMA FeedbackStep ==
  ASSUME TypeOK, CallAgrees, FeedbackAgrees, Next
  PROVE  FeedbackAgrees'
<1> USE HardwareAssumption
<1> USE DEF TypeOK, CallAgrees, Phase, FeedbackAgrees,
           axisVars, commandVars, jointVars, callVars, settings
<1>1. CASE Create BY <1>1 DEF Create, CloseDevice, Goto, Begin, OnError
<1>2. CASE Import BY <1>2 DEF Import, Goto, Begin, OnError
<1>3. CASE Seed BY <1>3 DEF Seed, Observe, Blind, Reseed, Uncommanded, Return
<1>4. CASE Await BY <1>4 DEF Await, Observe, AwaitAgain, Goto, Begin, OnError
<1>5. CASE Wait BY <1>5 DEF Wait, AtRest, Works, Goto, Begin, Stopped, Return
<1>6. CASE Close BY <1>6 DEF Close, CloseDevice, Return, End, Reseed, Uncommanded, Blind
<1>7. CASE Configure BY <1>7 DEF Configure, Begin
<1>8. CASE Activate BY <1>8 DEF Activate, Begin
<1>9. CASE Deactivate BY <1>9 DEF Deactivate, Begin
<1>10. CASE Cleanup BY <1>10 DEF Cleanup, Begin
<1>11. CASE Shutdown BY <1>11 DEF Shutdown, Begin
<1>12. CASE Destroy BY <1>12 DEF Destroy, End, CloseDevice, Return, Reseed, Uncommanded, Blind
<1>13. CASE Read BY <1>13 DEF Read, Cycle, Observe, Blind, ReadReturns, OnError, Begin
<1>14. CASE Write BY <1>14 DEF Write, Cycle, Begin, Return
<1>15. CASE EngineChanges BY <1>15 DEF EngineChanges
<1>16. ASSUME NEW j \in Joint, ServoOn(j) PROVE FeedbackAgrees'
  BY <1>16 DEF ServoOn, Command, Works, Done, Goto, Begin, ActivationFails, OnError
<1>17. ASSUME NEW j \in Joint, Stop(j) PROVE FeedbackAgrees'
  BY <1>17 DEF Stop, Command, Works, Slowed, Done, Goto, Begin, Stopped, Return
<1>18. ASSUME NEW j \in Joint, ServoOff(j) PROVE FeedbackAgrees'
  BY <1>18 DEF ServoOff, Command, Works, Done, Goto, Begin, Stopped, Return
<1>19. ASSUME NEW j \in Joint, Disturb(j) PROVE FeedbackAgrees'
  BY <1>19 DEF Disturb
<1>20. ASSUME NEW j \in Joint, ComesToRest(j) PROVE FeedbackAgrees'
  BY <1>20 DEF ComesToRest
<1>21. ASSUME NEW j \in VelocityJoint, SendAccepted(j) PROVE FeedbackAgrees'
  BY <1>21 DEF SendAccepted, Due, Command, Works, Slowed, Done, Goto, Begin, Return
<1>22. ASSUME NEW j \in VelocityJoint, SendRefused(j) PROVE FeedbackAgrees'
  BY <1>22 DEF SendRefused, Due, Forget, Done, Goto, Begin, Return
<1>23. ASSUME NEW j \in VelocityJoint, Skip(j) PROVE FeedbackAgrees'
  BY <1>23 DEF Skip, Due, Forget, Done, Goto, Begin, Return
<1>24. ASSUME NEW j \in VelocityJoint, NEW v \in Velocities \cup {NaN}, WriteCommand(j, v) PROVE FeedbackAgrees'
  BY <1>24 DEF WriteCommand
<1> QED BY <1>1, <1>2, <1>3, <1>4, <1>5, <1>6, <1>7, <1>8, <1>9, <1>10, <1>11, <1>12, <1>13, <1>14, <1>15, <1>16, <1>17, <1>18, <1>19, <1>20, <1>21, <1>22, <1>23, <1>24
        DEF Next, Step, Request, Environment

\* A command an active component was not seeded with is given by a controller.
LEMMA OriginStep ==
  ASSUME TypeOK, CallAgrees, OriginAgrees, Next
  PROVE  OriginAgrees'
<1> USE HardwareAssumption
<1> USE DEF TypeOK, CallAgrees, Phase, OriginAgrees,
           axisVars, commandVars, jointVars, callVars, settings
<1>1. CASE Create BY <1>1 DEF Create, CloseDevice, Goto, Begin, OnError
<1>2. CASE Import BY <1>2 DEF Import, Goto, Begin, OnError
<1>3. CASE Seed BY <1>3 DEF Seed, Observe, Blind, Reseed, Uncommanded, Return
<1>4. CASE Await BY <1>4 DEF Await, Observe, AwaitAgain, Goto, Begin, OnError
<1>5. CASE Wait BY <1>5 DEF Wait, AtRest, Works, Goto, Begin, Stopped, Return
<1>6. CASE Close BY <1>6 DEF Close, CloseDevice, Return, End, Reseed, Uncommanded, Blind
<1>7. CASE Configure BY <1>7 DEF Configure, Begin
<1>8. CASE Activate BY <1>8 DEF Activate, Begin
<1>9. CASE Deactivate BY <1>9 DEF Deactivate, Begin
<1>10. CASE Cleanup BY <1>10 DEF Cleanup, Begin
<1>11. CASE Shutdown BY <1>11 DEF Shutdown, Begin
<1>12. CASE Destroy BY <1>12 DEF Destroy, End, CloseDevice, Return, Reseed, Uncommanded, Blind
<1>13. CASE Read BY <1>13 DEF Read, Cycle, Observe, Blind, ReadReturns, OnError, Begin
<1>14. CASE Write BY <1>14 DEF Write, Cycle, Begin, Return
<1>15. CASE EngineChanges BY <1>15 DEF EngineChanges
<1>16. ASSUME NEW j \in Joint, ServoOn(j) PROVE OriginAgrees'
  BY <1>16 DEF ServoOn, Command, Works, Done, Goto, Begin, ActivationFails, OnError
<1>17. ASSUME NEW j \in Joint, Stop(j) PROVE OriginAgrees'
  BY <1>17 DEF Stop, Command, Works, Slowed, Done, Goto, Begin, Stopped, Return
<1>18. ASSUME NEW j \in Joint, ServoOff(j) PROVE OriginAgrees'
  BY <1>18 DEF ServoOff, Command, Works, Done, Goto, Begin, Stopped, Return
<1>19. ASSUME NEW j \in Joint, Disturb(j) PROVE OriginAgrees'
  BY <1>19 DEF Disturb
<1>20. ASSUME NEW j \in Joint, ComesToRest(j) PROVE OriginAgrees'
  BY <1>20 DEF ComesToRest
<1>21. ASSUME NEW j \in VelocityJoint, SendAccepted(j) PROVE OriginAgrees'
  BY <1>21 DEF SendAccepted, Due, Command, Works, Slowed, Done, Goto, Begin, Return
<1>22. ASSUME NEW j \in VelocityJoint, SendRefused(j) PROVE OriginAgrees'
  BY <1>22 DEF SendRefused, Due, Forget, Done, Goto, Begin, Return
<1>23. ASSUME NEW j \in VelocityJoint, Skip(j) PROVE OriginAgrees'
  BY <1>23 DEF Skip, Due, Forget, Done, Goto, Begin, Return
<1>24. ASSUME NEW j \in VelocityJoint, NEW v \in Velocities \cup {NaN}, WriteCommand(j, v) PROVE OriginAgrees'
  BY <1>24 DEF WriteCommand
<1> QED BY <1>1, <1>2, <1>3, <1>4, <1>5, <1>6, <1>7, <1>8, <1>9, <1>10, <1>11, <1>12, <1>13, <1>14, <1>15, <1>16, <1>17, <1>18, <1>19, <1>20, <1>21, <1>22, <1>23, <1>24
        DEF Next, Step, Request, Environment

\* An axis that moves during the servo-off loop was set moving after the wait.
LEMMA RestStep ==
  ASSUME TypeOK, CallAgrees, RestAgrees, Next
  PROVE  RestAgrees'
<1> USE HardwareAssumption
<1> USE DEF TypeOK, Powered, Moving, AxisState, Velocities, Phase, Still, NaN, CallAgrees, RestAgrees,
           axisVars, commandVars, jointVars, callVars, settings
<1>1. CASE Create BY <1>1 DEF Create, CloseDevice, Goto, Begin, OnError
<1>2. CASE Import BY <1>2 DEF Import, Goto, Begin, OnError
<1>3. CASE Seed BY <1>3 DEF Seed, Observe, Blind, Reseed, Uncommanded, Return
<1>4. CASE Await BY <1>4 DEF Await, Observe, AwaitAgain, Goto, Begin, OnError
<1>5. CASE Wait BY <1>5 DEF Wait, AtRest, Works, Goto, Begin, Stopped, Return
<1>6. CASE Close BY <1>6 DEF Close, CloseDevice, Return, End, Reseed, Uncommanded, Blind
<1>7. CASE Configure BY <1>7 DEF Configure, Begin
<1>8. CASE Activate BY <1>8 DEF Activate, Begin
<1>9. CASE Deactivate BY <1>9 DEF Deactivate, Begin
<1>10. CASE Cleanup BY <1>10 DEF Cleanup, Begin
<1>11. CASE Shutdown BY <1>11 DEF Shutdown, Begin
<1>12. CASE Destroy BY <1>12 DEF Destroy, End, CloseDevice, Return, Reseed, Uncommanded, Blind
<1>13. CASE Read BY <1>13 DEF Read, Cycle, Observe, Blind, ReadReturns, OnError, Begin
<1>14. CASE Write BY <1>14 DEF Write, Cycle, Begin, Return
<1>15. CASE EngineChanges BY <1>15 DEF EngineChanges
<1>16. ASSUME NEW j \in Joint, ServoOn(j) PROVE RestAgrees'
  BY <1>16 DEF ServoOn, Command, Works, Done, Goto, Begin, ActivationFails, OnError
<1>17. ASSUME NEW j \in Joint, Stop(j) PROVE RestAgrees'
  BY <1>17 DEF Stop, Command, Works, Slowed, Done, Goto, Begin, Stopped, Return
<1>18. ASSUME NEW j \in Joint, ServoOff(j) PROVE RestAgrees'
  <2>1. CASE todo = {j}
    <3>1. op \in {"deactivate", "error", "shutdown"} BY <1>18 DEF ServoOff
    <3>2. Stopped BY <1>18, <2>1 DEF ServoOff, Done
    <3>3. pc' # "servoOff" BY <3>1, <3>2, StoppedCases DEF Return, Goto, Begin
    <3> QED BY <3>3
  <2>2. CASE todo # {j}
    <3>1. todo' = todo \ {j} /\ moved' = moved \ {j}
      BY <1>18, <2>2 DEF ServoOff, Done, Goto, Begin
    <3>2. \A k \in Joint \ {j} : axis'[k] = axis[k] BY <1>18 DEF ServoOff, Command
    <3>3. pc = "servoOff" BY <1>18 DEF ServoOff
    <3> QED BY <3>1, <3>2, <3>3
  <2> QED BY <2>1, <2>2
<1>19. ASSUME NEW j \in Joint, Disturb(j) PROVE RestAgrees'
  BY <1>19 DEF Disturb
<1>20. ASSUME NEW j \in Joint, ComesToRest(j) PROVE RestAgrees'
  BY <1>20 DEF ComesToRest
<1>21. ASSUME NEW j \in VelocityJoint, SendAccepted(j) PROVE RestAgrees'
  BY <1>21 DEF SendAccepted, Due, Command, Works, Slowed, Done, Goto, Begin, Return
<1>22. ASSUME NEW j \in VelocityJoint, SendRefused(j) PROVE RestAgrees'
  BY <1>22 DEF SendRefused, Due, Forget, Done, Goto, Begin, Return
<1>23. ASSUME NEW j \in VelocityJoint, Skip(j) PROVE RestAgrees'
  BY <1>23 DEF Skip, Due, Forget, Done, Goto, Begin, Return
<1>24. ASSUME NEW j \in VelocityJoint, NEW v \in Velocities \cup {NaN}, WriteCommand(j, v) PROVE RestAgrees'
  BY <1>24 DEF WriteCommand
<1> QED BY <1>1, <1>2, <1>3, <1>4, <1>5, <1>6, <1>7, <1>8, <1>9, <1>10, <1>11, <1>12, <1>13, <1>14, <1>15, <1>16, <1>17, <1>18, <1>19, <1>20, <1>21, <1>22, <1>23, <1>24
        DEF Next, Step, Request, Environment

-----------------------------------------------------------------------------

LEMMA InitIInv ==
  Init => IInv
<1> SUFFICES ASSUME Init PROVE IInv
  OBVIOUS
<1> USE HardwareAssumption
<1>1. TypeOK
  <2>1. /\ open \in BOOLEAN /\ communication \in BOOLEAN /\ communicating \in BOOLEAN
        /\ autoServoOn \in BOOLEAN /\ seeded \in BOOLEAN
    BY Zenon DEF Init
  <2>2. /\ axis \in [Joint -> AxisState]
        /\ cmd \in [VelocityJoint -> Velocities \cup {NaN}]
        /\ lastCmd \in [VelocityJoint -> Velocities \cup {NaN}]
        /\ feedback \in [VelocityJoint -> {"ready", "lost", "unknown"}]
    BY DEF Init, AxisState, Velocities
  <2>3. /\ state \in {"unconfigured", "inactive", "active", "finalized"}
        /\ op \in {"none", "configure", "activate", "deactivate", "cleanup",
                    "shutdown", "error", "write"}
        /\ pc \in Phase /\ todo \in SUBSET Joint /\ attempt \in 0 .. MaxRetries
        /\ turn \in {"read", "write"} /\ excused \in SUBSET VelocityJoint
        /\ moved \in SUBSET Joint /\ powered \in SUBSET Joint /\ given \in SUBSET VelocityJoint
    BY DEF Init, Phase
  <2> QED BY <2>1, <2>2, <2>3 DEF TypeOK
<1>2. CallAgrees BY DEF Init, CallAgrees
<1>3. PowerAccounted BY DEF Init, PowerAccounted, PowerIsReturned
<1>4. CacheAgrees /\ FeedbackAgrees /\ OriginAgrees /\ RestAgrees
  BY DEF Init, CacheAgrees, FeedbackAgrees, OriginAgrees, RestAgrees
<1> QED BY <1>1, <1>2, <1>3, <1>4 DEF IInv

\* A stuttering step changes nothing of it.
LEMMA StutterIInv ==
  ASSUME IInv, UNCHANGED vars
  PROVE  IInv'
BY DEF IInv, TypeOK, CallAgrees, PowerAccounted, PowerIsReturned, CacheAgrees,
       FeedbackAgrees, OriginAgrees, RestAgrees, Obeys,
       vars, axisVars, commandVars, jointVars, callVars, settings

\* The invariant the theorems rest on holds in every reachable state.
THEOREM Inductive == Spec => []IInv
<1>1. ASSUME IInv, Next PROVE IInv'
  BY <1>1, TypeStep, CallStep, PowerStep, CacheStep, FeedbackStep, OriginStep, RestStep DEF IInv
<1>2. IInv /\ [Next]_vars => IInv'
  BY <1>1, StutterIInv
<1> QED BY InitIInv, <1>2, PTL DEF Spec

\* Type correctness of the hardware component.
THEOREM TypeCorrect == Spec => []TypeOK
<1>1. IInv => TypeOK BY DEF IInv
<1> QED BY Inductive, <1>1, PTL

\* However the component stops being active, also out of an on_activate that
\* failed half way, it switches off what it switched on.
THEOREM PowerReturned == Spec => []PowerIsReturned
<1>1. IInv => PowerIsReturned BY DEF IInv, PowerAccounted
<1> QED BY Inductive, <1>1, PTL

\* write() leaves out only what the axis already does.
THEOREM CacheCorrect == Spec => []CommandCacheTrue
<1>1. IInv => CommandCacheTrue BY DEF IInv, CacheAgrees, CommandCacheTrue
<1> QED BY Inductive, <1>1, PTL

\* write() never works on an empty feedback_.
THEOREM FeedbackSeen == Spec => []WriteSeesFeedback
<1>1. IInv => WriteSeesFeedback
  BY DEF IInv, FeedbackAgrees, WriteSeesFeedback, CallAgrees
<1> QED BY Inductive, <1>1, PTL

\* An active component that was seeded sends no velocity from before: what it sets an
\* axis moving with was given by a controller since on_activate.
THEOREM FreshCommands == Spec => CommandsAreFresh
<1>1. ASSUME IInv, [Next]_vars, NEW j \in VelocityJoint,
             state = "active", seeded, lastCmd'[j] \in Speed, lastCmd'[j] # lastCmd[j]
      PROVE  j \in given
  <2>1. NaN \notin Speed /\ Still \notin Speed
    BY HardwareAssumption DEF NaN, Still
  <2>2. \E i \in VelocityJoint : SendAccepted(i)
    <3>1. ~Reseed /\ \A i \in VelocityJoint : ~Forget(i)
      BY <1>1, <2>1 DEF IInv, TypeOK, Reseed, Uncommanded, Forget
    <3>2. lastCmd' # lastCmd
      BY <1>1
    <3>3. ~(Create \/ Import \/ Seed \/ Await \/ Wait \/ Close)
      BY <3>1, <3>2 DEF Create, Import, Seed, Await, Wait, Close, End, jointVars
    <3>4. \A i \in Joint : ~(ServoOn(i) \/ Stop(i) \/ ServoOff(i))
      BY <3>2 DEF ServoOn, Stop, ServoOff, jointVars
    <3>5. \A i \in VelocityJoint : ~(SendRefused(i) \/ Skip(i))
      BY <3>1, <3>2 DEF SendRefused, Skip
    <3>6. ~(Request \/ Read \/ Write \/ Environment \/ UNCHANGED vars)
      BY <3>1, <3>2 DEF Request, Configure, Activate, Deactivate, Cleanup, Shutdown, Destroy,
        End, Read, Write, Environment, EngineChanges, Disturb, ComesToRest, WriteCommand,
        jointVars, vars
    <3> QED BY <1>1, <3>3, <3>4, <3>5, <3>6 DEF Next, Step
  <2>3. lastCmd'[j] = cmd[j]
    BY <1>1, <2>2 DEF SendAccepted, IInv, TypeOK
  <2> QED BY <1>1, <2>1, <2>3 DEF IInv, OriginAgrees
<1>2. IInv /\ [Next]_vars =>
        [\A j \in VelocityJoint :
           state = "active" /\ seeded /\ lastCmd'[j] \in Speed /\ lastCmd'[j] # lastCmd[j]
             => j \in given]_vars
  BY <1>1
<1> QED BY <1>2, Inductive, PTL DEF Spec, CommandsAreFresh

\* No torque is cut under a moving axis that the component stopped itself.
THEOREM TorqueSafe == Spec => TorqueCutAtRest
<1>1. IInv /\ [Next]_vars =>
        [\A j \in Joint :
           pc = "servoOff" /\ j \in todo \ todo' /\ axis[j] \in Moving /\ axis'[j] = "off"
             => j \in moved]_vars
  BY DEF IInv, RestAgrees
<1> QED BY Inductive, <1>1, PTL DEF Spec, TorqueCutAtRest

(***************************************************************************)
(* Progress of a callback.                                                 *)
(***************************************************************************)

\* The order of the phases.
LEMMA PhaseFacts ==
  /\ PhasesLeft("create") = 10 /\ PhasesLeft("import") = 9 /\ PhasesLeft("await") = 8
  /\ PhasesLeft("servoOn") = 7 /\ PhasesLeft("seed") = 6 /\ PhasesLeft("stop") = 5
  /\ PhasesLeft("wait") = 4 /\ PhasesLeft("servoOff") = 3 /\ PhasesLeft("close") = 2
  /\ PhasesLeft("write") = 1 /\ PhasesLeft("idle") = 0
BY DEF PhasesLeft

\* Each step of a callback leads to a later phase, the next attempt or the next joint.
LEMMA StepForward ==
  ASSUME TypeOK, CallAgrees, Step
  PROVE  \/ PhasesLeft(pc') < PhasesLeft(pc)
         \/ pc' = pc /\ (attempt' > attempt \/ (todo' \subseteq todo /\ todo' # todo))
<1> DEFINE Later == PhasesLeft(pc') < PhasesLeft(pc)
<1> DEFINE NextJoint == pc' = pc /\ todo' \subseteq todo /\ todo' # todo
<1> USE DEF TypeOK, CallAgrees, Goto, Begin
<1>1. CASE Create \/ Await
  <2>1. \/ pc = "create" /\ pc' \in {"import", "stop"}
        \/ pc = "await" /\ pc' \in {"servoOn", "seed", "stop"}
        \/ pc' = pc /\ attempt' = attempt + 1
    BY <1>1 DEF Create, Await, AwaitAgain, OnError
  <2> QED BY <2>1, PhaseFacts
<1>2. CASE Import \/ Seed \/ Close
  <2>1. \/ pc = "import" /\ pc' \in {"seed", "stop"}
        \/ pc = "seed" /\ pc' = "idle"
        \/ pc = "close" /\ pc' = "idle"
    BY <1>2 DEF Import, Seed, Close, End, OnError, Return
  <2> QED BY <2>1, PhaseFacts
<1>3. CASE Wait
  <2>1. pc = "wait" /\ op \in {"deactivate", "error", "shutdown"} BY <1>3 DEF Wait
  <2>2. pc' \in {"servoOff", "close", "idle"}
    BY <1>3, <2>1, StoppedCases DEF Wait, Return
  <2> QED BY <2>1, <2>2, PhaseFacts
<1>4. ASSUME NEW j \in Joint, ServoOn(j) PROVE Later \/ NextJoint
  <2>1. pc = "servoOn" /\ j \in todo BY <1>4 DEF ServoOn
  <2>2. pc' \in {"seed", "stop"} \/ NextJoint
    BY <1>4, <2>1 DEF ServoOn, Done, ActivationFails, OnError
  <2> QED BY <2>1, <2>2, PhaseFacts
<1>5. ASSUME NEW j \in Joint, Stop(j) \/ ServoOff(j) PROVE Later \/ NextJoint
  <2>1. pc \in {"stop", "servoOff"} /\ j \in todo BY <1>5 DEF Stop, ServoOff
  <2>2. op \in {"deactivate", "error", "shutdown"} BY <2>1
  <2>3. (pc = "stop" /\ pc' = "wait") \/ Stopped \/ NextJoint
    BY <1>5, <2>1 DEF Stop, ServoOff, Done
  <2>4. Stopped => pc' \in {"close", "idle"}
    BY <2>2, StoppedCases DEF Return
  <2> QED BY <2>1, <2>3, <2>4, PhaseFacts
<1>6. ASSUME NEW j \in VelocityJoint, SendAccepted(j) \/ SendRefused(j) \/ Skip(j)
      PROVE  Later \/ NextJoint
  <2>1. pc = "write" /\ j \in todo BY <1>6 DEF SendAccepted, SendRefused, Skip
  <2>2. pc' = "idle" \/ NextJoint
    BY <1>6, <2>1 DEF SendAccepted, SendRefused, Skip, Done, Return
  <2> QED BY <2>1, <2>2, PhaseFacts
<1> QED BY <1>1, <1>2, <1>3, <1>4, <1>5, <1>6 DEF Step

\* A function the controller manager calls returns: its steps go forward only.
THEOREM FunctionsReturn == Spec => CallsReturn
<1>1. ASSUME IInv, [Next]_vars, pc # "idle"
      PROVE  IF Step
             THEN \/ PhasesLeft(pc') < PhasesLeft(pc)
                  \/ pc' = pc
                     /\ (attempt' > attempt \/ (todo' \subseteq todo /\ todo' # todo))
             ELSE UNCHANGED callVars
  <2>1. CASE Step BY <1>1, <2>1, StepForward DEF IInv
  <2>2. CASE Environment \/ UNCHANGED vars
    <3>1. UNCHANGED callVars
      BY <1>1, <2>2 DEF Environment, EngineChanges, Disturb, ComesToRest, WriteCommand, vars
    <3> QED BY <1>1, <2>1, <3>1
  <2>3. ~(Request \/ Read \/ Write)
    BY <1>1 DEF Request, Configure, Activate, Deactivate, Cleanup, Shutdown, Destroy, Read,
      Write, Cycle
  <2> QED BY <1>1, <2>1, <2>2, <2>3 DEF Next
<1> QED BY <1>1, Inductive, PTL DEF Spec, CallsReturn

=============================================================================
