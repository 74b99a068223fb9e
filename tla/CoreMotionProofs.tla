-------------------------- MODULE CoreMotionProofs --------------------------
(***************************************************************************)
(* What wmx_core_motion_node keeps true for every list of controllers and  *)
(* any number of axes: a steady controller keeps the gate closed, no jog   *)
(* runs without a deadline, no manual motion outlives an activation.       *)
(***************************************************************************)
EXTENDS CoreMotion, SequenceTheorems, TLAPS

\* Every transition event of the queue says ACTIVE.
AllActive(s) == \A i \in 1 .. Len(s) : s[i] = TRUE

\* All that is on its way from a steady controller says that it is active.
SteadyInv ==
  /\ state # "active" => steady = {}
  /\ \A c \in Controller : pending[c] = "asked" => ctl[c] # "absent"
  /\ state # "active" => events = Silence /\ \A c \in Controller : pending[c] = "none"
  /\ \A c \in steady :
       /\ ctl[c] = "active"
       /\ AllActive(events[c])
       /\ pending[c] # "inactive"
       /\ c \notin held => "inactive" \notin handling[c] /\ c \in controllerActive_

\* The watchdog knows every jog; without the watchdog there is none.
JogInv ==
  /\ state # "active" => jogState_ = NoJog
  /\ JogIsWatched
  /\ InactiveMeansStill

IInv == TypeOK /\ SteadyInv /\ JogInv

-----------------------------------------------------------------------------
\* The axes that nobody has taken from the node's hands.
InHand == Axis \ (stopFailed \cup leftOut)

\* What a Stop does to the axes it is asked to stop, and to the others.
LEMMA StopFacts ==
  ASSUME NEW S \in SUBSET Axis, Stop(S), TypeOK
  PROVE  /\ motion' \in [Axis -> Motion] /\ stopFailed' \subseteq Axis /\ leftOut' \subseteq Axis
         /\ \A a \in S : motion'[a] = "idle" \/ a \in stopFailed'
         /\ \A a \in Axis \ S : motion'[a] = motion[a] /\ (a \in InHand' <=> a \in InHand)
BY DEF Stop, Halt, TypeOK, Motion, InHand

\* What stopAllAxes does: it stops the counted axes and owns up to the others.
LEMMA StopAllFacts ==
  ASSUME StopAllAxes, TypeOK
  PROVE  /\ motion' \in [Axis -> Motion] /\ stopFailed' \subseteq Axis /\ leftOut' \subseteq Axis
         /\ jogState_' = NoJog
         /\ \A a \in Axis : motion'[a] = "idle" \/ a \notin InHand'
<1>1. PICK failed \in SUBSET (counted \cap DeviceFails) :
        /\ motion' = [a \in Axis |-> IF a \in counted \ failed THEN "idle" ELSE motion[a]]
        /\ stopFailed' = (stopFailed \ counted) \cup {a \in failed : motion[a] # "idle"}
  BY DEF StopAllAxes, Halt
<1>2. leftOut' = {a \in Axis \ counted : motion[a] # "idle"} /\ jogState_' = NoJog
  BY DEF StopAllAxes, NotCounted
<1>3. motion' \in [Axis -> Motion] /\ stopFailed' \subseteq Axis /\ leftOut' \subseteq Axis
  BY <1>1, <1>2 DEF TypeOK, Motion
<1>4. \A a \in Axis : motion'[a] = "idle" \/ a \in stopFailed' \/ a \in leftOut'
  BY <1>1, <1>2
<1> QED BY <1>2, <1>3, <1>4 DEF InHand

\* What starting a motion does to the axis, and to the others.
LEMMA StartFacts ==
  ASSUME NEW a \in Axis, NEW m \in Motion, Start(a, m), TypeOK
  PROVE  /\ motion' \in [Axis -> Motion] /\ stopFailed' \subseteq Axis /\ leftOut' \subseteq Axis
         /\ motion'[a] = m
         /\ \A b \in Axis \ {a} : motion'[b] = motion[b] /\ (b \in InHand' <=> b \in InHand)
BY DEF Start, TypeOK, Motion, InHand

\* Queues of events keep saying ACTIVE when an event leaves, or another comes.
LEMMA QueueFacts ==
  ASSUME NEW s \in Seq(BOOLEAN)
  PROVE  /\ \A b \in BOOLEAN : Append(s, b) \in Seq(BOOLEAN)
         /\ AllActive(s) => AllActive(Append(s, TRUE))
         /\ s # <<>> => Tail(s) \in Seq(BOOLEAN) /\ Head(s) \in BOOLEAN
         /\ s # <<>> /\ AllActive(s) => Head(s) = TRUE /\ AllActive(Tail(s))
         /\ AllActive(<<>>)
<1>1. \A b \in BOOLEAN : Append(s, b) \in Seq(BOOLEAN)
  OBVIOUS
<1>2. AllActive(s) => AllActive(Append(s, TRUE))
  BY DEF AllActive
<1>3. s # <<>> => Tail(s) \in Seq(BOOLEAN) /\ Head(s) \in BOOLEAN
  BY HeadTailProperties
<1>4. s # <<>> /\ AllActive(s) => Head(s) = TRUE /\ AllActive(Tail(s))
  <2> SUFFICES ASSUME s # <<>>, AllActive(s) PROVE Head(s) = TRUE /\ AllActive(Tail(s))
    OBVIOUS
  <2>1. /\ Len(Tail(s)) = Len(s) - 1
        /\ \A i \in 1 .. Len(Tail(s)) : Tail(s)[i] = s[i + 1]
    BY HeadTailProperties
  <2>2. Len(s) \in Nat /\ Len(s) # 0
    BY LenProperties, EmptySeq
  <2>3. Head(s) = s[1]
    OBVIOUS
  <2>4. ASSUME NEW i \in 1 .. Len(Tail(s)) PROVE Tail(s)[i] = TRUE
    <3>1. i + 1 \in 1 .. Len(s)
      BY <2>1, <2>2
    <3>2. s[i + 1] = TRUE
      BY <3>1 DEF AllActive
    <3> QED BY <2>1, <3>2
  <2>5. s[1] = TRUE
    <3>1. 1 \in 1 .. Len(s)
      BY <2>2
    <3> QED BY <3>1 DEF AllActive
  <2>6. AllActive(Tail(s))
    BY <2>4, Zenon DEF AllActive
  <2> QED BY <2>3, <2>5, <2>6
<1>5. AllActive(<<>>)
  BY DEF AllActive
<1> QED BY <1>1, <1>2, <1>3, <1>4, <1>5

\* What a publication may do to the events.
LEMMA PublishFacts ==
  ASSUME NEW c \in Controller, NEW b \in BOOLEAN, Publish(c, b), TypeOK
  PROVE  /\ events' \in [Controller -> Seq(BOOLEAN)]
         /\ \A d \in Controller \ {c} : events'[d] = events[d]
         /\ b /\ AllActive(events[c]) => AllActive(events'[c])
         /\ state # "active" => UNCHANGED events
<1>1. CASE UNCHANGED events
  BY <1>1 DEF TypeOK
<1>2. CASE state = "active" /\ events' = [events EXCEPT ![c] = Append(@, b)]
  <2>1. events[c] \in Seq(BOOLEAN)
    BY DEF TypeOK
  <2>2. Append(events[c], b) \in Seq(BOOLEAN)
    BY <2>1, QueueFacts
  <2>3. b /\ AllActive(events[c]) => AllActive(Append(events[c], b))
    BY <2>1, QueueFacts
  <2>4. /\ events' \in [Controller -> Seq(BOOLEAN)]
        /\ events'[c] = Append(events[c], b)
        /\ \A d \in Controller \ {c} : events'[d] = events[d]
    BY <1>2, <2>2 DEF TypeOK
  <2> QED BY <1>2, <2>3, <2>4
<1> QED BY <1>1, <1>2 DEF Publish

\* The steps of the controllers and of the gate, seen from a steady controller.
LEMMA GateStays ==
  ASSUME IInv, ControllerStep \/ GateStep
  PROVE  SteadyInv' /\ events' \in [Controller -> Seq(BOOLEAN)]
<1> USE DEF IInv, SteadyInv, TypeOK, lifeVars, gateVars, controllerVars, axisVars
<1> DEFINE Goal == SteadyInv' /\ events' \in [Controller -> Seq(BOOLEAN)]
<1>1. ASSUME NEW c \in Controller,
             ControllerAppears(c) \/ ControllerActivates(c) \/ ControllerDeactivates(c)
      PROVE  Goal
  <2>1. PICK b \in BOOLEAN : Publish(c, b) /\ (c \in steady' => b)
    BY <1>1 DEF ControllerAppears, ControllerActivates, ControllerDeactivates
  <2>2. /\ UNCHANGED <<pending, handling, state, controllerActive_, held>>
        /\ steady' \subseteq steady
        /\ \A d \in Controller \ {c} : ctl'[d] = ctl[d]
        /\ c \in steady' => ctl'[c] = "active"
        /\ ctl'[c] # "absent"
    BY <1>1 DEF ControllerAppears, ControllerActivates, ControllerDeactivates
  <2>3. \A d \in steady' : AllActive(events'[d])
    BY <2>1, <2>2, PublishFacts
  <2>4. events' \in [Controller -> Seq(BOOLEAN)] /\ (state # "active" => UNCHANGED events)
    BY <2>1, PublishFacts
  <2>5. \A d \in Controller : pending'[d] = "asked" => ctl'[d] # "absent"
    BY <2>2
  <2>6. \A d \in steady' : ctl'[d] = "active" /\ d \in steady
    BY <2>2
  <2> QED BY <2>2, <2>3, <2>4, <2>5, <2>6
<1>2. ASSUME NEW c \in Controller, ControllerCrashes(c) PROVE Goal
  <2>1. /\ UNCHANGED <<events, handling, state, controllerActive_, held>>
        /\ steady' = steady \ {c}
        /\ \A d \in Controller \ {c} : ctl'[d] = ctl[d] /\ pending'[d] = pending[d]
        /\ pending'[c] # "asked" /\ (pending[c] = "none" => pending'[c] = "none")
    BY <1>2 DEF ControllerCrashes
  <2>2. SteadyInv' BY <2>1
  <2> QED BY <2>1, <2>2
<1>3. ASSUME NEW c \in Controller, ControllerAnswers(c) PROVE Goal
  BY <1>3 DEF ControllerAnswers
<1>8. ASSUME NEW c \in Controller, TakeAnswer(c) PROVE Goal
  <2>1. /\ UNCHANGED <<ctl, events, state, controllerActive_, steady, held>>
        /\ pending[c] \in {"active", "inactive"}
        /\ handling' = [handling EXCEPT ![c] = handling[c] \cup {pending[c]}]
        /\ pending' = [pending EXCEPT ![c] = "none"]
    BY <1>8 DEF TakeAnswer
  <2>2. ASSUME NEW d \in steady, d \notin held
        PROVE  "inactive" \notin handling'[d] /\ pending'[d] # "inactive"
    <3>1. "inactive" \notin handling[d] /\ pending[d] # "inactive"
      BY <2>1, <2>2
    <3>2. CASE d = c
      BY <2>1, <3>1, <3>2
    <3>3. CASE d # c
      BY <2>1, <3>1, <3>3
    <3> QED BY <3>2, <3>3
  <2> QED BY <2>1, <2>2
<1>4. ASSUME NEW c \in Controller, NEW a \in Axis, ControllerMoves(c, a) PROVE Goal
  BY <1>4 DEF ControllerMoves
<1>5. ASSUME NEW c \in Controller, TransitionEvent(c) PROVE Goal
  <2>1. events[c] \in Seq(BOOLEAN) /\ events[c] # <<>>
    BY <1>5 DEF TransitionEvent
  <2>2. /\ events' = [events EXCEPT ![c] = Tail(events[c])]
        /\ UNCHANGED <<ctl, pending, handling, state, steady, held>>
        /\ setControllerActive(c, Head(events[c]))
    BY <1>5 DEF TransitionEvent
  <2>3. Tail(events[c]) \in Seq(BOOLEAN)
    BY <2>1, QueueFacts
  <2>4. events' \in [Controller -> Seq(BOOLEAN)] /\ events'[c] = Tail(events[c])
    BY <2>2, <2>3
  <2>5. \A d \in steady : AllActive(events'[d]) /\ (d \notin held => d \in controllerActive_')
    BY <2>1, <2>2, <2>4, QueueFacts DEF setControllerActive
  <2>6. state = "active"
    BY <2>1 DEF Silence
  <2> QED BY <2>2, <2>4, <2>5, <2>6
<1>6. ASSUME NEW c \in Controller, NEW answer \in {"active", "inactive"}, HandleAnswer(c, answer)
      PROVE  Goal
  <2>1. /\ UNCHANGED <<ctl, events, pending, state, steady>>
        /\ setControllerActive(c, answer = "active") /\ answer \in handling[c]
        /\ handling' = [handling EXCEPT ![c] = handling[c] \ {answer}]
        /\ held' = IF handling[c] = {"active"} THEN held \ {c} ELSE held
    BY <1>6 DEF HandleAnswer
  <2>2. ASSUME NEW d \in steady, d \notin held'
        PROVE  "inactive" \notin handling'[d] /\ d \in controllerActive_'
    <3>1. CASE d # c
      BY <2>1, <2>2, <3>1 DEF setControllerActive
    <3>2. CASE d = c
      <4>1. "inactive" \notin handling[c] /\ "inactive" \notin handling'[c]
        BY <2>1, <2>2, <3>2
      <4> QED BY <2>1, <3>2, <4>1 DEF setControllerActive
    <3> QED BY <3>1, <3>2
  <2> QED BY <2>1, <2>2
<1>7. CASE Resync
  BY <1>7 DEF Resync
<1> QED BY <1>1, <1>2, <1>3, <1>4, <1>5, <1>6, <1>7, <1>8 DEF ControllerStep, GateStep

\* The lifecycle of the node, seen from a steady controller.
LEMMA LifecycleKeepsGate ==
  ASSUME IInv, LifecycleStep
  PROVE  SteadyInv' /\ events' \in [Controller -> Seq(BOOLEAN)]
<1> USE DEF IInv, SteadyInv, TypeOK, lifeVars, gateVars, controllerVars, axisVars
<1>1. Silence \in [Controller -> Seq(BOOLEAN)] /\ \A c \in Controller : AllActive(Silence[c])
  <2>1. <<>> \in Seq(BOOLEAN) /\ AllActive(<<>>)
    BY DEF AllActive
  <2> QED BY <2>1 DEF Silence
<1>2. CASE Configure \/ Cleanup
  BY <1>2 DEF Configure, Cleanup
<1>3. CASE Activate
  <2>1. /\ UNCHANGED controllerVars /\ state = "inactive" /\ state' = "active"
        /\ controllerActive_' = Controller
        /\ steady' = {c \in Controller : ctl[c] = "active"}
        /\ held' = {c \in Controller : "inactive" \in handling[c]}
    BY <1>3 DEF Activate, AssumeActive
  <2> QED BY <1>1, <2>1
<1>4. CASE Deactivate \/ Shutdown
  BY <1>1, <1>4 DEF Deactivate, Shutdown, StopListening
<1> QED BY <1>2, <1>3, <1>4 DEF LifecycleStep

\* The motion services and the watchdog leave the gate alone.
LEMMA MotionKeepsGate ==
  ASSUME IInv, MotionStep \/ UNCHANGED vars
  PROVE  SteadyInv' /\ UNCHANGED <<controllerVars, lifeVars, gateVars>>
<1>1. UNCHANGED <<controllerVars, lifeVars, gateVars>>
  BY DEF MotionStep, Tick, Watchdog, StartHome, MotionEnds, ReleaseJog, StopAxis, HomeAxis,
    StartMotion, StartJog, vars
<1>2. UNCHANGED <<ctl, events, pending, handling, state, controllerActive_, steady, held>>
  BY <1>1 DEF controllerVars, lifeVars, gateVars
<1> QED BY <1>1, <1>2 DEF IInv, SteadyInv

-----------------------------------------------------------------------------
\* An action that stops axes, and forgets the jogs of at most these axes.
LEMMA StoppingKeepsJogs ==
  ASSUME IInv, NEW S \in SUBSET Axis, Stop(S), state' = state,
         state' # "active" => jogState_' = NoJog,
         \A a \in Axis \ S : jogState_'[a] = jogState_[a]
  PROVE  JogInv'
<1>1. /\ \A a \in S : motion'[a] = "idle" \/ a \notin InHand'
      /\ \A a \in Axis \ S : motion'[a] = motion[a] /\ (a \in InHand' <=> a \in InHand)
  BY StopFacts DEF IInv, InHand
<1>2. JogIsWatched'
  BY <1>1 DEF IInv, JogInv, JogIsWatched, Jog, InHand
<1>3. InactiveMeansStill'
  BY <1>1 DEF IInv, JogInv, InactiveMeansStill, Manual, Jog, InHand
<1> QED BY <1>2, <1>3 DEF JogInv

\* stopAllAxes leaves no jog, and no manual motion it has not owned up to.
LEMMA StoppingAllKeepsJogs ==
  ASSUME IInv, StopAllAxes
  PROVE  JogInv'
<1>1. jogState_' = NoJog /\ \A a \in Axis : motion'[a] = "idle" \/ a \notin InHand'
  BY StopAllFacts DEF IInv
<1> QED BY <1>1 DEF JogInv, JogIsWatched, InactiveMeansStill, Manual, Jog, InHand

\* An action that starts a motion which is not a jog.
LEMMA StartingKeepsJogs ==
  ASSUME IInv, NEW a \in Axis, NEW m \in Motion \ Jog, Start(a, m),
         UNCHANGED <<state, jogState_>>,
         state # "active" => m \notin Manual
  PROVE  JogInv'
<1>1. /\ motion'[a] = m
      /\ \A b \in Axis \ {a} : motion'[b] = motion[b] /\ (b \in InHand' <=> b \in InHand)
  BY StartFacts DEF IInv
<1>2. JogIsWatched'
  BY <1>1 DEF IInv, JogInv, JogIsWatched, InHand
<1>3. InactiveMeansStill'
  BY <1>1 DEF IInv, JogInv, InactiveMeansStill, InHand
<1> QED BY <1>2, <1>3 DEF IInv, JogInv

\* The jogs keep their deadlines, whatever the step.
LEMMA JogStep ==
  ASSUME IInv, [Next]_vars
  PROVE  /\ JogInv'
         /\ motion' \in [Axis -> Motion] /\ stopFailed' \subseteq Axis /\ leftOut' \subseteq Axis
<1> USE DEF lifeVars, gateVars, controllerVars, axisVars
<1> DEFINE Goal ==
      /\ JogInv'
      /\ motion' \in [Axis -> Motion] /\ stopFailed' \subseteq Axis /\ leftOut' \subseteq Axis
<1>1. Axis \in SUBSET Axis /\ \A a \in Axis : {a} \in SUBSET Axis
  OBVIOUS
<1>2. ASSUME UNCHANGED <<state, jogState_, axisVars>> PROVE Goal
  BY <1>2 DEF IInv, JogInv, JogIsWatched, InactiveMeansStill, TypeOK
<1>3. ASSUME NEW a \in Axis, NEW m \in Motion \ Jog, Start(a, m), UNCHANGED <<state, jogState_>>,
             state # "active" => m \notin Manual
      PROVE  Goal
  BY <1>3, StartingKeepsJogs, StartFacts DEF IInv
<1>4. ASSUME NEW S \in SUBSET Axis, Stop(S), state' = state,
             state' # "active" => jogState_' = NoJog,
             \A a \in Axis \ S : jogState_'[a] = jogState_[a]
      PROVE  Goal
  BY <1>4, StoppingKeepsJogs, StopFacts DEF IInv
<1>5. CASE ControllerStep
  <2>1. ASSUME NEW c \in Controller, ControllerDeactivates(c) PROVE Goal
    BY <2>1, <1>1, <1>4 DEF ControllerDeactivates, IInv, JogInv
  <2>2. ASSUME NEW c \in Controller, NEW a \in Axis, ControllerMoves(c, a) PROVE Goal
    <3>1. "other" \in Motion \ Jog /\ "other" \notin Manual
      BY DEF Motion, Jog, Manual
    <3>2. Start(a, "other") /\ UNCHANGED <<state, jogState_>>
      BY <2>2 DEF ControllerMoves
    <3> QED BY <3>1, <3>2, <1>3
  <2> QED BY <1>2, <1>5, <2>1, <2>2
    DEF ControllerStep, ControllerAppears, ControllerActivates, ControllerCrashes, ControllerAnswers
<1>6. CASE GateStep \/ UNCHANGED vars
  BY <1>2, <1>6 DEF GateStep, Resync, TransitionEvent, TakeAnswer, HandleAnswer, vars
<1>7. CASE LifecycleStep
  <2>1. CASE Configure
    BY <2>1 DEF Configure, IInv, JogInv, JogIsWatched, InactiveMeansStill, TypeOK
  <2>2. CASE Activate
    <3>1. /\ state = "inactive" /\ state' = "active"
          /\ UNCHANGED <<jogState_, motion, stopFailed, leftOut>>
      BY <2>2 DEF Activate
    <3> QED BY <3>1 DEF IInv, JogInv, JogIsWatched, InactiveMeansStill, TypeOK
  <2>3. CASE Deactivate \/ Cleanup \/ Shutdown
    <3>1. StopAllAxes
      BY <2>3 DEF Deactivate, Cleanup, Shutdown
    <3> QED BY <3>1, StoppingAllKeepsJogs, StopAllFacts DEF IInv
  <2> QED BY <1>7, <2>1, <2>2, <2>3 DEF LifecycleStep
<1>8. CASE MotionStep
  <2>1. CASE Tick
    <3>1. /\ UNCHANGED <<state, motion, stopFailed, leftOut>>
          /\ jogState_' = [a \in Axis |-> Closer(jogState_[a])]
      BY <2>1 DEF Tick
    <3>2. /\ \A j \in [velocity : Jog, left : 0 .. JogTimeout] :
               Closer(j) # None /\ Closer(j).velocity = j.velocity
          /\ Closer(None) = None
      BY AxisAssumption DEF Closer
    <3>3. JogIsWatched'
      BY <3>1, <3>2 DEF IInv, JogInv, JogIsWatched, TypeOK
    <3>4. state' # "active" => jogState_' = NoJog
      BY <3>1, <3>2 DEF IInv, JogInv, NoJog
    <3>5. InactiveMeansStill'
      BY <3>1 DEF IInv, JogInv, InactiveMeansStill
    <3> QED BY <3>1, <3>3, <3>4, <3>5 DEF JogInv, IInv, TypeOK
  <2>2. CASE Watchdog
    <3>1. /\ UNCHANGED state /\ state = "active" /\ Expired \in SUBSET Axis /\ Stop(Expired)
          /\ \A a \in Axis \ Expired : jogState_'[a] = jogState_[a]
      BY <2>2 DEF Watchdog, Expired
    <3> QED BY <3>1, <1>4
  <2>3. ASSUME NEW a \in Axis, ReleaseJog(a) \/ StopAxis(a) PROVE Goal
    <3>1. /\ UNCHANGED state /\ state = "active" /\ Stop({a})
          /\ jogState_' = [jogState_ EXCEPT ![a] = None]
      BY <2>3 DEF ReleaseJog, StopAxis
    <3>2. \A b \in Axis \ {a} : jogState_'[b] = jogState_[b]
      BY <3>1 DEF IInv, TypeOK
    <3> QED BY <3>1, <3>2, <1>1, <1>4
  <2>4. ASSUME NEW a \in Axis, MotionEnds(a) PROVE Goal
    <3>1. "idle" \in Motion \ Jog /\ "idle" \notin Manual
      BY DEF Motion, Jog, Manual
    <3> QED BY <3>1, <2>4, <1>3 DEF MotionEnds
  <2>5. ASSUME NEW a \in Axis, HomeAxis(a) PROVE Goal
    <3>1. "other" \in Motion \ Jog /\ "other" \notin Manual
      BY DEF Motion, Jog, Manual
    <3> QED BY <3>1, <2>5, <1>2, <1>3 DEF HomeAxis
  <2>6. ASSUME NEW a \in Axis, StartMotion(a) PROVE Goal
    <3>1. "move" \in Motion \ Jog
      BY DEF Motion, Jog, Manual
    <3> QED BY <3>1, <2>6, <1>3 DEF StartMotion
  <2>7. ASSUME NEW a \in Axis, NEW v \in Jog, StartJog(a, v) PROVE Goal
    <3>1. /\ UNCHANGED state /\ state = "active"
          /\ jogState_' = [jogState_ EXCEPT ![a] = [velocity |-> v, left |-> JogTimeout]]
      BY <2>7 DEF StartJog
    <3>2. /\ jogState_'[a] = [velocity |-> v, left |-> JogTimeout]
          /\ \A b \in Axis \ {a} : jogState_'[b] = jogState_[b]
      BY <3>1 DEF IInv, TypeOK
    <3>3. jogState_'[a] # None /\ jogState_'[a].velocity = v
      BY <3>2, AxisAssumption
    <3>4. CASE Refresh(a, v) /\ UNCHANGED axisVars
      BY <3>1, <3>2, <3>3, <3>4
      DEF Refresh, IInv, JogInv, JogIsWatched, InactiveMeansStill, TypeOK
    <3>5. CASE Start(a, v)
      <4>1. v \in Motion
        BY DEF Motion, Manual
      <4>2. /\ motion' \in [Axis -> Motion] /\ stopFailed' \subseteq Axis /\ leftOut' \subseteq Axis
            /\ motion'[a] = v
            /\ \A b \in Axis \ {a} : motion'[b] = motion[b] /\ (b \in InHand' <=> b \in InHand)
        BY <3>5, <4>1, StartFacts DEF IInv
      <4> QED BY <3>1, <3>2, <3>3, <4>2
          DEF IInv, JogInv, JogIsWatched, InactiveMeansStill, InHand
    <3> QED BY <2>7, <3>4, <3>5 DEF StartJog
  <2>8. ASSUME NEW S \in SUBSET Axis, StartHome(S) PROVE Goal
    BY <2>8, <1>2 DEF StartHome
  <2> QED BY <1>8, <2>1, <2>2, <2>3, <2>4, <2>5, <2>6, <2>7, <2>8 DEF MotionStep
<1> QED BY <1>5, <1>6, <1>7, <1>8 DEF Next

-----------------------------------------------------------------------------
\* The types of everything but the axes and the events.
LEMMA TypeStep ==
  ASSUME IInv, [Next]_vars
  PROVE  TypeOK'
<1> USE DEF TypeOK, lifeVars, gateVars, controllerVars, axisVars
<1>1. motion' \in [Axis -> Motion] /\ stopFailed' \subseteq Axis /\ leftOut' \subseteq Axis
  BY JogStep
<1>2. events' \in [Controller -> Seq(BOOLEAN)]
  BY GateStays, LifecycleKeepsGate, MotionKeepsGate DEF Next, IInv
<1> DEFINE Rest ==
      /\ ctl' \in [Controller -> {"absent", "inactive", "active"}]
      /\ pending' \in [Controller -> {"none", "asked", "active", "inactive"}]
      /\ handling' \in [Controller -> SUBSET {"active", "inactive"}]
      /\ state' \in {"unconfigured", "inactive", "active", "finalized"}
      /\ counted' \subseteq Axis
      /\ controllerActive_' \subseteq Controller
      /\ steady' \subseteq Controller /\ held' \subseteq Controller
<1> DEFINE Jogs ==
      /\ jogState_' \in [Axis -> [velocity : Jog, left : 0 .. JogTimeout] \cup {None}]
      /\ homing' \subseteq Axis
<1>3. CASE ControllerStep
  <2>1. Rest
    <3>1. ASSUME NEW c \in Controller,
                 ControllerAppears(c) \/ ControllerActivates(c) \/ ControllerDeactivates(c)
          PROVE  Rest
      BY <3>1 DEF IInv, ControllerAppears, ControllerActivates, ControllerDeactivates
    <3>2. ASSUME NEW c \in Controller, ControllerCrashes(c) PROVE Rest
      BY <3>2 DEF IInv, ControllerCrashes
    <3>3. ASSUME NEW c \in Controller, ControllerAnswers(c) PROVE Rest
      <4>1. /\ pending' = [pending EXCEPT ![c] = ctl[c]]
            /\ UNCHANGED <<ctl, handling, state, counted, controllerActive_, steady, held>>
        BY <3>3 DEF ControllerAnswers
      <4>2. pending' \in [Controller -> {"none", "asked", "active", "inactive"}]
        BY <3>3, <4>1 DEF IInv, SteadyInv, ControllerAnswers
      <4> QED BY <4>1, <4>2 DEF IInv
    <3>4. ASSUME NEW c \in Controller, NEW a \in Axis, ControllerMoves(c, a) PROVE Rest
      BY <3>4 DEF IInv, ControllerMoves
    <3> QED BY <1>3, <3>1, <3>2, <3>3, <3>4 DEF ControllerStep
  <2>2. Jogs
    BY <1>3 DEF IInv, ControllerStep, ControllerAppears, ControllerActivates,
      ControllerDeactivates, ControllerCrashes, ControllerAnswers, ControllerMoves
  <2> QED BY <1>1, <1>2, <2>1, <2>2
<1>4. CASE GateStep
  <2>1. Rest
    <3>1. CASE Resync
      BY <3>1 DEF IInv, Resync
    <3>2. ASSUME NEW c \in Controller, TakeAnswer(c) PROVE Rest
      BY <3>2 DEF IInv, TakeAnswer
    <3>3. ASSUME NEW c \in Controller, NEW b, setControllerActive(c, b)
          PROVE  controllerActive_' \subseteq Controller
      <4>1. CASE b
        BY <3>3, <4>1 DEF IInv, setControllerActive
      <4>2. CASE ~b
        BY <3>3, <4>2 DEF IInv, setControllerActive
      <4> QED BY <4>1, <4>2
    <3>4. ASSUME NEW c \in Controller, NEW answer \in {"active", "inactive"},
                 TransitionEvent(c) \/ HandleAnswer(c, answer)
          PROVE  Rest
      <4>1. controllerActive_' \subseteq Controller
        BY <3>3, <3>4 DEF TransitionEvent, HandleAnswer
      <4> QED BY <3>4, <4>1 DEF IInv, TransitionEvent, HandleAnswer
    <3> QED BY <1>4, <3>1, <3>2, <3>4 DEF GateStep
  <2>2. Jogs
    BY <1>4 DEF IInv, GateStep, Resync, TransitionEvent, TakeAnswer, HandleAnswer
  <2> QED BY <1>1, <1>2, <2>1, <2>2
<1>5. CASE LifecycleStep
  <2>1. Rest
    BY <1>5 DEF IInv, LifecycleStep, Configure, Activate, AssumeActive, Deactivate, Cleanup,
      Shutdown, StopListening
  <2>2. Jogs
    BY <1>5 DEF IInv, LifecycleStep, Configure, Activate, Deactivate, Cleanup, Shutdown,
      StopAllAxes, NoJog
  <2> QED BY <1>1, <1>2, <2>1, <2>2
<1>6. CASE MotionStep \/ UNCHANGED vars
  <2>1. Rest
    BY <1>6, MotionKeepsGate DEF IInv
  <2>2. \A j \in [velocity : Jog, left : 0 .. JogTimeout] :
          Closer(j) \in [velocity : Jog, left : 0 .. JogTimeout]
    BY AxisAssumption DEF Closer
  <2>3. Closer(None) = None
    BY DEF Closer
  <2>4. CASE Tick
    <3>1. jogState_' = [a \in Axis |-> Closer(jogState_[a])] /\ UNCHANGED homing
      BY <2>4 DEF Tick
    <3> QED BY <1>1, <1>2, <2>1, <2>2, <2>3, <3>1 DEF IInv
  <2>5. ASSUME NEW a \in Axis, NEW v \in Jog, StartJog(a, v) PROVE TypeOK'
    <3>1. [velocity |-> v, left |-> JogTimeout] \in [velocity : Jog, left : 0 .. JogTimeout]
      BY AxisAssumption
    <3>2. /\ jogState_' = [jogState_ EXCEPT ![a] = [velocity |-> v, left |-> JogTimeout]]
          /\ UNCHANGED homing
      BY <2>5 DEF StartJog
    <3>3. Jogs
      BY <3>1, <3>2 DEF IInv
    <3> QED BY <1>1, <1>2, <2>1, <3>3
  <2>6. CASE \/ Watchdog
             \/ \E S \in (SUBSET Axis) \ {{}} : StartHome(S)
             \/ \E a \in Axis :
                  \/ MotionEnds(a) \/ StartMotion(a) \/ ReleaseJog(a) \/ StopAxis(a)
                  \/ HomeAxis(a)
             \/ UNCHANGED vars
    <3>1. Jogs
      BY <2>6 DEF IInv, Watchdog, StartHome, MotionEnds, ReleaseJog, StopAxis, HomeAxis,
        StartMotion, vars
    <3> QED BY <1>1, <1>2, <2>1, <3>1
  <2> QED BY <1>6, <2>4, <2>5, <2>6 DEF MotionStep
<1> QED BY <1>3, <1>4, <1>5, <1>6 DEF Next

\* The inductive invariant of the gate and the jogs holds in every behaviour.
THEOREM Invariance == Spec => []IInv
<1>1. Init => IInv
  <2> SUFFICES ASSUME Init PROVE IInv
    OBVIOUS
  <2>1. TypeOK
    <3>1. <<>> \in Seq(BOOLEAN)
      OBVIOUS
    <3> QED BY <3>1 DEF Init, TypeOK, Silence, NoJog, Motion
  <2>2. SteadyInv
    BY DEF Init, SteadyInv
  <2>3. JogInv
    BY DEF Init, JogInv, JogIsWatched, InactiveMeansStill, Jog, Manual
  <2> QED BY <2>1, <2>2, <2>3 DEF IInv
<1>2. IInv /\ [Next]_vars => IInv'
  <2> SUFFICES ASSUME IInv, [Next]_vars PROVE IInv'
    OBVIOUS
  <2>1. SteadyInv'
    BY GateStays, LifecycleKeepsGate, MotionKeepsGate DEF Next
  <2> QED BY <2>1, TypeStep, JogStep DEF IInv
<1> QED BY <1>1, <1>2, PTL DEF Spec

\* A controller that is active all along keeps manual motion refused, unless a thread
\* held an answer of it when the node was activated.
THEOREM SteadyControllersBlock == Spec => []SteadyControllerBlocks
<1>1. IInv => SteadyControllerBlocks
  BY DEF IInv, SteadyInv, SteadyControllerBlocks
<1> QED BY <1>1, Invariance, PTL

\* No jog runs without a deadline of its own.
THEOREM JogsAreWatched == Spec => []JogIsWatched
<1>1. IInv => JogIsWatched
  BY DEF IInv, JogInv
<1> QED BY <1>1, Invariance, PTL

\* No manual motion outlives the activation it was started in, but on an axis that
\* on_configure had not counted, or whose Stop failed.
THEOREM InactiveNodeIsStill == Spec => []InactiveMeansStill
<1>1. IInv => InactiveMeansStill
  BY DEF IInv, JogInv
<1> QED BY <1>1, Invariance, PTL

\* The variables have their types in every reachable state.
THEOREM TypeCorrect == Spec => []TypeOK
<1>1. IInv => TypeOK
  BY DEF IInv
<1> QED BY <1>1, Invariance, PTL

-----------------------------------------------------------------------------
\* Only a motion service starts a manual motion, and only past the gate.
LEMMA ManualStart ==
  ASSUME TypeOK, [Next]_vars, NEW a \in Axis,
         motion'[a] \in Manual, motion'[a] # motion[a]
  PROVE  state = "active" /\ controllerActive_ = {}
<1> USE DEF TypeOK, axisVars, Manual, Jog
<1>1. ASSUME NEW S \in SUBSET Axis, Stop(S) PROVE FALSE
  BY <1>1 DEF Stop, Halt
<1>2. ASSUME NEW b \in Axis, NEW m \in {"idle", "other"}, Start(b, m) PROVE FALSE
  BY <1>2 DEF Start
<1>3. ASSUME UNCHANGED motion PROVE FALSE
  BY <1>3
<1>4. Axis \in SUBSET Axis /\ Expired \in SUBSET Axis /\ \A b \in Axis : {b} \in SUBSET Axis
  BY DEF Expired
<1>5. ~ControllerStep
  BY <1>1, <1>2, <1>3, <1>4 DEF ControllerStep, ControllerAppears, ControllerActivates,
    ControllerDeactivates, ControllerCrashes, ControllerAnswers, ControllerMoves
<1>6. ~LifecycleStep
  BY <1>3 DEF LifecycleStep, Configure, Activate, Deactivate, Cleanup, Shutdown, StopAllAxes, Halt
<1>7. ~GateStep /\ ~UNCHANGED vars
  BY <1>3 DEF GateStep, Resync, TransitionEvent, TakeAnswer, HandleAnswer, vars
<1>8. CASE MotionStep
  <2>1. ~Tick /\ ~Watchdog /\ \A S \in SUBSET Axis : ~StartHome(S)
    BY <1>1, <1>3, <1>4 DEF Tick, Watchdog, StartHome
  <2>2. \A b \in Axis : ~MotionEnds(b) /\ ~ReleaseJog(b) /\ ~StopAxis(b) /\ ~HomeAxis(b)
    BY <1>1, <1>2, <1>3, <1>4 DEF MotionEnds, ReleaseJog, StopAxis, HomeAxis
  <2>3. \E b \in Axis : StartMotion(b) \/ \E v \in Jog : StartJog(b, v)
    BY <1>8, <2>1, <2>2 DEF MotionStep
  <2> QED BY <2>3 DEF StartMotion, StartJog, isMotionBlocked
<1> QED BY <1>5, <1>6, <1>7, <1>8 DEF Next

\* No service starts a motion past a controller that was active all along, unless a
\* thread held an answer of it when the node was activated.
THEOREM GateHolds == Spec => ManualStartsAtOpenGate
<1>1. IInv /\ [Next]_vars =>
        \A a \in Axis :
          motion'[a] \in Manual /\ motion'[a] # motion[a] =>
            state = "active" /\ steady \subseteq held
  BY ManualStart DEF IInv, SteadyInv
<1> QED BY <1>1, Invariance, PTL DEF Spec, ManualStartsAtOpenGate

(***************************************************************************)
(* The node implements ManagedNode.                                        *)
(***************************************************************************)

\* Every step takes one of the transitions of a managed node, or none.
LEMMA StateMoves ==
  ASSUME TypeOK, [Next]_vars
  PROVE  UNCHANGED state \/ \E t \in Managed!Transition : Managed!Succeed(t)
<1> USE DEF lifeVars, gateVars, controllerVars, axisVars, Managed!Transition, Managed!Shutdowns,
            Managed!Succeed, Managed!From, Managed!To
<1>1. CASE Configure
  <2>1. Managed!Succeed("configure") BY <1>1 DEF Configure
  <2> QED BY <2>1
<1>2. CASE Activate
  <2>1. Managed!Succeed("activate") BY <1>2 DEF Activate
  <2> QED BY <2>1
<1>3. CASE Deactivate
  <2>1. Managed!Succeed("deactivate") BY <1>3 DEF Deactivate
  <2> QED BY <2>1
<1>4. CASE Cleanup
  <2>1. Managed!Succeed("cleanup") BY <1>4 DEF Cleanup
  <2> QED BY <2>1
<1>5. CASE ControllerStep \/ GateStep \/ MotionStep \/ UNCHANGED vars
  BY <1>5 DEF ControllerStep, ControllerAppears, ControllerActivates, ControllerDeactivates,
    ControllerCrashes, ControllerAnswers, ControllerMoves, GateStep, Resync, TransitionEvent,
    TakeAnswer, HandleAnswer, MotionStep, Tick, Watchdog, StartHome, MotionEnds, ReleaseJog,
    StopAxis, HomeAxis, StartMotion, StartJog, vars
<1>6. CASE Shutdown
  <2>1. state' = "finalized" /\ state \in {"unconfigured", "inactive", "active"}
    BY <1>6 DEF Shutdown, TypeOK
  <2>2. \/ Managed!Succeed("shutdownUnconfigured")
        \/ Managed!Succeed("shutdownInactive")
        \/ Managed!Succeed("shutdownActive")
    BY <2>1
  <2> QED BY <2>2
<1> QED BY <1>1, <1>2, <1>3, <1>4, <1>5, <1>6 DEF Next, LifecycleStep

\* A manual motion begins on the active node, and the way down ends it, but for the
\* axes whose Stop failed or that were not counted: the node implements ManagedNode.
THEOREM Implementation == Spec => ImplementsNode
<1>1. Init => Managed!Init
  BY DEF Init, Managed!Init, Manual, Jog
<1>2. IInv /\ IInv' /\ [Next]_vars => [Managed!Next]_(Managed!vars)
  <2> SUFFICES ASSUME IInv, IInv', [Next]_vars PROVE Managed!Next
    OBVIOUS
  <2>1. UNCHANGED state \/ \E t \in Managed!Transition : Managed!Succeed(t)
    BY StateMoves DEF IInv
  <2>2. (\E a \in Axis \ (stopFailed \cup leftOut) : motion[a] \in Manual)' => state' = "active"
    BY DEF IInv, JogInv, InactiveMeansStill
  <2> QED BY <2>1, <2>2 DEF Managed!Next, Managed!Working, Managed!Starting
<1> QED BY <1>1, <1>2, Invariance, PTL DEF Spec, ImplementsNode, Managed!Spec

=============================================================================
