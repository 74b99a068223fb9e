----------------------- MODULE LifecycleManagerProofs -----------------------
(***************************************************************************)
(* What the manager keeps true for every set of nodes, every bring-up      *)
(* order and any number of disturbances: its take-downs are complete, its  *)
(* list of handled nodes is right, a node parked by hand stays parked.     *)
(***************************************************************************)
EXTENDS LifecycleManager, FiniteSetTheorems, TLAPS

\* Where a callback can be: which calls a sweep or a request makes.
ThreadInv ==
  /\ (pc = "idle") = (job = "idle")
  /\ (job = "request") = (request # None)
  /\ pc \notin {"idle", "next"} => cur \in Node /\ cur \notin todo
  /\ job = "idle" => todo = {} /\ asked = {}
  /\ pc = "call" => call \in Transition
  /\ job = "sweepUp" =>
       /\ pc \in {"next", "upQuery", "upRequery", "call", "refusedQuery"}
       /\ pc = "call" => call \in {"configure", "activate"}
  /\ job = "sweepDown" =>
       /\ pc \in {"next", "downQuery", "cleanQuery", "call", "refusedQuery"}
       /\ pc = "call" => call \in {"deactivate", "cleanup"}
  /\ job = "report" => todo = {} /\ pc = "next"
  /\ job = "request" =>
       /\ pc \in {"upQuery", "upRequery"} => request = "bringup"
       /\ pc = "downQuery" => request = "bringdown"
       /\ pc = "shutQuery" => request = "shutdown"
       /\ pc # "cleanQuery"
       /\ pc = "call" /\ call = "configure" => request \in {"configure", "bringup"}

\* A lost call, and a request by hand, leave their mark.
DisturbedInv ==
  /\ \A n \in Node : late[n] # None => n \in disturbed /\ life[n] # "absent"
  /\ job = "request" => todo \subseteq disturbed
  /\ job = "request" /\ pc # "next" => cur \in disturbed

\* While it is not taking nodes down, the manager's list of handled nodes is right.
HandledInv ==
  /\ job # "sweepDown" => \A n \in handledNodes_ \ disturbed : life[n] = "active"
  /\ job = "sweepUp" => todo \cap handledNodes_ = {}
  /\ job = "sweepUp" /\ pc # "next" => cur \notin handledNodes_

\* A take-down leaves behind it only nodes that are down.
DownInv ==
  /\ job \in {"sweepUp", "sweepDown"} => nodesAreUp_
  /\ ~nodesAreUp_ => \A n \in Node \ disturbed : life[n] \notin Up
  /\ job = "sweepDown" =>
       \A n \in Node \ disturbed :
         n \in todo \/ life[n] \notin Up \/ (n = cur /\ pc # "next")

\* A parked node is one the manager has handled, and no callback is on its way to it
\* but a take-down.
ParkedInv ==
  /\ parked \subseteq handledNodes_
  /\ \A n \in parked : life[n] # "absent"
  /\ job = "request" => todo \cap parked = {}
  /\ job = "request" /\ pc # "next" => cur \notin parked

\* A take-down goes against the bring-up order.
OrderInv ==
  job = "sweepDown" =>
    /\ \A m \in (handledNodes_ \cap todo) \ disturbed : life[m] = "active"
    /\ pc # "next" => \A n \in todo : Rank[n] < Rank[cur]
    /\ \A m \in (handledNodes_ \ disturbed) \ todo :
         /\ \A n \in todo : Rank[n] < Rank[m]
         /\ pc # "next" /\ m # cur => Rank[cur] < Rank[m]

RestInv == DisturbedInv /\ HandledInv /\ DownInv /\ ParkedInv /\ OrderInv
IInv == TypeOK /\ ThreadInv /\ RestInv

-----------------------------------------------------------------------------
\* Where the transitions lead.
LEMMA TransitionFacts ==
  /\ To("configure") = "inactive" /\ To("activate") = "active"
  /\ To("deactivate") = "inactive" /\ To("cleanup") = "unconfigured"
  /\ \A t \in Shutdowns : To(t) = "finalized"
  /\ \A t \in Transition : To(t) \in {"unconfigured", "inactive", "active", "finalized"}
  /\ \A t \in Transition : From(t) \in {"unconfigured", "inactive", "active"}
  /\ From("cleanup") = "inactive"
BY DEF To, From, Transition, Shutdowns

\* No action leaves the types: kEngineMissLimit bounds the miss counter.
LEMMA TypeStep == TypeOK /\ ThreadInv /\ [Next]_vars => TypeOK'
<1> SUFFICES ASSUME TypeOK, ThreadInv, [Next]_vars PROVE TypeOK'
  OBVIOUS
<1> USE DEF TypeOK, EngineType, engineVars, nodeVars, memberVars, threadVars, historyVars, Disturb
<1>1. CASE EngineStep
  <2>1. EngineType'
    BY <1>1 DEF EngineStep, EngineNext, BeginCall, EndCall, CreateDevice, CloseDevice,
       StartCommunication, StopCommunication, EngineExit, EngineLaunch
  <2> QED BY <1>1, <2>1 DEF EngineStep
<1>2. CASE NodeStep
  <2>1. ASSUME NEW n \in Node, ExecuteLate(n) PROVE TypeOK'
    BY <2>1, TransitionFacts DEF ExecuteLate, Apply, Refuses, Accepts, LifeState
  <2>2. ASSUME NEW n \in Node, Spawn(n) PROVE TypeOK'
    BY <2>2 DEF Spawn, LifeState
  <2>3. ASSUME NEW n \in Node, Crash(n) PROVE TypeOK'
    BY <2>3 DEF Crash, LifeState
  <2>4. ASSUME NEW n \in Node, NEW t \in Transition, CommandLine(n, t) PROVE TypeOK'
    BY <2>4, TransitionFacts DEF CommandLine, Apply, Accepts, LifeState
  <2> QED BY <1>2, <2>1, <2>2, <2>3, <2>4 DEF NodeStep
<1>3. CASE Discovery
  <2> USE DEF StartCallback, discover
  <2>1. CASE SweepUp
    BY <2>1 DEF SweepUp, unhandled, kEngineMissLimit
  <2>2. CASE CountMiss
    BY <2>2 DEF CountMiss, underLimit, kEngineMissLimit
  <2>3. CASE SweepDown
    BY <2>3 DEF SweepDown, takenDown
  <2> QED BY <1>3, <2>1, <2>2, <2>3 DEF Discovery
<1>4. CASE SetNodeState
  BY <1>4 DEF SetNodeState, StartCallback, discover
<1>5. CASE GetNodeStates
  BY <1>5 DEF GetNodeStates, StartCallback, discover
<1>6. CASE CallbackStep
  <2>1. CASE NextNode
    <3>1. job = "request" => request \in Request
      BY DEF ThreadInv
    <3>2. job # "idle"
      BY <2>1 DEF NextNode, ThreadInv
    <3> QED BY <2>1, <3>1, <3>2 DEF NextNode, IsNext, Issue, Request, Transition
  <2>2. CASE EndCallback
    <3>1. CASE job = "sweepDown"
      <4>1. /\ nodesAreUp_' = FALSE /\ engineMissCount_' = 0
            /\ handledNodes_' = {} /\ parked' = {}
        BY <2>2, <3>1 DEF EndCallback, clearHandled
      <4>2. engineMissCount_' \in 0 .. kEngineMissLimit - 1
        BY <4>1 DEF kEngineMissLimit
      <4> QED BY <2>2, <4>1, <4>2 DEF EndCallback
    <3>2. CASE job # "sweepDown"
      BY <2>2, <3>2 DEF EndCallback
    <3> QED BY <3>1, <3>2
  <2> USE DEF Succeed, Fail, AskAndCall, Issue, Query, Transition, Shutdowns, ThreadInv
  <2>3. CASE QueryForBringUp
    BY <2>3 DEF QueryForBringUp
  <2>4. CASE QueryForBringDown
    BY <2>4 DEF QueryForBringDown
  <2>5. CASE QueryForCleanup
    BY <2>5 DEF QueryForCleanup
  <2>6. CASE QueryForShutdown
    BY <2>6 DEF QueryForShutdown
  <2>7. CASE CallDone
    <3>1. life' \in [Node -> LifeState] /\ handle' \in [Node -> Nat]
      BY <2>7, TransitionFacts DEF CallDone, Apply, LifeState
    <3> QED BY <2>7, <3>1 DEF CallDone
  <2>8. CASE CallRefused
    BY <2>8 DEF CallRefused, Refuses
  <2>9. CASE CallUnavailable
    BY <2>9 DEF CallUnavailable
  <2>10. CASE CallTimedOut
    BY <2>10 DEF CallTimedOut
  <2>11. CASE QueryAfterRefusal
    BY <2>11 DEF QueryAfterRefusal
  <2>12. CASE QueryForAnswer
    BY <2>12 DEF QueryForAnswer
  <2> QED BY <1>6, <2>1, <2>2, <2>3, <2>4, <2>5, <2>6, <2>7, <2>8, <2>9, <2>10, <2>11, <2>12
    DEF CallbackStep
<1>7. CASE UNCHANGED vars
  BY <1>7 DEF vars
<1> QED BY <1>1, <1>2, <1>3, <1>4, <1>5, <1>6, <1>7 DEF Next

\* The callbacks make only the calls their transition is made of.
LEMMA ThreadStep == TypeOK /\ ThreadInv /\ [Next]_vars => ThreadInv'
<1> SUFFICES ASSUME TypeOK, ThreadInv, [Next]_vars PROVE ThreadInv'
  OBVIOUS
<1> USE DEF ThreadInv, TypeOK
<1>1. ASSUME UNCHANGED threadVars PROVE ThreadInv'
  BY <1>1 DEF threadVars
<1>2. CASE EngineStep \/ NodeStep \/ UNCHANGED vars \/ CountMiss
  BY <1>1, <1>2 DEF vars, CountMiss, EngineStep, NodeStep, ExecuteLate,
    Spawn, Crash, CommandLine
<1>3. CASE SweepUp \/ SweepDown
  BY <1>3, NodeAssumption DEF SweepUp, SweepDown, StartCallback, Request, Missed
<1>4. CASE SetNodeState
  BY <1>4, NodeAssumption DEF SetNodeState, StartCallback
<1>5. CASE GetNodeStates
  BY <1>5, NodeAssumption DEF GetNodeStates, StartCallback
<1>6. CASE CallbackStep
  <2>1. CASE NextNode
    <3>1. /\ UNCHANGED <<job, request>> /\ job # "idle"
          /\ cur' \in Node /\ cur' \notin todo'
      BY <2>1 DEF NextNode
    <3>2. CASE job = "request"
      BY <2>1, <3>1, <3>2 DEF NextNode, Issue, Request, Transition
    <3>3. CASE job # "request"
      BY <2>1, <3>1, <3>3, NodeAssumption DEF NextNode, Issue, Request
    <3> QED BY <3>2, <3>3
  <2>2. CASE EndCallback
    BY <2>2 DEF EndCallback
  <2> USE DEF Succeed, Fail, AskAndCall, Issue, Transition, Shutdowns
  <2>3. CASE QueryForBringUp
    BY <2>3 DEF QueryForBringUp
  <2>4. CASE QueryForBringDown
    BY <2>4 DEF QueryForBringDown
  <2>5. CASE QueryForCleanup
    BY <2>5 DEF QueryForCleanup
  <2>6. CASE QueryForShutdown
    BY <2>6 DEF QueryForShutdown
  <2>7. CASE CallDone
    BY <2>7 DEF CallDone
  <2>8. CASE CallRefused \/ CallUnavailable \/ CallTimedOut \/ QueryAfterRefusal
    BY <2>8 DEF CallRefused, CallUnavailable, CallTimedOut, QueryAfterRefusal
  <2>9. CASE QueryForAnswer
    BY <2>9 DEF QueryForAnswer
  <2> QED BY <1>6, <2>1, <2>2, <2>3, <2>4, <2>5, <2>6, <2>7, <2>8, <2>9 DEF CallbackStep
<1> QED BY <1>2, <1>3, <1>4, <1>5, <1>6 DEF Next, Discovery

\* What the engine, the nodes and the operator's command line do to the
\* manager's invariant while one of its callbacks runs.
LEMMA EnvironmentStep ==
  ASSUME IInv, EngineStep \/ NodeStep \/ CountMiss \/ UNCHANGED vars
  PROVE  RestInv'
<1> USE DEF IInv, RestInv, TypeOK
<1>1. CASE EngineStep \/ CountMiss \/ UNCHANGED vars
  <2>1. UNCHANGED <<life, late, nodesAreUp_, handledNodes_, job, pc, cur, todo, disturbed, parked>>
    BY <1>1 DEF EngineStep, CountMiss, vars, nodeVars,
      memberVars, threadVars, historyVars
  <2> QED BY <2>1 DEF DisturbedInv, HandledInv, DownInv, ParkedInv, OrderInv
<1>2. ASSUME NEW n \in Node,
             ExecuteLate(n) \/ Spawn(n) \/ Crash(n) \/ \E t \in Transition : CommandLine(n, t)
      PROVE RestInv'
  <2>1. UNCHANGED <<nodesAreUp_, handledNodes_, job, pc, cur, todo>>
    BY <1>2 DEF ExecuteLate, Spawn, Crash, CommandLine, memberVars, threadVars
  <2>2. \A m \in Node \ {n} :
          /\ life'[m] = life[m] /\ late'[m] = late[m]
          /\ m \in disturbed' <=> m \in disturbed
          /\ m \in parked' <=> m \in parked
    BY <1>2 DEF ExecuteLate, Apply, Spawn, Crash, CommandLine, historyVars
  <2>3. \/ n \in disturbed'
        \/ life[n] = "absent" /\ life'[n] = "unconfigured" /\ late'[n] = late[n]
    BY <1>2 DEF ExecuteLate, Spawn, Crash, CommandLine, DisturbedInv
  <2>4. disturbed' \subseteq Node /\ disturbed \subseteq disturbed'
    BY <1>2 DEF ExecuteLate, Spawn, Crash, CommandLine, historyVars
  <2>5. late'[n] = None \/ (late'[n] = late[n] /\ life[n] = "absent")
    BY <1>2 DEF ExecuteLate, Spawn, Crash, CommandLine
  <2>6. n \in parked' => n \in parked /\ life'[n] # "absent"
    BY <1>2, TransitionFacts DEF ExecuteLate, Apply, Spawn, Crash, CommandLine, historyVars,
      ParkedInv
  <2>7. parked' \subseteq parked
    BY <1>2 DEF ExecuteLate, Spawn, Crash, CommandLine, historyVars
  <2>8. DisturbedInv'
    BY <2>1, <2>2, <2>3, <2>4, <2>5 DEF DisturbedInv
  <2>9. HandledInv'
    BY <2>1, <2>2, <2>3, <2>4 DEF HandledInv
  <2>10. DownInv'
    BY <2>1, <2>2, <2>3, <2>4 DEF DownInv, Up
  <2>11. ParkedInv'
    BY <2>1, <2>2, <2>6, <2>7 DEF ParkedInv
  <2>12. OrderInv'
    BY <2>1, <2>2, <2>3, <2>4 DEF OrderInv
  <2> QED BY <2>8, <2>9, <2>10, <2>11, <2>12
<1> QED BY <1>1, <1>2 DEF NodeStep

\* A callback starts: a sweep over the unhandled or over all the nodes, or a
\* request, which marks the nodes it is going to move.
LEMMA StartStep ==
  ASSUME IInv, SweepUp \/ SweepDown \/ SetNodeState \/ GetNodeStates
  PROVE  RestInv'
<1> USE DEF IInv, RestInv, TypeOK, StartCallback
<1>1. CASE SweepUp
  <2>1. /\ UNCHANGED <<life, late, parked>> /\ job' = "sweepUp" /\ pc' = "next"
        /\ nodesAreUp_' = TRUE /\ handledNodes_' = handledNodes_ \cap discover
        /\ disturbed' = disturbed \ (handledNodes_ \ discover)
        /\ todo' = discover \ handledNodes_ /\ job = "idle"
    BY <1>1 DEF SweepUp, nodeVars, unhandled
  <2>2. DisturbedInv'
    BY <2>1 DEF DisturbedInv, discover
  <2>3. HandledInv'
    BY <2>1 DEF HandledInv, discover
  <2>4. DownInv'
    BY <2>1 DEF DownInv
  <2>5. ParkedInv'
    BY <2>1 DEF ParkedInv, discover
  <2>6. OrderInv'
    BY <2>1 DEF OrderInv
  <2> QED BY <2>2, <2>3, <2>4, <2>5, <2>6
<1>2. CASE SweepDown
  <2>1. /\ UNCHANGED <<life, late, parked, nodesAreUp_, handledNodes_, disturbed>>
        /\ job' = "sweepDown" /\ pc' = "next" /\ todo' = discover /\ job = "idle"
        /\ nodesAreUp_
    BY <1>2 DEF SweepDown, takenDown, nodeVars, memberVars, historyVars, Missed
  <2>2. DisturbedInv' /\ HandledInv' /\ ParkedInv'
    BY <2>1 DEF DisturbedInv, HandledInv, ParkedInv
  <2>3. DownInv'
    BY <2>1 DEF DownInv, discover, Up
  <2>4. OrderInv'
    BY <2>1 DEF OrderInv, HandledInv, discover
  <2> QED BY <2>2, <2>3, <2>4
<1>3. CASE SetNodeState
  <2>1. /\ UNCHANGED <<life, late, nodesAreUp_, handledNodes_>>
        /\ job' = "request" /\ pc' = "next" /\ job = "idle"
    BY <1>3 DEF SetNodeState, nodeVars, memberVars
  <2>2. todo' \subseteq Node /\ disturbed' = disturbed \cup todo' /\ parked' = parked \ todo'
    BY <1>3 DEF SetNodeState, discover
  <2>3. DisturbedInv'
    BY <2>1, <2>2 DEF DisturbedInv
  <2>4. HandledInv'
    BY <2>1, <2>2 DEF HandledInv
  <2>5. DownInv' /\ OrderInv'
    BY <2>1, <2>2 DEF DownInv, OrderInv
  <2>6. ParkedInv'
    BY <2>1, <2>2 DEF ParkedInv
  <2> QED BY <2>3, <2>4, <2>5, <2>6
<1>4. CASE GetNodeStates
  <2>1. /\ UNCHANGED <<life, late, nodesAreUp_, handledNodes_, disturbed, parked>>
        /\ job' = "report" /\ todo' = {} /\ pc' = "next" /\ job = "idle"
    BY <1>4 DEF GetNodeStates, nodeVars, memberVars
  <2> QED BY <2>1 DEF DisturbedInv, HandledInv, DownInv, ParkedInv, OrderInv
<1> QED BY <1>1, <1>2, <1>3, <1>4

\* The loop of a callback reaches its next node, or its end.
LEMMA LoopStep ==
  ASSUME IInv, NextNode \/ EndCallback
  PROVE  RestInv'
<1> USE DEF IInv, RestInv, TypeOK
<1>1. CASE NextNode
  <2>1. /\ UNCHANGED <<life, late, nodesAreUp_, handledNodes_, job, request, disturbed, parked>>
        /\ pc = "next" /\ cur' \in todo /\ IsNext(cur', todo) /\ todo' = todo \ {cur'}
    BY <1>1 DEF NextNode, nodeVars, memberVars, historyVars
  <2>2. DisturbedInv' /\ HandledInv' /\ ParkedInv'
    BY <2>1 DEF DisturbedInv, HandledInv, ParkedInv
  <2>3. pc' # "next"
    BY <1>1, <2>1, NodeAssumption DEF NextNode, Issue
  <2>4. DownInv'
    BY <2>1, <2>3 DEF DownInv
  <2>5. OrderInv'
    <3> SUFFICES ASSUME job = "sweepDown" PROVE OrderInv'
      BY <2>1 DEF OrderInv
    <3>1. \A m \in todo' : Rank[m] \in Nat /\ Rank[m] <= Rank[cur'] /\ Rank[m] # Rank[cur']
      BY <2>1, NodeAssumption DEF IsNext, goingDown
    <3>2. \A m \in Node : Rank[m] \in Nat
      BY NodeAssumption
    <3>3. \A m \in todo' : Rank[m] < Rank[cur']
      BY <3>1, <3>2, <2>1
    <3>4. \A m \in (handledNodes_ \ disturbed) \ todo :
             \A n \in todo : Rank[n] < Rank[m]
      BY DEF OrderInv
    <3>5. \A m \in (handledNodes_' \ disturbed') \ todo' :
            /\ \A n \in todo' : Rank[n] < Rank[m]
            /\ m # cur' => Rank[cur'] < Rank[m]
      BY <2>1, <3>3, <3>4
    <3>6. \A m \in (handledNodes_' \cap todo') \ disturbed' : life'[m] = "active"
      BY <2>1 DEF OrderInv
    <3> QED BY <3>3, <3>5, <3>6 DEF OrderInv
  <2> QED BY <2>2, <2>4, <2>5
<1>2. CASE EndCallback
  <2>1. /\ UNCHANGED <<life, late, todo, disturbed>>
        /\ job' = "idle" /\ pc' = "idle" /\ pc = "next" /\ todo = {}
    BY <1>2 DEF EndCallback, nodeVars
  <2>2. CASE job = "sweepDown"
    <3>1. nodesAreUp_' = FALSE /\ handledNodes_' = {} /\ parked' = {}
      BY <1>2, <2>2 DEF EndCallback, clearHandled
    <3>2. DisturbedInv' /\ HandledInv' /\ ParkedInv' /\ OrderInv'
      BY <2>1, <3>1 DEF DisturbedInv, HandledInv, ParkedInv, OrderInv
    <3>3. DownInv'
      BY <2>1, <2>2, <3>1 DEF DownInv
    <3> QED BY <3>2, <3>3
  <2>3. CASE job # "sweepDown"
    <3>1. UNCHANGED <<nodesAreUp_, handledNodes_, parked>>
      BY <1>2, <2>3 DEF EndCallback, memberVars
    <3> QED BY <2>1, <2>3, <3>1 DEF DisturbedInv, HandledInv, DownInv, ParkedInv, OrderInv
  <2> QED BY <2>2, <2>3
<1> QED BY <1>1, <1>2

\* A call that failed, or that the manager gave up on: outside an up sweep the
\* node is marked, and only the mark changes.
LEMMA FailStep ==
  ASSUME IInv, pc \notin {"idle", "next"},
         UNCHANGED <<life, job, request, cur, todo, nodesAreUp_, handledNodes_, parked>>,
         pc' = "next",
         \/ UNCHANGED disturbed /\ job = "sweepUp"
         \/ disturbed' = disturbed \cup {cur},
         \/ UNCHANGED late
         \/ /\ late' = [late EXCEPT ![cur] = call] /\ pc = "call" /\ cur \in disturbed'
            /\ life[cur] # "absent"
  PROVE  RestInv'
<1> USE DEF IInv, RestInv, TypeOK
<1>1. cur \in Node
  BY DEF ThreadInv
<1>2. DisturbedInv'
  BY <1>1 DEF DisturbedInv
<1>3. HandledInv' /\ DownInv'
  BY DEF HandledInv, DownInv
<1>4. ParkedInv'
  BY <1>1 DEF ParkedInv
<1>5. OrderInv'
  BY DEF OrderInv
<1> QED BY <1>2, <1>3, <1>4, <1>5

\* A callback goes on with the node it is at: it may have moved that node.
LEMMA MidStep ==
  ASSUME IInv, pc \notin {"idle", "next"}, pc' # "next",
         UNCHANGED <<late, job, request, cur, todo, nodesAreUp_, handledNodes_,
                     disturbed, parked>>,
         life' \in [Node -> LifeState],
         \A n \in Node \ {cur} : life'[n] = life[n],
         life'[cur] = life[cur] \/ life'[cur] # "absent"
  PROVE  RestInv'
<1> USE DEF IInv, RestInv, TypeOK
<1>1. cur \in Node /\ cur \notin todo
  BY DEF ThreadInv
<1>2. DisturbedInv'
  BY <1>1 DEF DisturbedInv
<1>3. HandledInv' /\ DownInv'
  BY <1>1 DEF HandledInv, DownInv, DisturbedInv, ThreadInv
<1>4. ParkedInv'
  BY <1>1 DEF ParkedInv
<1>5. OrderInv'
  BY <1>1 DEF OrderInv
<1> QED BY <1>2, <1>3, <1>4, <1>5

\* A take-down leaves the node it cleaned up.
LEMMA CleanStep ==
  ASSUME IInv, pc \notin {"idle", "next"}, pc' = "next", job = "sweepDown",
         UNCHANGED <<late, job, request, cur, todo, nodesAreUp_, handledNodes_, parked>>,
         disturbed' = disturbed \ {cur}, late[cur] = None,
         life' \in [Node -> LifeState],
         \A n \in Node \ {cur} : life'[n] = life[n],
         life'[cur] = "unconfigured"
  PROVE  RestInv'
<1> USE DEF IInv, RestInv, TypeOK
<1>1. cur \in Node /\ cur \notin todo
  BY DEF ThreadInv
<1>2. DisturbedInv'
  BY <1>1 DEF DisturbedInv, ThreadInv
<1>3. HandledInv' /\ DownInv'
  BY <1>1 DEF HandledInv, DownInv, Up
<1>4. ParkedInv'
  BY <1>1 DEF ParkedInv
<1>5. OrderInv'
  BY <1>1 DEF OrderInv
<1> QED BY <1>2, <1>3, <1>4, <1>5

\* An up sweep, or a request, leaves the node it moved: it is handled now.
LEMMA SucceedStep ==
  ASSUME IInv, pc \notin {"idle", "next"}, job # "sweepDown", Succeed,
         UNCHANGED <<late, job, request, cur, todo>>,
         life' \in [Node -> LifeState],
         \A n \in Node \ {cur} : life'[n] = life[n],
         life'[cur] # "absent",
         job = "sweepUp" => life'[cur] = "active"
  PROVE  RestInv'
<1> USE DEF IInv, RestInv, TypeOK
<1>1. /\ cur \in Node /\ cur \notin todo
      /\ job \in {"sweepUp", "request"}
  BY DEF ThreadInv
<1>2. /\ pc' = "next" /\ handledNodes_' = handledNodes_ \cup {cur}
      /\ disturbed' = IF job = "sweepUp" /\ late[cur] = None
                      THEN disturbed \ {cur} ELSE disturbed
      /\ parked' = IF goingDown THEN parked \cup {cur} ELSE parked
      /\ UNCHANGED nodesAreUp_
  BY DEF Succeed
<1>3. DisturbedInv'
  BY <1>1, <1>2 DEF DisturbedInv
<1>4. cur \notin parked
  BY <1>1 DEF ParkedInv, HandledInv, ThreadInv
<1>5. late[cur] # None => cur \in disturbed
  BY <1>1 DEF DisturbedInv
<1>6. HandledInv'
  BY <1>1, <1>2, <1>5 DEF HandledInv, DisturbedInv
<1>7. DownInv'
  BY <1>1, <1>2, <1>5 DEF DownInv, DisturbedInv
<1>9. ParkedInv'
  BY <1>1, <1>2, <1>4 DEF ParkedInv
<1>10. OrderInv'
  BY <1>1 DEF OrderInv
<1> QED BY <1>3, <1>6, <1>7, <1>9, <1>10

\* One remote call of a callback, answered or not.
LEMMA CallStep == IInv /\ CallbackStep => RestInv'
<1> SUFFICES ASSUME IInv, CallbackStep PROVE RestInv'
  OBVIOUS
<1> USE DEF IInv
<1>1. CASE NextNode \/ EndCallback
  BY <1>1, LoopStep
<1>2. CASE QueryForBringUp
  <2>1. /\ pc \in {"upQuery", "upRequery"} /\ cur \in Node
        /\ UNCHANGED <<life, late, job, request, cur, todo>>
        /\ job # "sweepDown"
    BY <1>2 DEF QueryForBringUp, nodeVars, ThreadInv
  <2>2. PICK label \in Label :
          /\ Query(cur, label)
          /\ CASE label = "unconfigured" /\ pc = "upQuery" -> AskAndCall("configure")
               [] label = "inactive"                       -> AskAndCall("activate")
               [] label = "active"                         -> Succeed
               [] OTHER                                    -> Fail
    BY <1>2 DEF QueryForBringUp
  <2>3. label = "active" => life[cur] = "active"
    BY <2>2 DEF Query
  <2>4. CASE AskAndCall("configure") \/ AskAndCall("activate")
    BY <2>1, <2>4, MidStep DEF AskAndCall, Issue, memberVars, TypeOK
  <2>5. CASE Succeed /\ label = "active"
    BY <2>1, <2>3, <2>5, SucceedStep DEF TypeOK
  <2>6. CASE Fail
    BY <2>1, <2>6, FailStep DEF Fail, memberVars
  <2> QED BY <2>2, <2>4, <2>5, <2>6
<1>3. CASE QueryForBringDown
  <2>1. /\ pc = "downQuery" /\ cur \in Node
        /\ UNCHANGED <<life, late, job, request, cur, todo>>
    BY <1>3 DEF QueryForBringDown, nodeVars, ThreadInv
  <2>2. PICK label \in Label :
          /\ Query(cur, label)
          /\ CASE label = "active" -> AskAndCall("deactivate")
               [] label \in {"inactive", "unconfigured", "finalized"} -> Succeed
               [] OTHER -> Fail
    BY <1>3 DEF QueryForBringDown
  <2>3. label \in {"inactive", "unconfigured", "finalized"} => life[cur] = label
    BY <2>2 DEF Query
  <2>4. CASE AskAndCall("deactivate")
    BY <2>1, <2>4, MidStep DEF AskAndCall, Issue, memberVars, TypeOK
  <2>5. CASE Succeed /\ label \in {"inactive", "unconfigured", "finalized"}
    <3>1. CASE job = "sweepDown"
      BY <2>1, <2>5, <3>1, MidStep DEF Succeed, TypeOK
    <3>2. CASE job # "sweepDown"
      <4>1. job # "sweepUp"
        BY <2>1 DEF ThreadInv
      <4> QED BY <2>1, <2>3, <2>5, <3>2, <4>1, SucceedStep DEF TypeOK
    <3> QED BY <3>1, <3>2
  <2>6. CASE Fail
    BY <2>1, <2>6, FailStep DEF Fail, memberVars
  <2> QED BY <2>2, <2>4, <2>5, <2>6
<1>4. CASE QueryForCleanup
  <2>1. /\ pc = "cleanQuery" /\ cur \in Node /\ job = "sweepDown"
        /\ UNCHANGED <<life, late, job, request, cur, todo>>
    BY <1>4 DEF QueryForCleanup, nodeVars, ThreadInv, TypeOK
  <2>2. PICK label \in Label :
          /\ Query(cur, label)
          /\ IF label = "inactive"
             THEN AskAndCall("cleanup")
             ELSE /\ pc' = "next" /\ call' = None
                  /\ disturbed' = IF label = "unconfigured" /\ late[cur] = None
                                  THEN disturbed \ {cur}
                                  ELSE disturbed \cup {cur}
                  /\ UNCHANGED <<memberVars, parked>>
    BY <1>4 DEF QueryForCleanup
  <2>3. CASE label = "inactive"
    BY <2>1, <2>2, <2>3, MidStep DEF AskAndCall, Issue, memberVars, TypeOK
  <2>4. CASE label = "unconfigured" /\ late[cur] = None
    <3>1. life[cur] = "unconfigured"
      BY <2>2, <2>4 DEF Query
    <3> QED BY <2>1, <2>2, <2>4, <3>1, CleanStep DEF memberVars, TypeOK
  <2>5. CASE label # "inactive" /\ ~(label = "unconfigured" /\ late[cur] = None)
    BY <2>1, <2>2, <2>5, FailStep DEF memberVars
  <2> QED BY <2>3, <2>4, <2>5
<1>5. CASE QueryForShutdown
  <2>1. /\ pc = "shutQuery" /\ cur \in Node
        /\ job = "request"
        /\ UNCHANGED <<life, late, job, request, cur, todo>>
    BY <1>5 DEF QueryForShutdown, nodeVars, ThreadInv, TypeOK
  <2>2. PICK label \in Label :
          /\ Query(cur, label)
          /\ CASE label = "finalized"    -> Succeed
               [] label = "active"       -> AskAndCall("shutdownActive")
               [] label = "inactive"     -> AskAndCall("shutdownInactive")
               [] label = "unconfigured" -> AskAndCall("shutdownUnconfigured")
               [] OTHER                  -> Fail
    BY <1>5 DEF QueryForShutdown
  <2>3. label = "finalized" => life[cur] = "finalized"
    BY <2>2 DEF Query
  <2>4. CASE \E t \in Shutdowns : AskAndCall(t)
    BY <2>1, <2>4, MidStep DEF AskAndCall, Issue, memberVars, TypeOK
  <2>5. CASE Succeed /\ label = "finalized"
    BY <2>1, <2>3, <2>5, SucceedStep DEF TypeOK
  <2>6. CASE Fail
    BY <2>1, <2>6, FailStep DEF Fail, memberVars
  <2> QED BY <2>2, <2>4, <2>5, <2>6 DEF Shutdowns
<1>6. CASE CallDone
  <2>1. /\ pc = "call" /\ cur \in Node /\ call \in Transition
        /\ UNCHANGED <<late, job, request, cur, todo>>
        /\ late[cur] = None
    BY <1>6 DEF CallDone, ThreadInv
  <2>2. /\ life' \in [Node -> LifeState]
        /\ \A n \in Node \ {cur} : life'[n] = life[n]
        /\ life'[cur] = To(call)
        /\ life'[cur] # "absent"
    BY <1>6, <2>1, TransitionFacts DEF CallDone, Apply, TypeOK, LifeState
  <2>3. job \in {"sweepUp", "sweepDown", "request"}
    BY <2>1 DEF ThreadInv, TypeOK
  <2>4. CASE call = "configure" /\ request # "configure"
    BY <1>6, <2>1, <2>2, <2>4, TransitionFacts, MidStep DEF CallDone, memberVars
  <2>5. CASE call = "cleanup" /\ job = "sweepDown"
    BY <1>6, <2>1, <2>2, <2>5, TransitionFacts, CleanStep DEF CallDone, memberVars
  <2>6. CASE /\ ~(call = "configure" /\ request # "configure")
             /\ ~(call = "cleanup" /\ job = "sweepDown")
    <3>1. Succeed
      BY <1>6, <2>6 DEF CallDone
    <3>2. CASE job = "sweepDown"
      <4>1. life'[cur] = "inactive"
        BY <2>1, <2>2, <2>6, <3>2, TransitionFacts DEF ThreadInv
      <4> QED BY <2>1, <2>2, <3>1, <3>2, <4>1, MidStep DEF Succeed
    <3>3. CASE job = "sweepUp"
      <4>1. request # "configure"
        BY <3>3, NodeAssumption DEF ThreadInv, Request
      <4>2. life'[cur] = "active"
        BY <2>1, <2>2, <2>6, <3>3, <4>1, TransitionFacts DEF ThreadInv
      <4> QED BY <2>1, <2>2, <3>1, <3>3, <4>2, SucceedStep
    <3>4. CASE job = "request"
      BY <2>1, <2>2, <3>1, <3>4, SucceedStep
    <3> QED BY <2>3, <3>2, <3>3, <3>4
  <2> QED BY <2>4, <2>5, <2>6
<1>7. CASE CallUnavailable \/ QueryAfterRefusal
  <2>1. /\ pc \in {"call", "refusedQuery"} /\ Fail
        /\ UNCHANGED <<life, late, job, request, cur, todo>>
    BY <1>7 DEF CallUnavailable, QueryAfterRefusal, nodeVars
  <2> QED BY <2>1, FailStep DEF Fail, memberVars
<1>8. CASE CallRefused
  BY <1>8, MidStep DEF CallRefused, nodeVars, memberVars, TypeOK
<1>9. CASE CallTimedOut
  BY <1>9, FailStep DEF CallTimedOut, memberVars, TypeOK, ThreadInv
<1>10. CASE QueryForAnswer
  <2>1. UNCHANGED <<life, late, nodesAreUp_, handledNodes_, job, pc, cur, todo, disturbed, parked>>
    BY <1>10 DEF QueryForAnswer, nodeVars, memberVars
  <2> QED BY <2>1 DEF RestInv, DisturbedInv, HandledInv, DownInv, ParkedInv, OrderInv
<1> QED BY <1>1, <1>2, <1>3, <1>4, <1>5, <1>6, <1>7, <1>8, <1>9, <1>10 DEF CallbackStep

-----------------------------------------------------------------------------
\* The manager's inductive invariant holds in every behaviour.
THEOREM Invariance == Spec => []IInv
<1>1. Init => IInv
  <2> SUFFICES ASSUME Init PROVE IInv
    OBVIOUS
  <2>1. TypeOK
    <3>1. life \in [Node -> LifeState]
      BY DEF Init, LifeState
    <3>2. handle \in [Node -> Nat] /\ late \in [Node -> Transition \cup {None}]
      BY DEF Init
    <3>3. engineMissCount_ \in 0 .. kEngineMissLimit - 1
      BY DEF Init, kEngineMissLimit
    <3> QED BY <3>1, <3>2, <3>3 DEF Init, TypeOK, EngineInit, EngineType
  <2>2. ThreadInv /\ DisturbedInv /\ HandledInv /\ ParkedInv /\ OrderInv
    BY NodeAssumption
    DEF Init, ThreadInv, DisturbedInv, HandledInv, ParkedInv, OrderInv
  <2>3. DownInv
    BY DEF Init, DownInv, Up
  <2> QED BY <2>1, <2>2, <2>3 DEF IInv, RestInv
<1>2. IInv /\ [Next]_vars => IInv'
  <2> SUFFICES ASSUME IInv, [Next]_vars PROVE IInv'
    OBVIOUS
  <2>1. TypeOK' /\ ThreadInv'
    BY TypeStep, ThreadStep DEF IInv
  <2>2. RestInv'
    BY EnvironmentStep, StartStep, CallStep DEF Next, Discovery
  <2> QED BY <2>1, <2>2 DEF IInv
<1> QED BY <1>1, <1>2, PTL DEF Spec

\* The types: in particular the miss counter never reaches kEngineMissLimit.
THEOREM TypeCorrect == Spec => []TypeOK
BY Invariance, PTL DEF IInv

\* A finished take-down leaves no node configured that nobody disturbed.
THEOREM TakeDownIsComplete == Spec => []TakenDownClean
<1>1. IInv => TakenDownClean
  BY DEF IInv, RestInv, DownInv, TakenDownClean
<1> QED BY <1>1, Invariance, PTL

\* The nodes later sweeps skip are the ones that are up.
THEOREM HandledNodesAreUp == Spec => []HandledMeansUp
<1>1. IInv => HandledMeansUp
  BY DEF IInv, RestInv, HandledInv, HandledMeansUp
<1> QED BY <1>1, Invariance, PTL

\* No sweep, no other request and no new call undoes a take-down by hand: only an
\* activate that the node still had queued from before it.
THEOREM ParkedNodesStayDown == Spec => ParkedStaysDown
<1>1. ASSUME IInv, [Next]_vars, NEW n \in parked \cap parked'
      PROVE  /\ life[n] # "active" /\ life'[n] = "active" => late[n] = "activate"
             /\ late'[n] = "activate" => late[n] = "activate"
  <2> USE DEF IInv, RestInv, TypeOK
  <2>1. /\ n \in Node /\ n \in handledNodes_ /\ life[n] # "absent"
        /\ \A t \in Transition : To(t) = "active" => t = "activate"
    BY <1>1, TransitionFacts DEF ParkedInv, Transition
  <2>2. CASE UNCHANGED <<life, late>>
    BY <2>2
  <2>3. CASE NodeStep
    <3>1. PICK m \in Node : \/ ExecuteLate(m) \/ Spawn(m) \/ Crash(m)
                            \/ \E t \in Transition : CommandLine(m, t)
      BY <2>3 DEF NodeStep
    <3>2. ~(m = n /\ (Spawn(m) \/ Crash(m) \/ \E t \in Transition : CommandLine(m, t)))
      BY <1>1, <2>1 DEF Spawn, Crash, CommandLine
    <3>3. CASE m # n
      BY <1>1, <2>1, <3>1, <3>3 DEF ExecuteLate, Apply, Spawn, Crash, CommandLine
    <3>4. CASE m = n /\ ExecuteLate(n)
      <4>1. late'[n] = None /\ late[n] \in Transition
        BY <1>1, <2>1, <3>4 DEF ExecuteLate
      <4>2. life'[n] = life[n] \/ life'[n] = To(late[n])
        BY <1>1, <2>1, <3>4 DEF ExecuteLate, Apply
      <4> QED BY <2>1, <4>1, <4>2, NodeAssumption DEF Transition
    <3> QED BY <3>1, <3>2, <3>3, <3>4
  <2>4. CASE CallDone \/ CallTimedOut
    <3>1. /\ pc = "call" /\ cur \in Node /\ call \in Transition
          /\ CallDone => UNCHANGED late /\ life' = [life EXCEPT ![cur] = To(call)]
          /\ CallTimedOut => UNCHANGED life /\ late' = [late EXCEPT ![cur] = call]
      BY <1>1, <2>4 DEF CallDone, CallTimedOut, Apply, ThreadInv
    <3>2. cur = n => job = "sweepDown"
      BY <1>1, <2>1, <3>1 DEF ThreadInv, HandledInv, ParkedInv
    <3>3. cur = n => call \in {"deactivate", "cleanup"}
      BY <1>1, <3>1, <3>2 DEF ThreadInv
    <3> QED BY <1>1, <2>1, <2>4, <3>1, <3>3
  <2>5. CASE EngineStep \/ Discovery \/ SetNodeState \/ GetNodeStates \/ UNCHANGED vars
    BY <2>2, <2>5 DEF EngineStep, Discovery, SweepUp, CountMiss, SweepDown, SetNodeState,
      GetNodeStates, nodeVars, vars
  <2>6. CASE CallbackStep /\ ~CallDone /\ ~CallTimedOut
    BY <2>2, <2>6 DEF CallbackStep, NextNode, EndCallback, QueryForBringUp, QueryForBringDown,
      QueryForCleanup, QueryForShutdown, CallRefused, CallUnavailable, QueryAfterRefusal,
      QueryForAnswer, nodeVars
  <2> QED BY <1>1, <2>3, <2>4, <2>5, <2>6 DEF Next
<1>2. IInv /\ [Next]_vars =>
        \A n \in parked \cap parked' :
          /\ life[n] # "active" /\ life'[n] = "active" => late[n] = "activate"
          /\ late'[n] = "activate" => late[n] = "activate"
  BY <1>1
<1> QED BY <1>2, Invariance, PTL DEF Spec, ParkedStaysDown

\* A take-down goes through the handled nodes against the bring-up order.
THEOREM TakeDownGoesInReverse == Spec => []DownInReverseOrder
<1>1. IInv => DownInReverseOrder
  <2> SUFFICES ASSUME IInv, job = "sweepDown",
                      NEW m \in handledNodes_ \ disturbed, NEW n \in Node \ disturbed,
                      Rank[m] < Rank[n], life[m] # "active"
               PROVE  life[n] \notin Up
    BY DEF DownInReverseOrder
  <2>1. m \in Node /\ m \notin todo
    BY DEF IInv, RestInv, TypeOK, OrderInv
  <2>2. Rank[m] \in Nat /\ Rank[n] \in Nat
    BY <2>1, NodeAssumption
  <2>3. n \notin todo
    BY <2>1, <2>2 DEF IInv, RestInv, OrderInv
  <2>4. ~(n = cur /\ pc # "next")
    BY <2>1, <2>2 DEF IInv, RestInv, OrderInv
  <2> QED BY <2>3, <2>4 DEF IInv, RestInv, DownInv
<1> QED BY <1>1, Invariance, PTL

-----------------------------------------------------------------------------
\* What is left of a callback at the node it has reached.
LEMMA LeftFacts ==
  ASSUME NEW t
  PROVE  /\ LeftAtNode("idle", t) = 0 /\ LeftAtNode("next", t) = 1
         /\ LeftAtNode("refusedQuery", t) = 2
         /\ LeftAtNode("call", t) = IF t \in {"activate", "cleanup"} THEN 3 ELSE 5
         /\ \A w \in {"upRequery", "cleanQuery"} : LeftAtNode(w, t) = 4
         /\ \A w \in {"upQuery", "downQuery", "shutQuery"} : LeftAtNode(w, t) = 6
BY DEF LeftAtNode

\* A remote call, and the decision that follows it, bring the end of the visit of
\* a node closer.
LEMMA VisitGoesOn ==
  ASSUME TypeOK, ThreadInv, CallbackStep, ~NextNode, ~EndCallback, ~QueryForAnswer
  PROVE  UNCHANGED <<todo, asked>> /\ LeftAtNode(pc', call') < LeftAtNode(pc, call)
<1> USE DEF ThreadInv, AskAndCall, Issue, Succeed, Fail
<1>1. CASE QueryForBringUp
  <2>1. \/ pc = "upQuery" /\ pc' = "call" /\ call' = "configure"
        \/ pc \in {"upQuery", "upRequery"} /\ pc' = "call" /\ call' = "activate"
        \/ pc \in {"upQuery", "upRequery"} /\ pc' = "next"
    BY <1>1 DEF QueryForBringUp, TypeOK
  <2> QED BY LeftFacts, <1>1, <2>1 DEF QueryForBringUp
<1>2. CASE QueryForBringDown
  <2>1. pc = "downQuery" /\ (pc' = "call" \/ pc' \in {"next", "cleanQuery"})
    BY <1>2 DEF QueryForBringDown
  <2> QED BY LeftFacts, <1>2, <2>1 DEF QueryForBringDown
<1>3. CASE QueryForCleanup
  <2>1. pc = "cleanQuery" /\ ((pc' = "call" /\ call' = "cleanup") \/ pc' = "next")
    BY <1>3 DEF QueryForCleanup
  <2> QED BY LeftFacts, <1>3, <2>1 DEF QueryForCleanup
<1>4. CASE QueryForShutdown
  <2>1. pc = "shutQuery" /\ (pc' = "call" \/ pc' = "next")
    BY <1>4 DEF QueryForShutdown, TypeOK
  <2> QED BY LeftFacts, <1>4, <2>1 DEF QueryForShutdown
<1>5. CASE CallDone
  <2>1. \/ pc = "call" /\ call = "configure" /\ pc' = "upRequery"
        \/ pc = "call" /\ call = "deactivate" /\ pc' = "cleanQuery"
        \/ pc = "call" /\ pc' = "next"
    BY <1>5 DEF CallDone
  <2> QED BY LeftFacts, <1>5, <2>1 DEF CallDone
<1>6. CASE CallRefused \/ CallUnavailable \/ CallTimedOut \/ QueryAfterRefusal
  <2>1. /\ \/ pc = "call" /\ pc' \in {"next", "refusedQuery"}
           \/ pc = "refusedQuery" /\ pc' = "next"
        /\ UNCHANGED <<todo, asked>>
    BY <1>6 DEF CallRefused, CallUnavailable, CallTimedOut, QueryAfterRefusal
  <2> QED BY LeftFacts, <2>1
<1> QED BY <1>1, <1>2, <1>3, <1>4, <1>5, <1>6 DEF CallbackStep

\* Whoever is not the callback leaves it where it is.
LEMMA CallbackAlone ==
  ASSUME ThreadInv, [Next]_vars, ~CallbackStep, job # "idle"
  PROVE  UNCHANGED threadVars
BY DEF Next, EngineStep, NodeStep, ExecuteLate, Spawn, Crash, CommandLine, Discovery, SweepUp,
  CountMiss, SweepDown, Missed, SetNodeState, GetNodeStates, vars

\* Every callback of the manager ends: the number of remote calls it still makes
\* falls with each of them, for any number of nodes and whatever happens to them.
THEOREM CallbacksEnd == Spec => CallbackEnds
<1>1. ASSUME IInv, IInv', [Next]_vars
      PROVE  IF CallbackStep
             THEN Remaining' < Remaining
             ELSE job # "idle" => UNCHANGED threadVars
  <2>1. TypeOK /\ TypeOK' /\ ThreadInv
    BY <1>1 DEF IInv
  <2>2. \A S \in SUBSET Node : IsFiniteSet(S) /\ Cardinality(S) \in Nat
    BY NodeAssumption, FS_Subset, FS_CardinalityType
  <2>3. /\ Cardinality(todo) \in Nat /\ Cardinality(todo') \in Nat
        /\ Cardinality(asked) \in Nat /\ Cardinality(asked') \in Nat
    BY <2>1, <2>2 DEF TypeOK
  <2>4. LeftAtNode(pc, call) \in 0 .. 6 /\ LeftAtNode(pc', call') \in 0 .. 6
    <3>1. \A w \in {"idle", "next", "upQuery", "upRequery", "downQuery", "cleanQuery",
                     "shutQuery", "call", "refusedQuery"} :
            \A t : LeftAtNode(w, t) \in 0 .. 6
      BY LeftFacts
    <3> QED BY <2>1, <3>1 DEF TypeOK
  <2>5. LeftAtNode("next", call) = 1 /\ LeftAtNode("idle", call') = 0
    BY LeftFacts
  <2>6. CASE NextNode
    <3>1. pc = "next" /\ UNCHANGED asked /\ \E n \in todo : todo' = todo \ {n}
      BY <2>6 DEF NextNode
    <3>2. \A n \in todo : Cardinality(todo \ {n}) = Cardinality(todo) - 1
      BY <2>1, <2>2, FS_RemoveElement DEF TypeOK
    <3>3. Cardinality(todo') = Cardinality(todo) - 1
      BY <3>1, <3>2
    <3>4. Remaining' < Remaining
      BY <2>3, <2>4, <2>5, <3>1, <3>3 DEF Remaining
    <3> QED BY <2>6, <3>4 DEF CallbackStep
  <2>7. CASE EndCallback
    <3>1. pc = "next" /\ pc' = "idle" /\ UNCHANGED <<todo, asked>>
      BY <2>7 DEF EndCallback
    <3>2. Remaining' < Remaining
      BY <2>3, <2>4, <2>5, <3>1 DEF Remaining
    <3> QED BY <2>7, <3>2 DEF CallbackStep
  <2>8. CASE QueryForAnswer
    <3>1. UNCHANGED <<pc, call, todo>> /\ \E n \in asked : asked' = asked \ {n}
      BY <2>8 DEF QueryForAnswer
    <3>2. \A n \in asked : Cardinality(asked \ {n}) = Cardinality(asked) - 1
      BY <2>1, <2>2, FS_RemoveElement DEF TypeOK
    <3>3. Cardinality(asked') = Cardinality(asked) - 1
      BY <3>1, <3>2
    <3>4. Remaining' < Remaining
      BY <2>3, <2>4, <3>1, <3>3 DEF Remaining
    <3> QED BY <2>8, <3>4 DEF CallbackStep
  <2>9. CASE CallbackStep /\ ~NextNode /\ ~EndCallback /\ ~QueryForAnswer
    <3>1. UNCHANGED <<todo, asked>> /\ LeftAtNode(pc', call') < LeftAtNode(pc, call)
      BY <2>1, <2>9, VisitGoesOn
    <3>2. Remaining' < Remaining
      BY <2>3, <2>4, <2>5, <3>1 DEF Remaining
    <3> QED BY <2>9, <3>2
  <2>10. CASE ~CallbackStep
    BY <1>1, <2>1, <2>10, CallbackAlone
  <2> QED BY <2>6, <2>7, <2>8, <2>9, <2>10
<1>2. IInv /\ IInv' /\ [Next]_vars =>
        IF CallbackStep
        THEN Remaining' < Remaining
        ELSE job # "idle" => UNCHANGED threadVars
  BY <1>1
<1> QED BY <1>2, Invariance, PTL DEF Spec, CallbackEnds

-----------------------------------------------------------------------------
(***************************************************************************)
(* Handles of a past device.                                               *)
(***************************************************************************)
Stay == UNCHANGED <<engine, epoch, life, handle>>

\* What a transition does to a handle: it opens one of the engine's device,
\* keeps it, or closes it.
LEMMA ApplyFacts ==
  ASSUME TypeOK, HandlesAgree, NEW n \in Node, NEW t \in Transition, Apply(n, t),
         UNCHANGED <<engine, epoch>>
  PROVE  HandlesAgree' /\ \A m \in Node : oldHandle(m)' => oldHandle(m)
<1>1. /\ life[n] = From(t) /\ life' = [life EXCEPT ![n] = To(t)]
      /\ t = "configure" => epoch > 0
  BY DEF Apply, Accepts, HandlesAgree, deviceExists
<1>2. /\ From(t) \in LifeState /\ To(t) \in LifeState
      /\ To(t) \in Up => t = "configure" \/ From(t) \in Up
  <2>1. From("activate") \in Up /\ From("deactivate") \in Up BY DEF From, Up
  <2>2. t \in {"cleanup"} \cup Shutdowns => To(t) \notin Up BY TransitionFacts DEF Up
  <2>3. From(t) \in LifeState /\ To(t) \in LifeState BY TransitionFacts DEF LifeState
  <2> QED BY <2>1, <2>2, <2>3 DEF Transition
<1>3. handle' = [handle EXCEPT ![n] =
         IF t = "configure" THEN epoch ELSE IF To(t) \in Up THEN handle[n] ELSE 0]
  BY DEF Apply
<1>4. t = "configure" => To(t) \in Up
  BY TransitionFacts DEF Up
<1>5. epoch \in Nat /\ \A m \in Node : handle[m] \in Nat
  BY DEF TypeOK, EngineType
<1>6. HandlesAgree'
  <2>1. (deviceExists => epoch > 0)' BY DEF HandlesAgree, deviceExists
  <2>2. ASSUME NEW m \in Node
        PROVE  handle'[m] \in 0 .. epoch' /\ (handle'[m] # 0 <=> life'[m] \in Up)
    BY <1>1, <1>2, <1>3, <1>4, <1>5 DEF HandlesAgree, TypeOK
  <2> QED BY <2>1, <2>2 DEF HandlesAgree
<1>7. ASSUME NEW m \in Node, oldHandle(m)' PROVE oldHandle(m)
  BY <1>1, <1>2, <1>3, <1>5, <1>7 DEF oldHandle, TypeOK
<1> QED BY <1>6, <1>7

\* A step of the manager, of a node or of its operator moves handles by a transition,
\* or by the end of a process.
LEMMA HandleMoves ==
  ASSUME TypeOK, ThreadInv, HandlesAgree, [Next]_vars, ~EngineStep
  PROVE  HandlesAgree' /\ \A m \in Node : oldHandle(m)' => oldHandle(m)
<1> DEFINE Goal == HandlesAgree' /\ \A m \in Node : oldHandle(m)' => oldHandle(m)
<1>1. CASE Stay
  BY <1>1 DEF Stay, HandlesAgree, oldHandle, deviceExists
<1>2. ASSUME NEW n \in Node, ExecuteLate(n) PROVE Goal
  <2>1. late[n] \in Transition /\ UNCHANGED engineVars
    BY <1>2 DEF ExecuteLate, TypeOK
  <2>2. Apply(n, late[n]) \/ UNCHANGED <<life, handle>> BY <1>2 DEF ExecuteLate
  <2> QED BY <1>1, <2>1, <2>2, ApplyFacts DEF engineVars, Stay
<1>3. ASSUME NEW n \in Node, Spawn(n) \/ Crash(n) PROVE Goal
  <2>1. /\ life[n] \in LifeState /\ life'[n] \notin Up /\ UNCHANGED engineVars
        /\ handle' = handle \/ handle' = [handle EXCEPT ![n] = 0]
        /\ life' = [life EXCEPT ![n] = life'[n]]
        /\ Spawn(n) => life[n] \notin Up
    BY <1>3 DEF Spawn, Crash, TypeOK, Up
  <2>2. handle' = handle => Spawn(n) \/ handle[n] = 0
    BY <1>3 DEF Spawn, Crash, TypeOK
  <2>3. handle'[n] = 0
    BY <1>3, <2>1, <2>2 DEF Crash, HandlesAgree, TypeOK
  <2>4. \A m \in Node \ {n} : UNCHANGED <<life[m], handle[m]>>
    BY <2>1 DEF TypeOK
  <2> QED BY <2>1, <2>3, <2>4 DEF HandlesAgree, oldHandle, engineVars, deviceExists, TypeOK,
             EngineType
<1>4. ASSUME NEW n \in Node, NEW t \in Transition, CommandLine(n, t) PROVE Goal
  BY <1>4, ApplyFacts DEF CommandLine, engineVars
<1>5. CASE CallDone
  <2>1. cur \in Node /\ call \in Transition BY <1>5 DEF CallDone, ThreadInv
  <2> QED BY <1>5, <2>1, ApplyFacts DEF CallDone, engineVars
<1>6. CASE \/ Discovery \/ SetNodeState \/ GetNodeStates \/ (CallbackStep /\ ~CallDone)
           \/ UNCHANGED vars
  <2>1. UNCHANGED <<engineVars, life, handle>>
    BY <1>6 DEF Discovery, SweepUp, CountMiss, SweepDown, SetNodeState, GetNodeStates,
      CallbackStep, NextNode, EndCallback, QueryForBringUp, QueryForBringDown, QueryForCleanup,
      QueryForShutdown, CallRefused, CallUnavailable, CallTimedOut, QueryAfterRefusal,
      QueryForAnswer, nodeVars, vars
  <2> QED BY <1>1, <2>1 DEF Stay, engineVars
<1> QED BY <1>2, <1>3, <1>4, <1>5, <1>6 DEF Next, NodeStep

\* Only a new device makes a handle old.
LEMMA EngineMoves ==
  ASSUME TypeOK, HandlesAgree, EngineStep
  PROVE  /\ HandlesAgree' /\ UNCHANGED <<nodeVars, memberVars, threadVars, historyVars>>
         /\ epoch' = epoch => \A m \in Node : oldHandle(m)' => oldHandle(m)
<1>1. UNCHANGED <<nodeVars, memberVars, threadVars, historyVars>> BY DEF EngineStep
<1>2. /\ epoch \in Nat /\ epoch' \in {epoch, epoch + 1}
      /\ engine' # "none" => engine # "none" \/ epoch' = epoch + 1
  BY DEF EngineStep, EngineNext, BeginCall, EndCall, CreateDevice, CloseDevice,
    StartCommunication, StopCommunication, EngineExit, EngineLaunch, TypeOK, EngineType
<1>3. HandlesAgree'
  BY <1>1, <1>2 DEF HandlesAgree, deviceExists, nodeVars, TypeOK
<1> QED BY <1>1, <1>3 DEF oldHandle, nodeVars

\* Every handle is of a device the engine has made, and open where it should be.
THEOREM HandlesAreOpen == Spec => []HandlesAgree
<1>1. Init => HandlesAgree
  BY DEF Init, EngineInit, HandlesAgree, deviceExists, Up
<1>2. IInv /\ HandlesAgree /\ [Next]_vars => HandlesAgree'
  BY HandleMoves, EngineMoves DEF IInv
<1> QED BY <1>1, <1>2, Invariance, PTL DEF Spec

\* A node holds the handle of a past device only because the engine made another
\* one before the manager had taken the node down.
THEOREM OldHandlesByRestart == Spec => OldHandlesOnlyByRestart
<1>1. ASSUME IInv, IInv', HandlesAgree, [Next]_vars
      PROVE  \A n \in Node : oldHandle(n)' =>
               \/ /\ epoch' # epoch /\ life[n] \in Up
                  /\ nodesAreUp_ \/ n \in disturbed
               \/ /\ oldHandle(n)
                  /\ job = "sweepDown" /\ job' = "idle" => n \in disturbed
  <2> SUFFICES ASSUME NEW n \in Node, oldHandle(n)'
               PROVE  \/ /\ epoch' # epoch /\ life[n] \in Up
                         /\ nodesAreUp_ \/ n \in disturbed
                      \/ /\ oldHandle(n)
                         /\ job = "sweepDown" /\ job' = "idle" => n \in disturbed
    OBVIOUS
  <2>1. CASE EngineStep /\ epoch' # epoch
    <3>1. life[n] \in Up BY <2>1 DEF EngineStep, nodeVars, oldHandle
    <3>2. ~nodesAreUp_ => n \in disturbed BY <1>1, <3>1 DEF IInv, RestInv, DownInv
    <3> QED BY <2>1, <3>1, <3>2
  <2>2. CASE EngineStep /\ epoch' = epoch
    <3>1. oldHandle(n) /\ job' = job BY <1>1, <2>2, EngineMoves DEF IInv, threadVars
    <3> QED BY <3>1
  <2>3. CASE ~EngineStep
    <3>1. oldHandle(n) BY <1>1, <2>3, HandleMoves DEF IInv
    <3>2. ASSUME job = "sweepDown", job' = "idle" PROVE n \in disturbed
      <4>1. EndCallback
        BY <1>1, <2>3, <3>2 DEF Next, NodeStep, ExecuteLate, Spawn, Crash, CommandLine, threadVars,
          Discovery, SweepUp, CountMiss, Missed, SweepDown, SetNodeState, GetNodeStates,
          CallbackStep, NextNode, QueryForBringUp, QueryForBringDown, QueryForCleanup,
          QueryForShutdown, CallDone, CallRefused, CallUnavailable, CallTimedOut,
          QueryAfterRefusal, QueryForAnswer, vars
      <4>2. ~nodesAreUp_' /\ UNCHANGED disturbed BY <3>2, <4>1 DEF EndCallback
      <4>3. life'[n] \in Up BY DEF oldHandle
      <4> QED BY <1>1, <4>2, <4>3 DEF IInv, RestInv, DownInv
    <3> QED BY <3>1, <3>2
  <2> QED BY <2>1, <2>2, <2>3
<1> QED BY <1>1, Invariance, HandlesAreOpen, PTL DEF Spec, OldHandlesOnlyByRestart

=============================================================================
