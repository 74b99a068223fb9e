-------------------------- MODULE LifecycleManager --------------------------
(***************************************************************************)
(* wmx_lifecycle_manager_node: the node that follows the WMX engine and    *)
(* drives every managed (lifecycle) node of the graph up and down.         *)
(*                                                                         *)
(* The manager runs one callback at a time (its timer and its services     *)
(* share one mutually exclusive callback group), but a callback is a long  *)
(* sequence of remote calls.  Every get_state and every change_state call  *)
(* is therefore one step here, and the engine, the nodes, the operator's   *)
(* command line and late answers interleave between them.                  *)
(***************************************************************************)
EXTENDS EngineService, FiniteSets, Lifecycle

CONSTANTS
  Node,             \* the managed nodes
  Rank,             \* Rank[n]: the place of n in the bring-up order
  None,             \* no node, no transition
  Disturbances,     \* which disturbances of the environment occur
  MaxDisturbances   \* bound: how many disturbances one behaviour holds

Disturbance == {"timeout", "unknown", "refuse", "crash", "cli", "request"}

(***************************************************************************)
(* kEngineMissLimit, and the transitions set_node_state may be asked for:  *)
(* those of lifecycle_msgs and two names of its own.                       *)
(***************************************************************************)
kEngineMissLimit == 3

Request == {"configure", "activate", "deactivate", "cleanup", "shutdown",
            "bringup", "bringdown"}
isDownwardTransition(r) == r \in {"deactivate", "cleanup", "shutdown", "bringdown"}

ASSUME NodeAssumption ==
  /\ None \notin Node \cup Request \cup Transition
  /\ IsFiniteSet(Node)
  /\ Rank \in [Node -> Nat]
  /\ \A m, n \in Node : Rank[m] = Rank[n] => m = n
ASSUME BoundAssumption ==
  /\ Disturbances \subseteq Disturbance
  /\ MaxDisturbances \in Nat

LifeState == {"absent", "unconfigured", "inactive", "active", "finalized"}
Up == {"inactive", "active"}       \* the states that hold a device handle

VARIABLES
  life,             \* lifecycle state of each node; absent: not on the graph
  handle,           \* the device (epoch) a node attached to, 0 when closed
  late,             \* a change_state request the manager gave up on
  nodesAreUp_, engineMissCount_, handledNodes_,   \* the manager's members
  job,              \* the callback that runs: idle, sweepUp, sweepDown, request, report
  request,          \* the transition of the set_node_state that runs
  pc,               \* the remote call the callback is about to make
  cur, call, todo,  \* the node it is at, the transition it asks for, the rest
  asked,            \* the nodes whose states the service's response still lacks
  disturbed,        \* history: nodes moved by others, or whose call got lost
  parked,           \* history: nodes taken down through set_node_state
  disturbances      \* history: how many disturbances happened

nodeVars    == <<life, handle, late>>
memberVars  == <<nodesAreUp_, engineMissCount_, handledNodes_>>
threadVars  == <<job, request, pc, cur, call, todo, asked>>
historyVars == <<disturbed, parked, disturbances>>
vars == <<engineVars, nodeVars, memberVars, threadVars, historyVars>>

TypeOK ==
  /\ EngineType
  /\ life \in [Node -> LifeState]
  /\ handle \in [Node -> Nat]
  /\ late \in [Node -> Transition \cup {None}]
  /\ nodesAreUp_ \in BOOLEAN
  /\ engineMissCount_ \in 0 .. kEngineMissLimit - 1
  /\ handledNodes_ \subseteq Node
  /\ job \in {"idle", "sweepUp", "sweepDown", "request", "report"}
  /\ request \in Request \cup {None}
  /\ pc \in {"idle", "next", "upQuery", "upRequery", "downQuery",
             "cleanQuery", "shutQuery", "call", "refusedQuery"}
  /\ cur \in Node \cup {None}
  /\ call \in Transition \cup {None}
  /\ todo \subseteq Node /\ asked \subseteq Node
  /\ disturbed \subseteq Node
  /\ parked \subseteq Node
  /\ disturbances \in Nat

Init ==
  /\ EngineInit
  /\ life \in [Node -> {"absent", "unconfigured"}]
  /\ handle = [n \in Node |-> 0]
  /\ late = [n \in Node |-> None]
  /\ nodesAreUp_ = FALSE /\ engineMissCount_ = 0 /\ handledNodes_ = {}
  /\ job = "idle" /\ request = None /\ pc = "idle"
  /\ cur = None /\ call = None /\ todo = {} /\ asked = {}
  /\ disturbed = {} /\ parked = {} /\ disturbances = 0

Disturb(kind) ==
  /\ kind \in Disturbances
  /\ disturbances < MaxDisturbances
  /\ disturbances' = disturbances + 1

-----------------------------------------------------------------------------
\* The engine node, as EngineService has it.
EngineStep ==
  /\ EngineNext
  /\ UNCHANGED <<nodeVars, memberVars, threadVars, historyVars>>

-----------------------------------------------------------------------------
(***************************************************************************)
(* A managed node: what one transition request does to it.  on_configure   *)
(* attaches to the device and fails when there is none; on_configure and   *)
(* on_activate may also fail for reasons of their own ("refuse");          *)
(* on_deactivate, on_cleanup and on_shutdown always succeed.               *)
(***************************************************************************)
Accepts(n, t) ==
  /\ life[n] = From(t)
  /\ t = "configure" => deviceExists

Apply(n, t) ==
  /\ Accepts(n, t)
  /\ life' = [life EXCEPT ![n] = To(t)]
  /\ handle' = [handle EXCEPT ![n] =
       IF t = "configure" THEN epoch ELSE IF To(t) \in Up THEN @ ELSE 0]

\* A request the node rejects, or whose callback returns FAILURE.
Refuses(n, t) ==
  \/ ~Accepts(n, t) /\ UNCHANGED disturbances
  \/ Accepts(n, t) /\ t \in MayFail /\ Disturb("refuse")

\* The node executes the request the manager gave up on.
ExecuteLate(n) ==
  /\ late[n] # None
  /\ late' = [late EXCEPT ![n] = None]
  /\ \/ Apply(n, late[n]) /\ UNCHANGED disturbances
     \/ Refuses(n, late[n]) /\ UNCHANGED <<life, handle>>
  /\ UNCHANGED <<engineVars, memberVars, threadVars, disturbed, parked>>

\* The node's process starts, or starts again, unconfigured.
Spawn(n) ==
  /\ life[n] = "absent"
  /\ life' = [life EXCEPT ![n] = "unconfigured"]
  /\ UNCHANGED <<engineVars, handle, late, memberVars, threadVars, historyVars>>

\* The node's process ends; a request it has not executed is lost with it.
Crash(n) ==
  /\ life[n] # "absent"
  /\ Disturb("crash")
  /\ life' = [life EXCEPT ![n] = "absent"]
  /\ handle' = [handle EXCEPT ![n] = 0]
  /\ late' = [late EXCEPT ![n] = None]
  /\ disturbed' = disturbed \cup {n}
  /\ parked' = parked \ {n}
  /\ UNCHANGED <<engineVars, memberVars, threadVars>>

\* `ros2 lifecycle set`, which bypasses the manager.
CommandLine(n, t) ==
  /\ late[n] = None
  /\ Disturb("cli")
  /\ Apply(n, t)
  /\ disturbed' = disturbed \cup {n}
  /\ parked' = parked \ {n}
  /\ UNCHANGED <<engineVars, late, memberVars, threadVars>>

NodeStep ==
  \E n \in Node :
    \/ ExecuteLate(n) \/ Spawn(n) \/ Crash(n)
    \/ \E t \in Transition : CommandLine(n, t)

-----------------------------------------------------------------------------
(***************************************************************************)
(* The manager's callbacks.                                                *)
(***************************************************************************)
discover == {n \in Node : life[n] # "absent"}

\* What an up sweep goes through: the nodes it has not handled yet.
UnhandledMutant == discover
unhandled == discover \ handledNodes_

\* What a take-down goes through: every node, whatever brought it up.
TakenDownMutant == discover \cap handledNodes_
takenDown == discover

\* A take-down, by a sweep or by hand, runs against the bring-up order.
GoingDownMutant == job = "request" /\ isDownwardTransition(request)
goingDown == job = "sweepDown" \/ (job = "request" /\ isDownwardTransition(request))

IsNext(n, S) ==
  /\ n \in S
  /\ \A m \in S : IF goingDown THEN Rank[m] <= Rank[n] ELSE Rank[n] <= Rank[m]

\* A callback that moves the nodes of S, and reports the states of those of A.
StartCallback(j, r, S, A) ==
  /\ job' = j /\ request' = r /\ todo' = S /\ asked' = A /\ pc' = "next"
  /\ UNCHANGED <<cur, call>>

\* discoveryStep, the engine communicating: bringUpDiscovered starts.
SweepUp ==
  /\ job = "idle"
  /\ service = "answers" /\ engine = "communicating"
  /\ engineMissCount_' = 0
  /\ nodesAreUp_' = TRUE
  /\ handledNodes_' = handledNodes_ \cap discover
  /\ disturbed' = disturbed \ (handledNodes_ \ discover)
  /\ StartCallback("sweepUp", None, unhandled, {})
  /\ UNCHANGED <<engineVars, nodeVars, parked, disturbances>>

\* discoveryStep, the engine answering that it is not communicating.  An
\* unanswered query, or one while the nodes are not up, changes nothing.
MissedMutant == job = "idle" /\ service = "gone" /\ nodesAreUp_
Missed == job = "idle" /\ service = "answers" /\ engine # "communicating" /\ nodesAreUp_

UnderLimitMutant == engineMissCount_ + 1 <= kEngineMissLimit
underLimit == engineMissCount_ + 1 < kEngineMissLimit

CountMiss ==
  /\ Missed
  /\ underLimit
  /\ engineMissCount_' = engineMissCount_ + 1
  /\ UNCHANGED <<engineVars, nodeVars, nodesAreUp_, handledNodes_, threadVars, historyVars>>

SweepDown ==
  /\ Missed
  /\ ~underLimit
  /\ StartCallback("sweepDown", None, takenDown, {})
  /\ UNCHANGED <<engineVars, nodeVars, memberVars, historyVars>>

\* setNodeStateCallback, for one named node or for every node on the graph: it
\* moves them, and then asks each of them for its state, also those that failed.
SetNodeState ==
  /\ job = "idle"
  /\ Disturb("request")
  /\ \E r \in Request :
     \E S \in {{n} : n \in Node} \cup {discover} :
       /\ StartCallback("request", r, S, S)
       /\ disturbed' = disturbed \cup S
       /\ parked' = parked \ S
  /\ UNCHANGED <<engineVars, nodeVars, memberVars>>

\* getNodeStatesCallback: it asks every node on the graph for its state.
GetNodeStates ==
  /\ job = "idle"
  /\ Disturb("request")
  /\ StartCallback("report", None, {}, discover)
  /\ UNCHANGED <<engineVars, nodeVars, memberVars, disturbed, parked>>

Issue(t) == pc' = "call" /\ call' = t

\* The loop of a sweep or of a request reaches its next node.
NextNode ==
  /\ pc = "next" /\ todo # {}
  /\ \E n \in todo : IsNext(n, todo) /\ cur' = n /\ todo' = todo \ {n}
  /\ CASE job = "sweepUp" \/ request = "bringup"     -> pc' = "upQuery" /\ UNCHANGED call
       [] job = "sweepDown" \/ request = "bringdown" -> pc' = "downQuery" /\ UNCHANGED call
       [] request = "shutdown"                       -> pc' = "shutQuery" /\ UNCHANGED call
       [] OTHER                                      -> Issue(request)
  /\ UNCHANGED <<job, request, asked, engineVars, nodeVars, memberVars, historyVars>>

ClearHandledMutant == UNCHANGED handledNodes_
clearHandled == handledNodes_' = {}

\* The callback is over; a take-down forgets which nodes were handled.
EndCallback ==
  /\ pc = "next" /\ todo = {} /\ asked = {}
  /\ IF job = "sweepDown"
     THEN nodesAreUp_' = FALSE /\ engineMissCount_' = 0 /\ clearHandled /\ parked' = {}
     ELSE UNCHANGED <<memberVars, parked>>
  /\ job' = "idle" /\ request' = None /\ pc' = "idle" /\ cur' = None /\ call' = None
  /\ UNCHANGED <<todo, asked, engineVars, nodeVars, disturbed, disturbances>>

\* bringUp, bringDown, shutdown or changeState returned true for cur.
Succeed ==
  /\ call' = None
  /\ IF job = "sweepDown"
     THEN pc' = "cleanQuery" /\ UNCHANGED <<handledNodes_, disturbed, parked>>
     ELSE /\ pc' = "next"
          /\ handledNodes_' = handledNodes_ \cup {cur}
          /\ disturbed' = IF job = "sweepUp" /\ late[cur] = None
                          THEN disturbed \ {cur} ELSE disturbed
          /\ parked' = IF goingDown THEN parked \cup {cur} ELSE parked
  /\ UNCHANGED <<nodesAreUp_, engineMissCount_>>

FailMutant ==
  /\ call' = None /\ pc' = "next"
  /\ handledNodes_' = handledNodes_ \cup {cur}
  /\ disturbed' = IF job = "sweepUp" THEN disturbed ELSE disturbed \cup {cur}
  /\ UNCHANGED <<nodesAreUp_, engineMissCount_, parked>>

\* It returned false: the loop goes on, and only an up sweep will try again.
Fail ==
  /\ call' = None /\ pc' = "next"
  /\ disturbed' = IF job = "sweepUp" THEN disturbed ELSE disturbed \cup {cur}
  /\ UNCHANGED <<memberVars, parked>>

(***************************************************************************)
(* state(n): the label, unavailable when the node is gone, or unknown when *)
(* it does not answer in time.                                             *)
(***************************************************************************)
Query(n, label) ==
  \/ label = (IF life[n] = "absent" THEN "unavailable" ELSE life[n])
     /\ UNCHANGED disturbances
  \/ label = "unknown" /\ life[n] # "absent" /\ Disturb("unknown")

Label == (LifeState \ {"absent"}) \cup {"unavailable", "unknown"}

AskAndCall(t) == Issue(t) /\ UNCHANGED <<memberVars, disturbed, parked>>

QueryForBringUp ==
  /\ pc \in {"upQuery", "upRequery"}
  /\ \E label \in Label :
       /\ Query(cur, label)
       /\ CASE label = "unconfigured" /\ pc = "upQuery" -> AskAndCall("configure")
            [] label = "inactive"                       -> AskAndCall("activate")
            [] label = "active"                         -> Succeed
            [] OTHER                                    -> Fail
  /\ UNCHANGED <<engineVars, nodeVars, job, request, cur, todo, asked>>

QueryForBringDown ==
  /\ pc = "downQuery"
  /\ \E label \in Label :
       /\ Query(cur, label)
       /\ CASE label = "active" -> AskAndCall("deactivate")
            [] label \in {"inactive", "unconfigured", "finalized"} -> Succeed
            [] OTHER -> Fail
  /\ UNCHANGED <<engineVars, nodeVars, job, request, cur, todo, asked>>

\* bringDownDiscovered(cleanup): only an inactive node is cleaned up.
QueryForCleanup ==
  /\ pc = "cleanQuery"
  /\ \E label \in Label :
       /\ Query(cur, label)
       /\ IF label = "inactive"
          THEN AskAndCall("cleanup")
          ELSE /\ pc' = "next" /\ call' = None
               /\ disturbed' = IF label = "unconfigured" /\ late[cur] = None
                               THEN disturbed \ {cur}
                               ELSE disturbed \cup {cur}
               /\ UNCHANGED <<memberVars, parked>>
  /\ UNCHANGED <<engineVars, nodeVars, job, request, cur, todo, asked>>

QueryForShutdown ==
  /\ pc = "shutQuery"
  /\ \E label \in Label :
       /\ Query(cur, label)
       /\ CASE label = "finalized"    -> Succeed
            [] label = "active"       -> AskAndCall("shutdownActive")
            [] label = "inactive"     -> AskAndCall("shutdownInactive")
            [] label = "unconfigured" -> AskAndCall("shutdownUnconfigured")
            [] OTHER                  -> Fail
  /\ UNCHANGED <<engineVars, nodeVars, job, request, cur, todo, asked>>

(***************************************************************************)
(* changeState(cur, call).  The node executes requests one after the       *)
(* other, so a call waits behind a late one.                               *)
(***************************************************************************)
CallDone ==
  /\ pc = "call" /\ late[cur] = None
  /\ Apply(cur, call)
  /\ CASE call = "configure" /\ request # "configure" ->
            /\ pc' = "upRequery" /\ call' = None
            /\ UNCHANGED <<memberVars, disturbed, parked>>
       [] call = "cleanup" /\ job = "sweepDown" ->
            /\ pc' = "next" /\ call' = None
            /\ disturbed' = disturbed \ {cur}
            /\ UNCHANGED <<memberVars, parked>>
       [] OTHER -> Succeed
  /\ UNCHANGED <<engineVars, late, job, request, cur, todo, asked, disturbances>>

CallRefused ==
  /\ pc = "call" /\ life[cur] # "absent" /\ late[cur] = None
  /\ Refuses(cur, call)
  /\ pc' = "refusedQuery"
  /\ UNCHANGED <<call, disturbed, parked>>
  /\ UNCHANGED <<engineVars, nodeVars, memberVars, job, request, cur, todo, asked>>

\* The state a refusing node is asked for goes into the message only.
QueryAfterRefusal ==
  /\ pc = "refusedQuery"
  /\ \E label \in Label : Query(cur, label)
  /\ Fail
  /\ UNCHANGED <<engineVars, nodeVars, job, request, cur, todo, asked>>

CallUnavailable ==
  /\ pc = "call" /\ life[cur] = "absent"
  /\ Fail
  /\ UNCHANGED <<engineVars, nodeVars, job, request, cur, todo, asked, disturbances>>

\* kTransitionTimeout passes: the manager drops the request, the node may
\* still execute it.  Bound: one late request per node.
CallTimedOut ==
  /\ pc = "call" /\ life[cur] # "absent" /\ late[cur] = None
  /\ Disturb("timeout")
  /\ late' = [late EXCEPT ![cur] = call]
  /\ disturbed' = disturbed \cup {cur}
  /\ pc' = "next" /\ call' = None
  /\ UNCHANGED <<engineVars, life, handle, memberVars, job, request, cur, todo, asked, parked>>

\* The states a service's response reports, once its nodes have been moved.
QueryForAnswer ==
  /\ pc = "next" /\ todo = {}
  /\ \E n \in asked, label \in Label :
       IsNext(n, asked) /\ Query(n, label) /\ asked' = asked \ {n}
  /\ UNCHANGED <<job, request, pc, cur, call, todo, engineVars, nodeVars, memberVars>>
  /\ UNCHANGED <<disturbed, parked>>

Discovery == SweepUp \/ CountMiss \/ SweepDown

CallbackStep ==
  \/ NextNode \/ EndCallback
  \/ QueryForBringUp \/ QueryForBringDown \/ QueryForCleanup \/ QueryForShutdown
  \/ CallDone \/ CallRefused \/ CallUnavailable \/ CallTimedOut
  \/ QueryAfterRefusal \/ QueryForAnswer

Next ==
  EngineStep \/ NodeStep \/ Discovery \/ SetNodeState \/ GetNodeStates \/ CallbackStep

(***************************************************************************)
(* The timer fires for ever and its callback, whose calls all time out,    *)
(* always goes on; a node that runs gets to the request in its queue.      *)
(* Nothing makes the operator act, the engine start, stop or answer, or a  *)
(* node appear.                                                            *)
(***************************************************************************)
Fairness ==
  /\ WF_vars(Discovery)
  /\ WF_vars(CallbackStep)
  /\ \A n \in Node : WF_vars(ExecuteLate(n))

Spec == Init /\ [][Next]_vars
FairSpec == Spec /\ Fairness

-----------------------------------------------------------------------------
(***************************************************************************)
(* Safety.  disturbed collects the nodes somebody else moved, or that the  *)
(* manager lost a call to, since the manager last moved them itself.       *)
(***************************************************************************)

\* Once a take-down is over (or before the engine was ever up), no node but a
\* disturbed one is left configured: the handles that died with the engine are
\* all closed, whatever happened between the calls (bringDownDiscovered).
TakenDownClean ==
  job = "idle" /\ ~nodesAreUp_ =>
    \A n \in Node \ disturbed : life[n] \notin Up

\* A node the manager counts as handled, and so skips in every later sweep, is
\* active unless somebody else moved it (bringUpDiscovered, handledNodes_).
HandledMeansUp ==
  job = "idle" => \A n \in handledNodes_ \ disturbed : life[n] = "active"

\* A node taken down through set_node_state is not brought up again by a sweep, a
\* request for another node or a call the manager makes later (markManual).  One
\* thing only can do that: an activate the manager had given up on before, which
\* the node still had in its queue when the take-down found or left it down.  It
\* holds until the node's process ends, somebody else moves the node, it is asked
\* for again, or the engine stops.
ParkedStaysDown ==
  [][\A n \in parked \cap parked' :
       /\ life[n] # "active" /\ life'[n] = "active" => late[n] = "activate"
       /\ late'[n] = "activate" => late[n] = "activate"]_vars

\* While a take-down runs, no handled node goes down before a node that was
\* brought up after it: the device-level nodes go last (bringDownDiscovered).
DownInReverseOrder ==
  job = "sweepDown" =>
    \A m \in handledNodes_ \ disturbed, n \in Node \ disturbed :
      Rank[m] < Rank[n] /\ life[m] # "active" => life[n] \notin Up

\* A node that is up holds a handle, of a device the engine has made, and a node
\* that is not holds none (on_configure, on_cleanup).
HandlesAgree ==
  /\ deviceExists => epoch > 0
  /\ \A n \in Node : handle[n] \in 0 .. epoch /\ (handle[n] # 0 <=> life[n] \in Up)

oldHandle(n) == life[n] \in Up /\ handle[n] # epoch

\* A node comes to hold the handle of a past device in one way only: the engine
\* makes another device while the node is up, which the manager had not taken
\* down or others had moved.  No sweep, request or late answer hands one out, and
\* a take-down leaves none behind (bringUp, bringDownDiscovered, discoveryStep).
OldHandlesOnlyByRestart ==
  [][\A n \in Node : oldHandle(n)' =>
       \/ /\ epoch' # epoch /\ life[n] \in Up
          /\ nodesAreUp_ \/ n \in disturbed
       \/ /\ oldHandle(n)
          /\ job = "sweepDown" /\ job' = "idle" => n \in disturbed]_vars

\* How far a callback is from its end: for a node at most two transitions, each
\* after a query of its state, and a third query when the second is refused.
LeftAtNode(where, t) ==
  CASE where = "idle" -> 0
    [] where = "next" -> 1
    [] where = "refusedQuery" -> 2
    [] where = "call" -> IF t \in {"activate", "cleanup"} THEN 3 ELSE 5
    [] where \in {"upRequery", "cleanQuery"} -> 4
    [] where \in {"upQuery", "downQuery", "shutQuery"} -> 6

Remaining == 6 * Cardinality(todo) + Cardinality(asked) + LeftAtNode(pc, call)

\* A callback makes at most five remote calls for a node it moves, and one more for
\* a node whose state its response reports, whatever the nodes answer and whoever
\* moves them meanwhile, so the timer and the services, which share its group, come
\* to their turn (bringUp, bringDownDiscovered, changeState, setNodeStateCallback).
CallbackEnds ==
  [][IF CallbackStep
     THEN Remaining' < Remaining
     ELSE job # "idle" => UNCHANGED threadVars]_vars

(***************************************************************************)
(* Liveness.                                                               *)
(***************************************************************************)
\* If the engine communicates from some point on, every node that stays on the
\* graph ends up active, but for those taken out by hand, moved by others while
\* the manager counted them as handled, or shut down (discoveryStep, bringUp).
UpFollowsEngine ==
  <>[](service = "answers" /\ engine = "communicating") =>
    \A n \in Node :
      <>[](life[n] # "absent") =>
        <>[](life[n] \in {"active", "finalized"} \/ n \in handledNodes_ \cap disturbed)

\* If the engine answers but never communicates from some point on, every node
\* but the disturbed ones ends up cleaned up (discoveryStep, bringDown).
DownFollowsEngine ==
  <>[](service = "answers" /\ engine # "communicating") =>
    \A n \in Node : <>[](life[n] \notin Up \/ n \in disturbed)

(***************************************************************************)
(* What the documentation says and the code does not do.                   *)
(***************************************************************************)

\* README.md:111-113: when the engine stops, the nodes, whose handles are dead,
\* are cleaned up, and brought up again when it returns.  So once the engine is
\* back to stay, no node works with the handle of an earlier device.
deadHandle(n) == life[n] = "active" /\ handle[n] # epoch
DeadHandlesAreDropped ==
  <>[](service = "answers" /\ engine = "communicating") =>
    \A n \in Node : <>[]~deadHandle(n)

=============================================================================
