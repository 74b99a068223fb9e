--------------------------- MODULE EngineService ---------------------------
(***************************************************************************)
(* The WMX engine as its clients see it: the lifecycle manager, which asks *)
(* wmx/engine/get_engine_status, and the nodes, which attach to its device.*)
(* EngineNode shows that wmx_engine_node implements it.                    *)
(*                                                                         *)
(* Every call of the engine node runs under one mutex and in one callback  *)
(* group, so while one runs no status is answered: the service is busy.    *)
(***************************************************************************)
EXTENDS Naturals

CONSTANT MaxEpoch    \* bound: how many times the engine's device is created

ASSUME EpochAssumption == MaxEpoch \in Nat

VARIABLES
  engine,    \* what GetEngineStatus says: none, device or communicating
  service,   \* the engine node's services: answers, busy or gone
  epoch      \* which device the engine created last

engineVars == <<engine, service, epoch>>

EngineType ==
  /\ engine \in {"none", "device", "communicating"}
  /\ service \in {"answers", "busy", "gone"}
  /\ epoch \in Nat

EngineInit ==
  /\ engine = "none" /\ service \in {"answers", "busy"} /\ epoch = 0

deviceExists == engine # "none"

\* A call takes the mutex, and leaves it.
BeginCall ==
  /\ service = "answers"
  /\ service' = "busy"
  /\ UNCHANGED <<engine, epoch>>

EndCall ==
  /\ service = "busy"
  /\ service' = "answers"
  /\ UNCHANGED <<engine, epoch>>

CreateDevice ==
  /\ service = "busy" /\ engine = "none" /\ epoch < MaxEpoch
  /\ engine' = "device" /\ epoch' = epoch + 1
  /\ UNCHANGED service

\* set_engine(false), and a start that refuses the device it created.
CloseDevice ==
  /\ service = "busy" /\ engine # "none"
  /\ engine' = "none"
  /\ UNCHANGED <<service, epoch>>

StartCommunication ==
  /\ service = "busy" /\ engine = "device"
  /\ engine' = "communicating"
  /\ UNCHANGED <<service, epoch>>

\* On request, or because the communication broke down.
StopCommunication ==
  /\ service # "gone" /\ engine = "communicating"
  /\ engine' = "device"
  /\ UNCHANGED <<service, epoch>>

\* The process ends and its device with it; it is launched again: the new process starts the engine from a thread of its own.
EngineExit ==
  /\ service = "busy"
  /\ service' = "gone" /\ engine' = "none"
  /\ UNCHANGED epoch

EngineLaunch ==
  /\ service = "gone"
  /\ service' = "answers"
  /\ UNCHANGED <<engine, epoch>>

EngineNext ==
  \/ BeginCall \/ EndCall \/ CreateDevice \/ CloseDevice
  \/ StartCommunication \/ StopCommunication \/ EngineExit \/ EngineLaunch

EngineSpec == EngineInit /\ [][EngineNext]_engineVars

=============================================================================
