------------------------- MODULE VisualizerHubProofs -------------------------
(***************************************************************************)
(* Proofs about VisualizerHub, for any number of clients and models: the   *)
(* active loop always has a model, and as long as starts and stops come    *)
(* one at a time the hub is never told to start without an adapter and a   *)
(* start delivers the model it named.                                      *)
(***************************************************************************)
EXTENDS VisualizerHub, TLAPS

(* Who could still store Active, or has just reset the model. *)
ModelInv ==
    /\ TypeOK
    /\ ActiveHasModel
    /\ hubAt \in {"Reset", "ResetAdapter"} => status # "Active"

(* What the status says of the hub's thread and of the session. *)
HubInv ==
    /\ status = "Idle" => hubAt \in {"Load", "Wait"} /\ draco = None
    /\ status = "Starting" =>
          /\ hubAt \in {"Load", "Wait", "Make", "SetActive", "SetIdle"}
          /\ adapter # None
          /\ hubAt # "SetActive" => draco = None
    /\ status = "Active" =>
          /\ hubAt \in {"Load", "Wait", "Terminated"} \/ InActiveLoop
          /\ draco = adapter
    /\ status = "Stopping" => hubAt \notin {"Make", "SetActive"}
    /\ hubAt \in {"ResetAdapter", "SetIdle"} => draco = None
    /\ hubAt = "SetActive" => draco = adapter

Serving(c) == at[c] \notin {"Idle", "Push"}

(* What a client being served knows of the status and of the session. *)
ServedInv(c) ==
    /\ at[c] = "Test" => status \in {"Idle", "Active"}
    /\ at[c] = "Force" => status = "Active"
    /\ at[c] \in {"AwaitStopped", "AwaitIdle"} => status \in {"Stopping", "Idle"}
    /\ at[c] \in {"LoadModel", "Signal"} => status = "Idle"
    /\ at[c] = "AwaitStarted" => status # "Stopping"
    /\ at[c] = "Hash" => status \in {"Active", "Idle"}
    /\ at[c] \in {"Signal", "AwaitStarted", "Hash"} =>
          model[c] = adapter /\ model[c] \in Models

OneServed == \A c, d \in Clients : Serving(c) /\ Serving(d) => c = d

AloneInv ==
    ~overlapped => HubInv /\ OneServed /\ \A c \in Clients : ServedInv(c)

Inv == ModelInv /\ AloneInv

LEMMA InitInv == Init => Inv
BY ModelAssumption DEF Init, Inv, ModelInv, AloneInv, TypeOK, ActiveHasModel,
   InActiveLoop, HubInv, OneServed, Serving, ServedInv, Statuses, HubPoints,
   ClientPoints, Loaded

(* Every variable keeps its type. *)
LEMMA TypeStep == TypeOK /\ [Next]_vars => TypeOK'
<1> SUFFICES ASSUME TypeOK, [Next]_vars PROVE TypeOK'
  OBVIOUS
<1> USE ModelAssumption
    DEF TypeOK, Statuses, HubPoints, ClientPoints, Loaded,
        sessionVars, workVars, hubVars, clientVars,
        HubGoTo, GoTo, Arrive
<1>1. CASE UNCHANGED vars
  BY <1>1 DEF vars, sessionVars, workVars, hubVars, clientVars
<1>2. CASE HubStep
  <2>1. CASE Load           BY <2>1 DEF Load
  <2>2. CASE Wait           BY <2>2 DEF Wait
  <2>3. CASE Reset          BY <2>3 DEF Reset
  <2>4. CASE ResetAdapter   BY <2>4 DEF ResetAdapter
  <2>5. CASE SetIdle        BY <2>5 DEF SetIdle
  <2>6. CASE Make           BY <2>6 DEF Make
  <2>7. CASE SetActive      BY <2>7 DEF SetActive
  <2>8. CASE Test           BY <2>8 DEF Test
  <2>9. CASE Position       BY <2>9 DEF Position
  <2>10. CASE Tasks          BY <2>10 DEF Tasks
  <2> QED
    BY <1>2, <2>1, <2>2, <2>3, <2>4, <2>5, <2>6, <2>7, <2>8, <2>9, <2>10 DEF HubStep
<1>3. CASE QueueMeshcatTask
  BY <1>3 DEF QueueMeshcatTask, clientVars
<1>4. ASSUME NEW c \in Clients, NEW m \in Models, StartVisualizer(c, m)
      PROVE  TypeOK'
  BY <1>4 DEF StartVisualizer, Quiet
<1>5. ASSUME NEW c \in Clients, StopVisualizer(c) PROVE TypeOK'
  BY <1>5 DEF StopVisualizer, Quiet
<1>6. ASSUME NEW c \in Clients, SetConfiguration(c) PROVE TypeOK'
  BY <1>6 DEF SetConfiguration
<1>7. ASSUME NEW c \in Clients, ClientStep(c) PROVE TypeOK'
  <2>1. CASE TestStatus(c)     BY <2>1 DEF TestStatus
  <2>2. CASE ForceReload(c)    BY <2>2 DEF ForceReload
  <2>3. CASE AwaitStopped(c)   BY <2>3 DEF AwaitStopped
  <2>4. CASE LoadModel(c)      BY <2>4 DEF LoadModel
  <2>5. CASE Signal(c)         BY <2>5 DEF Signal
  <2>6. CASE AwaitStarted(c)   BY <2>6 DEF AwaitStarted
  <2>7. CASE Hash(c)           BY <2>7 DEF Hash
  <2>8. CASE AwaitIdle(c)      BY <2>8 DEF AwaitIdle
  <2>9. CASE Push(c)           BY <2>9 DEF Push
  <2> QED
    BY <1>7, <2>1, <2>2, <2>3, <2>4, <2>5, <2>6, <2>7, <2>8, <2>9 DEF ClientStep
<1> QED
  BY <1>1, <1>2, <1>3, <1>4, <1>5, <1>6, <1>7 DEF Next

(* Only the hub stores Active, and only with a model; the model goes only    *)
(* while a stop is served, when no one could store Active.                  *)
LEMMA ModelStep == ModelInv /\ [Next]_vars => ModelInv'
<1> SUFFICES ASSUME ModelInv, [Next]_vars PROVE ModelInv'
  OBVIOUS
<1>0. TypeOK'
  BY TypeStep DEF ModelInv
<1> USE <1>0, ModelAssumption
    DEF ModelInv, TypeOK, Statuses, HubPoints, Loaded, ActiveHasModel,
        InActiveLoop, sessionVars, workVars, hubVars, clientVars,
        HubGoTo, GoTo, Arrive
<1>1. CASE UNCHANGED vars
  BY <1>1 DEF vars, sessionVars, workVars, hubVars, clientVars
<1>2. CASE HubStep
  <2>1. CASE Load           BY <2>1 DEF Load
  <2>2. CASE Wait           BY <2>2 DEF Wait
  <2>3. CASE Reset          BY <2>3 DEF Reset
  <2>4. CASE ResetAdapter   BY <2>4 DEF ResetAdapter
  <2>5. CASE SetIdle        BY <2>5 DEF SetIdle
  <2>6. CASE Make           BY <2>6 DEF Make
  <2>7. CASE SetActive      BY <2>7 DEF SetActive
  <2>8. CASE Test           BY <2>8 DEF Test
  <2>9. CASE Position       BY <2>9 DEF Position
  <2>10. CASE Tasks          BY <2>10 DEF Tasks
  <2> QED
    BY <1>2, <2>1, <2>2, <2>3, <2>4, <2>5, <2>6, <2>7, <2>8, <2>9, <2>10 DEF HubStep
<1>3. CASE QueueMeshcatTask
  BY <1>3 DEF QueueMeshcatTask, clientVars
<1>4. ASSUME NEW c \in Clients, NEW m \in Models, StartVisualizer(c, m)
      PROVE  ModelInv'
  BY <1>4 DEF StartVisualizer, Quiet
<1>5. ASSUME NEW c \in Clients, StopVisualizer(c) PROVE ModelInv'
  BY <1>5 DEF StopVisualizer, Quiet
<1>6. ASSUME NEW c \in Clients, SetConfiguration(c) PROVE ModelInv'
  BY <1>6 DEF SetConfiguration
<1>7. ASSUME NEW c \in Clients, ClientStep(c) PROVE ModelInv'
  <2>1. CASE TestStatus(c)     BY <2>1 DEF TestStatus
  <2>2. CASE ForceReload(c)    BY <2>2 DEF ForceReload
  <2>3. CASE AwaitStopped(c)   BY <2>3 DEF AwaitStopped
  <2>4. CASE LoadModel(c)      BY <2>4 DEF LoadModel
  <2>5. CASE Signal(c)         BY <2>5 DEF Signal
  <2>6. CASE AwaitStarted(c)   BY <2>6 DEF AwaitStarted
  <2>7. CASE Hash(c)           BY <2>7 DEF Hash
  <2>8. CASE AwaitIdle(c)      BY <2>8 DEF AwaitIdle
  <2>9. CASE Push(c)           BY <2>9 DEF Push
  <2> QED
    BY <1>7, <2>1, <2>2, <2>3, <2>4, <2>5, <2>6, <2>7, <2>8, <2>9 DEF ClientStep
<1> QED
  BY <1>1, <1>2, <1>3, <1>4, <1>5, <1>6, <1>7 DEF Next

(* While starts and stops come one at a time, what the client being served  *)
(* knows of the status is kept by the hub, and the hub's phases by it.      *)
LEMMA AloneStep == Inv /\ [Next]_vars => AloneInv'
<1> SUFFICES ASSUME Inv, [Next]_vars, ~overlapped' PROVE AloneInv'
  BY DEF AloneInv
<1> DEFINE Goal == /\ HubInv'
                   /\ OneServed'
                   /\ \A c \in Clients : ServedInv(c)'
<1> SUFFICES Goal
  BY DEF AloneInv
<1>0. TypeOK /\ TypeOK'
  BY TypeStep DEF Inv, ModelInv
<1> USE <1>0, ModelAssumption
    DEF Inv, AloneInv, HubInv, OneServed, ServedInv, Serving, InActiveLoop,
        TypeOK, Statuses, HubPoints, ClientPoints, Loaded,
        sessionVars, workVars, hubVars, clientVars, HubGoTo, GoTo, Arrive
<1>1. CASE UNCHANGED vars
  BY <1>1 DEF vars
<1>2. CASE HubStep
  <2>1. CASE Load           BY <2>1 DEF Load
  <2>2. CASE Wait           BY <2>2 DEF Wait
  <2>3. CASE Reset          BY <2>3 DEF Reset
  <2>4. CASE ResetAdapter   BY <2>4 DEF ResetAdapter
  <2>5. CASE SetIdle        BY <2>5 DEF SetIdle
  <2>6. CASE Make           BY <2>6 DEF Make
  <2>7. CASE SetActive      BY <2>7 DEF SetActive
  <2>8. CASE Test           BY <2>8 DEF Test
  <2>9. CASE Position       BY <2>9 DEF Position
  <2>10. CASE Tasks          BY <2>10 DEF Tasks
  <2> QED
    BY <1>2, <2>1, <2>2, <2>3, <2>4, <2>5, <2>6, <2>7, <2>8, <2>9, <2>10 DEF HubStep
<1>3. CASE QueueMeshcatTask
  BY <1>3 DEF QueueMeshcatTask
<1>4. ASSUME NEW c \in Clients, NEW m \in Models, StartVisualizer(c, m)
      PROVE  Goal
  BY <1>4 DEF StartVisualizer, Quiet
<1>5. ASSUME NEW c \in Clients, StopVisualizer(c) PROVE Goal
  BY <1>5 DEF StopVisualizer, Quiet
<1>6. ASSUME NEW c \in Clients, SetConfiguration(c) PROVE Goal
  BY <1>6 DEF SetConfiguration
<1>7. ASSUME NEW c \in Clients, ClientStep(c) PROVE Goal
  <2>1. CASE TestStatus(c)     BY <2>1 DEF TestStatus
  <2>2. CASE ForceReload(c)    BY <2>2 DEF ForceReload
  <2>3. CASE AwaitStopped(c)   BY <2>3 DEF AwaitStopped
  <2>4. CASE LoadModel(c)      BY <2>4 DEF LoadModel
  <2>5. CASE Signal(c)         BY <2>5 DEF Signal
  <2>6. CASE AwaitStarted(c)   BY <2>6 DEF AwaitStarted
  <2>7. CASE Hash(c)           BY <2>7 DEF Hash
  <2>8. CASE AwaitIdle(c)      BY <2>8 DEF AwaitIdle
  <2>9. CASE Push(c)           BY <2>9 DEF Push
  <2> QED
    BY <1>7, <2>1, <2>2, <2>3, <2>4, <2>5, <2>6, <2>7, <2>8, <2>9 DEF ClientStep
<1> QED
  BY <1>1, <1>2, <1>3, <1>4, <1>5, <1>6, <1>7 DEF Next

LEMMA InvStep == Inv /\ [Next]_vars => Inv'
BY ModelStep, AloneStep DEF Inv

(* Types, and a model wherever the active loop or a client that reads       *)
(* Active expects one, for all requests in any overlap.                     *)
THEOREM HubSafety == Spec => []TypeOK /\ []ActiveHasModel
<1>1. Inv => TypeOK /\ ActiveHasModel
  BY DEF Inv, ModelInv
<1> QED
  BY InitInv, InvStep, <1>1, PTL DEF Spec

(* The start/stop protocol delivers what it promises to requests that come  *)
(* one at a time: the adapter is there when the hub is told to start, and   *)
(* who is answered finds the model it named, or none.                       *)
THEOREM SequentialProtocol == Spec => []AdapterReadyAlone /\ []StartDelivers
<1>1. Inv => AdapterReadyAlone
  BY ModelAssumption
     DEF Inv, ModelInv, TypeOK, Statuses, AloneInv, HubInv, InActiveLoop,
         AdapterReadyAlone
<1>2. Inv => StartDelivers
  BY DEF Inv, AloneInv, HubInv, ServedInv, StartDelivers
<1> QED
  BY InitInv, InvStep, <1>1, <1>2, PTL DEF Spec

(* The adapter that the hub dereferences when it is told to start is there, *)
(* for any clients and models, as long as requests do not overlap: the      *)
(* reset of the last stop is over before the next start is stored           *)
(* (visualizer_hub.cc, Run and Start).                                      *)
THEOREM AdapterReady == Spec => []AdapterReadyAlone
BY SequentialProtocol, PTL
==============================================================================
