--------------------------- MODULE VisualizerHub ---------------------------
(***************************************************************************)
(* The visualizer's hub: one thread (VisualizerHub::Run) that loads, runs  *)
(* and drops the visualized model, and the gRPC threads of                 *)
(* VisualizerService that ask it to, through the single atomic status_.    *)
(* The two sides tell each other nothing else: a gRPC thread stores a      *)
(* status and waits for the value to change, the hub waits for the value   *)
(* to differ from the one it last read.  draco_ and draco_adapter_ have no *)
(* lock of their own, so each access to them is a step.                    *)
(***************************************************************************)
EXTENDS Naturals

CONSTANTS
    Clients,        \* gRPC threads
    Models,         \* the models a StartVisualizer request may name
    Junk,           \* what Draco makes of an adapter that is not there
    NumPositions,   \* the length of a position of each of them
    None            \* no model

Loaded == Models \cup {Junk}

ASSUME ModelAssumption ==
    /\ None \notin Models \cup {Junk}
    /\ Junk \notin Models
    /\ NumPositions \in [Loaded -> Nat]

VARIABLES
    status,         \* VisualizerHub::status_
    adapter,        \* draco_adapter_
    draco,          \* draco_: the model it was made of
    defaultInit,    \* options_->default_init
    pending,        \* pending_position_: the model its length was checked by
    tasks,          \* meshcat_task_queue_ has tasks in it
    hubAt,          \* where Run is
    hubStatus,      \* Run's local copy of the status
    at,             \* where each gRPC thread is
    model,          \* the model its request is about
    overlapped      \* history: a start or a stop came while another was served

sessionVars == <<adapter, draco>>
workVars == <<pending, tasks>>
hubVars == <<hubAt, hubStatus>>
clientVars == <<at, model, overlapped>>
vars == <<status, sessionVars, defaultInit, workVars, hubVars, clientVars>>

Statuses == {"Idle", "Starting", "Active", "Stopping"}
HubPoints == {"Load", "Wait", "Reset", "ResetAdapter", "SetIdle", "Make",
              "SetActive", "Test", "Position", "Tasks", "Terminated"}
ClientPoints == {"Idle", "Test", "Force", "AwaitStopped", "LoadModel", "Signal",
                 "AwaitStarted", "Hash", "AwaitIdle", "Push"}

TypeOK ==
    /\ status \in Statuses
    /\ adapter \in Models \cup {None}
    /\ draco \in Loaded \cup {None}
    /\ defaultInit \in BOOLEAN
    /\ pending \in Loaded \cup {None}
    /\ tasks \in BOOLEAN
    /\ hubAt \in HubPoints
    /\ hubStatus \in Statuses
    /\ at \in [Clients -> ClientPoints]
    /\ model \in [Clients -> Loaded \cup {None}]
    /\ \A c \in Clients :
          at[c] \in {"Test", "Force", "AwaitStopped", "LoadModel", "Signal"}
              => model[c] \in Models
    /\ overlapped \in BOOLEAN

(* With default_init the constructor has loaded the default context before  *)
(* Run is called.                                                           *)
Init ==
    /\ \/ defaultInit = FALSE /\ status = "Idle" /\ adapter = None
       \/ defaultInit = TRUE /\ status = "Starting" /\ adapter \in Models
    /\ draco = None
    /\ pending = None
    /\ tasks = FALSE
    /\ hubAt = "Load"
    /\ hubStatus = "Idle"
    /\ at = [c \in Clients |-> "Idle"]
    /\ model = [c \in Clients |-> None]
    /\ overlapped = FALSE

-----------------------------------------------------------------------------
(* The hub's thread.                                                        *)

HubGoTo(point) == hubAt' = point /\ UNCHANGED hubStatus

Load ==
    /\ hubAt = "Load"
    /\ hubStatus' = status
    /\ hubAt' = CASE status = "Idle"     -> "Wait"
                  [] status = "Stopping" -> "Reset"
                  [] status = "Starting" -> "Make"
                  [] status = "Active"   -> "Test"
    /\ UNCHANGED <<status, sessionVars, defaultInit, workVars, clientVars>>

(* Mutated: a stop does not wake the hub. *)
WaitIgnoresStop ==
    /\ hubAt = "Wait"
    /\ status \notin {hubStatus, "Stopping"}
    /\ HubGoTo("Load")
    /\ UNCHANGED <<status, sessionVars, defaultInit, workVars, clientVars>>

(* WaitOnStatus(status): atomic wait returns once the value differs from    *)
(* the copy.  A value that changed and changed back is no change to it.     *)
Wait ==
    /\ hubAt = "Wait"
    /\ status # hubStatus
    /\ HubGoTo("Load")
    /\ UNCHANGED <<status, sessionVars, defaultInit, workVars, clientVars>>

Reset ==
    /\ hubAt = "Reset"
    /\ draco' = None
    /\ HubGoTo(IF draco = None THEN "SetIdle" ELSE "ResetAdapter")
    /\ UNCHANGED <<status, adapter, defaultInit, workVars, clientVars>>

(* The pending position and the queued tasks are not reset. *)
ResetAdapter ==
    /\ hubAt = "ResetAdapter"
    /\ adapter' = None
    /\ HubGoTo("SetIdle")
    /\ UNCHANGED <<status, draco, defaultInit, workVars, clientVars>>

(* The status is stored blindly, over whatever a client stored meanwhile. *)
SetIdle ==
    /\ hubAt = "SetIdle"
    /\ status' = "Idle"
    /\ HubGoTo("Wait")
    /\ UNCHANGED <<sessionVars, defaultInit, workVars, clientVars>>

(* Draco is built of *draco_adapter_, present or not; if that throws, the   *)
(* model before it stays.                                                   *)
Make ==
    /\ hubAt = "Make"
    /\ \/ /\ draco' = IF adapter = None THEN Junk ELSE adapter
          /\ HubGoTo("SetActive")
       \/ /\ UNCHANGED draco
          /\ HubGoTo("SetIdle")
    /\ UNCHANGED <<status, adapter, defaultInit, workVars, clientVars>>

SetActive ==
    /\ hubAt = "SetActive"
    /\ status' = "Active"
    /\ HubGoTo("Wait")
    /\ UNCHANGED <<sessionVars, defaultInit, workVars, clientVars>>

(* The active loop: test, take the pending position, run the tasks. *)
Test ==
    /\ hubAt = "Test"
    /\ HubGoTo(IF status = "Stopping" THEN "Wait" ELSE "Position")
    /\ UNCHANGED <<status, sessionVars, defaultInit, workVars, clientVars>>

(* What was pending is taken and shown on the model that is active now.  A  *)
(* position of another length makes SetMeshcatPositions throw; nothing       *)
(* around Run catches that, and the process ends.                            *)
Position ==
    /\ hubAt = "Position"
    /\ pending' = None
    /\ HubGoTo(IF pending = None \/ NumPositions[pending] = NumPositions[draco]
                   THEN "Tasks" ELSE "Terminated")
    /\ UNCHANGED <<status, sessionVars, defaultInit, tasks, clientVars>>

Tasks ==
    /\ hubAt = "Tasks"
    /\ tasks' = FALSE
    /\ HubGoTo("Test")
    /\ UNCHANGED <<status, sessionVars, defaultInit, pending, clientVars>>

HubStep ==
    \/ Load \/ Wait \/ Reset \/ ResetAdapter \/ SetIdle \/ Make \/ SetActive
    \/ Test \/ Position \/ Tasks

-----------------------------------------------------------------------------
(* The gRPC threads.                                                        *)

Alive == hubAt # "Terminated"

GoTo(c, point) ==
    /\ at' = [at EXCEPT ![c] = point]
    /\ model' = IF point = "Idle" THEN [model EXCEPT ![c] = None] ELSE model
    /\ UNCHANGED overlapped

Arrive(c, m, point) ==
    /\ Alive
    /\ at[c] = "Idle"
    /\ at' = [at EXCEPT ![c] = point]
    /\ model' = [model EXCEPT ![c] = m]

(* No start or stop is being served: none by a client, and none by the hub. *)
Quiet ==
    /\ \A c \in Clients : at[c] \in {"Idle", "Push"}
    /\ status \in {"Idle", "Active"}

(* StartVisualizer with force_reload.  Without it LoadAndSetModelData       *)
(* differs only in that it returns false where this one goes to "Force".    *)
StartVisualizer(c, m) ==
    /\ Arrive(c, m, "Test")
    /\ overlapped' = (overlapped \/ ~Quiet)
    /\ UNCHANGED <<status, sessionVars, defaultInit, workVars, hubVars>>

(* The request is refused while the default or, unless forced, any model is *)
(* active; Starting and Stopping are let through.                           *)
TestStatus(c) ==
    /\ at[c] = "Test"
    /\ \/ status = "Active" /\ GoTo(c, "Idle")
       \/ status = "Active" /\ ~defaultInit /\ GoTo(c, "Force")
       \/ status # "Active" /\ GoTo(c, "LoadModel")
    /\ UNCHANGED <<status, sessionVars, defaultInit, workVars, hubVars>>

(* Mutated: the restart does not wait for the stop to be over. *)
ForceReloadAtOnce(c) ==
    /\ at[c] = "Force"
    /\ status' = "Stopping"
    /\ GoTo(c, "LoadModel")
    /\ UNCHANGED <<sessionVars, defaultInit, workVars, hubVars>>

ForceReload(c) ==
    /\ at[c] = "Force"
    /\ status' = "Stopping"
    /\ GoTo(c, "AwaitStopped")
    /\ UNCHANGED <<sessionVars, defaultInit, workVars, hubVars>>

AwaitStopped(c) ==
    /\ at[c] = "AwaitStopped"
    /\ status # "Stopping"
    /\ GoTo(c, "LoadModel")
    /\ UNCHANGED <<status, sessionVars, defaultInit, workVars, hubVars>>

(* Mutated: the adapter is kept from the last model. *)
LoadModelLate(c) ==
    /\ at[c] = "LoadModel"
    /\ adapter' = IF adapter = None THEN model[c] ELSE adapter
    /\ GoTo(c, "Signal")
    /\ UNCHANGED <<status, draco, defaultInit, workVars, hubVars>>

(* The context or the directives are read from disk, which may fail. *)
LoadModel(c) ==
    /\ at[c] = "LoadModel"
    /\ \/ adapter' = model[c] /\ GoTo(c, "Signal")
       \/ UNCHANGED adapter /\ GoTo(c, "Idle")
    /\ UNCHANGED <<status, draco, defaultInit, workVars, hubVars>>

Signal(c) ==
    /\ at[c] = "Signal"
    /\ status' = "Starting"
    /\ GoTo(c, "AwaitStarted")
    /\ UNCHANGED <<sessionVars, defaultInit, workVars, hubVars>>

AwaitStarted(c) ==
    /\ at[c] = "AwaitStarted"
    /\ status # "Starting"
    /\ GoTo(c, "Hash")
    /\ UNCHANGED <<status, sessionVars, defaultInit, workVars, hubVars>>

(* ActiveHash throws without a model; with any model the request succeeds.  *)
Hash(c) ==
    /\ at[c] = "Hash"
    /\ GoTo(c, "Idle")
    /\ UNCHANGED <<status, sessionVars, defaultInit, workVars, hubVars>>

(* StopVisualizer: RequestStop, then WaitOnStatus(Stopping). *)
StopVisualizer(c) ==
    /\ Arrive(c, None, "AwaitIdle")
    /\ overlapped' = (overlapped \/ ~Quiet)
    /\ status' = "Stopping"
    /\ UNCHANGED <<sessionVars, defaultInit, workVars, hubVars>>

AwaitIdle(c) ==
    /\ at[c] = "AwaitIdle"
    /\ status # "Stopping"
    /\ GoTo(c, "Idle")
    /\ UNCHANGED <<status, sessionVars, defaultInit, workVars, hubVars>>

(* SetConfiguration: the length is checked by the model there is now, the   *)
(* position handed over later.  Without a model it throws.                  *)
SetConfiguration(c) ==
    /\ draco # None
    /\ Arrive(c, draco, "Push")
    /\ UNCHANGED <<status, sessionVars, defaultInit, workVars, hubVars,
                   overlapped>>

(* A position that is pending is replaced unless the new one is the same.    *)
(* One left by another model is compared with it coefficient by coefficient, *)
(* past the end of the shorter: a release build may find them equal.         *)
Push(c) ==
    /\ at[c] = "Push"
    /\ \/ pending' = model[c]
       \/ pending \notin {None, model[c]} /\ UNCHANGED pending
    /\ GoTo(c, "Idle")
    /\ UNCHANGED <<status, sessionVars, defaultInit, tasks, hubVars>>

(* SetObject, DeleteObject, ToggleObject: only the first needs a model. *)
QueueMeshcatTask ==
    /\ Alive
    /\ tasks' = TRUE
    /\ UNCHANGED <<status, sessionVars, defaultInit, pending, hubVars, clientVars>>

(* What a thread does once its request has come in. *)
ClientStep(c) ==
    /\ Alive
    /\ \/ TestStatus(c)
       \/ ForceReload(c)
       \/ AwaitStopped(c)
       \/ LoadModel(c)
       \/ Signal(c)
       \/ AwaitStarted(c)
       \/ Hash(c)
       \/ AwaitIdle(c)
       \/ Push(c)

Next ==
    \/ HubStep
    \/ QueueMeshcatTask
    \/ \E c \in Clients :
          \/ \E m \in Models : StartVisualizer(c, m)
          \/ StopVisualizer(c)
          \/ SetConfiguration(c)
          \/ ClientStep(c)

Spec == Init /\ [][Next]_vars

(* Every thread that is not waiting runs on, and a wait whose condition     *)
(* stays true ends; requests need never come.                               *)
Fairness ==
    /\ WF_vars(HubStep)
    /\ \A c \in Clients : WF_vars(ClientStep(c))

FairSpec == Spec /\ Fairness

-----------------------------------------------------------------------------
(* Properties.                                                              *)

InActiveLoop == hubAt \in {"Test", "Position", "Tasks"}

(* The active loop never runs without a model (it dereferences draco_ at    *)
(* every turn), and a client told Active finds one.                         *)
ActiveHasModel ==
    /\ InActiveLoop \/ hubAt = "SetActive" => draco # None
    /\ status = "Active" => draco # None

(* As long as starts and stops come one at a time, the hub is never told to *)
(* start without an adapter: the reset of the last one is over before the   *)
(* next is stored.                                                          *)
AdapterReadyAlone == ~overlapped /\ hubAt = "Make" => adapter # None

(* As long as starts and stops come one at a time, a StartVisualizer that   *)
(* succeeds has loaded the model it named, and one whose model could not be *)
(* loaded finds none, instead of taking the last one for its own.           *)
StartDelivers ==
    \A c \in Clients :
        ~overlapped /\ at[c] = "Hash" => draco \in {model[c], None}

(* A position that is about to be shown has the length of the model that is  *)
(* active, which is asserted at robot_meshcat.cc:198.  A stop forgets the    *)
(* model and not the position (visualizer_hub.cc:584), which refutes it even *)
(* where starts and stops come one at a time.                                *)
PositionFits ==
    ~overlapped /\ hubAt = "Position" /\ pending # None =>
        NumPositions[pending] = NumPositions[draco]

(* As long as starts and stops come one at a time, the stop of a running    *)
(* model returns with the model gone, or the process is.                    *)
StopOfRunningServed ==
    \A c \in Clients :
        (at[c] = "AwaitIdle" /\ InActiveLoop /\ ~overlapped)
            ~> (overlapped \/ ~Alive \/ (at[c] = "Idle" /\ draco = None))

(* As long as starts and stops come one at a time, the forced restart of a  *)
(* running model comes to an end.                                           *)
RestartServed ==
    \A c \in Clients :
        (at[c] = "AwaitStopped" /\ ~overlapped)
            ~> (overlapped \/ ~Alive \/ at[c] = "Idle")

(* As long as they come one at a time and the process lives, every stop and  *)
(* every restart of a running model comes to an end: no thread waits for a   *)
(* status that is gone (visualizer_hub.cc:738, viz_service.cc:107).          *)
RequestsServed == StopOfRunningServed /\ RestartServed
=============================================================================
