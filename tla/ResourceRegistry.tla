-------------------------- MODULE ResourceRegistry --------------------------
(***************************************************************************)
(* The registry of planning contexts and its gRPC handlers                 *)
(* (service/utils/resource_registry.cc, comms/registry_service.cc), the    *)
(* plan handlers that use its planners (comms/plan_service.cc), and the    *)
(* thread that serves the page of Meshcat ports (web/meshcat_ports.cc).    *)
(*                                                                         *)
(* Each handler is a sequence of accesses to the shared state: the context *)
(* directories, the map of planners, the map of active contexts.  Only the *)
(* insertion holds draco_map_mutex_; every other access is unlocked.  A    *)
(* crash may come at any point; the constructor reloads from the disk.     *)
(***************************************************************************)
EXTENDS Naturals, Sequences, FiniteSets

CONSTANTS
    Contexts,    \* plan context ids
    Faulty,      \* contexts whose planner cannot be made
    Threads,     \* gRPC threads
    Ops,         \* the requests that arrive, a subset of DOMAIN Accesses
    RequireAll,  \* ResourceOptions::require_all_resources
    MaxRestarts, \* bound on the number of crashes
    Free         \* no thread: nobody holds the mutex

ASSUME RegistryAssumption ==
    /\ Contexts # {} /\ Faulty \subseteq Contexts
    /\ Free \notin Threads \cup Contexts
    /\ RequireAll \in BOOLEAN
    /\ MaxRestarts \in Nat

VARIABLES
    disk,       \* context directories that can be parsed
    draco,      \* domain of draco_map_
    listed,     \* domain of active_contexts_map_
    mutex,      \* holder of draco_map_mutex_
    op,         \* what each thread works on, or "idle"
    ctx,        \* the context it is about
    from,       \* the source of a migration
    pc,         \* index into the request's program
    page,       \* html_thread_: where the page thread stands
    stop,       \* html_stop_requested_
    down,       \* the process ended
    restarts,
    overlapped  \* history: two requests that write ran at the same time

maps == <<disk, draco, listed, mutex>>
call == <<op, ctx, from, pc>>
html == <<page, stop>>
hist == <<restarts, overlapped>>
registryVars == <<maps, call, html, down, hist>>

\* The accesses of a migration.  AddDraco is make, insert, list; RemoveDraco is
\* count, which throws where there is no planner, unlist and drop.
Migration ==
    <<"sources", "loaded?", "count", "unlist", "drop",
      "read", "make", "insert", "list", "files",
      "count", "unlist", "drop", "read", "make", "insert", "list",
      "stop page", "join page", "launch page">>

\* Each request as the sequence of its accesses.
Accesses ==
    [register |-> <<"save", "served?", "make", "insert", "list">>,
     load     |-> <<"read", "served?", "make", "insert", "list">>,
     remove   |-> <<"served!", "erase", "count", "unlist", "drop", "unlist">>,
     migrate  |-> Migration,
     plan     |-> <<"lookup", "solve">>,
     summary  |-> <<"pick", "get">>]

ASSUME OpsAssumption == Ops \subseteq DOMAIN Accesses

Writers == {"register", "load", "remove", "migrate"}
Writing(r) == op[r] \in Writers

NextAccess(r) == Accesses[op[r]][pc[r]]
AtAccess(r, step) == ~down /\ op[r] # "idle" /\ NextAccess(r) = step

Idle(r) == /\ op' = [op EXCEPT ![r] = "idle"]
           /\ pc' = [pc EXCEPT ![r] = 1]
           /\ UNCHANGED <<ctx, from>>

Skip(r, n) == IF pc[r] + n > Len(Accesses[op[r]])
              THEN Idle(r)
              ELSE pc' = [pc EXCEPT ![r] = @ + n] /\ UNCHANGED <<op, ctx, from>>
Continue(r) == Skip(r, 1)

\* The constructor with load_resources_on_init: every directory is parsed and
\* gets a planner, a failure is fatal only with require_all_resources.
Loadable(d) == d \ Faulty
LoadFails(d) == RequireAll /\ d \cap Faulty # {}

RegistryInit ==
    /\ disk \in SUBSET Contexts
    /\ ~LoadFails(disk)
    /\ draco = Loadable(disk)
    /\ listed = Loadable(disk)
    /\ mutex = Free
    /\ op = [r \in Threads |-> "idle"]
    /\ ctx = [r \in Threads |-> CHOOSE c \in Contexts : TRUE]
    /\ from = ctx
    /\ pc = [r \in Threads |-> 1]
    /\ page = "starting"
    /\ stop = FALSE
    /\ down = FALSE
    /\ restarts = 0
    /\ overlapped = FALSE

Receive(r) ==
    /\ ~down /\ op[r] = "idle"
    /\ \E o \in Ops, c, f \in Contexts :
          /\ op' = [op EXCEPT ![r] = o]
          /\ ctx' = [ctx EXCEPT ![r] = c]
          /\ from' = [from EXCEPT ![r] = IF o = "migrate" THEN f ELSE c]
          /\ overlapped' = (overlapped \/ (o \in Writers /\ \E q \in Threads : Writing(q)))
    /\ UNCHANGED <<maps, pc, html, down, restarts>>

-----------------------------------------------------------------------------
(* Questions: each reads one map or the disk, without the mutex. *)

\* The handler returns an error, or an exception reaches it.
Fail(r) == Idle(r) /\ UNCHANGED <<maps, html, down, hist>>

Ask(r) ==
    LET c == ctx[r]
        Proceed == Continue(r) /\ UNCHANGED <<maps, html, down, hist>>
    IN
    \/ AtAccess(r, "read") /\ c \in disk /\ Proceed
    \/ AtAccess(r, "read") /\ c \notin disk /\ Fail(r)
    \/ AtAccess(r, "served?") /\ c \notin draco /\ Proceed
    \/ AtAccess(r, "served?") /\ c \in draco /\ Fail(r)
    \/ (AtAccess(r, "served!") \/ AtAccess(r, "count")) /\ c \in draco /\ Proceed
    \/ (AtAccess(r, "served!") \/ AtAccess(r, "count")) /\ c \notin draco /\ Fail(r)
    \/ AtAccess(r, "loaded?") /\ c \in draco /\ Proceed
    \/ /\ AtAccess(r, "loaded?") /\ c \notin draco
       /\ Skip(r, 4) /\ UNCHANGED <<maps, html, down, hist>>
    \/ AtAccess(r, "sources") /\ from[r] \in disk \cap draco /\ c \in disk /\ Proceed
    \/ AtAccess(r, "sources") /\ ~(from[r] \in disk \cap draco /\ c \in disk) /\ Fail(r)
    \* The roadmap is removed, loaded from the source, validated and saved.
    \/ AtAccess(r, "files") /\ (Proceed \/ Fail(r))

-----------------------------------------------------------------------------
(* Writes. *)

(* Mutated: a failed SaveContext does not end the registration. *)
SaveUnchecked(r) ==
    /\ AtAccess(r, "save")
    /\ disk' \in {disk, disk \cup {ctx[r]}}
    /\ Continue(r)
    /\ UNCHANGED <<draco, listed, mutex, html, down, hist>>

\* utils::RegisterPlanContext computes the id, SaveContext writes the files.
Save(r) ==
    /\ AtAccess(r, "save")
    /\ \/ disk' = disk \cup {ctx[r]} /\ Continue(r)
       \/ UNCHANGED disk /\ Idle(r)
    /\ UNCHANGED <<draco, listed, mutex, html, down, hist>>

\* Only a request that asks for it erases the directory.
Erase(r) ==
    /\ AtAccess(r, "erase")
    /\ \/ ctx[r] \in disk /\ disk' = disk \ {ctx[r]} /\ Continue(r)
       \/ ctx[r] \notin disk /\ UNCHANGED disk /\ Idle(r)
       \/ UNCHANGED disk /\ Continue(r)
    /\ UNCHANGED <<draco, listed, mutex, html, down, hist>>

\* AddDraco makes the planner before it takes the mutex.
Make(r) ==
    /\ AtAccess(r, "make")
    /\ \/ ctx[r] \in Faulty /\ Idle(r) /\ UNCHANGED mutex
       \/ ctx[r] \notin Faulty /\ mutex = Free /\ mutex' = r /\ Continue(r)
    /\ UNCHANGED <<disk, draco, listed, html, down, hist>>

\* draco_map_.emplace: a planner that is already there stays.
Insert(r) ==
    /\ AtAccess(r, "insert")
    /\ draco' = draco \cup {ctx[r]}
    /\ Continue(r)
    /\ UNCHANGED <<disk, listed, mutex, html, down, hist>>

List(r) ==
    /\ AtAccess(r, "list")
    /\ listed' = listed \cup {ctx[r]}
    /\ mutex' = Free
    /\ Continue(r)
    /\ UNCHANGED <<disk, draco, html, down, hist>>

(* Mutated: RemoveDraco leaves the entry of the active contexts to its caller. *)
UnlistOnlyOnRemove(r) ==
    /\ AtAccess(r, "unlist")
    /\ listed' = IF pc[r] = 6 THEN listed \ {ctx[r]} ELSE listed
    /\ Continue(r)
    /\ UNCHANGED <<disk, draco, mutex, html, down, hist>>

Unlist(r) ==
    /\ AtAccess(r, "unlist")
    /\ listed' = listed \ {ctx[r]}
    /\ Continue(r)
    /\ UNCHANGED <<disk, draco, mutex, html, down, hist>>

\* The planner is destroyed, whoever holds a reference to it.
Drop(r) ==
    /\ AtAccess(r, "drop")
    /\ draco' = draco \ {ctx[r]}
    /\ Continue(r)
    /\ UNCHANGED <<disk, listed, mutex, html, down, hist>>

-----------------------------------------------------------------------------
(* Requests that read. *)

Lookup(r) ==
    /\ AtAccess(r, "lookup")
    /\ IF ctx[r] \in draco THEN Continue(r) ELSE Idle(r)
    /\ UNCHANGED <<maps, html, down, hist>>

\* SolvePlan or CheckSatisfied returns, or throws into the handler's catch.
Solve(r) ==
    /\ AtAccess(r, "solve")
    /\ Idle(r)
    /\ UNCHANGED <<maps, html, down, hist>>

\* GetPlanContextSummaries walks active_contexts_map_ and looks every context
\* up in draco_map_; a miss throws out of the handler.
Pick(r) ==
    /\ AtAccess(r, "pick")
    /\ \/ /\ listed = {} /\ Idle(r)
       \/ \E c \in listed : /\ ctx' = [ctx EXCEPT ![r] = c]
                            /\ pc' = [pc EXCEPT ![r] = @ + 1]
                            /\ UNCHANGED <<op, from>>
    /\ UNCHANGED <<maps, html, down, hist>>

Get(r) ==
    /\ AtAccess(r, "get")
    /\ Idle(r)
    /\ UNCHANGED <<maps, html, down, hist>>

-----------------------------------------------------------------------------
(* The page of ports: LaunchOrResetResourcesHtmlThread and its thread. *)

\* The flag is set and the thread notified without html_mutex_: only a thread
\* that already waits hears it.
StopPage(r) ==
    /\ AtAccess(r, "stop page")
    /\ stop' = TRUE
    /\ page' = IF page = "waiting" THEN "testing" ELSE page
    /\ Continue(r)
    /\ UNCHANGED <<maps, down, hist>>

JoinPage(r) ==
    /\ AtAccess(r, "join page")
    /\ page \in {"ended", "joined"}
    /\ page' = "joined"
    /\ Continue(r)
    /\ UNCHANGED <<maps, stop, down, hist>>

\* Assigning to a thread object that is still joinable ends the process.
LaunchPage(r) ==
    /\ AtAccess(r, "launch page")
    /\ stop' = FALSE
    /\ IF page = "joined" THEN page' = "starting" /\ UNCHANGED down
                          ELSE down' = TRUE /\ UNCHANGED page
    /\ Continue(r)
    /\ UNCHANGED <<maps, hist>>

\* The server starts, or fails to and the thread ends.
PageStarts ==
    /\ ~down /\ page = "starting"
    /\ page' \in {"testing", "ended"}
    /\ UNCHANGED <<maps, call, stop, down, hist>>

PageTests ==
    /\ ~down /\ page = "testing"
    /\ page' = IF stop THEN "ended" ELSE "tested"
    /\ UNCHANGED <<maps, call, stop, down, hist>>

PageWaits ==
    /\ ~down /\ page = "tested"
    /\ page' = "waiting"
    /\ UNCHANGED <<maps, call, stop, down, hist>>

-----------------------------------------------------------------------------
\* The process dies at any point and is started again.
Restart ==
    /\ restarts < MaxRestarts
    /\ restarts' = restarts + 1
    /\ down' = LoadFails(disk)
    /\ draco' = IF down' THEN {} ELSE Loadable(disk)
    /\ listed' = draco'
    /\ mutex' = Free
    /\ op' = [r \in Threads |-> "idle"]
    /\ pc' = [r \in Threads |-> 1]
    /\ page' = "starting"
    /\ stop' = FALSE
    /\ UNCHANGED <<disk, ctx, from, overlapped>>

Step(r) == \/ Ask(r) \/ Save(r) \/ Erase(r) \/ Make(r) \/ Insert(r) \/ List(r)
           \/ Unlist(r) \/ Drop(r) \/ Lookup(r) \/ Solve(r) \/ Pick(r) \/ Get(r)
           \/ StopPage(r) \/ JoinPage(r) \/ LaunchPage(r)

PageStep == PageStarts \/ PageTests \/ PageWaits

RegistryNext == (\E r \in Threads : Receive(r) \/ Step(r)) \/ PageStep \/ Restart

RegistrySpec == RegistryInit /\ [][RegistryNext]_registryVars

-----------------------------------------------------------------------------
Pages == {"starting", "testing", "tested", "waiting", "ended", "joined"}

\* Every variable keeps its type, and a request its place in its program.
RegistryTypeOK ==
    /\ disk \subseteq Contexts /\ draco \subseteq Contexts /\ listed \subseteq Contexts
    /\ mutex \in Threads \cup {Free}
    /\ op \in [Threads -> Ops \cup {"idle"}]
    /\ ctx \in [Threads -> Contexts] /\ from \in [Threads -> Contexts]
    /\ pc \in [Threads -> 1..20]
    /\ \A r \in Threads :
          pc[r] \in IF op[r] = "idle" THEN {1} ELSE DOMAIN Accesses[op[r]]
    /\ page \in Pages /\ stop \in BOOLEAN /\ down \in BOOLEAN
    /\ restarts \in 0..MaxRestarts
    /\ overlapped \in BOOLEAN

\* As long as the requests that write come one at a time: a listed context has
\* a planner at every moment, so that a reader between two steps of a writer
\* finds it, and between the writers the list, the planners and the directories
\* agree (resource_registry.cc 89-136, 192-233, 282-314).
RegistryConsistent ==
    ~overlapped /\ ~down =>
        /\ listed \subseteq draco
        /\ (\A r \in Threads : ~Writing(r)) => listed = draco /\ draco \subseteq disk

\* A restart that comes up, after a crash at any point, has lost no served
\* context but one that was just being removed, unless writers overlapped: the
\* directory is complete before the planner is in the map
\* (resource_registry.cc 142-183, 213-230).
ServedSurvivesRestart ==
    [][restarts' # restarts /\ ~overlapped /\ ~down /\ ~down' =>
          draco \subseteq draco' \cup {ctx[r] : r \in {q \in Threads : op[q] = "remove"}}
      ]_registryVars
=============================================================================
