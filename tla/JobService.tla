----------------------------- MODULE JobService -----------------------------
(***************************************************************************)
(* What the job pipeline promises its clients, with no threads in it:      *)
(* accepted requests wait in the order of acceptance, are taken from the   *)
(* front one at a time, and a request that was taken either becomes an     *)
(* active job or is refused for a reason the client could learn of: its    *)
(* context is invalid, or the same id is active or waiting again.          *)
(* ResourceManager.tla is shown to implement this module.                  *)
(***************************************************************************)
EXTENDS Naturals, Sequences, FiniteSets

CONSTANTS
    RequestIds,     \* identifiers of build requests
    InvalidIds,     \* the requests whose planning context carries no valid id
    QueueCapacity,  \* requests that may wait
    JobCapacity,    \* jobs that may be active at once
    None            \* no request

VARIABLES
    waiting,        \* accepted requests, oldest first
    taken,          \* the request about to be started
    active          \* ids whose job was started and not yet collected

vars == <<waiting, taken, active>>

WaitingAgain(id) == \E i \in 1 .. Len(waiting) : waiting[i] = id

Init ==
    /\ waiting = <<>>
    /\ taken = None
    /\ active = {}

Accept(id) ==
    /\ Len(waiting) < QueueCapacity
    /\ waiting' = Append(waiting, id)
    /\ UNCHANGED <<taken, active>>

(* A request is taken only when it could be started at once. *)
Take ==
    /\ taken = None
    /\ waiting # <<>>
    /\ Cardinality(active) < JobCapacity
    /\ taken' = Head(waiting)
    /\ waiting' = Tail(waiting)
    /\ UNCHANGED active

Start ==
    /\ taken \in RequestIds \ (active \cup InvalidIds)
    /\ Cardinality(active) < JobCapacity
    /\ active' = active \cup {taken}
    /\ taken' = None
    /\ UNCHANGED waiting

Refuse ==
    /\ taken # None
    /\ taken \in active \cup InvalidIds \/ WaitingAgain(taken)
    /\ taken' = None
    /\ UNCHANGED <<waiting, active>>

(* The owner of the service empties the queue, but not the hand. *)
Forget ==
    /\ waiting' = <<>>
    /\ UNCHANGED <<taken, active>>

Collect(id) ==
    /\ id \in active
    /\ active' = active \ {id}
    /\ UNCHANGED <<waiting, taken>>

Next ==
    \/ \E id \in RequestIds : Accept(id) \/ Collect(id)
    \/ Take
    \/ Start
    \/ Refuse
    \/ Forget

Spec == Init /\ [][Next]_vars
=============================================================================
