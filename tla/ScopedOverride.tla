--------------------------- MODULE ScopedOverride ---------------------------
(***************************************************************************)
(* The settings a planning request overrides for its own duration:         *)
(* Overrideable and ScopedOverride (common/override.h) as Draco::          *)
(* ApplyScopedCollisionOptions, DracoPlanner::ApplyScopedDynamicLimits,    *)
(* DracoPlanner::SolvePlan and DracoPlanner::CheckSatisfied use them.      *)
(*                                                                         *)
(* Requests run on gRPC threads and share one planner.  A request acquires *)
(* the settings in a fixed order, sets some of them, moves the scopes out, *)
(* plans, and its scopes' destructors restore and release in reverse.  One *)
(* step per access to shared state: the ownership test and the store of    *)
(* the owner are two steps (set_owner stores outside the mutex).           *)
(***************************************************************************)
EXTENDS Naturals, Sequences

CONSTANTS
    Requests,   \* planning requests; each stands for its scopes' tokens too
    Default,    \* the value every setting was initialised with
    None        \* owner_token_ 0, last_value_ nullptr

ASSUME ConstantsAssumption == /\ Default \notin Requests
                              /\ None \notin Requests \cup {Default}

VARIABLES
    owner,      \* owner_token_ of each setting
    overridden, \* overridden_
    value,      \* curr_value_: Default, or the request that set it
    saved,      \* last_value_
    active,     \* what the collision checker or the spliner was last told
    ask,        \* what each request overrides
    point,      \* where each request's thread is
    step,       \* the instruction of Program it is at
    scopes,     \* the settings its live ScopedOverrides manage
    raced,      \* history: an owner was stored over another owner
    terminated  \* a destructor threw: std::terminate

shared == <<owner, overridden, value, saved, active>>
vars == <<shared, ask, point, step, scopes, raced, terminated>>

CollisionTargets == {"padding", "filter", "shapes"}
LimitTargets == {"cartesian", "spline"}
Targets == CollisionTargets \cup LimitTargets

\* Declaration order of the scopes; destructors run in the reverse order.
Order == <<"padding", "filter", "shapes", "cartesian", "spline">>
Position(t) == CHOOSE i \in DOMAIN Order : Order[i] = t

Asks == [kind : {"check"}, collision : BOOLEAN, limits : {"none"}]
        \cup [kind : {"solve"}, collision : BOOLEAN,
              limits : {"none", "factors", "cartesian"}]

Each(op, targets) == [i \in DOMAIN targets |-> [op |-> op, on |-> targets[i]]]

(* Mutated: the scopes are declared in the order in which they are set. *)
AcquireAsSet(a) ==
    Each("acquire", IF a.collision THEN <<"shapes", "padding", "filter">>
                                   ELSE <<"padding", "filter", "shapes">>)
    \o (IF a.collision THEN Each("set", <<"shapes", "padding", "filter">>) ELSE <<>>)
    \o Each("move", <<"padding", "filter", "shapes">>)

CollisionProgram(a) ==
    Each("acquire", <<"padding", "filter", "shapes">>)
    \o (IF a.collision THEN Each("set", <<"shapes", "padding", "filter">>) ELSE <<>>)
    \o Each("move", <<"padding", "filter", "shapes">>)

LimitsSet == [none |-> <<>>, factors |-> <<"spline">>,
              cartesian |-> <<"spline", "cartesian">>]

LimitsProgram(a) ==
    Each("acquire", <<"cartesian", "spline">>)
    \o Each("set", LimitsSet[a.limits])
    \o Each("move", <<"cartesian", "spline">>)

\* A request as the sequence of its calls on the settings.
Program(a) == CollisionProgram(a)
              \o (IF a.kind = "solve" THEN LimitsProgram(a) ELSE <<>>)
              \o <<[op |-> "plan", on |-> "padding"]>>

Now(r) == Program(ask[r])[step[r]]
At(r, op) == ~terminated /\ point[r] = "step" /\ Now(r).op = op
AtPoint(r, p) == ~terminated /\ point[r] = p
Go(r, p) == point' = [point EXCEPT ![r] = p]
Advance(r) == Go(r, "step") /\ step' = [step EXCEPT ![r] = @ + 1]

\* The setting whose scope is destroyed next.
Latest(r) == CHOOSE t \in scopes[r] :
                \A u \in scopes[r] : Position(u) <= Position(t)

\* check_mutable: unowned, or owned by this token.
Mutable(r, t) == owner[t] \in {None, r}

\* on_set_ and on_restore_ are registered only for a request with options.
HasCallbacks(r, t) == IF t \in CollisionTargets
                      THEN ask[r].collision
                      ELSE ask[r].limits # "none"

Init ==
    /\ owner = [t \in Targets |-> None]
    /\ overridden = [t \in Targets |-> FALSE]
    /\ value = [t \in Targets |-> Default]
    /\ saved = [t \in Targets |-> None]
    /\ active = [t \in Targets |-> Default]
    /\ ask \in [Requests -> Asks]
    /\ point = [r \in Requests |-> "idle"]
    /\ step = [r \in Requests |-> 1]
    /\ scopes = [r \in Requests |-> {}]
    /\ raced = FALSE
    /\ terminated = FALSE

-----------------------------------------------------------------------------
(* Acquiring and moving: both call set_owner with the request's token. *)

Begin(r) ==
    /\ AtPoint(r, "idle")
    /\ Go(r, "step")
    /\ UNCHANGED <<shared, ask, step, scopes, raced, terminated>>

\* set_owner reads the owner: its own token ends the call, another is waited
\* for, none lets it go on to the store.
TestOwned(r) ==
    LET t == Now(r).on IN
    /\ At(r, "acquire") \/ At(r, "move")
    /\ \/ owner[t] = r /\ Advance(r)
       \/ owner[t] = None /\ Go(r, "storing") /\ UNCHANGED step
       \/ owner[t] \notin {None, r} /\ Go(r, "waiting") /\ UNCHANGED step
    /\ UNCHANGED <<shared, ask, scopes, raced, terminated>>

\* owner_cv_.wait_for returns with its predicate true; the mutex is released
\* before the owner is stored.
Wake(r) ==
    /\ AtPoint(r, "waiting")
    /\ owner[Now(r).on] = None
    /\ Go(r, "storing")
    /\ UNCHANGED <<shared, ask, step, scopes, raced, terminated>>

\* wait_for returns after timeout_ with the predicate still false: set_owner
\* throws.  A scope under construction has no destructor to run.
TimeOut(r) ==
    /\ AtPoint(r, "waiting")
    /\ owner[Now(r).on] # None
    /\ Go(r, "unwinding")
    /\ UNCHANGED <<shared, ask, step, scopes, raced, terminated>>

Store(r) ==
    LET t == Now(r).on IN
    /\ AtPoint(r, "storing")
    /\ owner' = [owner EXCEPT ![t] = r]
    /\ raced' = (raced \/ owner[t] \notin {None, r})
    /\ scopes' = [scopes EXCEPT ![r] = @ \cup {t}]
    /\ Advance(r)
    /\ UNCHANGED <<overridden, value, saved, active, ask, terminated>>

-----------------------------------------------------------------------------
(* Setting: Overrideable::set, then the on_set_ callback. *)

Set(r) ==
    LET t == Now(r).on IN
    /\ At(r, "set")
    /\ IF Mutable(r, t) /\ ~overridden[t]
       THEN /\ saved' = [saved EXCEPT ![t] = value[t]]
            /\ value' = [value EXCEPT ![t] = r]
            /\ overridden' = [overridden EXCEPT ![t] = TRUE]
            /\ Go(r, "applying")
       ELSE Go(r, "unwinding") /\ UNCHANGED <<saved, value, overridden>>
    /\ UNCHANGED <<owner, active, ask, step, scopes, raced, terminated>>

\* A name in the options that the model does not know throws before set.
OptionsThrow(r) ==
    /\ At(r, "set")
    /\ Now(r).on \in CollisionTargets
    /\ Go(r, "unwinding")
    /\ UNCHANGED <<shared, ask, step, scopes, raced, terminated>>

(* Mutated: the callback of the filter matrix is not invoked. *)
ApplyNotFilter(r) ==
    LET t == Now(r).on IN
    /\ AtPoint(r, "applying")
    /\ active' = IF t = "filter" THEN active ELSE [active EXCEPT ![t] = value[t]]
    /\ Advance(r)
    /\ UNCHANGED <<owner, overridden, value, saved, ask, scopes, raced, terminated>>

Apply(r) ==
    LET t == Now(r).on IN
    /\ AtPoint(r, "applying")
    /\ active' = [active EXCEPT ![t] = value[t]]
    /\ Advance(r)
    /\ UNCHANGED <<owner, overridden, value, saved, ask, scopes, raced, terminated>>

\* The collision checker refuses the matrix, or a shape after others were added.
ApplyThrows(r) ==
    LET t == Now(r).on IN
    /\ AtPoint(r, "applying")
    /\ t \in CollisionTargets
    /\ \/ UNCHANGED active
       \/ t = "shapes" /\ active' = [active EXCEPT ![t] = value[t]]
    /\ Go(r, "unwinding")
    /\ UNCHANGED <<owner, overridden, value, saved, ask, step, scopes, raced, terminated>>

\* The checks or the planning under the options, which return or throw.
Plan(r) ==
    /\ At(r, "plan")
    /\ Go(r, "unwinding")
    /\ UNCHANGED <<shared, ask, step, scopes, raced, terminated>>

-----------------------------------------------------------------------------
(* ~ScopedOverride: release, one scope after the other.  An exception that  *)
(* leaves a destructor ends the process.                                    *)

Terminate == terminated' = TRUE /\ UNCHANGED point

\* Overrideable::restore
RestoreValue(t) ==
    /\ value' = [value EXCEPT ![t] = IF saved[t] # None THEN saved[t] ELSE @]
    /\ saved' = [saved EXCEPT ![t] = None]
    /\ overridden' = [overridden EXCEPT ![t] = FALSE]

Restore(r) ==
    LET t == Latest(r) IN
    /\ AtPoint(r, "unwinding")
    /\ scopes[r] # {}
    /\ \/ /\ ~overridden[t]
          /\ Go(r, "releasing")
          /\ UNCHANGED <<value, saved, overridden, terminated>>
       \/ /\ overridden[t] /\ Mutable(r, t)
          /\ RestoreValue(t)
          /\ Go(r, IF HasCallbacks(r, t) THEN "reapplying" ELSE "releasing")
          /\ UNCHANGED terminated
       \/ /\ overridden[t] /\ ~Mutable(r, t)
          /\ Terminate
          /\ UNCHANGED <<value, saved, overridden>>
    /\ UNCHANGED <<owner, active, ask, step, scopes, raced>>

(* Mutated: restoring does not tell the checker or the spliner. *)
ReapplyNothing(r) ==
    /\ AtPoint(r, "reapplying")
    /\ Go(r, "releasing")
    /\ UNCHANGED <<shared, ask, step, scopes, raced, terminated>>

Reapply(r) ==
    LET t == Latest(r) IN
    /\ AtPoint(r, "reapplying")
    /\ active' = [active EXCEPT ![t] = value[t]]
    /\ Go(r, "releasing")
    /\ UNCHANGED <<owner, overridden, value, saved, ask, step, scopes, raced, terminated>>

Release(r) ==
    LET t == Latest(r) IN
    /\ AtPoint(r, "releasing")
    /\ IF Mutable(r, t)
       THEN /\ owner' = [owner EXCEPT ![t] = None]
            /\ scopes' = [scopes EXCEPT ![r] = @ \ {t}]
            /\ Go(r, "unwinding")
            /\ UNCHANGED terminated
       ELSE Terminate /\ UNCHANGED <<owner, scopes>>
    /\ UNCHANGED <<overridden, value, saved, active, ask, step, raced>>

Answer(r) ==
    /\ AtPoint(r, "unwinding")
    /\ scopes[r] = {}
    /\ Go(r, "answered")
    /\ UNCHANGED <<shared, ask, step, scopes, raced, terminated>>

Next == \E r \in Requests :
    \/ Begin(r) \/ TestOwned(r) \/ Wake(r) \/ TimeOut(r) \/ Store(r)
    \/ Set(r) \/ OptionsThrow(r) \/ Apply(r) \/ ApplyThrows(r) \/ Plan(r)
    \/ Restore(r) \/ Reapply(r) \/ Release(r) \/ Answer(r)

Spec == Init /\ [][Next]_vars

-----------------------------------------------------------------------------
Points == {"idle", "step", "waiting", "storing", "applying", "unwinding",
           "reapplying", "releasing", "answered"}

\* Every variable keeps its type, and a request runs inside its program.
TypeOK ==
    /\ owner \in [Targets -> Requests \cup {None}]
    /\ overridden \in [Targets -> BOOLEAN]
    /\ value \in [Targets -> Requests \cup {Default}]
    /\ saved \in [Targets -> Requests \cup {Default, None}]
    /\ active \in [Targets -> Requests \cup {Default}]
    /\ ask \in [Requests -> Asks]
    /\ point \in [Requests -> Points]
    /\ step \in [Requests -> Nat]
    /\ \A r \in Requests : step[r] \in DOMAIN Program(ask[r])
    /\ scopes \in [Requests -> SUBSET Targets]
    /\ raced \in BOOLEAN
    /\ terminated \in BOOLEAN

\* Requests hold settings while they wait for others, yet they never wait in a
\* circle: the holder of what a request waits for, if it waits itself, waits
\* for a setting further on in one order of all settings, which the calls of
\* two classes have to keep (draco.cc 51-65, draco_planner.cc 110-120, 215-219)
\* - as long as no owner was stored over another.  A circle would hold every
\* later request until the timeouts.
NoCircularWait ==
    ~raced => \A r, s \in Requests :
        /\ point[r] = "waiting" /\ point[s] = "waiting"
        /\ owner[Now(r).on] = s
        => Position(Now(r).on) < Position(Now(s).on)

\* A request plans under its own options and otherwise under the defaults,
\* whatever other requests asked for before it and however they failed
\* (draco.cc 51-145, draco_planner.cc 110-163).
PlansUnderOwnOptions ==
    ~raced => \A r \in Requests : At(r, "plan") => \A t \in scopes[r] :
        active[t] = IF \E i \in 1..step[r] : Program(ask[r])[i] = [op |-> "set", on |-> t]
                    THEN r ELSE Default

\* A setting that nobody owns has its default value, and the collision checker
\* and the spliner have been told so, after every success, failure half-way
\* through the options, and timeout (override.h 103-126, 280-293).
DefaultsWhenUnowned ==
    ~raced => \A t \in Targets : owner[t] = None =>
        /\ value[t] = Default /\ active[t] = Default
        /\ saved[t] = None /\ ~overridden[t]

\* override.h:221 on the destructor of a scope: "restores the previous value
\* and releases ownership" - it never ends the process instead.
DestructorReleases == ~terminated
=============================================================================
