---------------------------- MODULE AsyncPlanning ----------------------------
(***************************************************************************)
(* Planning for an arm while others move: DracoPlanner::SolvePlanImpl, the *)
(* check for collisions of the arms, the plan that stops short, and the    *)
(* filter of SolvePlan (draco/planner/solve_plan_impl.cc,                  *)
(* solve_generalized_multimodal.cc, draco_planner.cc).                     *)
(*                                                                         *)
(* Time is discrete.  An arm is at one of finitely many places; the pairs  *)
(* of places at which two arms touch are a constant.  What the solvers     *)
(* find is a choice among the motions that they may return.  A client      *)
(* (external) sends one request at a time with the trajectories it thinks  *)
(* are active, and executes the trajectories of the reply.                 *)
(***************************************************************************)
EXTENDS Integers, Sequences, FiniteSets

CONSTANTS
    Arms, Places,
    Touching,     \* pairs of places at which two arms collide
    Kinds,        \* the requests that arrive: "new", "update"
    AllowPartial, \* allow_async_partial_solutions
    MovesOthers,  \* whether a plan may move other arms than its target
    MaxLength,    \* bound on the number of places of a motion
    PerCall,      \* async_latency_check_per_call
    Comms,        \* latency_comms
    Step,         \* async_collison_checking_time_step
    Buffer,       \* partial_solution_time_buffer
    SwitchAfter,  \* update_spline_extra_time and update_spline_per_conf
    MaxTime,      \* bound on the time
    MaxRequests,  \* bound on the number of requests
    None

ASSUME AsyncAssumption ==
    /\ IsFiniteSet(Arms)
    /\ Touching \subseteq Places \X Places
    /\ \A p, q \in Places : <<p, q>> \in Touching => <<q, p>> \in Touching
    /\ {AllowPartial, MovesOthers} \subseteq BOOLEAN
    /\ {MaxLength, Comms, Step} \subseteq Nat \ {0}
    /\ {PerCall, Buffer, SwitchAfter, MaxTime, MaxRequests} \subseteq Nat

VARIABLES
    now,    \* the global clock
    exec,   \* the trajectory that each arm executes
    phase,  \* of the request in flight
    ask,    \* the request
    since,  \* time_global_now, and computations_start_time
    latency,
    sys,    \* sys_timed_trajectory
    type,   \* resource_result_types_
    reply,
    sent,   \* when the reply was sent
    requests

vars == <<now, exec, phase, ask, since, latency, sys, type, reply, sent, requests>>

-----------------------------------------------------------------------------
(* Trajectories: a place per unit of local time, from a global offset on. *)

Least(S) == CHOOSE n \in S : \A m \in S : n <= m
Greatest(S) == CHOOSE n \in S : \A m \in S : n >= m

Duration(tr) == Len(tr.points) - 1
End(tr) == tr.offset + Duration(tr)
\* Value clamps the time to the trajectory.
Local(tr, t) == tr.points[Least({Greatest({t, 0}), Duration(tr)}) + 1]
PlaceAt(tr, t) == Local(tr, t - tr.offset)
Constant(tr) == \A i \in DOMAIN tr.points : tr.points[i] = tr.points[1]

Upto(points, n) == SubSeq(points, 1, Least({n + 1, Len(points)}))
SliceFromTime(tr, t) == [offset |-> t,
                         points |-> SubSeq(tr.points, t - tr.offset + 1, Len(tr.points))]
PrependConstant(points, n) == [i \in 1..n |-> points[1]] \o points
RemoveConstantPrepend(points) ==
    LET moves == {i \in 1..(Len(points) - 1) : points[i + 1] # points[i]}
    IN IF moves = {} THEN points ELSE SubSeq(points, Least(moves), Len(points))

DoArmsCollide(place) ==
    \E a, b \in DOMAIN place : a # b /\ <<place[a], place[b]>> \in Touching

FinalTime(s) == Greatest({Duration(s[a]) : a \in DOMAIN s})

\* TimeOfArmsCollision takes every trajectory at t after its own offset, and t
\* from 0 on in steps: the last place is in general not among the samples.
CollisionTimes(s) ==
    {t \in 0..FinalTime(s) : /\ t % Step = 0
                             /\ DoArmsCollide([a \in DOMAIN s |-> Local(s[a], t)])}

-----------------------------------------------------------------------------
Stand(p) == [offset |-> 0, points |-> <<p>>]
Running(a) == now < End(exec[a])
PlaceNow(a) == PlaceAt(exec[a], now)

Init ==
    /\ now = 0
    /\ \E p \in [Arms -> Places] : ~DoArmsCollide(p) /\ exec = [a \in Arms |-> Stand(p[a])]
    /\ phase = "idle"
    /\ ask = None
    /\ since = 0 /\ latency = 0 /\ sent = 0
    /\ sys = None /\ type = None /\ reply = None
    /\ requests = 0

\* The message of the reply takes no longer than the latency configured for it.
Tick ==
    /\ now < MaxTime
    /\ phase = "reply" => now < sent + Comms
    /\ now' = now + 1
    /\ UNCHANGED <<exec, phase, ask, since, latency, sys, type, reply, sent, requests>>

\* The client sends the trajectories of the arms that move, and perhaps others.
Request ==
    /\ phase = "idle" /\ requests < MaxRequests
    /\ requests' = requests + 1
    /\ \E k \in Kinds, a \in Arms, more \in SUBSET Arms :
          ask' = [kind |-> k, arm |-> a, at |-> now,
                  start |-> [b \in Arms |-> PlaceNow(b)], current |-> exec[a],
                  active |-> [b \in more \cup {c \in Arms : Running(c)} |-> exec[b]]]
    /\ phase' = "solve"
    /\ UNCHANGED <<now, exec, since, latency, sys, type, reply, sent>>

Active == DOMAIN ask.active
InvolvesAsync == Active # {}

Answer(status, trajectories) ==
    /\ reply' = [status |-> status, sys |-> trajectories]
    /\ phase' = "reply"
    /\ sent' = now

\* The solver finds nothing, or throws.
SolveFails ==
    /\ phase = "solve"
    /\ Answer("failure", <<>>)
    /\ UNCHANGED <<now, exec, ask, since, latency, sys, type, requests>>

-----------------------------------------------------------------------------
(* What the solvers return. *)

\* A plan for all arms from the start, validated against collisions; another
\* arm than the target may be moved out of the way.
Plans == UNION {{m \in [Arms -> [1..n -> Places]] :
                    /\ \A a \in Arms : m[a][1] = ask.start[a]
                    /\ \A a \in Arms \ {ask.arm} :
                          MovesOthers \/ \A i \in 1..n : m[a][i] = ask.start[a]
                    /\ \A i \in 1..n : ~DoArmsCollide([a \in Arms |-> m[a][i]])} :
                n \in 1..MaxLength}

\* The current trajectory up to the switch, then towards the waypoints.  At a
\* switch before its beginning it has its first place.
Updates ==
    LET old == ask.current
        switch == ask.at - old.offset + (now - ask.at) + SwitchAfter
        prefix == [i \in 1..(Greatest({switch, 0}) + 1) |-> Local(old, i - 1)]
    IN {prefix \o rest : rest \in UNION {[1..n -> Places] : n \in 0..MaxLength - 1}}

CalcLatencyTime(duration) ==
    Greatest({duration} \cup {End(ask.active[a]) - now : a \in Active}) * PerCall + Comms

\* SetResourcesFromNewResult.
NewType(a, points) ==
    CASE a = ask.arm -> "kNewAndTargeted"
      [] a # ask.arm /\ ~Constant([points |-> points]) -> "kNewNotTargeted"
      [] OTHER -> "kEmpty"

(* Mutated: a running arm that the plan moves is treated like an update. *)
CombineMoved(new, types) ==
    LET keep == {a \in Active : types[a] = "kEmpty"}
    IN [sys  |-> [a \in Arms |-> IF a \in keep /\ now <= End(ask.active[a])
                                THEN SliceFromTime(ask.active[a], now) ELSE new[a]],
        type |-> [a \in Arms |-> IF a \in keep THEN "kRunningNoUpdate" ELSE types[a]]]

\* The arms that run keep their trajectories, from now on, unless these ended.
Combine(new, types) ==
    [sys  |-> [a \in Arms |-> IF a \in Active /\ now <= End(ask.active[a])
                             THEN SliceFromTime(ask.active[a], now) ELSE new[a]],
     type |-> [a \in Arms |-> IF a \in Active THEN "kRunningNoUpdate" ELSE types[a]]]

\* SolvePlan returns only what is new or updated.
Returned(s) ==
    [a \in {b \in DOMAIN s : type[b] \in {"kNewAndTargeted", "kNewNotTargeted", "kUpdate"}}
        |-> s[a]]

\* Slicing a trajectory before its start throws.
NotStarted == \E a \in Active \ {ask.arm} : now < ask.active[a].offset

SolveNew ==
    /\ phase = "solve" /\ ask.kind = "new"
    /\ \E m \in Plans :
        LET l == CalcLatencyTime(Len(m[ask.arm]) - 1)
            new == [a \in Arms |->
                      [offset |-> now + l,
                       points |-> IF InvolvesAsync THEN PrependConstant(m[a], l) ELSE m[a]]]
            combined == Combine(new, [a \in Arms |-> NewType(a, m[a])])
        IN /\ since' = now
           /\ latency' = l
           /\ \/ ask.arm \in Active /\ Answer("kAsyncActiveResource", <<>>)
                 /\ UNCHANGED <<sys, type>>
              \/ NotStarted /\ Answer("failure", <<>>) /\ UNCHANGED <<sys, type>>
              \/ /\ ask.arm \notin Active /\ ~NotStarted
                 /\ sys' = combined.sys
                 /\ type' = combined.type
                 /\ phase' = "check"
                 /\ UNCHANGED <<reply, sent>>
    /\ UNCHANGED <<now, exec, ask, requests>>

\* The other active arms are added as they are, for the check only.
SolveUpdate ==
    /\ phase = "solve" /\ ask.kind = "update"
    /\ \E points \in Updates :
        /\ since' = now
        /\ latency' = CalcLatencyTime(Len(points) - 1)
        /\ sys' = [a \in Active \cup {ask.arm} |->
                       IF a = ask.arm THEN [ask.current EXCEPT !.points = points]
                                      ELSE ask.active[a]]
        /\ type' = [a \in Active \cup {ask.arm} |->
                       IF a = ask.arm THEN "kUpdate" ELSE "kUndefined"]
    /\ phase' = "check"
    /\ UNCHANGED <<now, exec, ask, reply, sent, requests>>

-----------------------------------------------------------------------------
(* The check, which takes time. *)

Movable == Arms \ Active

\* An update beside arms that stand still is not checked.  A check that lacks
\* the place of an arm throws.
NoCheck == \/ ~InvolvesAsync
           \/ /\ ask.kind = "update"
              /\ \A a \in Active \ {ask.arm} : Constant(ask.active[a])

\* BestApproachTrajectory stops the movable arms at time t.  An arm whose path
\* is retimed loses the constant beginning and its offset.
StopAt(t, retimed) ==
    [a \in DOMAIN sys |->
        CASE a \in retimed ->
                [offset |-> 0, points |-> RemoveConstantPrepend(Upto(sys[a].points, t))]
          [] a \in Movable \ retimed -> [sys[a] EXCEPT !.points = Upto(@, t)]
          [] OTHER -> sys[a]]

\* The latest stop without a collision, between the first time allowed and a
\* buffer before the collision; lo and hi bound the transit.
BestApproach(lo, hi, retimed) ==
    LET best == Least(CollisionTimes(sys)) - Buffer
        clear == {t \in (lo + latency)..Least({best, hi + latency}) :
                     CollisionTimes(StopAt(t, retimed)) = {}}
    IN IF clear = {} THEN None ELSE StopAt(Greatest(clear), retimed)

(* Mutated: the computation may take any time. *)
NeverTooSlow == FALSE

TooSlow == now - since > latency

Check ==
    /\ phase = "check"
    /\ \/ NoCheck /\ Answer("kFull", Returned(sys))
       \/ /\ ~NoCheck /\ CollisionTimes(sys) # {}
          /\ \E lo, hi \in 0..MaxLength - 1, retimed \in SUBSET Movable :
                LET partial == IF AllowPartial /\ ask.kind = "new" /\ lo <= hi
                               THEN BestApproach(lo, hi, retimed) ELSE None
                IN IF partial = None THEN Answer("kAsyncCollision", <<>>)
                   ELSE Answer("kStoppedShort", Returned(partial))
       \/ /\ ~NoCheck /\ CollisionTimes(sys) = {}
          /\ IF TooSlow \/ DOMAIN sys # Arms THEN Answer("failure", <<>>)
             ELSE Answer("kFull", Returned(sys))
    /\ UNCHANGED <<now, exec, ask, since, latency, sys, type, requests>>

\* The client executes the trajectories of the reply.
Deliver ==
    /\ phase = "reply"
    /\ exec' = [a \in Arms |-> IF a \in DOMAIN reply.sys THEN reply.sys[a] ELSE exec[a]]
    /\ phase' = "idle"
    /\ ask' = None /\ sys' = None /\ type' = None /\ reply' = None
    /\ since' = 0 /\ latency' = 0 /\ sent' = 0
    /\ UNCHANGED <<now, requests>>

Next == Tick \/ Request \/ SolveFails \/ SolveNew \/ SolveUpdate \/ Check \/ Deliver

Spec == Init /\ [][Next]_vars

-----------------------------------------------------------------------------
Trajectories == {tr \in [offset : Int, points : Seq(Places)] : tr.points # <<>>}
IsSystemTrajectory(s) == DOMAIN s \subseteq Arms /\ \A a \in DOMAIN s : s[a] \in Trajectories

\* Trajectories are of the known arms and never empty, and the data of a request
\* exist exactly while it is in flight (solve_plan_impl.cc 325-749).
TypeOK ==
    /\ now \in 0..MaxTime /\ requests \in 0..MaxRequests
    /\ exec \in [Arms -> Trajectories]
    /\ phase \in {"idle", "solve", "check", "reply"}
    /\ phase = "idle" <=> ask = None
    /\ ask # None => IsSystemTrajectory(ask.active)
    /\ phase = "check" => IsSystemTrajectory(sys) /\ DOMAIN type = DOMAIN sys
    /\ phase = "reply" => IsSystemTrajectory(reply.sys)
    /\ phase # "reply" => reply = None

Replied(status) == phase = "reply" /\ phase' = "idle" /\ reply.status \in status

\* A full plan made beside other arms reaches the client before an arm has to
\* move, unlike one that was made with no arm active: on delivery each
\* arm goes on from the place where it is.  The limit on the computation, the
\* hold of the latency before the motion and the omission of arms that run
\* must together make it so (solve_plan_impl.cc:489, 512, 727-744).
NoJump == [][Replied({"kFull"}) /\ ask.kind = "new" /\ InvolvesAsync =>
                \A a \in Arms : PlaceAt(exec'[a], now) = PlaceNow(a)]_vars

\* No reply changes where an arm that runs is going, but an update of that arm:
\* not even when the plan has moved it out of the way
\* (solve_plan_impl.cc:562-622, draco_planner.cc:276-301).
RunningArmsUndisturbed ==
    [][\A a \in Arms : Running(a) /\ exec'[a] # exec[a] =>
          \/ ask.kind = "update" /\ a = ask.arm
          \/ \A t \in now..MaxTime : PlaceAt(exec'[a], t) = PlaceAt(exec[a], t)]_vars

\* solve_generalized_multimodal.cc:8 says that the check finds "if the
\* trajectory has a collision between arms": what it lets through, executed at
\* the global times that the trajectories carry, brings no arms together.
ArmsNeverCollide == ~DoArmsCollide([a \in Arms |-> PlaceNow(a)])
=============================================================================
