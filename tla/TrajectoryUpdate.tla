--------------------------- MODULE TrajectoryUpdate ---------------------------
(***************************************************************************)
(* An update of a running trajectory towards new waypoints:                *)
(* DracoPlanner::SolveUpdateTrajTowardWaypointsPlan and, below it,         *)
(* TimeOptimalSpliner::CalcTrajTowardNewWaypoints with the helpers of      *)
(* path_math.cc and cubic_trajectory.cc.  The current trajectory is        *)
(* followed up to the switch time; from there one cubic path lands on a    *)
(* path through the waypoints.                                             *)
(*                                                                         *)
(* One joint, whole positions, velocities and times.  A trajectory is the  *)
(* sequence of its pieces, a piece the position and velocity at both ends  *)
(* and its duration.  The numerical solvers (inverse kinematics, the       *)
(* spline program, Toppra) answer or fail as they like.                    *)
(***************************************************************************)
EXTENDS Integers, Sequences, FiniteSets
Sets == INSTANCE FiniteSetsExt

CONSTANTS
  Currents,              \* current trajectories: [pos, vel], one entry a tick
  Goals,                 \* lists of waypoints that may be asked for
  QMin, QMax,            \* joint limits
  MaxVelocity, MaxAcceleration,
  Margin,                \* joint_limits_safety_margin
  PerConf, Extra,        \* update_spline_per_conf, update_spline_extra_time
  MaxWork,               \* the longest the planning so far takes
  MaxIterations,         \* spline programs tried
  TimeCap                \* bound on the duration of a cubic path

ASSUME GoalsAssumption == Goals \subseteq Seq(Int)

VARIABLES
  request,    \* [current, now, goals, poses, durations, wiggle, optimal]
  step,       \* what the planner does next
  waypoints,  \* those resolved so far
  margin,     \* the margin of the inverse kinematics options
  switch,     \* when the current trajectory is left
  atRest,     \* constrain_end_velocity_to_zero
  spline,     \* the path through the waypoints: [pos, vel]
  relaxed,    \* number of spline programs that failed and were relaxed
  updated     \* [kind, pieces]

updateVars == <<request, step, waypoints, margin, switch, atRest, spline,
                relaxed, updated>>

NoSpline == [pos |-> <<>>, vel |-> <<>>]
NotUpdated == [kind |-> "none", pieces |-> <<>>]
Magnitude(i) == IF i < 0 THEN -i ELSE i

-----------------------------------------------------------------------------
(***************************************************************************)
(* The cubic path between two states of the joint.                         *)
(***************************************************************************)
\* 1 / h is at most the greatest x with lb <= a * x <= ub; the side that a
\* does not grow towards is not looked at.  Times h.
MaxLinearBounds(lb, ub, a, h) ==
  /\ a > 0 => ub >= 0 /\ a <= ub * h
  /\ a < 0 => lb <= 0 /\ a >= lb * h

\* ... and with lb <= a * x^2 + b * x <= ub.  Times h * h.
MaxQuadraticBounds(lb, ub, a, b, h) ==
  /\ a > 0 => a + b * h <= ub * h * h
  /\ a < 0 => a + b * h >= lb * h * h

\* The least duration the three bounds admit, in whole ticks.
MinimumTimes(q0, v0, q1, v1, accelerationBound, velocityBound) ==
  {h \in 1 .. TimeCap :
     /\ MaxLinearBounds(v0 + v1 - velocityBound, v0 + v1 + velocityBound,
                        3 * (q1 - q0), h)
     /\ MaxQuadraticBounds(-accelerationBound, accelerationBound,
                           6 * (q1 - q0), -(2 * v1 + 4 * v0), h)
     /\ MaxQuadraticBounds(-accelerationBound, accelerationBound,
                           6 * (q0 - q1), 2 * v0 + 4 * v1, h)}

\* Three times a control point lies within three times the joint limits.
WithinLimits(q3) == 3 * QMin <= q3 /\ q3 <= 3 * QMax

Piece(kind, q0, v0, q1, v1, h) ==
  [kind |-> kind, q0 |-> q0, v0 |-> v0, q1 |-> q1, v1 |-> v1, h |-> h]

\* The path, as a set of one piece, or none.  The velocity bound is handed
\* over where the acceleration bound is expected, and the other way round.
CalcOptimalCubicPath(q0, v0, q1, v1) ==
  LET hs == MinimumTimes(q0, v0, q1, v1, MaxVelocity, MaxAcceleration)
  IN {Piece("cubic", q0, v0, q1, v1, h) :
        h \in {k \in hs : /\ k = Sets!Min(hs)
                          /\ WithinLimits(3 * q0 + v0 * k)
                          /\ WithinLimits(3 * q1 - v1 * k)}}

-----------------------------------------------------------------------------
(***************************************************************************)
(* The current trajectory.  Beyond its end it is held where it ended.      *)
(***************************************************************************)
EndTime == Len(request.current.pos) - 1
Sample(seq, t) == seq[Sets!Min({t, EndTime}) + 1]
Position(t) == Sample(request.current.pos, t)
Velocity(t) == IF t > EndTime THEN 0 ELSE Sample(request.current.vel, t)
NowAfterEnd == request.now > EndTime
IsConstant == \A i \in DOMAIN request.current.vel : request.current.vel[i] = 0

\* The part that is kept, up to the switch; held at its end when the switch
\* comes later than that.
Slice ==
  Piece("current", Position(request.now), Velocity(request.now),
        Position(switch), Velocity(switch), switch - request.now)

\* A trajectory that has ended is not continued but replaced.
MergeTrajectory(pieces) == IF NowAfterEnd THEN pieces ELSE <<Slice>> \o pieces

-----------------------------------------------------------------------------
(***************************************************************************)
(* SolveUpdateTrajTowardWaypointsPlan                                      *)
(***************************************************************************)
UpdateInit ==
  /\ request \in
       {r \in [current : Currents, now : 0 .. 3, goals : Goals, poses : BOOLEAN,
               durations : BOOLEAN, wiggle : {0, 1}, optimal : BOOLEAN] :
          r.now <= Len(r.current.pos)}
  /\ step = IF request.poses THEN "ik" ELSE "waypoints"
  /\ waypoints = <<>> /\ margin = Margin /\ switch = 0 /\ atRest = TRUE
  /\ spline = NoSpline
  /\ relaxed = 0
  /\ updated = NotUpdated

TakeWaypoints ==
  /\ step = "waypoints"
  /\ waypoints' = request.goals /\ step' = "timing"
  /\ UNCHANGED <<request, margin, switch, atRest, spline, relaxed, updated>>

LastPose == Len(waypoints) = Len(request.goals) - 1

\* The options outlive the loop's turn: once 0, the margin stays 0.
MarginOf(last) == IF last THEN margin ELSE 0

Conclude(kind, pieces) ==
  /\ updated' = [kind |-> kind, pieces |-> pieces]
  /\ step' = "done"

SolveIk ==
  /\ step = "ik"
  /\ margin' = MarginOf(LastPose)
  /\ LET q == request.goals[Len(waypoints) + 1] IN
       IF q \in QMin + margin' .. QMax - margin'
         THEN /\ waypoints' = Append(waypoints, q)
              /\ step' = IF LastPose THEN "timing" ELSE "ik"
              /\ UNCHANGED updated
         ELSE Conclude("error", <<>>) /\ UNCHANGED waypoints
  /\ UNCHANGED <<request, switch, atRest, spline, relaxed>>

\* delta_switch leaves time for what was done and what is to come.
SetSwitch ==
  /\ step = "timing"
  /\ \E worked \in 0 .. MaxWork :
       switch' = request.now + PerConf * Len(waypoints) + Extra + worked
  /\ step' = "calc"
  /\ UNCHANGED <<request, waypoints, margin, atRest, spline, relaxed, updated>>

\* The first attempt ends at rest by the spline, a second one by a stop.
Nullopt ==
  /\ IF atRest
       THEN /\ atRest' = FALSE /\ step' = "calc"
            /\ relaxed' = 0
            /\ UNCHANGED updated
       ELSE Conclude("error", <<>>) /\ UNCHANGED <<atRest, relaxed>>
  /\ spline' = NoSpline

-----------------------------------------------------------------------------
(***************************************************************************)
(* CalcTrajTowardNewWaypoints                                              *)
(***************************************************************************)
SingleWaypoint ==
  /\ step = "calc" /\ Len(waypoints) = 1
  /\ LET cubic == CalcOptimalCubicPath(Position(switch), Velocity(switch),
                                       waypoints[1], 0)
     IN IF cubic = {} THEN Nullopt
        ELSE /\ \E p \in cubic : Conclude("trajectory", MergeTrajectory(<<p>>))
             /\ UNCHANGED <<atRest, spline, relaxed>>
  /\ UNCHANGED <<request, waypoints, margin, switch>>

\* SmoothWaypoints moves every waypoint but the first by at most the room.
Smoothed ==
  {pos \in [DOMAIN waypoints -> QMin - request.wiggle .. QMax + request.wiggle] :
     /\ pos[1] = waypoints[1]
     /\ \A i \in DOMAIN pos : Magnitude(pos[i] - waypoints[i]) <= request.wiggle}

\* The velocity at which a waypoint is passed, unless it is 0.
Pace(pos, i) ==
  LET j == Sets!Min({i, Len(pos) - 1}) IN pos[j + 1] - pos[j]
Clipped(v) == Sets!Max({-MaxVelocity, Sets!Min({MaxVelocity, v})})

\* A standing robot gets a spline of its own, at one tick a segment, that
\* leaves and arrives at the pace of its outer segments.
SimpleSplines(pos) ==
  {[pos |-> pos, vel |-> [i \in DOMAIN pos |->
      IF i \in inner THEN 0 ELSE Pace(pos, i)]] :
        inner \in SUBSET (2 .. Len(pos) - 1)}

\* The program keeps to the velocity bound, and ends at rest if it has to.
ProgramSplines(pos) ==
  {[pos |-> pos, vel |-> [i \in DOMAIN pos |->
      IF i \in still THEN 0 ELSE Clipped(Pace(pos, i))]] :
        still \in {st \in SUBSET DOMAIN pos : atRest => Len(pos) \in st}}

SimpleSpline ==
  /\ step = "calc" /\ Len(waypoints) > 1
  /\ IsConstant /\ ~request.durations
  /\ spline' \in UNION {SimpleSplines(pos) : pos \in Smoothed}
  /\ step' = "land"
  /\ UNCHANGED <<request, waypoints, margin, switch, atRest, relaxed, updated>>

UsesProgram ==
  step = "calc" /\ Len(waypoints) > 1 /\ (request.durations \/ ~IsConstant)

\* CalcDynamicsAwareSpline: the program that respects the velocity bounds
\* is solved.
ProgramSolved ==
  /\ UsesProgram /\ relaxed < MaxIterations
  /\ spline' \in UNION {ProgramSplines(pos) : pos \in Smoothed}
  /\ step' = "land"
  /\ UNCHANGED <<request, waypoints, margin, switch, atRest, relaxed, updated>>

\* It is not: the acceleration rows and the least total time are scaled.
ProgramFails ==
  /\ UsesProgram /\ relaxed < MaxIterations
  /\ relaxed' = relaxed + 1
  /\ UNCHANGED <<request, step, waypoints, margin, switch, atRest, spline, updated>>

ProgramGivenUp ==
  /\ UsesProgram /\ relaxed = MaxIterations
  /\ Nullopt
  /\ UNCHANGED <<request, waypoints, margin, switch>>

\* Mutated: the robot lands at rest, wherever the spline passes on.
LandingsAtRest ==
  UNION {{[at |-> i, piece |-> p] :
            p \in CalcOptimalCubicPath(Position(switch), Velocity(switch),
                                       spline.pos[i], 0)} :
         i \in 1 .. Len(spline.pos) - 1}

\* The landing points tried are those before the end of the spline; the cost
\* of one is the time to get there and the time skipped on the spline.
Landings ==
  UNION {{[at |-> i, piece |-> p] :
            p \in CalcOptimalCubicPath(Position(switch), Velocity(switch),
                                       spline.pos[i], spline.vel[i])} :
         i \in 1 .. Len(spline.pos) - 1}
Cost(l) == l.piece.h + l.at
Best(ls) == CHOOSE l \in ls : \A m \in ls : Cost(l) < Cost(m) \/
                                           (Cost(l) = Cost(m) /\ l.at <= m.at)

\* A robot that stands since its trajectory ended is put at the start of the
\* spline, wherever it is.
Hold == [at |-> 1, piece |-> Piece("hold", spline.pos[1], 0, spline.pos[1], 0, 1)]

\* The spline from the landing point on, one piece a segment.
Rest(from) ==
  [i \in 1 .. Len(spline.pos) - from |->
     Piece("spline", spline.pos[from + i - 1], spline.vel[from + i - 1],
           spline.pos[from + i], spline.vel[from + i], 1)]

\* CalcTrajectoryToStop, unless the end is at rest already.
Stop ==
  LET n == Len(spline.pos)
      v == spline.vel[n]
  IN IF atRest \/ v = 0 THEN <<>>
     ELSE <<Piece("stop", spline.pos[n], v, spline.pos[n] + v, 0, 2)>>

Joined(l) == MergeTrajectory(<<l.piece>> \o Rest(l.at) \o Stop)

\* Without a landing point the attempt is lost.  Toppra may fail to time the
\* spline at the pace it was made for, and its empty answer is dereferenced
\* (time_optimal_spliner.cc:1002): an exception that the caller passes on.
Land ==
  /\ step = "land"
  /\ LET ls == IF NowAfterEnd THEN {Hold} ELSE Landings IN
       IF ls = {} THEN Nullopt
       ELSE /\ \/ Conclude("trajectory", Joined(Best(ls)))
               \/ request.optimal /\ Conclude("threw", <<>>)
            /\ UNCHANGED <<atRest, spline, relaxed>>
  /\ UNCHANGED <<request, waypoints, margin, switch>>

UpdateNext ==
  \/ TakeWaypoints \/ SolveIk \/ SetSwitch
  \/ SingleWaypoint \/ SimpleSpline \/ ProgramSolved \/ ProgramFails
  \/ ProgramGivenUp \/ Land

UpdateSpec == UpdateInit /\ [][UpdateNext]_updateVars

-----------------------------------------------------------------------------
Updated == updated.kind = "trajectory"
Final == updated.pieces[Len(updated.pieces)]

\* Where the robot still moves along its trajectory, the answer takes over
\* from it at the present position and velocity, and no two pieces of it
\* differ in position or velocity where they meet: the landing point, its
\* velocity and the switch are those of one and the same instant
\* (time_optimal_spliner.cc:787, 898).
ContinuesMotion ==
  Updated /\ ~NowAfterEnd =>
    /\ updated.pieces[1].q0 = Position(request.now)
    /\ updated.pieces[1].v0 = Velocity(request.now)
    /\ \A i \in 1 .. Len(updated.pieces) - 1 :
         /\ updated.pieces[i].q1 = updated.pieces[i + 1].q0
         /\ updated.pieces[i].v1 = updated.pieces[i + 1].v0
    /\ \/ Final.kind = "stop"
       \/ Magnitude(Final.q1 - waypoints[Len(waypoints)]) <= request.wiggle

\* internal/cubic_trajectory.h:20: the velocity bound of a cubic path bounds its
\* velocity.  From rest to rest that is greatest half-way, 3 * (q1 - q0) / 2h.
CubicWithinVelocity ==
  \A i \in DOMAIN updated.pieces :
    LET p == updated.pieces[i] IN
      p.kind = "cubic" /\ p.v0 = 0 /\ p.v1 = 0 =>
        3 * Magnitude(p.q1 - p.q0) <= 2 * MaxVelocity * p.h
=============================================================================
