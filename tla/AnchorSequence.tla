--------------------------- MODULE AnchorSequence ---------------------------
(***************************************************************************)
(* DracoPlanner::SolveGeneralizedMultiModalPlan: a plan through a sequence *)
(* of start anchors, a transit, and a sequence of goal anchors.            *)
(* SolveSequentialAnchors resolves the anchors of one side one after the   *)
(* other, from several seeds; an anchor that is in collision across arms   *)
(* is kept, and the whole sequence is moved out of collision at the end    *)
(* (deconfliction).  The transit is asked of the straight-line, the GCS    *)
(* and the sample-based planner in this order.                             *)
(*                                                                         *)
(* A configuration is told by where each arm is -- at the reference, at a  *)
(* seed, or where an anchor wants it, and moved from there or not -- and   *)
(* by whether CheckSatisfied holds of it.  Solvers, checkers and planners  *)
(* may give any answer that their code can give.                           *)
(***************************************************************************)
EXTENDS Naturals, Sequences

CONSTANTS
    Arms,           \* the arms of the robot
    Anchors,        \* the anchors a problem may be made of, see below
    MaxAnchors,     \* bound: anchors on one side of a problem
    MaxProblem,     \* bound: anchors on both sides together
    MaxSeeds,       \* bound: seeds taken from the IK cache
    Planners        \* the planners of the transit that the options enable

\* An anchor fixes some arms (system_conf) and asks for poses of others.
ASSUME AnchorsAssumption ==
    Anchors \subseteq [conf : SUBSET Arms, poses : SUBSET Arms]
ASSUME BoundsAssumption ==
    /\ MaxAnchors \in Nat /\ MaxProblem \in Nat
    /\ MaxSeeds \in Nat \ {0}
    /\ Planners \subseteq {"straight", "gcs", "sample"}

VARIABLES
    problem,    \* the GeneralizedMultimodalPlanningProblem being solved
    phase,      \* where SolveGeneralizedMultiModalPlan is
    work,       \* the locals of SolveSequentialAnchors
    found,      \* start_seq and goal_seq
    transit,    \* transit_result: a piece, or none
    reply       \* how the call ended, with the pieces of the trajectory
vars == <<problem, phase, work, found, transit, reply>>

Sides == {"start", "goal"}
Place == [of : Sides \cup {"ref", "seed"}, number : Nat, moved : BOOLEAN]
Conf == [at : [Arms -> Place], ok : BOOLEAN]
Piece == [from : Conf, to : Conf, checked : BOOLEAN]
UpTo(n, S) == UNION {[1 .. k -> S] : k \in 0 .. n}
Problems ==
    {p \in [start : UpTo(MaxAnchors, Anchors), goal : UpTo(MaxAnchors, Anchors),
            partial : [Sides -> BOOLEAN], fast : BOOLEAN] :
        Len(p.start) + Len(p.goal) <= MaxProblem}

Stay(of, number) == [of |-> of, number |-> number, moved |-> FALSE]
Ref == [at |-> [a \in Arms |-> Stay("ref", 0)], ok |-> TRUE]
Last(s) == s[Len(s)]
Names(anchor) == anchor.conf \cup anchor.poses
NoWork == [side |-> "start", seeds |-> 1, seed |-> 1, configs |-> <<>>,
           fixed |-> {}, best |-> <<>>, seedCost |-> TRUE]
NoProblem == [start |-> <<>>, goal |-> <<>>,
              partial |-> [s \in Sides |-> FALSE], fast |-> FALSE]
NoReply == [status |-> "none", pieces |-> <<>>]
NotFound == [s \in Sides |-> <<>>]

TypeOK ==
    /\ problem \in [start : Seq(Anchors), goal : Seq(Anchors),
                    partial : [Sides -> BOOLEAN], fast : BOOLEAN]
    /\ phase \in {"idle", "sequence", "resolve", "deconflict", "plan",
                  "straight", "gcs", "sample", "combine", "answered"}
    /\ work.side \in Sides /\ work.seed \in 1 .. work.seeds
    /\ work.configs \in Seq(Conf) /\ work.best \in Seq(Conf)
    /\ Len(work.configs) <= Len(problem[work.side])
    /\ work.fixed \subseteq Arms /\ work.seedCost \in BOOLEAN
    /\ found \in [Sides -> Seq(Conf)]
    /\ transit \in {<<>>} \cup [1 .. 1 -> Piece]
    /\ reply.status \in {"none", "failed", "threw", "planned"}
    /\ reply.pieces \in Seq(Piece)

Init ==
    /\ problem = NoProblem
    /\ phase = "idle"
    /\ work = NoWork
    /\ found = NotFound
    /\ transit = <<>>
    /\ reply = NoReply

-----------------------------------------------------------------------------
(* The call.                                                               *)

Answer(status, pieces) ==
    /\ phase' = "answered"
    /\ reply' = [status |-> status, pieces |-> pieces]

\* The start configuration of the robot is invalid: an error at once.
Ask(p, startIsValid) ==
    /\ phase = "idle"
    /\ problem' = p
    /\ IF startIsValid
         THEN /\ phase' = "sequence"
              /\ UNCHANGED reply
         ELSE Answer("failed", <<>>)
    /\ UNCHANGED <<work, found, transit>>

Return ==
    /\ phase = "answered"
    /\ problem' = NoProblem
    /\ phase' = "idle"
    /\ work' = NoWork
    /\ found' = NotFound
    /\ transit' = <<>>
    /\ reply' = NoReply

-----------------------------------------------------------------------------
(* SolveSequentialAnchors.                                                 *)

Side == work.side
Wanted == problem[Side]
Partial == problem.partial[Side]
\* The sequence of the start side begins with the configuration of the robot.
StartSeq == <<Ref>> \o found["start"]

\* The start side uses the reference alone; the goal side takes the closest
\* seeds of the IK cache when an anchor has poses.  The reference is one of
\* them, and the cache fills the arms of the poses only.
SeedsFor(side, anchors) ==
    IF side = "goal" /\ \E i \in DOMAIN anchors : anchors[i].poses # {}
      THEN 1 .. MaxSeeds
      ELSE {1}

Posed == UNION {Wanted[i].poses : i \in DOMAIN Wanted}
Seed ==
    LET from == IF Side = "start" THEN Ref ELSE Last(StartSeq)
    IN  IF work.seed = 1 THEN from
        ELSE [from EXCEPT !.at = [a \in Arms |->
                IF a \in Posed THEN Stay("seed", work.seed) ELSE from.at[a]]]

\* The sequence of one side is returned to SolveGeneralizedMultiModalPlan.
Give(confs) ==
    /\ found' = [found EXCEPT ![Side] = confs]
    /\ IF Side = "start"
         THEN /\ work' = [NoWork EXCEPT !.side = "goal"]
              /\ phase' = "sequence"
         ELSE /\ phase' = "plan"
              /\ UNCHANGED work
    /\ UNCHANGED <<problem, transit, reply>>

Begin ==
    /\ phase = "sequence"
    /\ IF Wanted = <<>>
         THEN Give(<<>>)
         ELSE \E n \in SeedsFor(Side, Wanted) :
                /\ work' = [work EXCEPT !.seeds = n]
                /\ phase' = "resolve"
                /\ UNCHANGED <<problem, found, transit, reply>>

End(status) ==
    /\ Answer(status, <<>>)
    /\ UNCHANGED <<problem, work, found, transit>>

\* Mutated: a prefix counts whether or not the problem allows partial ones.
BestAlways(confs) ==
    IF Len(confs) > Len(work.best) THEN confs ELSE work.best

\* The longest configurations that a failed seed has left.
Best(confs) ==
    IF Partial /\ Len(confs) > Len(work.best) THEN confs ELSE work.best

NextSeed(best) ==
    IF work.seed < work.seeds
      THEN /\ work' = [work EXCEPT !.seed = work.seed + 1, !.configs = <<>>,
                                   !.fixed = {}, !.best = best,
                                   !.seedCost = TRUE]
           /\ phase' = "resolve"
           /\ UNCHANGED <<problem, found, transit, reply>>
      ELSE IF Partial /\ best # <<>> THEN Give(best) ELSE End("failed")

\* A seed has resolved all the anchors or, when a partial solution will do
\* and one is known, as many as it could.
Settle(confs, fixed, best) ==
    IF fixed = {}
      THEN Give(confs)
      ELSE /\ work' = [work EXCEPT !.configs = confs, !.fixed = fixed,
                                   !.best = best]
           /\ phase' = "deconflict"
           /\ UNCHANGED <<problem, found, transit, reply>>

Anchor == Wanted[Len(work.configs) + 1]
Base == IF work.configs = <<>> THEN Seed ELSE Last(work.configs)
\* The arms that the anchor names go where it wants them, the idle ones stay.
Placed(ok) ==
    [at |-> [a \in Arms |-> IF a \in Names(Anchor)
                              THEN Stay(Side, Len(work.configs) + 1)
                              ELSE Base.at[a]],
     ok |-> ok]

Keep(ok) ==
    LET confs == Append(work.configs, Placed(ok))
        fixed == IF ok THEN work.fixed ELSE work.fixed \cup Names(Anchor)
    IN  IF Len(confs) = Len(Wanted)
          THEN Settle(confs, fixed, work.best)
          ELSE /\ work' = [work EXCEPT !.configs = confs, !.fixed = fixed,
                                       !.seedCost = TRUE]
               /\ UNCHANGED <<problem, phase, found, transit, reply>>

\* An unavoidable collision ends the call, unless a partial solution will do.
Lose(unavoidable) ==
    LET best == Best(work.configs)
    IN  IF unavoidable /\ ~Partial THEN End("failed")
        ELSE IF best # <<>> THEN Settle(work.configs, work.fixed, best)
        ELSE NextSeed(best)

-----------------------------------------------------------------------------
(* ResolveAnchorConf for the next anchor.                                  *)

Complete(anchor) == anchor.conf = Arms

\* Mutated: the retry turns the cost on again when it fails too.
IkNumericalForever ==
    /\ work' = [work EXCEPT !.seedCost = ~work.seedCost]
    /\ UNCHANGED <<problem, phase, found, transit, reply>>

\* IkPlanner::SolveIk: a numerical failure is retried once, without the cost
\* on the distance to the seed.
IkNumerical ==
    IF work.seedCost
      THEN /\ work' = [work EXCEPT !.seedCost = FALSE]
           /\ UNCHANGED <<problem, phase, found, transit, reply>>
      ELSE Lose(FALSE)

ResolvePoses ==
    /\ phase = "resolve"
    /\ ~Complete(Anchor) /\ Anchor.poses # {}
    /\ \/ IkNumerical
       \/ Lose(FALSE)       \* infeasible, or an arm in collision with itself
       \/ Lose(TRUE)        \* an arm in collision with the environment
       \/ Keep(FALSE)       \* collisions across arms only
       \/ Keep(TRUE)

\* A complete configuration is never moved; without poses and without a
\* configuration there is nothing to resolve.
ResolveConf ==
    /\ phase = "resolve"
    /\ Complete(Anchor) \/ Anchor.poses = {}
    /\ \/ Lose(FALSE)
       \/ Keep(TRUE) /\ Names(Anchor) # {} /\ (Complete(Anchor) => Anchor.poses = {})
       \/ Keep(FALSE) /\ ~Complete(Anchor) /\ Names(Anchor) # {}

-----------------------------------------------------------------------------
(* Deconfliction: ThunderPlanner::CalcNearestValidConf finds where the     *)
(* idle arms have to go for the first configuration, and all of them are   *)
(* shifted by the same difference.                                         *)

Idle == Arms \ work.fixed
\* The nearest configuration has been checked with the idle arms of every
\* configuration where the first one has them.
SameIdle(k) == \A a \in Idle : work.configs[k].at[a] = work.configs[1].at[a]
Shifted(moving, lucky) ==
    [k \in DOMAIN work.configs |->
        [at |-> [a \in Arms |-> IF a \in moving
                                  THEN [work.configs[k].at[a] EXCEPT !.moved = TRUE]
                                  ELSE work.configs[k].at[a]],
         ok |-> SameIdle(k) \/ lucky]]

Deconflict(moving, lucky) ==
    /\ phase = "deconflict"
    /\ moving # {} /\ moving \subseteq Idle
    /\ Give(Shifted(moving, lucky))

NotDeconflicted ==
    /\ phase = "deconflict"
    /\ IF Partial THEN NextSeed(Best(work.configs)) ELSE End("failed")

\* A vertex of the roadmap where the first configuration has its idle arms.
DeconflictThrows ==
    /\ phase = "deconflict"
    /\ work.configs[1].ok
    /\ \E k \in DOMAIN work.configs : ~work.configs[k].ok /\ ~SameIdle(k)
    /\ End("threw")

-----------------------------------------------------------------------------
(* The transit: CalcTrajectoryBestAvailablePlanner.                        *)

From == Last(StartSeq)
To == found["goal"][1]
Between(checked) == [from |-> From, to |-> To, checked |-> checked]

PlanTransit ==
    /\ phase = "plan"
    /\ phase' = IF found["goal"] = <<>> THEN "combine" ELSE "straight"
    /\ UNCHANGED <<problem, work, found, transit, reply>>

\* A path is timed before it is used; no other planner is tried when that
\* fails.
UsePath(path) ==
    \/ /\ transit' = <<path>>
       /\ phase' = "combine"
       /\ UNCHANGED <<problem, work, found, reply>>
    \/ End("failed")

\* What the check of a path sees of its ends: CheckSatisfiedEdge and the
\* spliner look at both, CheckSatisfiedTrajectory stops before the last.
SeesBoth == From.ok /\ To.ok
SeesFirst == From.ok

\* Mutated: the changed path is used without another check.
MaybeFixArmsUnchecked(path) == {path, Between(FALSE)}

\* Arms with the same place at both ends are held still, when the path so
\* changed is still valid.
MaybeFixArms(path) ==
    {path} \cup {p \in {Between(TRUE)} : SeesFirst}

NextPlanner(p) ==
    /\ phase' = p
    /\ UNCHANGED <<problem, work, found, transit, reply>>

\* The estimate of a plan: the straight line, or the length of a path of the
\* GCS planner, whose exceptions nobody catches here; no path is built.
FastEstimate ==
    /\ phase = "straight" /\ problem.fast
    /\ \/ UsePath(Between(SeesBoth)) \/ UsePath(Between(FALSE))
       \/ End("failed") \/ End("threw")

StraightLine ==
    /\ phase = "straight" /\ ~problem.fast
    /\ \/ NextPlanner("gcs")
       \/ /\ "straight" \in Planners
          /\ SeesBoth
          /\ UsePath(Between(TRUE))

Gcs ==
    /\ phase = "gcs"
    /\ \/ NextPlanner("sample")     \* not enabled, no path, or an exception
       \/ /\ "gcs" \in Planners
          /\ SeesFirst
          /\ \E path \in MaybeFixArms(Between(TRUE)) : UsePath(path)

SampleBased ==
    /\ phase = "sample"
    /\ \/ End("failed")
       \/ /\ "sample" \in Planners
          /\ SeesBoth
          /\ \E path \in MaybeFixArms(Between(TRUE)) : UsePath(path)

-----------------------------------------------------------------------------
(* The sequences are splined and the pieces put one after the other.       *)

\* SplineAndTimePath samples the spline, its ends included.
Splined(confs) ==
    IF Len(confs) > 1
      THEN <<[from |-> confs[1], to |-> Last(confs),
              checked |-> confs[1].ok /\ Last(confs).ok]>>
      ELSE <<>>

Continuous(pieces) ==
    \A i \in 2 .. Len(pieces) : pieces[i].from = pieces[i - 1].to

Combine ==
    LET start == Splined(StartSeq)
        goal == Splined(found["goal"])
        pieces == start \o transit \o goal
    IN  /\ phase = "combine"
        /\ \/ End("failed")       \* a sequence cannot be splined or timed
           \/ /\ \A p \in DOMAIN start : start[p].checked
              /\ \A p \in DOMAIN goal : goal[p].checked
              /\ IF Continuous(pieces) THEN Answer("planned", pieces)
                                      ELSE Answer("threw", <<>>)
              /\ UNCHANGED <<problem, work, found, transit>>

\* A resolved anchor, a planner or the splining takes its time, but answers.
Solve ==
    \/ Begin
    \/ ResolvePoses
    \/ ResolveConf
    \/ \E moving \in SUBSET Arms, lucky \in BOOLEAN : Deconflict(moving, lucky)
    \/ NotDeconflicted
    \/ DeconflictThrows
    \/ PlanTransit
    \/ FastEstimate
    \/ StraightLine
    \/ Gcs
    \/ SampleBased
    \/ Combine
    \/ Return

Next ==
    \/ \E p \in Problems, startIsValid \in BOOLEAN : Ask(p, startIsValid)
    \/ Solve

Spec == Init /\ [][Next]_vars
FairSpec == Spec /\ WF_vars(Solve)

-----------------------------------------------------------------------------
(* Properties.                                                             *)

Planned == reply.status = "planned"

\* A plan starts at the configuration of the robot, joins its pieces where
\* they end, and every piece has been checked after its last change; it never
\* starts, joins or ends where a constraint is violated.  Two ends are not
\* looked at: an estimate, and the end of a GCS path to a partial solution.
PlanStaysValid ==
    Planned /\ ~problem.fast => \A i \in DOMAIN reply.pieces :
        LET piece == reply.pieces[i] IN
        /\ piece.from = IF i = 1 THEN Ref ELSE reply.pieces[i - 1].to
        /\ piece.checked
        /\ piece.from.ok
        /\ piece.to.ok \/ problem.partial["goal"]

\* The k-th configuration of a side is the one that resolves the k-th anchor:
\* each arm that the anchor names is where the anchor wants it, or has been
\* shifted from there by a deconfliction that did not hold it.  A side is
\* answered in full unless its problem allows a partial solution.
EveryAnchorInTurn ==
    Planned => \A side \in Sides :
        /\ Len(found[side]) <= Len(problem[side])
        /\ problem.partial[side] \/ Len(found[side]) = Len(problem[side])
        /\ \A k \in DOMAIN found[side] : \A a \in Names(problem[side][k]) :
             /\ found[side][k].at[a].of = side
             /\ found[side][k].at[a].number = k

\* Every call is answered: the retries of a solver and the seeds run out.
EveryCallEnds == phase # "idle" ~> phase = "idle"
=============================================================================
