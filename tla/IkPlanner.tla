------------------------------- MODULE IkPlanner -------------------------------
(***************************************************************************)
(* Global inverse kinematics: IkPlanner::SolveGlobalIk and SolveIk with    *)
(* the IkCache that seeds them.  The seeds are the reference and the       *)
(* cached configurations, the closest to the target first; every seed is   *)
(* given to a mathematical program, some of them more than once (without   *)
(* the seed cost, then with collision avoidance), until one has a          *)
(* verdict that makes the others pointless; random seeds come last.        *)
(*                                                                         *)
(* The solver answers as it likes.  A configuration is known by how far    *)
(* from the target it takes the frame, for the offset the frame has on its *)
(* parent; the poses of one pair of frames are cached.  That seeds of idle *)
(* arms are set to the reference is left out.                              *)
(***************************************************************************)
EXTENDS Integers, Sequences

CONSTANTS
  IkConfs,        \* configurations
  FrameOffsets,   \* of the frame in its parent frame
  Reach,          \* Reach[o][c]: distance of the frame from the target
  Apart,          \* Apart[c]: distance of a configuration from the reference
  Reference,      \* q_ref
  Caches,         \* the configurations the cache may start with
  IkOptionSets,   \* values of IkPlannerOptions
  Issues,         \* what EvalRobotLimits may find: sets of "jacobian", "limit"
  SamplesPerSeed, \* samples tried for a random seed: 10 in the code
  MaxCalls        \* bound on the calls of SolveGlobalIk

ASSUME ReachAssumption ==
  /\ Reach \in [FrameOffsets -> [IkConfs -> Nat]]
  /\ Apart \in [IkConfs -> Nat] /\ Reference \in IkConfs

\* Zero seeds are refused with an exception (ik_cache.cc:94, :181).
ASSUME IkOptionsAssumption ==
  /\ \A cache \in Caches : cache \in Seq(IkConfs)
  /\ \A o \in IkOptionSets :
       /\ o.avoid \in BOOLEAN /\ o.resolve \in BOOLEAN /\ o.selfResolve \in BOOLEAN
       /\ o.ignoreArms \in BOOLEAN /\ o.seedCost \in BOOLEAN
       /\ o.twoSteps \in BOOLEAN /\ o.insert \in BOOLEAN
       /\ o.numSeeds \in Int \ {0} /\ o.numRandom \in Nat

VARIABLES
  ikOptions,      \* of the call
  ikCache,        \* cache_configs_
  known,          \* cached_frps_ has the pair of frames of the target
  cachedPoses,    \* ... and then the offset and configuration of each pose
  offset,         \* of the frame at the moment
  ikStep,         \* "idle", "seeds", "solve", "judge"
  seeds,          \* best_seeds, those not tried yet
  chosen,         \* best_seeds
  program,        \* [avoid, seedCost, random]: the program to be solved
  drawn,          \* random samples that may still be drawn
  randoms,        \* random seeds that may still be tried
  ikResult,       \* ik_result
  tried,          \* history: the result for each seed of the call
  verdict,        \* what the call returned, or NoResult
  ikCalls

ikVars == <<ikOptions, ikCache, known, cachedPoses, offset, ikStep, seeds, chosen,
            program, drawn, randoms, ikResult, tried, verdict, ikCalls>>

NoResult == [success |-> FALSE, collision |-> "unset", failure |-> "none"]
NoProgram == [avoid |-> FALSE, seedCost |-> FALSE, random |-> FALSE]
Collisions == {"self", "arms", "env", "mixed"}

Valid(r) == r.success /\ r.collision = "none"
Decisive(r) == r.success /\ r.collision # "self"

IkInit ==
  /\ ikOptions \in IkOptionSets
  /\ ikCache \in Caches
  /\ known = FALSE /\ cachedPoses = <<>>
  /\ offset \in FrameOffsets
  /\ ikStep = "idle" /\ seeds = <<>> /\ chosen = <<>>
  /\ program = NoProgram
  /\ drawn = 0 /\ randoms = 0
  /\ ikResult = NoResult /\ tried = <<>> /\ verdict = NoResult
  /\ ikCalls = 0

-----------------------------------------------------------------------------
(***************************************************************************)
(* The cache.                                                              *)
(***************************************************************************)
Pose(c) == [conf |-> c, offset |-> offset]
AddFrames(configs) == [i \in DOMAIN configs |-> Pose(configs[i])]

\* Mutated: the newest configuration is put before the others, its pose after
\* theirs.
AddConfigFirst(c) ==
  /\ ikCache' = <<c>> \o ikCache
  /\ cachedPoses' = IF known THEN Append(cachedPoses, Pose(c)) ELSE <<>>
  /\ UNCHANGED known

AddCacheConfig(c) ==
  /\ ikCache' = Append(ikCache, c)
  /\ cachedPoses' = IF known THEN Append(cachedPoses, Pose(c)) ELSE <<>>
  /\ UNCHANGED known

\* The reference is seed 0, its pose is computed, the others' are looked up.
Candidates == <<Reference>> \o ikCache
PoseDistance(poses, i) ==
  IF i = 1 THEN Reach[offset][Reference]
  ELSE Reach[poses[i - 1].offset][poses[i - 1].conf]

Orders(n) == {s \in [1 .. n -> 1 .. n] : \A i, j \in 1 .. n : s[i] = s[j] => i = j}
SortedBy(distance) ==
  {s \in Orders(Len(distance)) :
     \A i \in 1 .. Len(distance) - 1 : distance[s[i]] <= distance[s[i + 1]]}

\* The first num in order, without one that equals the one before it.
Distinct(confs, num) ==
  LET kept[i \in 0 .. Len(confs)] ==
        IF i = 0 THEN <<>>
        ELSE IF Len(kept[i - 1]) = num
                  \/ (i > 1 /\ confs[i] = kept[i - 1][Len(kept[i - 1])])
               THEN kept[i - 1] ELSE Append(kept[i - 1], confs[i])
  IN kept[Len(confs)]

NumSeeds == IF ikOptions.numSeeds < 0 \/ ikOptions.numSeeds > Len(Candidates)
              THEN Len(Candidates) ELSE ikOptions.numSeeds

\* In one step the distances of pose and configuration are added up.
CalcClosestSeed1Step(poses) ==
  LET distance == [i \in DOMAIN Candidates |->
                     PoseDistance(poses, i) + Apart[Candidates[i]]]
  IN {Distinct([i \in DOMAIN Candidates |-> Candidates[s[i]]], NumSeeds) :
        s \in SortedBy(distance)}

\* In two steps the closest by pose are put in order of their distance from
\* the reference.
CalcClosestSeed2Steps(poses) ==
  LET byPose == [i \in DOMAIN Candidates |-> PoseDistance(poses, i)]
      near == {Distinct([i \in DOMAIN Candidates |-> Candidates[s[i]]], NumSeeds) :
                 s \in SortedBy(byPose)}
  IN UNION {{[i \in DOMAIN n |-> n[s[i]]] :
               s \in SortedBy([i \in DOMAIN n |-> Apart[n[i]]])} : n \in near}

\* SetPoseInParentFrame moves the frame between two calls; the poses cached
\* before stay what they were.
MoveFrame(o) ==
  /\ ikStep = "idle" /\ ikCalls < MaxCalls /\ o # offset
  /\ offset' = o
  /\ UNCHANGED <<ikOptions, ikCache, known, cachedPoses, ikStep, seeds, chosen,
                 program, drawn, randoms, ikResult, tried, verdict, ikCalls>>

-----------------------------------------------------------------------------
(***************************************************************************)
(* SolveGlobalIkUsingCache                                                 *)
(***************************************************************************)
FirstProgram(random) ==
  [avoid |-> ikOptions.avoid, seedCost |-> ikOptions.seedCost, random |-> random]

SolveGlobalIk ==
  /\ ikStep = "idle" /\ ikCalls < MaxCalls
  /\ ikCalls' = ikCalls + 1
  /\ known' = TRUE
  /\ cachedPoses' = IF known THEN cachedPoses ELSE AddFrames(ikCache)
  /\ chosen' \in IF ikOptions.twoSteps THEN CalcClosestSeed2Steps(cachedPoses')
                 ELSE CalcClosestSeed1Step(cachedPoses')
  /\ seeds' = Tail(chosen')
  /\ randoms' = ikOptions.numRandom
  /\ drawn' = ikOptions.numRandom * SamplesPerSeed
  /\ program' = FirstProgram(FALSE)
  /\ ikStep' = "solve"
  /\ ikResult' = NoResult /\ tried' = <<>> /\ verdict' = NoResult
  /\ UNCHANGED <<ikOptions, ikCache, offset>>

Result(r) ==
  /\ ikResult' = r /\ ikStep' = "judge"
  /\ UNCHANGED program
Again(p) ==
  /\ program' = p
  /\ UNCHANGED <<ikStep, ikResult>>
SolveUnchanged == UNCHANGED <<ikOptions, ikCache, known, cachedPoses, offset,
                              seeds, chosen, drawn, randoms, tried, verdict, ikCalls>>

\* The solver fails and names no constraint: once more without the seed cost.
Numerical ==
  /\ ikStep = "solve"
  /\ IF program.seedCost
       THEN Again([program EXCEPT !.seedCost = FALSE])
       ELSE Result([success |-> FALSE, collision |-> "unset",
                    failure |-> "numerical"])
  /\ SolveUnchanged

\* What the best effort was close to.
EvalRobotLimits(issues) ==
  CASE issues = {} -> "general"
    [] issues = {"jacobian"} -> "near singularity"
    [] issues = {"limit"} -> "near joint limits"
    [] OTHER -> "near both"

\* It fails and names constraints: the limits of the robot are looked at, but
\* if the distance constraint is among those named that is the failure.
Infeasible ==
  /\ ikStep = "solve"
  /\ \E failure \in {EvalRobotLimits(issues) : issues \in Issues}
                    \cup IF program.avoid THEN {"optimization collision"} ELSE {} :
       Result([success |-> FALSE, collision |-> "unset", failure |-> failure])
  /\ SolveUnchanged

SolvedClear ==
  /\ ikStep = "solve"
  /\ Result([success |-> TRUE, collision |-> "none", failure |-> "none"])
  /\ SolveUnchanged

Resolves(c) ==
  ikOptions.resolve \/ (c = "self" /\ ikOptions.selfResolve)

\* Mutated: a collision in spite of the constraint still counts as solved.
SolvedCollidingKept(c) ==
  /\ ikStep = "solve"
  /\ IF ~program.avoid /\ Resolves(c) /\ ~(ikOptions.ignoreArms /\ c = "arms")
       THEN Again([program EXCEPT !.avoid = TRUE, !.seedCost = ikOptions.seedCost])
       ELSE Result([success |-> TRUE, collision |-> c, failure |-> "collision"])
  /\ SolveUnchanged

\* The solution collides.  In a program that was to avoid that it is no
\* solution; otherwise the program is solved again, from this solution and
\* with the constraint, where the options say so.
SolvedColliding(c) ==
  /\ ikStep = "solve"
  /\ IF program.avoid
       THEN Result([success |-> FALSE, collision |-> c, failure |-> "numerical"])
       ELSE IF Resolves(c) /\ ~(ikOptions.ignoreArms /\ c = "arms")
         THEN Again([program EXCEPT !.avoid = TRUE])
         ELSE Result([success |-> TRUE, collision |-> c,
                      failure |-> "collision"])
  /\ SolveUnchanged

JudgeUnchanged == UNCHANGED <<ikOptions, offset, chosen, ikResult, ikCalls>>
Returned(r) ==
  /\ verdict' = r /\ ikStep' = "idle"
  /\ seeds' = <<>> /\ drawn' = 0 /\ randoms' = 0
  /\ program' = NoProgram

\* A valid solution, or a collision that another seed would hardly avoid.
Accept ==
  /\ ikStep = "judge" /\ Decisive(ikResult)
  /\ tried' = Append(tried, ikResult)
  /\ Returned(ikResult)
  /\ IF program.random /\ ikOptions.insert
       THEN \E c \in IkConfs : AddCacheConfig(c)
       ELSE UNCHANGED <<ikCache, known, cachedPoses>>
  /\ JudgeUnchanged

NextSeed ==
  /\ ikStep = "judge" /\ ~Decisive(ikResult) /\ seeds # <<>>
  /\ tried' = Append(tried, ikResult)
  /\ seeds' = Tail(seeds)
  /\ program' = FirstProgram(FALSE)
  /\ ikStep' = "solve"
  /\ UNCHANGED <<ikCache, known, cachedPoses, drawn, randoms, verdict>>
  /\ JudgeUnchanged

\* A sample is used if it satisfies the constraints.
RandomSeed ==
  /\ ikStep = "judge" /\ ~Decisive(ikResult) /\ seeds = <<>>
  /\ randoms > 0
  /\ \E left \in 0 .. drawn - 1 : drawn' = left
  /\ tried' = Append(tried, ikResult)
  /\ randoms' = randoms - 1
  /\ program' = FirstProgram(TRUE)
  /\ ikStep' = "solve"
  /\ UNCHANGED <<ikCache, known, cachedPoses, seeds, verdict>>
  /\ JudgeUnchanged

FirstFailure(all) == all[1].failure

\* The last result is returned with the failure of the first seed.  No random
\* seed is left, or no sample that satisfies the constraints.
GiveUpIk ==
  /\ ikStep = "judge" /\ ~Decisive(ikResult) /\ seeds = <<>>
  /\ tried' = Append(tried, ikResult)
  /\ Returned([ikResult EXCEPT !.failure = FirstFailure(tried')])
  /\ UNCHANGED <<ikCache, known, cachedPoses>>
  /\ JudgeUnchanged

IkNext ==
  \/ SolveGlobalIk \/ Numerical \/ Infeasible \/ SolvedClear
  \/ \E c \in Collisions : SolvedColliding(c)
  \/ Accept \/ NextSeed \/ RandomSeed \/ GiveUpIk
  \/ \E o \in FrameOffsets : MoveFrame(o)

IkSpec == IkInit /\ [][IkNext]_ikVars

-----------------------------------------------------------------------------
\* As long as the frame is where it was when its poses were cached, no
\* configuration left out of the seeds brings it closer to the target than
\* one that is tried, the cache having grown in between or not, and without a
\* limit none is left out (ik_cache.cc:64, 130, 212).
Current == \A i \in DOMAIN cachedPoses : cachedPoses[i].offset = offset
SeedDistance(c) ==
  Reach[offset][c] + IF ikOptions.twoSteps THEN 0 ELSE Apart[c]
SeedsAreClosest ==
  ikStep = "solve" /\ tried = <<>> /\ Current =>
    LET all == {Candidates[i] : i \in DOMAIN Candidates}
        kept == {chosen[i] : i \in DOMAIN chosen}
    IN /\ \A c \in all \ kept, d \in kept : SeedDistance(d) <= SeedDistance(c)
       /\ ikOptions.numSeeds < 0 => kept = all

\* Whatever the solver does in the programs a seed is given to, the verdict is
\* justified: a caller who asked for collision avoidance, or for solving again
\* with it and not for ignoring collisions across arms, is never told of a
\* success that collides; a success that collides comes with a failure; and
\* without a decisive result every seed was tried and failed or collided with
\* itself only, which the demands at ik_planner.cc:498 rely on.
VerdictJustified ==
  verdict # NoResult =>
    /\ verdict.success /\ (ikOptions.avoid
                            \/ (ikOptions.resolve /\ ~ikOptions.ignoreArms)) =>
         verdict.collision = "none"
    /\ verdict.failure = "none" <=> Valid(verdict)
    /\ Decisive(verdict) \/ Len(tried) >= Len(chosen)
    /\ \A i \in 1 .. Len(tried) - 1 :
         ~tried[i].success \/ tried[i].collision = "self"
=============================================================================
