---------------------------- MODULE ConstraintChecks ----------------------------
(***************************************************************************)
(* RobotConstraints: what it means for a configuration to satisfy the      *)
(* constraints, and the three loops that ask it of many configurations on  *)
(* several threads: GenerateSamples, CheckSatisfied of a vector and        *)
(* CalcPenaltyVec.  OpenMP gives every thread a contiguous share of the    *)
(* indices; the threads share the list of samples, of which only the       *)
(* appends are locked, and the verdict, which is not locked at all.        *)
(*                                                                         *)
(* A constraint has one output, compared with a lower and an upper bound   *)
(* in whole units; the output of an angle constraint is the angle itself   *)
(* (the code compares cosines, which decrease), in tenths of a radian.     *)
(* One behaviour is one call.                                              *)
(***************************************************************************)
EXTENDS Integers, Sequences, FiniteSets
Ext == INSTANCE SequencesExt

CONSTANTS
  CheckedConfs,          \* configurations (reduced)
  Adapter,        \* [position, angle, joint]: sequences of [name, lower, upper]
  Output,         \* Output[q][name]: output of the constraint at q
  Contacts,       \* Contacts[q]: sequence of [robot, other, gap]: pairs of bodies
  Bodies, Arm,    \* Arm[b]: index of the arm of a body, 0 if it has none
  Groups,         \* Groups[name]: the bodies of a group or the body of that name
  CheckerAdapter, \* [groups, pairs, paddings]
  Influence,      \* x0 of the penalty functions
  Tolerance,      \* of CheckSatisfied
  Calls           \* the calls enumerated, see InitCall

ASSUME ConstraintsAssumption ==
  /\ Influence \in Nat \ {0} /\ Tolerance \in Nat
  /\ {Adapter.position, Adapter.angle, Adapter.joint}
       \subseteq Seq([name : STRING, lower : Int, upper : Int])
  /\ \A i \in DOMAIN Adapter.angle :
       0 <= Adapter.angle[i].lower /\ Adapter.angle[i].upper <= 10
  /\ \A q \in CheckedConfs :
       Contacts[q] \in Seq([robot : Bodies, other : Bodies, gap : Int])
  /\ CheckerAdapter.paddings
       \in Seq([first : STRING, second : STRING, distance : Int])

\* A call may have no configurations to look at, and may ask for no samples;
\* an edge has an end and is walked by one thread.
ASSUME CallsAssumption ==
  \A call \in Calls :
    /\ call.confs \in Seq(CheckedConfs) /\ call.threads \in Nat \ {0}
    /\ call.op = "samples" => call.desired \in Nat
    /\ call.op = "edge" => call.confs # <<>> /\ call.threads = 1

VARIABLES
  check,           \* [op, confs, ...]: operation, arguments and options
  share,          \* share[t]: indices thread t has still to take
  phase,          \* phase[t]: "next", "judge", "push", "guess", "project"
  growing,        \* the thread that is inside push_back (holding the lock), or 0
  pending,        \* pending[t]: the configuration thread t has found
  kept,           \* valid_samples, as [from, conf]
  fate,           \* history: fate[i]: what became of index i
  torn,           \* history: a size was read while the list was growing
  allValid,       \* `valid` of the vector operations
  penalties,      \* of CalcPenaltyVec
  failed,         \* failed_constraint_strings
  picked,         \* of the calls that look at one configuration after the other
  returned        \* the call has returned

checkVars == <<check, share, phase, growing, pending, kept, fate, torn,
               allValid, penalties, failed, picked, returned>>

-----------------------------------------------------------------------------
(***************************************************************************)
(* Constraints of one configuration.                                       *)
(***************************************************************************)
\* The joint boxes come last and are not in the reduced list.
ReducedConstraints == Adapter.position \o Adapter.angle
NonCollision == ReducedConstraints \o Adapter.joint
\* Every constraint has an output at every configuration.
ASSUME OutputsAssumption ==
  \A q \in CheckedConfs : \A i \in DOMAIN NonCollision :
    Output[q][NonCollision[i].name] \in Int
IsAngle(i) == Len(Adapter.position) < i /\ i <= Len(ReducedConstraints)

\* SetFiltering without a second group filters the first from all bodies.
Filtered(a, b) ==
  \/ \E i \in DOMAIN CheckerAdapter.groups :
       {a, b} \cap Groups[CheckerAdapter.groups[i]] # {}
  \/ \E i \in DOMAIN CheckerAdapter.pairs :
       LET p == CheckerAdapter.pairs[i]
       IN \/ a \in Groups[p.first] /\ b \in Groups[p.second]
          \/ b \in Groups[p.first] /\ a \in Groups[p.second]

\* The last padding of the list that names the two bodies.
Padding(a, b) ==
  LET names == {i \in DOMAIN CheckerAdapter.paddings :
                  LET p == CheckerAdapter.paddings[i]
                  IN \/ a \in Groups[p.first] /\ b \in Groups[p.second]
                     \/ b \in Groups[p.first] /\ a \in Groups[p.second]}
  IN IF names = {} THEN 0
     ELSE CheckerAdapter.paddings[CHOOSE i \in names : \A j \in names : j <= i].distance

Distance(contact) == contact.gap - Padding(contact.robot, contact.other)
\* The entries of s at the indices that are wanted, in order.
Select(s, wanted) ==
  LET some[i \in 0..Len(s)] ==
        IF i = 0 THEN <<>>
        ELSE IF i \in wanted THEN Append(some[i - 1], s[i]) ELSE some[i - 1]
  IN some[Len(s)]

Counts(contact, within) ==
  ~Filtered(contact.robot, contact.other) /\ Distance(contact) < within
Clearance(q, within) ==
  Select(Contacts[q], {i \in DOMAIN Contacts[q] : Counts(Contacts[q][i], within)})
CollisionFree(q) == Clearance(q, 0) = <<>>

Admits(q, c, tolerance) ==
  c.lower - tolerance <= Output[q][c.name] /\ Output[q][c.name] <= c.upper + tolerance

\* The strings of the violated constraints, in the order they are checked.
Violated(q) ==
  Select([i \in DOMAIN NonCollision |-> NonCollision[i].name],
         {i \in DOMAIN NonCollision : ~Admits(q, NonCollision[i], Tolerance)})
    \o (IF CollisionFree(q) THEN <<>> ELSE <<"collision">>)
Satisfied(q) == Violated(q) = <<>>

(***************************************************************************)
(* Penalties.  The exponential is abstracted to a decreasing value that is *)
(* 0 beyond Influence.  The bounds given to the function of an angle       *)
(* constraint are angles, and it takes their arc cosines.                  *)
(***************************************************************************)
Hinge(x) == IF x > Influence THEN 0 ELSE Influence - x
ArcCos == <<16, 15, 14, 13, 12, 10, 9, 8, 6, 5, 0>>  \* of 0.0, 0.1, ... 1.0
BoxPenalty(c, y) == Hinge(y - c.lower) + Hinge(c.upper - y)
AnglePenalty(c, y) ==
  Hinge(y - ArcCos[c.upper + 1]) + Hinge(ArcCos[c.lower + 1] - y)

Total(s) == Ext!FoldLeft(LAMBDA sum, x : sum + x, 0, s)

PenaltyOf(q) ==
  Total([i \in DOMAIN NonCollision |->
           LET c == NonCollision[i]
           IN IF IsAngle(i) THEN AnglePenalty(c, Output[q][c.name])
              ELSE BoxPenalty(c, Output[q][c.name])])
  + LET near == Clearance(q, Influence)
    IN Total([i \in DOMAIN near |-> Hinge(Distance(near[i]))])
\* CalcPenalty judges without the tolerance.
Strict(q) ==
  /\ \A i \in DOMAIN NonCollision : Admits(q, NonCollision[i], 0)
  /\ LET near == Clearance(q, Influence)
     IN \A i \in DOMAIN near : Distance(near[i]) >= 0

-----------------------------------------------------------------------------
(***************************************************************************)
(* One call.  op "samples": [confs, desired, truncate, projection, invalid,*)
(* threads]; "vector": [confs, parallel, collect, threads]; "penalties":   *)
(* [confs, threads]; "edge": [confs], from q to q_valid in steps; and      *)
(* "classify": [confs], of one configuration.                              *)
(***************************************************************************)
Indices == DOMAIN check.confs
\* A vector is gone through alone when failures are collected.
Parallel == check.op = "vector" => check.parallel /\ ~check.collect
Threads == 1..IF Parallel THEN check.threads ELSE 1
None == 0

\* The share of a thread of n indices: static scheduling of `omp parallel for`.
ShareOf(t, n, threads) ==
  LET each == n \div threads
      rest == n % threads
      before == (t - 1) * each + (IF t - 1 < rest THEN t - 1 ELSE rest)
      size == each + (IF t <= rest THEN 1 ELSE 0)
  IN [i \in 1..size |-> before + i]

ChecksInit ==
  /\ check \in Calls
  /\ share = [t \in Threads |-> ShareOf(t, Len(check.confs), Cardinality(Threads))]
  /\ phase = [t \in Threads |-> "next"]
  /\ growing = None
  /\ pending = [t \in Threads |-> check.confs[1]]
  /\ kept = <<>> /\ fate = [i \in DOMAIN check.confs |-> "open"] /\ torn = FALSE
  /\ allValid = TRUE
  /\ penalties = [i \in DOMAIN check.confs |-> 0]
  /\ failed = <<>> /\ picked = None
  /\ returned = FALSE

Reaches(t, where) == ~returned /\ t \in Threads /\ phase[t] = where
Turn(t) == Head(share[t])
Conf(t) == check.confs[Turn(t)]
Goto(t, where) == phase' = [phase EXCEPT ![t] = where]
\* On to the next index, with i's fate recorded.
NextIndex(t, what) ==
  /\ share' = [share EXCEPT ![t] = Tail(@)]
  /\ fate' = [fate EXCEPT ![Turn(t)] = what]
  /\ Goto(t, "next")

(***************************************************************************)
(* GenerateSamples.  size() is read without the lock: while another thread *)
(* is inside push_back the value may be anything.                          *)
(***************************************************************************)
SizesSeen == IF growing = None THEN {Len(kept)} ELSE 0..Len(check.confs)

Peek(t) ==
  /\ check.op = "samples" /\ Reaches(t, "next") /\ share[t] # <<>>
  /\ torn' = (torn \/ growing # None)
  /\ \E size \in SizesSeen :
       IF size >= check.desired
       THEN NextIndex(t, "skipped")
       ELSE Goto(t, "judge") /\ UNCHANGED <<share, fate>>
  /\ UNCHANGED <<check, growing, pending, kept, allValid, penalties, failed,
                 picked, returned>>

Judge(t) ==
  /\ check.op = "samples" /\ Reaches(t, "judge")
  /\ pending' = [pending EXCEPT ![t] = Conf(t)]
  /\ \/ /\ Satisfied(Conf(t)) = ~check.invalid
        /\ Goto(t, "push") /\ UNCHANGED <<share, fate>>
     \/ /\ Satisfied(Conf(t)) # ~check.invalid /\ check.projection
        /\ Goto(t, "guess") /\ UNCHANGED <<share, fate>>
     \/ /\ Satisfied(Conf(t)) # ~check.invalid /\ ~check.projection
        /\ NextIndex(t, "dropped")
  /\ UNCHANGED <<check, growing, kept, torn, allValid, penalties, failed,
                 picked, returned>>

\* A configuration found so far is the guess of the projection.
Guess(t) ==
  /\ check.op = "samples" /\ Reaches(t, "guess")
  /\ torn' = (torn \/ growing # None)
  /\ \E size \in SizesSeen :
       IF size = 0
       THEN NextIndex(t, "dropped")
       ELSE Goto(t, "project") /\ UNCHANGED <<share, fate>>
  /\ UNCHANGED <<check, growing, pending, kept, allValid, penalties, failed,
                 picked, returned>>

\* Mutated: the answer of the projection is not checked again.
ProjectUnchecked(t) ==
  /\ check.op = "samples" /\ Reaches(t, "project")
  /\ \E q \in CheckedConfs : pending' = [pending EXCEPT ![t] = q]
  /\ Goto(t, "push")
  /\ UNCHANGED <<check, share, growing, kept, fate, torn, allValid, penalties,
                 failed, picked, returned>>

\* The solver may fail or end anywhere: the guess may be torn, and the context
\* of the thread is shared with other callers.  What it finds is checked again.
Project(t) ==
  /\ check.op = "samples" /\ Reaches(t, "project")
  /\ \/ NextIndex(t, "dropped") /\ UNCHANGED pending
     \/ \E q \in CheckedConfs :
          /\ Satisfied(q)
          /\ pending' = [pending EXCEPT ![t] = q]
          /\ Goto(t, "push") /\ UNCHANGED <<share, fate>>
  /\ UNCHANGED <<check, growing, kept, torn, allValid, penalties, failed,
                 picked, returned>>

\* push_back under the lock, in two steps for those who read without it.
Lock(t) ==
  /\ check.op = "samples" /\ Reaches(t, "push") /\ growing = None
  /\ growing' = t
  /\ UNCHANGED <<check, share, phase, pending, kept, fate, torn, allValid,
                 penalties, failed, picked, returned>>
Push(t) ==
  /\ check.op = "samples" /\ Reaches(t, "push") /\ growing = t
  /\ kept' = Append(kept, [from |-> Turn(t), conf |-> pending[t]])
  /\ growing' = None
  /\ NextIndex(t, "kept")
  /\ UNCHANGED <<check, pending, torn, allValid, penalties, failed, picked,
                 returned>>

\* All threads are through; `truncate` keeps the first ones.
ReturnSamples ==
  /\ check.op = "samples" /\ ~returned
  /\ \A t \in Threads : share[t] = <<>>
  /\ kept' = IF check.truncate /\ Len(kept) > check.desired
             THEN SubSeq(kept, 1, check.desired) ELSE kept
  /\ returned' = TRUE
  /\ UNCHANGED <<check, share, phase, growing, pending, fate, torn, allValid,
                 penalties, failed, picked>>

-----------------------------------------------------------------------------
(***************************************************************************)
(* CheckSatisfied of a vector.  In parallel the threads share `valid`,     *)
(* which is read before a configuration is judged and written after it; a  *)
(* call that collects the failures goes through the vector alone and does  *)
(* not stop early.                                                         *)
(***************************************************************************)
PeekValid(t) ==
  /\ check.op = "vector" /\ Parallel /\ Reaches(t, "next") /\ share[t] # <<>>
  /\ IF allValid THEN Goto(t, "judge") /\ UNCHANGED <<share, fate>>
     ELSE NextIndex(t, "skipped")
  /\ UNCHANGED <<check, growing, pending, kept, torn, allValid, penalties,
                 failed, picked, returned>>

\* Mutated: the thread writes its own verdict.
LastVerdict(t) ==
  /\ check.op = "vector" /\ Parallel /\ Reaches(t, "judge")
  /\ allValid' = Satisfied(Conf(t))
  /\ NextIndex(t, "judged")
  /\ UNCHANGED <<check, growing, pending, kept, torn, penalties, failed, picked,
                 returned>>

JudgeOne(t) ==
  /\ check.op = "vector" /\ Parallel /\ Reaches(t, "judge")
  /\ allValid' = IF Satisfied(Conf(t)) THEN allValid ELSE FALSE
  /\ NextIndex(t, "judged")
  /\ UNCHANGED <<check, growing, pending, kept, torn, penalties, failed, picked,
                 returned>>

\* The rest of a sequential loop is left at the first failure, unless collecting.
JudgeInTurn(t) ==
  /\ check.op = "vector" /\ ~Parallel /\ Reaches(t, "next") /\ share[t] # <<>>
  /\ allValid' = (allValid /\ Satisfied(Conf(t)))
  /\ failed' = IF check.collect THEN failed \o Violated(Conf(t)) ELSE failed
  /\ IF ~allValid' /\ ~check.collect
     THEN /\ share' = [share EXCEPT ![t] = <<>>]
          /\ UNCHANGED <<phase, fate>>
     ELSE NextIndex(t, "judged")
  /\ UNCHANGED <<check, growing, pending, kept, torn, penalties, picked,
                 returned>>

(***************************************************************************)
(* CalcPenaltyVec: every thread fills in its own entries.                  *)
(***************************************************************************)
Penalise(t) ==
  /\ check.op = "penalties" /\ Reaches(t, "next") /\ share[t] # <<>>
  /\ penalties' = [penalties EXCEPT ![Turn(t)] = PenaltyOf(Conf(t))]
  /\ allValid' = IF Strict(Conf(t)) THEN allValid ELSE FALSE
  /\ NextIndex(t, "judged")
  /\ UNCHANGED <<check, growing, pending, kept, torn, failed, picked, returned>>

Verdict ==
  /\ check.op \in {"vector", "penalties"} /\ ~returned
  /\ \A t \in Threads : share[t] = <<>>
  /\ returned' = TRUE
  /\ UNCHANGED <<check, share, phase, growing, pending, kept, fate, torn,
                 allValid, penalties, failed, picked>>

-----------------------------------------------------------------------------
(***************************************************************************)
(* CalcClosestSatisfyingConfigurationOnEdge: from q in steps towards       *)
(* q_valid, which itself is never a candidate.  It throws when q_valid is  *)
(* not satisfying: no answer.                                              *)
(***************************************************************************)
WalkEdge(t) ==
  LET last == Len(check.confs)
  IN /\ check.op = "edge" /\ Reaches(t, "next") /\ share[t] # <<>>
     /\ IF ~Satisfied(check.confs[last]) \/ Turn(t) = last
        THEN returned' = TRUE /\ UNCHANGED <<share, phase, fate, picked>>
        ELSE IF Satisfied(Conf(t))
        THEN returned' = TRUE /\ picked' = Turn(t) /\ UNCHANGED <<share, phase,
                                                                  fate>>
        ELSE NextIndex(t, "dropped") /\ UNCHANGED <<picked, returned>>
     /\ UNCHANGED <<check, growing, pending, kept, torn, allValid, penalties,
                    failed>>

(***************************************************************************)
(* ClassifyCollisions: "mixed" as soon as two kinds have been met, and an  *)
(* exception for a pair without an arm that is met before.                 *)
(***************************************************************************)
KindOf(c) ==
  LET a == Arm[c.robot]
      b == Arm[c.other]
  IN IF a = 0 /\ b = 0 THEN "throws"
     ELSE IF a = 0 \/ b = 0 THEN "environment"
     ELSE IF a = b THEN "self" ELSE "arms"
ClassifyCollisions(contacts) ==
  Ext!FoldLeft(LAMBDA soFar, c : IF soFar \in {"mixed", "throws"} THEN soFar
                                 ELSE IF \/ KindOf(c) = "throws"
                                         \/ soFar \in {"none", KindOf(c)}
                                 THEN KindOf(c) ELSE "mixed",
               "none", contacts)

CalcAndClassify(t) ==
  /\ check.op = "classify" /\ Reaches(t, "next") /\ share[t] # <<>>
  /\ failed' = <<ClassifyCollisions(Clearance(Conf(t), 0))>>
  /\ returned' = TRUE
  /\ UNCHANGED <<check, share, phase, growing, pending, kept, fate, torn,
                 allValid, penalties, picked>>

ChecksNext ==
  \/ \E t \in Threads :
       \/ Peek(t) \/ Judge(t) \/ Guess(t) \/ Project(t) \/ Lock(t) \/ Push(t)
       \/ PeekValid(t) \/ JudgeOne(t) \/ JudgeInTurn(t) \/ Penalise(t)
       \/ WalkEdge(t) \/ CalcAndClassify(t)
  \/ ReturnSamples \/ Verdict

ChecksSpec == ChecksInit /\ [][ChecksNext]_checkVars

-----------------------------------------------------------------------------
(***************************************************************************)
(* Properties.                                                             *)
(***************************************************************************)

\* What GenerateSamples returns: every sample was judged as the options ask
\* (a projected one satisfies the constraints), an index gives at most one
\* sample and none of the accepted ones is lost by the threads' appends; with
\* truncation there are at most as many as desired; and when there are fewer,
\* every index was looked at, unless a size was read in the middle of an append.
SamplesAreSound ==
  (returned /\ check.op = "samples") =>
    /\ \A i \in DOMAIN kept :
         \/ Satisfied(kept[i].conf) = ~check.invalid
         \/ check.projection /\ Satisfied(kept[i].conf)
    /\ LET origins == {kept[i].from : i \in DOMAIN kept}
       IN /\ Cardinality(origins) = Len(kept)
          /\ \/ origins = {i \in Indices : fate[i] = "kept"}
             \/ check.truncate /\ Len(kept) = check.desired
    /\ check.truncate => Len(kept) <= check.desired
    /\ (Len(kept) < check.desired /\ ~torn) => \A i \in Indices : fate[i] # "skipped"

\* The strings of the first configurations, one after the other.
FirstViolated(confs) ==
  LET strings[n \in 0..Len(confs)] ==
        IF n = 0 THEN <<>> ELSE strings[n - 1] \o Violated(confs[n])
  IN strings

\* The verdict on many configurations is the conjunction of the verdicts on
\* each, however the threads share the work and wherever they stop early; the
\* collected failures are all of them; the penalties are in the order of the
\* configurations, and what is valid for CalcPenaltyVec is satisfying; and the
\* walk along an edge finds a satisfying configuration if it steps on one.
VerdictsAgree ==
  returned =>
    /\ check.op = "vector" =>
         /\ allValid = \A i \in Indices : Satisfied(check.confs[i])
         /\ check.collect =>
              failed = FirstViolated(check.confs)[Len(check.confs)]
    /\ check.op = "penalties" =>
         /\ \A i \in Indices : penalties[i] = PenaltyOf(check.confs[i])
         /\ allValid => \A i \in Indices : Satisfied(check.confs[i])
    /\ check.op = "edge" =>
         IF picked = None
         THEN Satisfied(check.confs[Len(check.confs)]) =>
                \A i \in 1..Len(check.confs) - 1 : ~Satisfied(check.confs[i])
         ELSE Satisfied(check.confs[picked])

=============================================================================
