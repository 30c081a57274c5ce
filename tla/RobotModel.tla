------------------------------- MODULE RobotModel -------------------------------
(***************************************************************************)
(* RobotModel and HolonomicMapping: what is derived from a plant when it   *)
(* is loaded, and the conversions of configurations that rest on it.       *)
(*                                                                         *)
(* From the joints of the plant the constructor finds the kinematic chains *)
(* (the arms), the groups of bodies that move as one, and the reduced      *)
(* coordinates, which leave out the joints that mimic others; the hash of  *)
(* the kinematics marks the bodies that have collision geometry at or      *)
(* below them.  All of these go through the plant once, in index order.    *)
(*                                                                         *)
(* Model 1 is the world and 2 the default instance; body 1 is the world.   *)
(* A moving joint has one position.  One behaviour is one model and a few  *)
(* calls on it.                                                            *)
(***************************************************************************)
EXTENDS Integers, Sequences, FiniteSets
SetOps == INSTANCE FiniteSetsExt

CONSTANTS
  Plants,         \* the plants enumerated: [models, joints, collision, couplers, ...]
  Values,         \* values of a position
  ModelCalls      \* bound on the calls on a configuration

VARIABLES
  plant,          \* plant()
  building,       \* "chains", "groups", "mapping", "kinematics", "ready", "thrown"
  nextIndex,      \* the model, joint or body of the next step
  env, chains,    \* env_indices, open_chains
  groups,         \* mobile_body_groups_
  masks,          \* instance_dof_masks_: the positions of each movable model
  minimal,        \* minimal_to_full_
  marked,         \* bodies with has_collision_downstream
  conf,           \* a reduced configuration
  lastCall,       \* the last conversion: [op, from, active, to]
  modelCalls

modelVars == <<plant, building, nextIndex, env, chains, groups, masks, minimal,
               marked, conf, lastCall, modelCalls>>

-----------------------------------------------------------------------------
(***************************************************************************)
(* The plant: models is a sequence of names, joints one of [parent, child, *)
(* weld, position], where position is 0 for a weld; modelOf gives the      *)
(* model of each body, collision the bodies with collision geometry,       *)
(* couplers is a sequence of [mimic, of, ratio, offset] over positions.    *)
(***************************************************************************)
World == 1
Moving(p) == {i \in DOMAIN p.joints : ~p.joints[i].weld}
PositionsIn(p, m) ==
  {p.joints[i].position : i \in {i \in Moving(p) : p.modelOf[p.joints[i].child] = m}}

\* What Drake guarantees of a plant: every body but the world is the child of
\* one joint, no bodies hang only from one another, and the positions are
\* numbered model by model.  There is a joint, and none of the world and the
\* default instance moves.
IsPlant(p) ==
  LET bodies == 1..Len(p.modelOf)
      positions == {p.joints[i].position : i \in Moving(p)}
  IN /\ DOMAIN p.models = 1..Len(p.models) /\ Len(p.models) \in Nat
     /\ p.modelOf \in Seq(DOMAIN p.models)
     /\ p.collision \subseteq bodies
     /\ p.couplers \in
          Seq([mimic : positions, of : positions, ratio : Int, offset : Int])
     /\ p.joints # <<>>
     /\ p.joints \in Seq([parent : bodies, child : bodies \ {World},
                          weld : BOOLEAN, position : 0..Len(p.joints)])
     /\ \A b \in bodies \ {World} : \E i \in DOMAIN p.joints :
          \A k \in DOMAIN p.joints : p.joints[k].child = b <=> k = i
     /\ \A S \in (SUBSET (bodies \ {World})) \ {{}} : \E i \in DOMAIN p.joints :
          p.joints[i].child \in S /\ p.joints[i].parent \notin S
     /\ \A i, k \in Moving(p) :
          p.joints[i].position = p.joints[k].position => i = k
     /\ \A i \in Moving(p) :
          p.joints[i].position # 0 /\ p.modelOf[p.joints[i].child] > 2
     /\ \A m \in DOMAIN p.models : \E a, b \in 0..(Len(p.joints) + 1) :
          PositionsIn(p, m) = a..b

ASSUME PlantsAssumption == \A p \in Plants : IsPlant(p)
ASSUME ValuesAssumption == Values \subseteq Int

PlantBodies == DOMAIN plant.modelOf
PositionsOf(m) == PositionsIn(plant, m)

NoCall == [op |-> "none", from |-> <<>>, active |-> {}, to |-> <<>>]

ModelInit ==
  /\ plant \in Plants
  /\ building = "chains" /\ nextIndex = 3
  /\ env = {1, 2} /\ chains = <<>> /\ groups = <<>>
  /\ masks = <<>> /\ minimal = <<>> /\ marked = {}
  /\ conf = <<>> /\ lastCall = NoCall /\ modelCalls = 0

-----------------------------------------------------------------------------
(***************************************************************************)
(* group_kinematic_chains: a model whose parent belongs to the environment *)
(* starts a chain, or is environment itself if it has no positions; one    *)
(* whose parent is in a chain extends it; the parent must have been seen.  *)
(***************************************************************************)
JointsToOthers(m) ==
  {i \in DOMAIN plant.joints : /\ plant.modelOf[plant.joints[i].child] = m
                               /\ plant.modelOf[plant.joints[i].parent] # m}
ParentModel(m) == plant.modelOf[plant.joints[SetOps!Min(JointsToOthers(m))].parent]
ArmOf(m) == {k \in DOMAIN chains : \E i \in DOMAIN chains[k] : chains[k][i] = m}

GroupModel ==
  /\ building = "chains" /\ nextIndex \in DOMAIN plant.models
  /\ LET m == nextIndex
         hangs == JointsToOthers(m) # {}
         holders == ArmOf(ParentModel(m))
     IN \/ /\ hangs /\ ParentModel(m) \in env
           /\ IF PositionsOf(m) = {}
              THEN env' = env \cup {m} /\ UNCHANGED chains
              ELSE chains' = Append(chains, <<m>>) /\ UNCHANGED env
           /\ UNCHANGED building
        \/ /\ hangs /\ ParentModel(m) \notin env /\ holders # {}
           /\ chains' = [chains EXCEPT ![SetOps!Min(holders)] = Append(@, m)]
           /\ UNCHANGED <<env, building>>
        \/ /\ ~(hangs /\ (ParentModel(m) \in env \/ holders # {}))
           /\ building' = "thrown"
           /\ UNCHANGED <<env, chains>>
  /\ nextIndex' = nextIndex + 1
  /\ UNCHANGED <<plant, groups, masks, minimal, marked, conf, lastCall,
                 modelCalls>>

ChainsFound ==
  /\ building = "chains" /\ nextIndex \notin DOMAIN plant.models
  /\ building' = "groups" /\ nextIndex' = 1
  /\ UNCHANGED <<plant, env, chains, groups, masks, minimal, marked, conf,
                 lastCall, modelCalls>>

(***************************************************************************)
(* PartitionMobileBodies: one joint after the other.  A weld puts its two  *)
(* bodies into the first group that has one of them; another joint only    *)
(* sees to it that both are in a group.  Groups that have come to share a  *)
(* body are merged after every joint.                                      *)
(***************************************************************************)
WithBody(gs, b) == IF \E k \in DOMAIN gs : b \in gs[k] THEN gs ELSE Append(gs, {b})

Welded(gs, j) ==
  LET holders == {k \in DOMAIN gs : gs[k] \cap {j.parent, j.child} # {}}
  IN IF holders = {} THEN Append(gs, {j.parent, j.child})
     ELSE [gs EXCEPT ![SetOps!Min(holders)] = @ \cup {j.parent, j.child}]

\* Group i takes over every later group that shares a body with it.
MergeInto(gs, i) ==
  LET merged[k \in 0..Len(gs)] ==
        IF k <= i THEN SubSeq(gs, 1, k)
        ELSE LET soFar == merged[k - 1]
             IN IF soFar[i] \cap gs[k] # {}
                THEN [soFar EXCEPT ![i] = @ \cup gs[k]] ELSE Append(soFar, gs[k])
  IN merged[Len(gs)]
MergeGroups(gs) ==
  LET merged[i \in 0..Len(gs)] ==
        IF i = 0 THEN gs
        ELSE LET soFar == merged[i - 1]
             IN IF i <= Len(soFar) THEN MergeInto(soFar, i) ELSE soFar
  IN merged[Len(gs)]

\* Mutated: the groups that a weld brings together are not merged.
AddJointUnmerged ==
  /\ building = "groups" /\ nextIndex \in DOMAIN plant.joints
  /\ LET j == plant.joints[nextIndex]
     IN groups' = IF j.weld THEN Welded(groups, j)
                  ELSE WithBody(WithBody(groups, j.parent), j.child)
  /\ nextIndex' = nextIndex + 1
  /\ UNCHANGED <<plant, building, env, chains, masks, minimal, marked, conf,
                 lastCall, modelCalls>>

AddJoint ==
  /\ building = "groups" /\ nextIndex \in DOMAIN plant.joints
  /\ LET j == plant.joints[nextIndex]
     IN groups' = MergeGroups(IF j.weld THEN Welded(groups, j)
                              ELSE WithBody(WithBody(groups, j.parent), j.child))
  /\ nextIndex' = nextIndex + 1
  /\ UNCHANGED <<plant, building, env, chains, masks, minimal, marked, conf,
                 lastCall, modelCalls>>

-----------------------------------------------------------------------------
(***************************************************************************)
(* HolonomicMapping.                                                       *)
(***************************************************************************)
Mimicking == {plant.couplers[i].mimic : i \in DOMAIN plant.couplers}
Coupler(p) ==
  plant.couplers[CHOOSE i \in DOMAIN plant.couplers : plant.couplers[i].mimic = p]
IsIdentity == plant.couplers = <<>>
MovableModels == DOMAIN masks
Dofs == UNION {masks[m] : m \in MovableModels}
\* full_to_minimal_.
ReducedIndex(p) == CHOOSE i \in DOMAIN minimal : minimal[i] = p

\* The loops that number the positions that mimic no other, lowest first.
Ascending(S) ==
  CHOOSE s \in [1..Cardinality(S) -> S] : \A i, k \in DOMAIN s : i < k => s[i] < s[k]

\* A position may mimic only one other, and a model must keep a position.
FindMapping ==
  /\ building = "groups" /\ nextIndex \notin DOMAIN plant.joints
  /\ LET movable == {m \in DOMAIN plant.models : PositionsOf(m) # {}}
     IN /\ masks' = [m \in movable |-> PositionsOf(m)]
        /\ minimal' =
             Ascending((UNION {PositionsOf(m) : m \in movable}) \ Mimicking)
        /\ building' = IF \/ Cardinality(Mimicking) # Len(plant.couplers)
                          \/ /\ ~IsIdentity
                             /\ \E m \in movable : PositionsOf(m) \subseteq Mimicking
                       THEN "thrown" ELSE "kinematics"
  /\ nextIndex' = 1
  /\ marked' = plant.collision \cup {World}
  /\ UNCHANGED <<plant, env, chains, groups, conf, lastCall, modelCalls>>

Reduce(full) == [i \in DOMAIN minimal |-> full[minimal[i]]]

\* The couplers of the positions in `mimicking` are applied by increasing
\* position; the first position of `full` is the one after `before`.
FillIn(full, mimicking, before) ==
  LET filled[k \in 0..Len(plant.joints)] ==
        IF k = 0 THEN full
        ELSE LET soFar == filled[k - 1]
             IN IF k \notin mimicking THEN soFar
                ELSE [soFar EXCEPT ![k - before] =
                        Coupler(k).ratio * soFar[Coupler(k).of - before]
                          + Coupler(k).offset]
  IN filled[Len(plant.joints)]

\* A mimicking position is zero until it is filled in.
Lift(reduced) ==
  FillIn([p \in Dofs |-> IF p \in Mimicking THEN 0 ELSE reduced[ReducedIndex(p)]],
         Mimicking, 0)

Start(m) == SetOps!Min(masks[m])
KeptOf(m) == Ascending(masks[m] \ Mimicking)
ReduceInstance(m, q) == [i \in DOMAIN KeptOf(m) |-> q[KeptOf(m)[i] - Start(m) + 1]]

\* Of the couplers, those whose mimicked position is in the model.
LiftInstance(m, q) ==
  IF masks[m] \cap Mimicking = {} THEN q ELSE
  FillIn([k \in 1..Cardinality(masks[m]) |->
            LET p == Start(m) + k - 1
            IN IF p \in Mimicking THEN 0
               ELSE q[CHOOSE i \in DOMAIN KeptOf(m) : KeptOf(m)[i] = p]],
         {p \in Mimicking : Coupler(p).of \in masks[m]}, Start(m) - 1)

-----------------------------------------------------------------------------
(***************************************************************************)
(* HashKinematics: body after body, a body with collision geometry at or   *)
(* below it marks its parents up to the first that is marked.              *)
(***************************************************************************)
ParentBody(b) ==
  plant.joints[CHOOSE i \in DOMAIN plant.joints : plant.joints[i].child = b].parent

\* From b up to the world.
Above(b) ==
  LET above[k \in 0..Len(plant.modelOf)] ==
        IF k = 0 THEN b
        ELSE IF above[k - 1] = World THEN World ELSE ParentBody(above[k - 1])
  IN above
UpToMarked(b) ==
  LET above == Above(b)
      stop == SetOps!Min({k \in DOMAIN above \ {0} : above[k] \in marked})
  IN {above[k] : k \in 1..(stop - 1)}

Propagate ==
  /\ building = "kinematics" /\ nextIndex \in PlantBodies
  /\ marked' = IF nextIndex \in marked \ {World} THEN marked \cup UpToMarked(nextIndex)
               ELSE marked
  /\ nextIndex' = nextIndex + 1
  /\ UNCHANGED <<plant, building, env, chains, groups, masks, minimal, conf,
                 lastCall, modelCalls>>

\* The model is built; some configuration is given.
ModelReady ==
  /\ building = "kinematics" /\ nextIndex \notin PlantBodies
  /\ building' = "ready"
  /\ conf' \in [DOMAIN minimal -> Values]
  /\ UNCHANGED <<plant, nextIndex, env, chains, groups, masks, minimal, marked,
                 lastCall, modelCalls>>

-----------------------------------------------------------------------------
(***************************************************************************)
(* Calls on a configuration.                                               *)
(***************************************************************************)
ModelOfPosition(p) == CHOOSE m \in MovableModels : p \in masks[m]
FromModel(m, full) == [k \in 1..Cardinality(masks[m]) |-> full[Start(m) + k - 1]]

CanCall == building = "ready" /\ modelCalls < ModelCalls
ModelCall(op, active, to) ==
  /\ modelCalls' = modelCalls + 1
  /\ lastCall' = [op |-> op, from |-> conf, active |-> active, to |-> to]
  /\ UNCHANGED <<plant, building, nextIndex, env, chains, groups, masks,
                 minimal, marked>>

LiftConf == CanCall /\ ModelCall("lift", {}, Lift(conf)) /\ UNCHANGED conf

\* The positions of the models in `idle` are taken from the reference.
Overlaid(idle, q, ref) ==
  LET lifted == Lift(q)
      refLifted == Lift(ref)
  IN Reduce([p \in Dofs |-> IF ModelOfPosition(p) \in idle THEN refLifted[p]
                            ELSE lifted[p]])

\* Mutated: positions are looked up without lifting.
SetIdleModelsUnlifted(active, ref) ==
  /\ CanCall
  /\ conf' = [i \in DOMAIN conf |-> IF ModelOfPosition(i) \in MovableModels \ active
                                     THEN ref[i] ELSE conf[i]]
  /\ ModelCall("idle", MovableModels \ active, [ref |-> ref, conf |-> conf'])

SetIdleModelsConfigToRef(active, ref) ==
  /\ CanCall
  /\ conf' = Overlaid(MovableModels \ active, IF active = {} THEN ref ELSE conf, ref)
  /\ ModelCall("idle", MovableModels \ active, [ref |-> ref, conf |-> conf'])

\* An arm is idle unless a model of it is active.
SetIdleArmsConfigToRef(active, ref) ==
  LET idle == {m \in MovableModels : \A a \in active : ArmOf(a) \cap ArmOf(m) = {}}
  IN /\ CanCall /\ chains # <<>>
     /\ conf' = Overlaid(idle, conf, ref)
     /\ ModelCall("idle", idle, [ref |-> ref, conf |-> conf'])

\* ToSystemConf, ReduceSystemConf and back, LiftSystemConf and
\* ToGeneralizedPosition, which refuses a system configuration without one of
\* the models.
ThroughSystemConf(given) ==
  LET system == [m \in given |-> FromModel(m, Lift(conf))]
      reduced == [m \in given |-> ReduceInstance(m, system[m])]
      lifted == [m \in given |-> LiftInstance(m, reduced[m])]
  IN /\ CanCall
     /\ IF MovableModels \subseteq given
        THEN ModelCall("system", given,
                       [p \in Dofs |-> LET m == ModelOfPosition(p)
                                       IN lifted[m][p - Start(m) + 1]])
        ELSE ModelCall("partial", given, <<>>)
     /\ UNCHANGED conf

ModelNext ==
  \/ GroupModel \/ ChainsFound \/ AddJoint \/ FindMapping \/ Propagate \/ ModelReady
  \/ LiftConf
  \/ \E active \in SUBSET MovableModels, ref \in [DOMAIN minimal -> Values] :
       \/ SetIdleModelsConfigToRef(active, ref)
       \/ SetIdleArmsConfigToRef(active, ref)
  \/ \E given \in SUBSET MovableModels : ThroughSystemConf(given)

ModelSpec == ModelInit /\ [][ModelNext]_modelVars

-----------------------------------------------------------------------------
(***************************************************************************)
(* Properties.                                                             *)
(***************************************************************************)
\* Bodies that welds connect: the sets that no weld leads out of, and the least
\* of them around a body.
WeldsStayIn(S) ==
  \A i \in DOMAIN plant.joints :
    plant.joints[i].weld => (plant.joints[i].parent \in S <=> plant.joints[i].child \in S)
WeldReach(b, closed) == {c \in PlantBodies : \A S \in closed : b \in S => c \in S}

\* What the passes over the plant leave, in whatever order its joints come: two
\* bodies are in one mobile group exactly if welds connect them; every movable
\* model is in one arm, together with the models it hangs from; and a body is
\* marked for the hash exactly if it or a body below it has collision geometry.
PassesFindStructure ==
  building = "ready" =>
    /\ LET closed == {S \in SUBSET PlantBodies : WeldsStayIn(S)}
       IN {groups[k] : k \in DOMAIN groups} =
            {WeldReach(b, closed) : b \in PlantBodies}
    /\ \A a, b \in DOMAIN groups : a # b => groups[a] \cap groups[b] = {}
    /\ \A m \in MovableModels : /\ Cardinality(ArmOf(m)) = 1
                               /\ \/ ParentModel(m) \in env
                                  \/ ArmOf(ParentModel(m)) = ArmOf(m)
    /\ marked = {World} \cup {b \in PlantBodies \ {World} :
                              \E c \in plant.collision \ {World} :
                                \E k \in DOMAIN Above(c) : Above(c)[k] = b}

\* A coupler that reads a mimicking position of a higher index reads a zero.
Ordered(p) == Coupler(p).of \in Mimicking => Coupler(p).of < p
WithinModels == \A p \in Mimicking : ModelOfPosition(Coupler(p).of) = ModelOfPosition(p)

\* What the conversions preserve: reducing undoes lifting, and a lifted
\* configuration obeys the couplers; setting idle models to the reference takes
\* all of their positions and none of the others; and the way through system
\* configurations, model by model, ends where lifting the whole does, as long as
\* no coupler crosses models.
ConfigurationsCarryOver ==
  LET c == lastCall
  IN /\ c.op = "lift" =>
          /\ Reduce(c.to) = c.from
          /\ \A p \in Mimicking :
               Ordered(p) =>
                 c.to[p] = Coupler(p).ratio * c.to[Coupler(p).of] + Coupler(p).offset
     /\ c.op = "idle" =>
          \A i \in DOMAIN minimal :
            c.to.conf[i] = IF ModelOfPosition(minimal[i]) \in c.active
                           THEN c.to.ref[i] ELSE c.from[i]
     /\ (c.op = "system" /\ WithinModels) => c.to = Lift(c.from)

=============================================================================
