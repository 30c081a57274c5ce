------------------------ MODULE AnchorSequenceProofs ------------------------
(***************************************************************************)
(* Proofs about AnchorSequence, for any arms, any anchors and any number   *)
(* of them, any seeds and planners.  A planner is asked only with ends     *)
(* whose validity it sees, so that a transit joins two sequences that are  *)
(* valid where it touches them; and a sequence, kept, shifted or given up  *)
(* half-way, resolves its anchors in their order.                          *)
(***************************************************************************)
EXTENDS AnchorSequence, TLAPS

Work == [side : Sides, seeds : Nat, seed : Nat, configs : Seq(Conf),
         fixed : SUBSET Arms, best : Seq(Conf), seedCost : BOOLEAN]
Phases == {"idle", "sequence", "resolve", "deconflict", "plan",
           "straight", "gcs", "sample", "combine", "answered"}

TypeInv ==
    /\ problem \in [start : Seq(Anchors), goal : Seq(Anchors),
                    partial : [Sides -> BOOLEAN], fast : BOOLEAN]
    /\ phase \in Phases
    /\ work \in Work
    /\ work.seed \in 1 .. work.seeds
    /\ found \in [Sides -> Seq(Conf)]
    /\ transit \in Seq(Piece) /\ Len(transit) <= 1
    /\ reply \in [status : {"none", "failed", "threw", "planned"},
                  pieces : Seq(Piece)]

(* The configurations of a side resolve its anchors one by one. *)
Resolves(confs, side) ==
    /\ Len(confs) <= Len(problem[side])
    /\ \A k \in 1 .. Len(confs) : \A a \in Names(problem[side][k]) :
         /\ confs[k].at[a].of = side
         /\ confs[k].at[a].number = k

(* What is known of the side that is being resolved: nothing before it is   *)
(* begun; while it goes on, an anchor is left, and a configuration that     *)
(* breaks a constraint has left arms to move.                               *)
WorkInv ==
    /\ Resolves(work.configs, work.side)
    /\ Resolves(work.best, work.side)
    /\ work.best # <<>> => Partial
    /\ phase \in {"idle", "sequence"} =>
         /\ work = [NoWork EXCEPT !.side = work.side]
         /\ transit = <<>>
    /\ phase = "idle" => work.side = "start" /\ found = NotFound
    /\ phase \in {"resolve", "deconflict"} => transit = <<>>
    /\ phase = "resolve" =>
         /\ Len(work.configs) < Len(Wanted)
         /\ work.configs = <<>> => work.fixed = {}
         /\ work.fixed = {} => \A k \in 1 .. Len(work.configs) : work.configs[k].ok
    /\ phase = "deconflict" =>
         /\ work.configs # <<>>
         /\ Partial \/ Len(work.configs) = Len(Wanted)

(* Both sides have been resolved; a side has.                               *)
Reached == phase \in {"plan", "straight", "gcs", "sample", "combine"} \/ Planned
Done(side) == Reached \/ (side = "start" /\ work.side = "goal" /\ phase # "answered")

(* What is known of the sides that have been resolved. *)
FoundOn(side) ==
    /\ Resolves(found[side], side)
    /\ Done(side) =>
         \/ problem.partial[side]
         \/ /\ Len(found[side]) = Len(problem[side])
            /\ found[side] # <<>> => found[side][1].ok
FoundInv == \A side \in Sides : FoundOn(side)

(* What is known of the transit: the planners are asked only when there are *)
(* goal configurations, and what they return has been checked.              *)
TransitInv ==
    /\ phase \in {"straight", "gcs", "sample"} => found["goal"] # <<>>
    /\ phase \in {"plan", "straight", "gcs", "sample"} => transit = <<>>
    /\ phase = "combine" =>
         IF found["goal"] = <<>> THEN transit = <<>>
         ELSE /\ transit # <<>>
              /\ transit[1].from = From /\ transit[1].to = To
              /\ ~problem.fast => transit[1].checked /\ From.ok

Inv ==
    /\ TypeInv
    /\ WorkInv
    /\ FoundInv
    /\ TransitInv
    /\ phase # "answered" => reply = NoReply
    /\ PlanStaysValid

-----------------------------------------------------------------------------
LEMMA RefConf == Ref \in Conf /\ Ref.ok
BY DEF Ref, Conf, Stay, Place

LEMMA LastIn == ASSUME NEW S, NEW s \in Seq(S), s # <<>> PROVE Last(s) \in S
BY DEF Last

LEMMA StartSeqFacts ==
    ASSUME TypeInv
    PROVE  /\ StartSeq \in Seq(Conf) /\ StartSeq # <<>>
           /\ StartSeq[1] = Ref /\ From \in Conf
           /\ Len(StartSeq) = Len(found["start"]) + 1
<1>1. found["start"] \in Seq(Conf)
  BY DEF TypeInv, Sides
<1> HIDE DEF TypeInv
<1>2. <<Ref>> \in Seq(Conf) /\ Len(<<Ref>>) = 1 /\ <<Ref>>[1] = Ref
  BY RefConf
<1>3. /\ StartSeq \in Seq(Conf) /\ Len(StartSeq) = Len(found["start"]) + 1
      /\ StartSeq[1] = Ref
  BY <1>1, <1>2 DEF StartSeq
<1> QED
  BY <1>1, <1>3, LastIn DEF From

LEMMA WantedFacts ==
    ASSUME TypeInv
    PROVE  /\ Wanted \in Seq(Anchors) /\ Partial \in BOOLEAN /\ Side \in Sides
           /\ \A side \in Sides : problem[side] \in Seq(Anchors)
BY DEF TypeInv, Wanted, Partial, Side, Sides, Work

LEMMA NotPlanned ==
    ASSUME reply'.status # "planned" PROVE PlanStaysValid'
BY DEF PlanStaysValid, Planned

-----------------------------------------------------------------------------
(* The invariant holds at the start and each step keeps it.                 *)

LEMMA InitInv == Init => Inv
<1> SUFFICES ASSUME Init PROVE Inv
  OBVIOUS
<1> USE DEF Init
<1>1. TypeInv
  BY DEF TypeInv, NoProblem, NoWork, NotFound, NoReply, Phases, Work, Sides
<1>2. WorkInv
  BY DEF WorkInv, Resolves, NoWork, NoProblem
<1>3. FoundInv
  BY DEF FoundInv, FoundOn, Resolves, NotFound, NoReply, NoProblem, Done, Reached, Planned, NoWork
<1>4. TransitInv
  BY DEF TransitInv
<1>5. PlanStaysValid
  BY DEF PlanStaysValid, Planned, NoReply
<1> QED
  BY <1>1, <1>2, <1>3, <1>4, <1>5 DEF Inv

-----------------------------------------------------------------------------
(* How the resolution of one side goes on. *)

LEMMA GiveInv ==
    ASSUME Inv, phase \in {"sequence", "resolve", "deconflict"},
           NEW confs \in Seq(Conf), Resolves(confs, Side),
           \/ Partial
           \/ Len(confs) = Len(Wanted) /\ (confs # <<>> => confs[1].ok),
           Give(confs)
    PROVE  Inv'
<1> USE DEF Give
<1>0. /\ reply = NoReply /\ reply' = NoReply /\ problem' = problem
      /\ transit' = <<>> /\ transit = <<>> /\ Side \in Sides
      /\ found' = [found EXCEPT ![Side] = confs]
  BY DEF Inv, WorkInv, TypeInv, Work, Side
<1>1. TypeInv'
  <2>1. [NoWork EXCEPT !.side = "goal"] \in Work
    <3>1. NoWork \in Work
      BY DEF NoWork, Work, Sides
    <3>2. \A w \in Work : [w EXCEPT !.side = "goal"] \in Work
      BY DEF Work, Sides
    <3> QED
      BY <3>1, <3>2
  <2>2. work' \in Work /\ work'.seed \in 1 .. work'.seeds
    <3>1. CASE work' = work
      BY <3>1 DEF Inv, TypeInv
    <3>2. CASE work' = [NoWork EXCEPT !.side = "goal"]
      BY <2>1, <3>2 DEF NoWork
    <3> QED
      BY <3>1, <3>2
  <2>3. found' \in [Sides -> Seq(Conf)]
    BY <1>0 DEF Inv, TypeInv
  <2> QED
    BY <1>0, <2>2, <2>3 DEF Inv, TypeInv, Phases
<1>2. WorkInv'
  <2>1. CASE Side = "start"
    <3>1. work' = [NoWork EXCEPT !.side = "goal"] /\ phase' = "sequence"
      BY <2>1
    <3> QED
      BY <1>0, <3>1 DEF WorkInv, Resolves, NoWork, Partial, Side
  <2>2. CASE Side # "start"
    <3>1. work' = work /\ phase' = "plan"
      BY <2>2
    <3> QED
      BY <1>0, <3>1 DEF Inv, WorkInv, Resolves, Partial, Side
  <2> QED
    BY <2>1, <2>2
<1>3. FoundInv'
  <2> SUFFICES ASSUME NEW side \in Sides PROVE FoundOn(side)'
    BY DEF FoundInv
  <2> USE DEF FoundOn
  <2>0. found \in [Sides -> Seq(Conf)]
    BY DEF Inv, TypeInv
  <2>1. CASE side = Side
    <3>1. found'[side] = confs
      BY <1>0, <2>0, <2>1
    <3> QED
      BY <1>0, <2>1, <3>1 DEF Resolves, Partial, Wanted
  <2>2. CASE side # Side
    <3>1. found'[side] = found[side] /\ Resolves(found[side], side)
      BY <1>0, <2>0, <2>2 DEF Inv, FoundInv
    <3>2. CASE Side = "start"
      <4>1. side = "goal" /\ phase' = "sequence"
        BY <2>2, <3>2 DEF Sides
      <4>2. ~Done(side)'
        BY <1>0, <4>1 DEF Done, Reached, Planned, NoReply
      <4> QED
        BY <1>0, <3>1, <4>2 DEF Resolves
    <3>3. CASE Side # "start"
      <4>1. side = "start" /\ Side = "goal"
        BY <1>0, <2>2, <3>3 DEF Sides
      <4>2. Done(side)
        BY <4>1 DEF Done, Side
      <4> QED
        BY <1>0, <3>1, <4>2 DEF Inv, FoundInv, FoundOn, Resolves
    <3> QED
      BY <3>2, <3>3
  <2> QED
    BY <2>1, <2>2
<1>4. TransitInv'
  <2>1. phase' \in {"sequence", "plan"}
    OBVIOUS
  <2> QED
    BY <1>0, <2>1 DEF TransitInv
<1>5. PlanStaysValid'
  BY <1>0, NotPlanned DEF NoReply
<1> QED
  BY <1>0, <1>1, <1>2, <1>3, <1>4, <1>5 DEF Inv

(* An error leaves everything as it is, but for the answer. *)
LEMMA EndInv ==
    ASSUME Inv, phase \notin {"idle", "answered"},
           NEW status \in {"failed", "threw"}, End(status)
    PROVE  Inv'
<1>0. /\ problem' = problem /\ work' = work /\ found' = found
      /\ transit' = transit /\ phase' = "answered"
      /\ reply' = [status |-> status, pieces |-> <<>>]
  BY DEF End, Answer
<1>1. TypeInv'
  BY <1>0 DEF Inv, TypeInv, Phases
<1>2. WorkInv'
  BY <1>0 DEF Inv, WorkInv, Resolves, Partial, Side
<1>3. FoundInv'
  <2>1. \A side \in Sides : ~Done(side)'
    BY <1>0 DEF Done, Reached, Planned
  <2> QED
    BY <1>0, <2>1 DEF Inv, FoundInv, FoundOn, Resolves
<1>4. TransitInv'
  BY <1>0 DEF TransitInv
<1>5. PlanStaysValid'
  BY <1>0, NotPlanned
<1> QED
  BY <1>0, <1>1, <1>2, <1>3, <1>4, <1>5 DEF Inv

(* Steps that only change the work on one side. *)
LEMMA WorkOnInv ==
    ASSUME Inv, phase \in {"sequence", "resolve", "deconflict"},
           UNCHANGED <<problem, found, transit, reply>>,
           phase' \in {"resolve", "deconflict"},
           work' \in Work, work'.seed \in 1 .. work'.seeds,
           work'.side = work.side, WorkInv'
    PROVE  Inv'
<1>0. /\ reply = NoReply /\ reply' = NoReply /\ problem' = problem
      /\ transit' = transit /\ transit = <<>> /\ found' = found
  BY DEF Inv, WorkInv
<1>1. TypeInv'
  BY <1>0 DEF Inv, TypeInv, Phases
<1>3. FoundInv'
  <2>1. \A side \in Sides : Done(side)' => Done(side)
    BY <1>0 DEF Done, Reached, Planned, NoReply
  <2> QED
    BY <1>0, <2>1 DEF Inv, FoundInv, FoundOn, Resolves
<1>4. TransitInv'
  BY <1>0 DEF TransitInv
<1>5. PlanStaysValid'
  BY <1>0, NotPlanned DEF NoReply
<1> QED
  BY <1>0, <1>1, <1>3, <1>4, <1>5 DEF Inv

LEMMA NextSeedInv ==
    ASSUME Inv, phase \in {"resolve", "deconflict"},
           NEW best \in Seq(Conf), Resolves(best, Side), best # <<>> => Partial,
           NextSeed(best)
    PROVE  Inv'
<1>0. /\ work \in Work /\ work.seed \in 1 .. work.seeds /\ Wanted \in Seq(Anchors)
      /\ Side = work.side
  BY WantedFacts DEF Inv, TypeInv, Side
<1>1. CASE work.seed < work.seeds
  <2>1. /\ work' = [work EXCEPT !.seed = work.seed + 1, !.configs = <<>>,
                                !.fixed = {}, !.best = best, !.seedCost = TRUE]
        /\ phase' = "resolve"
        /\ UNCHANGED <<problem, found, transit, reply>>
    BY <1>1 DEF NextSeed
  <2>2. /\ work'.seed \in 1 .. work'.seeds /\ work' \in Work
        /\ work'.side = work.side /\ work'.configs = <<>> /\ work'.best = best
    <3>1. work.seed + 1 \in 1 .. work.seeds /\ work.seed + 1 \in Nat
      BY <1>0, <1>1 DEF Work
    <3>2. <<>> \in Seq(Conf)
      OBVIOUS
    <3> QED
      BY <1>0, <2>1, <3>1, <3>2 DEF Work
  <2>3. 0 < Len(Wanted)
    <3>1. work.configs \in Seq(Conf) /\ Len(work.configs) <= Len(Wanted)
      BY <1>0 DEF Inv, WorkInv, Resolves, Work, Wanted
    <3>2. phase = "resolve" => Len(work.configs) < Len(Wanted)
      BY DEF Inv, WorkInv
    <3>3. phase = "deconflict" => work.configs # <<>>
      BY DEF Inv, WorkInv
    <3> QED
      BY <1>0, <3>1, <3>2, <3>3
  <2>4. WorkInv'
    BY <1>0, <2>1, <2>2, <2>3 DEF Inv, WorkInv, Resolves, Partial, Side, Wanted
  <2> QED
    BY <2>1, <2>2, <2>4, WorkOnInv
<1>2. CASE work.seed >= work.seeds /\ Partial /\ best # <<>>
  <2>1. Give(best)
    BY <1>0, <1>2 DEF NextSeed, Work
  <2> QED
    BY <1>2, <2>1, GiveInv
<1>3. CASE work.seed >= work.seeds /\ ~(Partial /\ best # <<>>)
  <2>1. End("failed")
    BY <1>0, <1>3 DEF NextSeed, Work
  <2> QED
    BY <2>1, EndInv
<1> QED
  BY <1>0, <1>1, <1>2, <1>3 DEF Work

(* A seed is settled with all its anchors resolved, or as many as will do.  *)
LEMMA SettleInv ==
    ASSUME Inv, phase = "resolve",
           NEW confs \in Seq(Conf), NEW fixed \in SUBSET Arms, NEW best \in Seq(Conf),
           Resolves(confs, Side), Resolves(best, Side),
           best # <<>> => Partial,
           Partial \/ Len(confs) = Len(Wanted),
           confs = <<>> => fixed = {},
           fixed = {} => \A k \in 1 .. Len(confs) : confs[k].ok,
           Settle(confs, fixed, best)
    PROVE  Inv'
<1>1. CASE fixed = {}
  <2>1. confs # <<>> => 1 \in 1 .. Len(confs)
    OBVIOUS
  <2>2. confs # <<>> => confs[1].ok
    BY <1>1, <2>1
  <2> QED
    BY <1>1, <2>2, GiveInv DEF Settle
<1>2. CASE fixed # {}
  <2>1. /\ work' = [work EXCEPT !.configs = confs, !.fixed = fixed, !.best = best]
        /\ phase' = "deconflict"
        /\ UNCHANGED <<problem, found, transit, reply>>
    BY <1>2 DEF Settle
  <2>2. work \in Work /\ work.seed \in 1 .. work.seeds
    BY DEF Inv, TypeInv
  <2>3. /\ work'.seed \in 1 .. work'.seeds /\ work' \in Work
        /\ work'.side = work.side /\ work'.configs = confs /\ work'.best = best
    BY <2>1, <2>2 DEF Work
  <2>4. WorkInv'
    BY <1>2, <2>1, <2>3 DEF Inv, WorkInv, Resolves, Partial, Side, Wanted
  <2> QED
    BY <2>1, <2>3, <2>4, WorkOnInv
<1> QED
  BY <1>1, <1>2

LEMMA BestInv ==
    ASSUME Inv, NEW confs \in Seq(Conf), Resolves(confs, Side)
    PROVE  /\ Best(confs) \in Seq(Conf) /\ Resolves(Best(confs), Side)
           /\ Best(confs) # <<>> => Partial
BY DEF Best, Inv, WorkInv, TypeInv, Work, Side

LEMMA LoseInv ==
    ASSUME Inv, phase = "resolve", NEW unavoidable \in BOOLEAN, Lose(unavoidable)
    PROVE  Inv'
<1>0. /\ work.configs \in Seq(Conf) /\ work.fixed \in SUBSET Arms
      /\ Resolves(work.configs, Side)
      /\ work.configs = <<>> => work.fixed = {}
      /\ work.fixed = {} => \A k \in 1 .. Len(work.configs) : work.configs[k].ok
  BY DEF Inv, WorkInv, TypeInv, Work, Side
<1> DEFINE best == Best(work.configs)
<1>1. /\ best \in Seq(Conf) /\ Resolves(best, Side)
      /\ best # <<>> => Partial
  BY <1>0, BestInv
<1>2. \/ End("failed")
      \/ best # <<>> /\ Settle(work.configs, work.fixed, best)
      \/ NextSeed(best)
  BY DEF Lose
<1> HIDE DEF best
<1>3. CASE End("failed")
  BY <1>3, EndInv
<1>4. CASE best # <<>> /\ Settle(work.configs, work.fixed, best)
  BY <1>0, <1>1, <1>4, SettleInv
<1>5. CASE NextSeed(best)
  BY <1>1, <1>5, NextSeedInv
<1> QED
  BY <1>2, <1>3, <1>4, <1>5

(* The next anchor is one of the problem's, and what it starts from is a    *)
(* configuration.                                                           *)
LEMMA PlacedConf ==
    ASSUME Inv, phase = "resolve", NEW ok \in BOOLEAN
    PROVE  /\ Placed(ok) \in Conf /\ Placed(ok).ok = ok
           /\ Names(Anchor) \subseteq Arms
           /\ \A a \in Names(Anchor) :
                Placed(ok).at[a] = Stay(Side, Len(work.configs) + 1)
<1>0. /\ work \in Work /\ work.configs \in Seq(Conf) /\ Side \in Sides
      /\ Wanted \in Seq(Anchors) /\ TypeInv
      /\ Len(work.configs) < Len(Wanted)
  BY WantedFacts DEF Inv, WorkInv, TypeInv, Work
<1>1. Len(work.configs) + 1 \in 1 .. Len(Wanted) /\ Len(work.configs) + 1 \in Nat
  BY <1>0
<1>2. Anchor \in Anchors
  BY <1>0, <1>1 DEF Anchor
<1>3. Names(Anchor) \subseteq Arms
  BY <1>2, AnchorsAssumption DEF Names
<1>4. \A side \in Sides \cup {"ref", "seed"}, n \in Nat : Stay(side, n) \in Place
  BY DEF Stay, Place
<1>5. Seed \in Conf
  <2> DEFINE from == IF Side = "start" THEN Ref ELSE Last(StartSeq)
  <2>1. from \in Conf
    BY <1>0, RefConf, StartSeqFacts DEF From
  <2> HIDE DEF from
  <2>2. Stay("seed", work.seed) \in Place
    BY <1>0, <1>4 DEF Work
  <2>3. [a \in Arms |-> IF a \in Posed THEN Stay("seed", work.seed) ELSE from.at[a]]
           \in [Arms -> Place]
    BY <2>1, <2>2 DEF Conf
  <2>4. [from EXCEPT !.at = [a \in Arms |->
           IF a \in Posed THEN Stay("seed", work.seed) ELSE from.at[a]]] \in Conf
    BY <2>1, <2>3 DEF Conf
  <2> QED
    BY <2>1, <2>4 DEF Seed, from
<1>6. Base \in Conf
  BY <1>0, <1>5, LastIn DEF Base
<1>7. Stay(Side, Len(work.configs) + 1) \in Place
  BY <1>0, <1>1, <1>4
<1> HIDE DEF Place
<1> QED
  BY <1>3, <1>6, <1>7 DEF Placed, Conf

LEMMA KeepInv ==
    ASSUME Inv, phase = "resolve", NEW ok \in BOOLEAN, Names(Anchor) # {}, Keep(ok)
    PROVE  Inv'
<1> DEFINE confs == Append(work.configs, Placed(ok))
           fixed == IF ok THEN work.fixed ELSE work.fixed \cup Names(Anchor)
<1>0. /\ work \in Work /\ work.configs \in Seq(Conf) /\ work.fixed \in SUBSET Arms
      /\ Resolves(work.configs, Side) /\ Len(work.configs) < Len(Wanted)
      /\ Resolves(work.best, Side) /\ work.best \in Seq(Conf)
      /\ work.best # <<>> => Partial
      /\ work.fixed = {} => \A k \in 1 .. Len(work.configs) : work.configs[k].ok
      /\ Wanted \in Seq(Anchors) /\ work.seed \in 1 .. work.seeds
  BY WantedFacts DEF Inv, WorkInv, TypeInv, Work, Side
<1>1. /\ confs \in Seq(Conf) /\ Len(confs) = Len(work.configs) + 1
      /\ confs[Len(confs)] = Placed(ok)
      /\ \A k \in 1 .. Len(work.configs) : confs[k] = work.configs[k]
  BY <1>0, PlacedConf
<1>2. fixed \in SUBSET Arms
  BY <1>0, PlacedConf
<1>3. \/ Len(confs) = Len(Wanted) /\ Settle(confs, fixed, work.best)
      \/ /\ Len(confs) # Len(Wanted)
         /\ work' = [work EXCEPT !.configs = confs, !.fixed = fixed, !.seedCost = TRUE]
         /\ UNCHANGED <<problem, phase, found, transit, reply>>
  BY DEF Keep
<1>4. \A k \in 1 .. Len(confs) : k = Len(confs) \/ k \in 1 .. Len(work.configs)
  <2>1. Len(work.configs) \in Nat
    BY <1>0
  <2> QED
    BY <1>1, <2>1
<1>5. fixed = {} => \A k \in 1 .. Len(confs) : confs[k].ok
  <2> SUFFICES ASSUME fixed = {} PROVE \A k \in 1 .. Len(confs) : confs[k].ok
    OBVIOUS
  <2>1. ok /\ work.fixed = {}
    OBVIOUS
  <2>2. confs[Len(confs)].ok
    BY <1>1, <2>1, PlacedConf
  <2> HIDE DEF confs, fixed
  <2> QED
    BY <1>0, <1>1, <1>4, <2>1, <2>2
<1>6. Resolves(confs, Side)
  <2>1. Len(confs) <= Len(Wanted)
    <3>1. Len(work.configs) \in Nat /\ Len(Wanted) \in Nat
      BY <1>0
    <3> QED
      BY <1>0, <1>1, <3>1
  <2>2. ASSUME NEW a \in Names(Anchor)
        PROVE  /\ confs[Len(confs)].at[a].of = Side
               /\ confs[Len(confs)].at[a].number = Len(confs)
    <3>1. Placed(ok).at[a] = Stay(Side, Len(confs))
      BY <1>1, PlacedConf
    <3> HIDE DEF confs
    <3> QED
      BY <1>1, <3>1 DEF Stay
  <2>3. Anchor = Wanted[Len(confs)]
    BY <1>1 DEF Anchor
  <2> HIDE DEF confs, fixed
  <2> QED
    <3> SUFFICES ASSUME NEW k \in 1 .. Len(confs), NEW a \in Names(Wanted[k])
                 PROVE  confs[k].at[a].of = Side /\ confs[k].at[a].number = k
      BY <2>1 DEF Resolves, Wanted
    <3>1. CASE k = Len(confs)
      BY <2>2, <2>3, <3>1
    <3>2. CASE k \in 1 .. Len(work.configs)
      <4>1. confs[k] = work.configs[k]
        BY <1>1, <3>2
      <4>2. work.configs[k].at[a].of = Side /\ work.configs[k].at[a].number = k
        BY <1>0, <3>2 DEF Resolves, Wanted
      <4> QED
        BY <4>1, <4>2
    <3> QED
      BY <1>4, <3>1, <3>2
<1>7. confs # <<>>
  <2>1. Len(work.configs) \in Nat
    BY <1>0
  <2>2. Len(confs) # 0
    BY <1>1, <2>1
  <2> HIDE DEF confs
  <2> QED
    BY <2>2
<1> HIDE DEF confs, fixed
<1>8. CASE Len(confs) = Len(Wanted) /\ Settle(confs, fixed, work.best)
  BY <1>0, <1>1, <1>2, <1>5, <1>6, <1>7, <1>8, SettleInv
<1>9. CASE /\ Len(confs) # Len(Wanted)
           /\ work' = [work EXCEPT !.configs = confs, !.fixed = fixed, !.seedCost = TRUE]
           /\ UNCHANGED <<problem, phase, found, transit, reply>>
  <2>1. /\ work'.seed \in 1 .. work'.seeds /\ work' \in Work
        /\ work'.side = work.side /\ work'.configs = confs
        /\ work'.best = work.best /\ work'.fixed = fixed
    BY <1>0, <1>1, <1>2, <1>9 DEF Work
  <2>2. Len(confs) < Len(Wanted)
    <3>1. Len(work.configs) \in Nat /\ Len(Wanted) \in Nat
      BY <1>0
    <3> QED
      BY <1>0, <1>1, <1>9, <3>1
  <2>3. WorkInv'
    BY <1>0, <1>5, <1>6, <1>7, <1>9, <2>1, <2>2
       DEF Inv, WorkInv, Resolves, Partial, Side, Wanted
  <2> QED
    BY <1>9, <2>1, <2>3, WorkOnInv
<1> QED
  BY <1>3, <1>8, <1>9

-----------------------------------------------------------------------------
(* The steps of SolveSequentialAnchors. *)

LEMMA AskInv ==
    ASSUME Inv, NEW p \in Problems, NEW startIsValid \in BOOLEAN, Ask(p, startIsValid)
    PROVE  Inv'
<1>0. /\ phase = "idle" /\ problem' = p /\ reply = NoReply
      /\ work' = work /\ found' = found /\ transit' = transit
      /\ transit = <<>> /\ work = NoWork /\ found = NotFound
  <2>1. work = [NoWork EXCEPT !.side = "start"]
    BY DEF Inv, WorkInv, Ask
  <2>2. NoWork = [NoWork EXCEPT !.side = "start"]
    BY DEF NoWork
  <2> QED
    BY <2>1, <2>2 DEF Ask, Inv, WorkInv
<1>1. \/ phase' = "sequence" /\ reply' = reply
      \/ phase' = "answered" /\ reply' = [status |-> "failed", pieces |-> <<>>]
  BY DEF Ask, Answer
<1>2. TypeInv'
  <2>1. \A n \in Nat : UpTo(n, Anchors) \subseteq Seq(Anchors)
    BY DEF UpTo
  <2>2. p \in [start : Seq(Anchors), goal : Seq(Anchors),
               partial : [Sides -> BOOLEAN], fast : BOOLEAN]
    BY <2>1, BoundsAssumption DEF Problems
  <2> QED
    <3>1. reply' \in [status : {"none", "failed", "threw", "planned"}, pieces : Seq(Piece)]
      <4>1. <<>> \in Seq(Piece)
        OBVIOUS
      <4>2. CASE reply' = reply
        BY <4>2 DEF Inv, TypeInv
      <4>3. CASE reply' = [status |-> "failed", pieces |-> <<>>]
        BY <4>1, <4>3
      <4> QED
        BY <1>1, <4>2, <4>3
    <3>2. problem' \in [start : Seq(Anchors), goal : Seq(Anchors),
                         partial : [Sides -> BOOLEAN], fast : BOOLEAN]
      BY <1>0, <2>2
    <3> QED
      BY <1>0, <1>1, <3>1, <3>2 DEF Inv, TypeInv, Phases
<1>3. WorkInv'
  BY <1>0, <1>1 DEF Inv, WorkInv, NoWork, Resolves
<1>4. FoundInv'
  <2>1. \A side \in Sides : found'[side] = <<>> /\ ~Done(side)'
    BY <1>0, <1>1 DEF Done, Reached, Planned, NoReply, NotFound, NoWork
  <2> QED
    BY <2>1 DEF FoundInv, FoundOn, Resolves
<1>5. TransitInv'
  BY <1>1 DEF TransitInv
<1>6. PlanStaysValid'
  BY <1>0, <1>1, NotPlanned DEF NoReply
<1> QED
  BY <1>0, <1>1, <1>2, <1>3, <1>4, <1>5, <1>6 DEF Inv

LEMMA ReturnInv == ASSUME Inv, Return PROVE Inv'
<1> USE DEF Return
<1>1. TypeInv'
  BY DEF Inv, TypeInv, NoProblem, NoWork, NotFound, NoReply, Phases, Work, Sides
<1>2. WorkInv'
  <2>1. NoWork = [NoWork EXCEPT !.side = "start"]
    BY DEF NoWork
  <2> QED
    BY <2>1 DEF WorkInv, Resolves, NoWork, NoProblem
<1>3. FoundInv'
  BY DEF FoundInv, FoundOn, Resolves, NotFound, NoReply, NoProblem, Done, Reached,
         Planned, NoWork
<1>4. TransitInv'
  BY DEF TransitInv
<1>5. PlanStaysValid'
  BY NotPlanned DEF NoReply
<1> QED
  BY <1>1, <1>2, <1>3, <1>4, <1>5 DEF Inv

LEMMA BeginInv == ASSUME Inv, Begin PROVE Inv'
<1>0. /\ phase = "sequence" /\ work = [NoWork EXCEPT !.side = work.side]
      /\ Side = work.side /\ work \in Work /\ Wanted \in Seq(Anchors)
  BY WantedFacts DEF Inv, WorkInv, TypeInv, Begin, Side
<1>1. CASE Wanted = <<>>
  <2>1. Give(<<>>)
    BY <1>1 DEF Begin
  <2>2. Resolves(<<>>, Side) /\ <<>> \in Seq(Conf)
    BY <1>1 DEF Resolves, Wanted
  <2>3. Len(<<>>) = Len(Wanted)
    BY <1>1
  <2> QED
    BY <1>0, <2>1, <2>2, <2>3, GiveInv
<1>2. CASE Wanted # <<>>
  <2>1. PICK n \in SeedsFor(Side, Wanted) :
            /\ work' = [work EXCEPT !.seeds = n]
            /\ phase' = "resolve"
            /\ UNCHANGED <<problem, found, transit, reply>>
    BY <1>2 DEF Begin
  <2>2. n \in Nat /\ n >= 1
    BY BoundsAssumption DEF SeedsFor
  <2>3. /\ work.seed = 1 /\ work.configs = <<>> /\ work.best = <<>> /\ work.fixed = {}
    BY <1>0 DEF NoWork
  <2>4. /\ work'.seed \in 1 .. work'.seeds /\ work' \in Work
        /\ work'.side = work.side /\ work'.configs = <<>> /\ work'.best = <<>>
        /\ work'.fixed = {}
    BY <1>0, <2>1, <2>2, <2>3 DEF Work
  <2>5. 0 < Len(Wanted)
    BY <1>0, <1>2
  <2>6. WorkInv'
    BY <1>0, <2>1, <2>4, <2>5 DEF Inv, WorkInv, Resolves, Partial, Side, Wanted
  <2> QED
    BY <1>0, <2>1, <2>4, <2>6, WorkOnInv
<1> QED
  BY <1>1, <1>2

(* A retry without the cost changes nothing but that. *)
LEMMA IkNumericalInv == ASSUME Inv, phase = "resolve", IkNumerical PROVE Inv'
<1>1. CASE work.seedCost
  <2>1. /\ work' = [work EXCEPT !.seedCost = FALSE]
        /\ UNCHANGED <<problem, phase, found, transit, reply>>
    BY <1>1 DEF IkNumerical
  <2>2. work \in Work /\ work.seed \in 1 .. work.seeds
    BY DEF Inv, TypeInv
  <2>3. /\ work'.seed \in 1 .. work'.seeds /\ work' \in Work
        /\ work'.side = work.side /\ work'.configs = work.configs
        /\ work'.best = work.best /\ work'.fixed = work.fixed
    BY <2>1, <2>2 DEF Work
  <2>4. WorkInv'
    BY <2>1, <2>3 DEF Inv, WorkInv, Resolves, Partial, Side, Wanted
  <2> QED
    BY <2>1, <2>3, <2>4, WorkOnInv
<1>2. CASE ~work.seedCost
  BY <1>2, LoseInv DEF IkNumerical
<1> QED
  BY <1>1, <1>2

LEMMA ResolvePosesInv == ASSUME Inv, ResolvePoses PROVE Inv'
<1>1. phase = "resolve" /\ Names(Anchor) # {}
  BY DEF ResolvePoses, Names
<1> QED
  BY <1>1, IkNumericalInv, LoseInv, KeepInv DEF ResolvePoses

LEMMA ResolveConfInv == ASSUME Inv, ResolveConf PROVE Inv'
<1>1. phase = "resolve"
  BY DEF ResolveConf
<1> QED
  BY <1>1, LoseInv, KeepInv DEF ResolveConf

(* A deconfliction shifts arms and leaves whose anchors they resolve; the   *)
(* first configuration is where the check has seen it.                      *)
LEMMA DeconflictInv ==
    ASSUME Inv, NEW moving \in SUBSET Arms, NEW lucky \in BOOLEAN,
           Deconflict(moving, lucky)
    PROVE  Inv'
<1> DEFINE confs == Shifted(moving, lucky)
<1>0. /\ phase = "deconflict" /\ Give(confs)
      /\ work.configs \in Seq(Conf) /\ work.configs # <<>>
      /\ Partial \/ Len(work.configs) = Len(Wanted)
      /\ Resolves(work.configs, Side) /\ Side \in Sides /\ Wanted \in Seq(Anchors)
      /\ \A k \in DOMAIN Wanted : Names(Wanted[k]) \subseteq Arms
  <2>1. \A an \in Anchors : Names(an) \subseteq Arms
    BY AnchorsAssumption DEF Names
  <2> QED
    BY <2>1, WantedFacts DEF Deconflict, Inv, WorkInv, TypeInv, Work, Side
<1>1. /\ confs = [k \in 1 .. Len(work.configs) |-> confs[k]]
      /\ \A k \in 1 .. Len(work.configs) :
            /\ confs[k].ok \in BOOLEAN
            /\ SameIdle(k) => confs[k].ok
            /\ confs[k].at = [a \in Arms |-> IF a \in moving
                                  THEN [work.configs[k].at[a] EXCEPT !.moved = TRUE]
                                  ELSE work.configs[k].at[a]]
            /\ confs[k] = [at |-> confs[k].at, ok |-> confs[k].ok]
  <2> DEFINE place(k) == [a \in Arms |-> IF a \in moving
                                  THEN [work.configs[k].at[a] EXCEPT !.moved = TRUE]
                                  ELSE work.configs[k].at[a]]
               seen(k) == SameIdle(k) \/ lucky
  <2>0. \A k \in 1 .. Len(work.configs) : seen(k) \in BOOLEAN /\ (SameIdle(k) => seen(k))
    BY DEF SameIdle
  <2>1. confs = [k \in 1 .. Len(work.configs) |->
                    [at |-> place(k), ok |-> seen(k)]]
    BY <1>0 DEF Shifted
  <2> HIDE DEF confs, place, seen
  <2>2. \A k \in 1 .. Len(work.configs) :
           confs[k] = [at |-> place(k), ok |-> seen(k)]
    BY <2>1
  <2>3. confs = [k \in 1 .. Len(work.configs) |-> confs[k]]
    BY <2>1
  <2>4. \A k \in 1 .. Len(work.configs) :
           /\ confs[k].at = place(k)
           /\ confs[k].ok = seen(k)
    <3>1. \A r, x, y : r = [at |-> x, ok |-> y] => r.at = x /\ r.ok = y
      OBVIOUS
    <3>2. \A k \in 1 .. Len(work.configs) : confs[k].at = place(k)
      <4> TAKE k \in 1 .. Len(work.configs)
      <4>1. confs[k] = [at |-> place(k), ok |-> seen(k)]
        BY <2>2
      <4> QED
        BY <3>1, <4>1, Zenon
    <3>3. \A k \in 1 .. Len(work.configs) : confs[k].ok = seen(k)
      BY <2>2, <3>1
    <3> QED
      BY <3>2, <3>3
  <2>5. \A k \in 1 .. Len(work.configs) :
           confs[k] = [at |-> confs[k].at, ok |-> confs[k].ok]
    BY <2>2, <2>4
  <2>6. \A k \in 1 .. Len(work.configs) :
           /\ confs[k].ok \in BOOLEAN
           /\ SameIdle(k) => confs[k].ok
    BY <2>0, <2>4
  <2>7. \A k \in 1 .. Len(work.configs) : confs[k].at = place(k)
    BY <2>4
  <2> QED
    BY <2>3, <2>5, <2>6, <2>7 DEF place
<1> HIDE DEF confs
<1>2. ASSUME NEW k \in 1 .. Len(work.configs), NEW a \in Arms
      PROVE  /\ confs[k].at[a] \in Place
             /\ confs[k].at[a].of = work.configs[k].at[a].of
             /\ confs[k].at[a].number = work.configs[k].at[a].number
  <2>1. work.configs[k].at[a] \in Place
    <3>1. work.configs[k] \in Conf
      BY <1>0
    <3> HIDE DEF Place
    <3> QED
      BY <3>1 DEF Conf
  <2>2. confs[k].at[a] = IF a \in moving
                           THEN [work.configs[k].at[a] EXCEPT !.moved = TRUE]
                           ELSE work.configs[k].at[a]
    BY <1>1, ZenonT(60)
  <2>3. \A q \in Place : /\ [q EXCEPT !.moved = TRUE] \in Place
                         /\ [q EXCEPT !.moved = TRUE].of = q.of
                         /\ [q EXCEPT !.moved = TRUE].number = q.number
    BY DEF Place
  <2> QED
    BY <2>1, <2>2, <2>3
<1>3. ASSUME NEW k \in 1 .. Len(work.configs) PROVE confs[k] \in Conf
  <2>1. confs[k].at \in [Arms -> Place]
    BY <1>1, <1>2
  <2>2. confs[k].ok \in BOOLEAN /\ confs[k] = [at |-> confs[k].at, ok |-> confs[k].ok]
    BY <1>1
  <2>3. \A at \in [Arms -> Place], ok \in BOOLEAN : [at |-> at, ok |-> ok] \in Conf
    BY DEF Conf
  <2> QED
    BY <2>1, <2>2, <2>3
<1>4. confs \in Seq(Conf) /\ Len(confs) = Len(work.configs)
  <2>1. Len(work.configs) \in Nat
    BY <1>0
  <2>2. confs = [k \in 1 .. Len(work.configs) |-> confs[k]]
    BY <1>1
  <2>3. confs \in [1 .. Len(work.configs) -> Conf]
    BY <1>3, <2>2
  <2> HIDE DEF Conf
  <2> QED
    BY <2>1, <2>3
<1>5. confs[1].ok
  <2>1. 1 \in 1 .. Len(work.configs)
    BY <1>0
  <2>2. SameIdle(1)
    BY DEF SameIdle
  <2> QED
    BY <1>1, <2>1, <2>2
<1>6. Resolves(confs, Side)
  <2> SUFFICES ASSUME NEW k \in 1 .. Len(confs), NEW a \in Names(Wanted[k])
               PROVE  confs[k].at[a].of = Side /\ confs[k].at[a].number = k
    BY <1>0, <1>4 DEF Resolves, Wanted
  <2>1. k \in 1 .. Len(work.configs) /\ k \in DOMAIN Wanted
    <3>1. Len(work.configs) <= Len(Wanted)
      BY <1>0 DEF Resolves, Wanted
    <3>2. Len(work.configs) \in Nat /\ Len(Wanted) \in Nat
      BY <1>0
    <3> QED
      BY <1>0, <1>4, <3>1, <3>2
  <2>2. a \in Arms
    BY <1>0, <2>1
  <2>3. work.configs[k].at[a].of = Side /\ work.configs[k].at[a].number = k
    BY <1>0, <2>1 DEF Resolves, Wanted
  <2> QED
    BY <1>2, <2>1, <2>2, <2>3
<1> QED
  BY <1>0, <1>4, <1>5, <1>6, GiveInv

LEMMA NotDeconflictedInv == ASSUME Inv, NotDeconflicted PROVE Inv'
<1>0. phase = "deconflict" /\ work.configs \in Seq(Conf) /\ Resolves(work.configs, Side)
  BY DEF NotDeconflicted, Inv, WorkInv, TypeInv, Work, Side
<1>1. CASE Partial
  <2>1. NextSeed(Best(work.configs))
    BY <1>1 DEF NotDeconflicted
  <2> QED
    BY <1>0, <2>1, BestInv, NextSeedInv
<1>2. CASE ~Partial
  BY <1>0, <1>2, EndInv DEF NotDeconflicted
<1> QED
  BY <1>1, <1>2

LEMMA DeconflictThrowsInv == ASSUME Inv, DeconflictThrows PROVE Inv'
BY EndInv DEF DeconflictThrows

-----------------------------------------------------------------------------
(* The transit. *)

LEMMA PlanTransitInv == ASSUME Inv, PlanTransit PROVE Inv'
<1>0. /\ phase = "plan" /\ UNCHANGED <<problem, work, found, transit, reply>>
      /\ transit = <<>> /\ reply = NoReply
      /\ \/ phase' = "combine" /\ found["goal"] = <<>>
         \/ phase' = "straight" /\ found["goal"] # <<>>
  BY DEF PlanTransit, Inv, TransitInv
<1>1. TypeInv'
  BY <1>0 DEF Inv, TypeInv, Phases
<1>2. WorkInv'
  BY <1>0 DEF Inv, WorkInv, Resolves, Partial, Side
<1>3. FoundInv'
  <2>1. \A side \in Sides : Done(side)
    BY <1>0 DEF Done, Reached
  <2> QED
    BY <1>0, <2>1 DEF Inv, FoundInv, FoundOn, Resolves
<1>4. TransitInv'
  BY <1>0 DEF TransitInv
<1>5. PlanStaysValid'
  BY <1>0, NotPlanned DEF NoReply
<1> QED
  BY <1>0, <1>1, <1>2, <1>3, <1>4, <1>5 DEF Inv

(* What every path of a planner is: from the end of the one sequence to the *)
(* beginning of the other.                                                  *)
LEMMA BetweenFacts ==
    ASSUME Inv, phase \in {"straight", "gcs", "sample"}
    PROVE  /\ From \in Conf /\ To \in Conf
           /\ \A checked \in BOOLEAN : Between(checked) \in Piece
           /\ \A checked : /\ Between(checked).from = From
                           /\ Between(checked).to = To
                           /\ Between(checked).checked = checked
<1>1. From \in Conf
  BY StartSeqFacts DEF Inv
<1>2. found["goal"] \in Seq(Conf) /\ found["goal"] # <<>>
  BY DEF Inv, TypeInv, TransitInv, Sides
<1>3. To \in Conf
  BY <1>2 DEF To
<1> QED
  BY <1>1, <1>3 DEF Between, Piece

LEMMA UsePathInv ==
    ASSUME Inv, phase \in {"straight", "gcs", "sample"},
           NEW path \in Piece, path.from = From, path.to = To,
           ~problem.fast => path.checked /\ From.ok,
           UsePath(path)
    PROVE  Inv'
<1>1. CASE End("failed")
  BY <1>1, EndInv
<1>2. CASE /\ transit' = <<path>>
           /\ phase' = "combine"
           /\ UNCHANGED <<problem, work, found, reply>>
  <2>0. reply = NoReply /\ reply' = NoReply
    BY <1>2 DEF Inv
  <2>1. <<path>> \in Seq(Piece) /\ Len(<<path>>) = 1 /\ <<path>>[1] = path
        /\ <<path>> # <<>>
    OBVIOUS
  <2>2. TypeInv'
    BY <1>2, <2>1 DEF Inv, TypeInv, Phases
  <2>3. WorkInv'
    BY <1>2 DEF Inv, WorkInv, Resolves, Partial, Side
  <2>4. FoundInv'
    <3>1. \A side \in Sides : Done(side)
      BY DEF Done, Reached
    <3> QED
      BY <1>2, <3>1 DEF Inv, FoundInv, FoundOn, Resolves
  <2>5. TransitInv'
    <3>1. found["goal"] # <<>>
      BY DEF Inv, TransitInv
    <3>2. From' = From /\ To' = To
      BY <1>2 DEF From, To, StartSeq, Last
    <3> QED
      BY <1>2, <2>1, <3>1, <3>2 DEF TransitInv
  <2>6. PlanStaysValid'
    BY <2>0, NotPlanned DEF NoReply
  <2> QED
    BY <2>0, <2>2, <2>3, <2>4, <2>5, <2>6 DEF Inv
<1> QED
  BY <1>1, <1>2 DEF UsePath

LEMMA NextPlannerInv ==
    ASSUME Inv, phase \in {"straight", "gcs", "sample"},
           NEW p \in {"gcs", "sample"}, NextPlanner(p)
    PROVE  Inv'
<1>0. /\ phase' = p /\ UNCHANGED <<problem, work, found, transit, reply>>
      /\ transit = <<>> /\ reply = NoReply /\ found["goal"] # <<>>
  BY DEF NextPlanner, Inv, TransitInv
<1>1. TypeInv'
  BY <1>0 DEF Inv, TypeInv, Phases
<1>2. WorkInv'
  BY <1>0 DEF Inv, WorkInv, Resolves, Partial, Side
<1>3. FoundInv'
  <2>1. \A side \in Sides : Done(side)
    BY DEF Done, Reached
  <2> QED
    BY <1>0, <2>1 DEF Inv, FoundInv, FoundOn, Resolves
<1>4. TransitInv'
  BY <1>0 DEF TransitInv
<1>5. PlanStaysValid'
  BY <1>0, NotPlanned DEF NoReply
<1> QED
  BY <1>0, <1>1, <1>2, <1>3, <1>4, <1>5 DEF Inv

LEMMA FastEstimateInv == ASSUME Inv, FastEstimate PROVE Inv'
<1>0. phase \in {"straight", "gcs", "sample"} /\ problem.fast
  BY DEF FastEstimate
<1>1. SeesBoth \in BOOLEAN
  BY DEF SeesBoth
<1>2. CASE UsePath(Between(SeesBoth)) \/ UsePath(Between(FALSE))
  BY <1>0, <1>1, <1>2, BetweenFacts, UsePathInv
<1>3. CASE End("failed") \/ End("threw")
  BY <1>0, <1>3, EndInv
<1> QED
  BY <1>2, <1>3 DEF FastEstimate

LEMMA StraightLineInv == ASSUME Inv, StraightLine PROVE Inv'
<1>0. phase \in {"straight", "gcs", "sample"}
  BY DEF StraightLine
<1>1. CASE NextPlanner("gcs")
  BY <1>0, <1>1, NextPlannerInv
<1>2. CASE SeesBoth /\ UsePath(Between(TRUE))
  BY <1>0, <1>2, BetweenFacts, UsePathInv DEF SeesBoth
<1> QED
  BY <1>1, <1>2 DEF StraightLine

(* Arms held still or not, the path has been checked. *)
LEMMA FixedPathInv ==
    ASSUME Inv, phase \in {"straight", "gcs", "sample"}, SeesFirst,
           \E path \in MaybeFixArms(Between(TRUE)) : UsePath(path)
    PROVE  Inv'
<1>1. UsePath(Between(TRUE))
  BY DEF MaybeFixArms
<1> QED
  BY <1>1, BetweenFacts, UsePathInv DEF SeesFirst

LEMMA GcsInv == ASSUME Inv, Gcs PROVE Inv'
<1>0. phase \in {"straight", "gcs", "sample"}
  BY DEF Gcs
<1>1. CASE NextPlanner("sample")
  BY <1>0, <1>1, NextPlannerInv
<1>2. CASE SeesFirst /\ \E path \in MaybeFixArms(Between(TRUE)) : UsePath(path)
  BY <1>0, <1>2, FixedPathInv
<1> QED
  BY <1>1, <1>2 DEF Gcs

LEMMA SampleBasedInv == ASSUME Inv, SampleBased PROVE Inv'
<1>0. phase \in {"straight", "gcs", "sample"}
  BY DEF SampleBased
<1>1. CASE End("failed")
  BY <1>0, <1>1, EndInv
<1>2. CASE SeesBoth /\ \E path \in MaybeFixArms(Between(TRUE)) : UsePath(path)
  BY <1>0, <1>2, FixedPathInv DEF SeesBoth, SeesFirst
<1> QED
  BY <1>1, <1>2 DEF SampleBased

-----------------------------------------------------------------------------
(* The pieces put one after the other. *)

LEMMA SplinedFacts ==
    ASSUME NEW confs \in Seq(Conf)
    PROVE  /\ Splined(confs) \in Seq(Piece)
           /\ Splined(confs) # <<>> <=> Len(confs) > 1
           /\ \A p \in DOMAIN Splined(confs) :
                /\ Splined(confs)[p].from = confs[1]
                /\ Splined(confs)[p].to = Last(confs)
                /\ Splined(confs)[p].checked => confs[1].ok /\ Last(confs).ok
<1>1. CASE Len(confs) > 1
  <2> DEFINE seen == confs[1].ok /\ Last(confs).ok
             piece == [from |-> confs[1], to |-> Last(confs), checked |-> seen]
  <2>1. confs[1] \in Conf /\ Last(confs) \in Conf /\ seen \in BOOLEAN
    BY <1>1 DEF Last
  <2>2. piece \in Piece
    BY <2>1 DEF Piece
  <2>3. piece.from = confs[1] /\ piece.to = Last(confs) /\ piece.checked = seen
    OBVIOUS
  <2>4. Splined(confs) = <<piece>>
    BY <1>1 DEF Splined
  <2>5. seen => confs[1].ok /\ Last(confs).ok
    OBVIOUS
  <2> HIDE DEF piece, seen
  <2> QED
    BY <1>1, <2>2, <2>3, <2>4, <2>5
<1>2. CASE ~(Len(confs) > 1)
  BY <1>2 DEF Splined
<1> QED
  BY <1>1, <1>2

LEMMA ThreePieces ==
    ASSUME NEW S, NEW a \in Seq(S), NEW b \in Seq(S), NEW c \in Seq(S)
    PROVE  /\ a \o b \o c \in Seq(S)
           /\ a \o b \o c # <<>> =>
                (a \o b \o c)[1] = IF a # <<>> THEN a[1]
                                   ELSE IF b # <<>> THEN b[1] ELSE c[1]
<1>1. ASSUME NEW x \in Seq(S), NEW y \in Seq(S)
      PROVE  /\ x \o y \in Seq(S)
             /\ x \o y # <<>> => (x \o y)[1] = IF x # <<>> THEN x[1] ELSE y[1]
             /\ x \o y # <<>> <=> x # <<>> \/ y # <<>>
  <2> DEFINE all == x \o y
  <2>1. /\ Len(x) \in Nat /\ Len(y) \in Nat
        /\ all \in Seq(S) /\ Len(all) = Len(x) + Len(y)
        /\ \A i \in 1 .. Len(x) + Len(y) :
              all[i] = IF i <= Len(x) THEN x[i] ELSE y[i - Len(x)]
    OBVIOUS
  <2> HIDE DEF all
  <2>2. /\ x # <<>> <=> Len(x) # 0
        /\ y # <<>> <=> Len(y) # 0
        /\ all # <<>> <=> Len(x) + Len(y) # 0
    BY <2>1
  <2>3. all # <<>> => all[1] = IF x # <<>> THEN x[1] ELSE y[1]
    <3> SUFFICES ASSUME all # <<>> PROVE all[1] = IF x # <<>> THEN x[1] ELSE y[1]
      OBVIOUS
    <3>1. 1 \in 1 .. Len(x) + Len(y)
      BY <2>1, <2>2
    <3>2. all[1] = IF 1 <= Len(x) THEN x[1] ELSE y[1 - Len(x)]
      BY <2>1, <3>1
    <3>3. CASE x = <<>>
      BY <2>2, <3>2, <3>3
    <3>4. CASE x # <<>>
      BY <2>1, <2>2, <3>2, <3>4
    <3> QED
      BY <3>3, <3>4
  <2>4. all # <<>> <=> x # <<>> \/ y # <<>>
    BY <2>1, <2>2
  <2> QED
    BY <2>1, <2>3, <2>4 DEF all
<1> DEFINE ab == a \o b
<1>2. /\ ab \in Seq(S)
      /\ ab # <<>> => ab[1] = IF a # <<>> THEN a[1] ELSE b[1]
      /\ ab # <<>> <=> a # <<>> \/ b # <<>>
  BY <1>1
<1> HIDE DEF ab
<1>3. /\ ab \o c \in Seq(S)
      /\ ab \o c # <<>> => (ab \o c)[1] = IF ab # <<>> THEN ab[1] ELSE c[1]
  BY <1>1, <1>2
<1>4. ab \o c # <<>> => (ab \o c)[1] = IF a # <<>> THEN a[1]
                                       ELSE IF b # <<>> THEN b[1] ELSE c[1]
  BY <1>2, <1>3
<1> QED
  BY <1>3, <1>4 DEF ab

LEMMA CombineInv == ASSUME Inv, Combine PROVE Inv'
<1> DEFINE start == Splined(StartSeq)
           goal == Splined(found["goal"])
           pieces == start \o transit \o goal
<1>0. /\ phase = "combine" /\ reply = NoReply /\ TypeInv
      /\ found["goal"] \in Seq(Conf) /\ transit \in Seq(Piece)
  BY DEF Combine, Inv, TypeInv, Sides
<1>1. CASE End("failed")
  BY <1>0, <1>1, EndInv
<1>2. CASE /\ \A p \in DOMAIN start : start[p].checked
           /\ \A p \in DOMAIN goal : goal[p].checked
           /\ IF Continuous(pieces) THEN Answer("planned", pieces)
                                    ELSE Answer("threw", <<>>)
           /\ UNCHANGED <<problem, work, found, transit>>
  <2>1. CASE ~Continuous(pieces)
    <3>1. End("threw")
      BY <1>2, <2>1 DEF End
    <3> QED
      BY <1>0, <3>1, EndInv
  <2>2. CASE Continuous(pieces)
    <3>0. /\ phase' = "answered" /\ UNCHANGED <<problem, work, found, transit>>
          /\ reply' = [status |-> "planned", pieces |-> pieces]
      BY <1>2, <2>2 DEF Answer
    <3>1. start \in Seq(Piece) /\ goal \in Seq(Piece) /\ pieces \in Seq(Piece)
      <4>1. start \in Seq(Piece) /\ goal \in Seq(Piece)
        BY <1>0, StartSeqFacts, SplinedFacts
      <4> HIDE DEF start, goal
      <4> QED
        BY <1>0, <4>1, ThreePieces
    <3>2. TypeInv'
      <4> HIDE DEF pieces
      <4>1. reply' \in [status : {"none", "failed", "threw", "planned"}, pieces : Seq(Piece)]
        BY <3>0, <3>1
      <4> QED
        BY <1>0, <3>0, <4>1 DEF TypeInv, Phases
    <3>3. WorkInv'
      BY <3>0 DEF Inv, WorkInv, Resolves, Partial, Side
    <3>4. FoundInv'
      <4>1. \A side \in Sides : Done(side)
        BY <1>0 DEF Done, Reached
      <4> QED
        BY <3>0, <4>1 DEF Inv, FoundInv, FoundOn, Resolves
    <3>5. TransitInv'
      BY <3>0 DEF TransitInv
    <3>6. ASSUME ~problem.fast
          PROVE  \A i \in DOMAIN pieces :
                   /\ pieces[i].from = IF i = 1 THEN Ref ELSE pieces[i - 1].to
                   /\ pieces[i].checked
                   /\ pieces[i].from.ok
                   /\ pieces[i].to.ok \/ problem.partial["goal"]
      <4> DEFINE Good(p) == /\ p.checked /\ p.from.ok
                            /\ p.to.ok \/ problem.partial["goal"]
      <4>1. \A p \in DOMAIN start : Good(start[p])
        BY <1>0, <1>2, StartSeqFacts, SplinedFacts
      <4>2. \A p \in DOMAIN goal : Good(goal[p])
        BY <1>0, <1>2, SplinedFacts
      <4>3. \A p \in DOMAIN transit : /\ Good(transit[p])
                                      /\ transit[p].from = From
        <5>1. CASE found["goal"] = <<>>
          BY <1>0, <5>1 DEF Inv, TransitInv
        <5>2. CASE found["goal"] # <<>>
          <6>1. /\ transit[1].from = From /\ transit[1].to = To
                /\ transit[1].checked /\ From.ok
            BY <1>0, <3>6, <5>2 DEF Inv, TransitInv
          <6>2. To.ok \/ problem.partial["goal"]
            <7>1. FoundOn("goal") /\ Done("goal")
              BY <1>0 DEF Inv, FoundInv, Done, Reached, Sides
            <7> QED
              BY <5>2, <7>1 DEF FoundOn, To
          <6>3. \A p \in DOMAIN transit : p = 1
            BY <1>0 DEF TypeInv
          <6> QED
            BY <6>1, <6>2, <6>3
        <5> QED
          BY <5>1, <5>2
      <4>4. pieces # <<>> => pieces[1].from = Ref
        <5>1. start # <<>> => 1 \in DOMAIN start
          BY <3>1
        <5>2. start # <<>> => start[1].from = Ref
          BY <5>1, <1>0, StartSeqFacts, SplinedFacts
        <5>3. start = <<>> => From = Ref
          <6>1. start = <<>> => Len(StartSeq) = 1
            <7>1. StartSeq \in Seq(Conf) /\ Len(StartSeq) \in Nat /\ Len(StartSeq) # 0
              BY <1>0, StartSeqFacts
            <7>2. start # <<>> <=> Len(StartSeq) > 1
              BY <7>1, SplinedFacts
            <7>3. \A n \in Nat : n # 0 /\ ~(n > 1) => n = 1
              OBVIOUS
            <7> HIDE DEF start
            <7> QED
              BY <7>1, <7>2, <7>3, Zenon
          <6> QED
            BY <1>0, <6>1, StartSeqFacts DEF From, Last
        <5>4. transit # <<>> => transit[1].from = From
          <6>1. transit # <<>> => 1 \in DOMAIN transit
            BY <1>0
          <6> QED
            BY <4>3, <6>1
        <5>5. transit = <<>> => goal = <<>>
          BY <1>0 DEF Inv, TransitInv, Splined
        <5> HIDE DEF start, goal
        <5>6. pieces # <<>> => pieces[1] = IF start # <<>> THEN start[1]
                                           ELSE IF transit # <<>> THEN transit[1] ELSE goal[1]
          BY <1>0, <3>1, ThreePieces
        <5>7. start = <<>> /\ transit = <<>> => pieces = <<>>
          BY <5>5
        <5> HIDE DEF pieces
        <5> QED
          BY <5>2, <5>3, <5>4, <5>6, <5>7
      <4>5. \A i \in DOMAIN pieces : Good(pieces[i])
        <5> DEFINE GoodPieces == {p \in Piece : Good(p)}
        <5>1. start \in Seq(GoodPieces) /\ transit \in Seq(GoodPieces)
              /\ goal \in Seq(GoodPieces)
          <6> HIDE DEF start, goal, Good
          <6>1. \A s \in Seq(Piece) :
                   (\A p \in DOMAIN s : Good(s[p])) => s \in Seq(GoodPieces)
            OBVIOUS
          <6> HIDE DEF GoodPieces
          <6> QED
            BY <1>0, <3>1, <4>1, <4>2, <4>3, <6>1
        <5> HIDE DEF start, goal, GoodPieces
        <5>2. pieces \in Seq(GoodPieces)
          BY <5>1, ThreePieces
        <5> HIDE DEF pieces
        <5>3. \A i \in DOMAIN pieces : pieces[i] \in GoodPieces
          BY <5>2
        <5> HIDE DEF Good
        <5> QED
          BY <5>3 DEF GoodPieces
      <4> HIDE DEF pieces
      <4>6. ASSUME NEW i \in DOMAIN pieces
            PROVE  pieces[i].from = IF i = 1 THEN Ref ELSE pieces[i - 1].to
        <5>1. i \in 1 .. Len(pieces) /\ Len(pieces) \in Nat
          BY <3>1
        <5>2. CASE i = 1
          <6>1. pieces # <<>>
            BY <5>1
          <6> QED
            BY <4>4, <5>2, <6>1
        <5>3. CASE i # 1
          <6>1. i \in 2 .. Len(pieces)
            BY <5>1, <5>3
          <6> QED
            BY <2>2, <5>3, <6>1 DEF Continuous
        <5> QED
          BY <5>2, <5>3
      <4> QED
        BY <4>5, <4>6
    <3>7. PlanStaysValid'
      <4> HIDE DEF pieces
      <4>1. reply'.pieces = pieces
        BY <3>0
      <4> QED
        BY <3>0, <3>6, <4>1 DEF PlanStaysValid
    <3> QED
      BY <3>0, <3>2, <3>3, <3>4, <3>5, <3>7 DEF Inv
  <2> QED
    BY <2>1, <2>2
<1> QED
  BY <1>1, <1>2 DEF Combine

-----------------------------------------------------------------------------
LEMMA StutterInv == ASSUME Inv, UNCHANGED vars PROVE Inv'
<1> USE DEF vars
<1>1. From' = From /\ To' = To
  BY DEF From, To, StartSeq, Last
<1>2. TypeInv' /\ WorkInv' /\ PlanStaysValid'
  BY DEF Inv, TypeInv, WorkInv, Resolves, Partial, Side, Wanted, PlanStaysValid, Planned
<1>3. FoundInv'
  BY DEF Inv, FoundInv, FoundOn, Resolves, Done, Reached, Planned
<1>4. TransitInv'
  BY <1>1 DEF Inv, TransitInv
<1> QED
  BY <1>2, <1>3, <1>4 DEF Inv

LEMMA NextInv == Inv /\ [Next]_vars => Inv'
<1> SUFFICES ASSUME Inv, [Next]_vars PROVE Inv'
  OBVIOUS
<1>1. CASE \E p \in Problems, startIsValid \in BOOLEAN : Ask(p, startIsValid)
  BY <1>1, AskInv
<1>2. CASE Solve
  <2>1. CASE \E moving \in SUBSET Arms, lucky \in BOOLEAN : Deconflict(moving, lucky)
    BY <2>1, DeconflictInv
  <2> QED
    BY <1>2, <2>1, BeginInv, ResolvePosesInv, ResolveConfInv, NotDeconflictedInv,
       DeconflictThrowsInv, PlanTransitInv, FastEstimateInv, StraightLineInv,
       GcsInv, SampleBasedInv, CombineInv, ReturnInv DEF Solve
<1>3. CASE UNCHANGED vars
  BY <1>3, StutterInv
<1> QED
  BY <1>1, <1>2, <1>3 DEF Next

-----------------------------------------------------------------------------
(* The variables of a call keep their types: in particular no more anchors  *)
(* of a side are resolved than it has, and there is at most one transit     *)
(* (solve_generalized_multimodal.cc, SolveSequentialAnchors and             *)
(* SolveGeneralizedMultiModalPlan).                                         *)
THEOREM TypeCorrect == Spec => []TypeOK
<1>1. Inv => TypeOK
  <2> SUFFICES ASSUME Inv PROVE TypeOK
    OBVIOUS
  <2>1. TypeInv /\ Resolves(work.configs, work.side)
    BY DEF Inv, WorkInv
  <2>2. transit \in {<<>>} \cup [1 .. 1 -> Piece]
    <3>1. transit \in Seq(Piece) /\ Len(transit) \in Nat /\ Len(transit) <= 1
      BY <2>1 DEF TypeInv
    <3>2. \A s \in Seq(Piece) : s \in [1 .. Len(s) -> Piece] /\ (Len(s) = 0 => s = <<>>)
      OBVIOUS
    <3>3. Len(transit) = 0 \/ Len(transit) = 1
      <4>1. \A n \in Nat : n <= 1 => n = 0 \/ n = 1
        OBVIOUS
      <4> QED
        BY <3>1, <4>1
    <3> QED
      BY <3>1, <3>2, <3>3
  <2> QED
    BY <2>1, <2>2 DEF TypeInv, TypeOK, Resolves, Work, Phases
<1> QED
  BY InitInv, NextInv, <1>1, PTL DEF Spec

(* A plan starts at the configuration of the robot, its pieces join, and    *)
(* each has been checked after its last change and is valid at its ends     *)
(* (CalcTrajectoryBestAvailablePlanner and MaybeFixArms): whatever          *)
(* the solvers, the deconfliction and the planners answer.                  *)
THEOREM PlansAreValid == Spec => []PlanStaysValid
<1>1. Inv => PlanStaysValid
  BY DEF Inv
<1> QED
  BY InitInv, NextInv, <1>1, PTL DEF Spec

(* The configurations of a plan resolve the anchors of their side in turn   *)
(* and, without partial solutions, all of them: through retries, further    *)
(* seeds, prefixes kept as the best so far and deconflictions               *)
(* (SolveSequentialAnchors).                                                *)
THEOREM AnchorsInTurn == Spec => []EveryAnchorInTurn
<1>1. Inv => EveryAnchorInTurn
  <2> SUFFICES ASSUME Inv, Planned, NEW side \in Sides
               PROVE  /\ Len(found[side]) <= Len(problem[side])
                      /\ problem.partial[side] \/ Len(found[side]) = Len(problem[side])
                      /\ \A k \in DOMAIN found[side] : \A a \in Names(problem[side][k]) :
                           /\ found[side][k].at[a].of = side
                           /\ found[side][k].at[a].number = k
    BY DEF EveryAnchorInTurn
  <2>1. FoundOn(side) /\ Done(side)
    BY DEF Inv, FoundInv, Done, Reached
  <2>2. DOMAIN found[side] = 1 .. Len(found[side])
    BY DEF Inv, TypeInv
  <2> QED
    BY <2>1, <2>2 DEF FoundOn, Resolves
<1> QED
  BY InitInv, NextInv, <1>1, PTL DEF Spec
=============================================================================
