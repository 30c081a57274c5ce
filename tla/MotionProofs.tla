---------------------------- MODULE MotionProofs ----------------------------
(***************************************************************************)
(* Proofs about AsyncPlanning, for any finite number of arms, any places   *)
(* and any motions: a reply leaves the arms that run alone, a full plan    *)
(* goes on from where the arms stand; about TrajectoryUpdate, for any      *)
(* trajectory, waypoints and limits: an update takes over without a jump;  *)
(* about Toppra, for any path of units and any limits: a profile is found  *)
(* whenever there is one, and over a steady path the fastest; about        *)
(* RegionBuilding, for any joints, boxes, points, vertices, roadmap and    *)
(* constraints: the verdicts of the inspector are what they mean and the   *)
(* cliques are sound; and about RobotModel, for any plant: the passes over *)
(* it find what is there, and the conversions of configurations agree with *)
(* one another.                                                            *)
(***************************************************************************)
EXTENDS AsyncPlanning, TrajectoryUpdate, Toppra, RegionBuilding, RobotModel,
        FiniteSetTheorems, SequenceTheorems, WellFoundedInduction, TLAPS

-----------------------------------------------------------------------------
(* Least and greatest elements.                                            *)

LEMMA LeastNat ==
    ASSUME NEW T \in SUBSET Nat, T # {}
    PROVE  \E x \in T : \A y \in T : x <= y
<1>1. IsWellFoundedOn(OpToRel(<, Nat), Nat)
  BY NatLessThanWellFounded
<1>2. PICK x \in T : \A y \in T : ~(<<y, x>> \in OpToRel(<, Nat))
  BY <1>1, WFMin
<1>3. \A y \in T : ~(y < x)
  BY <1>2 DEF OpToRel
<1>4. \A y \in T : y \in Nat /\ x \in Nat
  OBVIOUS
<1> QED
  BY <1>3, <1>4

LEMMA SetInduction ==
    ASSUME NEW S, 0 \in S, \A n \in Nat : n \in S => n + 1 \in S
    PROVE  Nat \subseteq S
<1> SUFFICES ASSUME ~(Nat \subseteq S) PROVE FALSE
  OBVIOUS
<1> DEFINE T == Nat \ S
<1>1. PICK x \in T : \A y \in T : x <= y
  <2>1. T \in SUBSET Nat /\ T # {}
    OBVIOUS
  <2> HIDE DEF T
  <2> QED
    BY <2>1, LeastNat
<1>2. x # 0 /\ x \in Nat
  OBVIOUS
<1>3. x - 1 \in Nat /\ x - 1 \notin T
  BY <1>1, <1>2
<1> QED
  BY <1>1, <1>2, <1>3

LEMMA GreatestElement ==
    ASSUME NEW S \in SUBSET Int, S # {}, IsFiniteSet(S)
    PROVE  Greatest(S) \in S /\ \A m \in S : Greatest(S) >= m
<1> DEFINE HasMax(T) == \E n \in T : \A m \in T : n >= m
           K == {k \in Nat : \A T \in SUBSET Int :
                    IsFiniteSet(T) /\ Cardinality(T) = k + 1 => HasMax(T)}
<1>1. 0 \in K
  <2> SUFFICES ASSUME NEW T \in SUBSET Int, IsFiniteSet(T), Cardinality(T) = 1
               PROVE  HasMax(T)
    OBVIOUS
  <2>1. PICK x : T = {x}
    BY FS_Singleton
  <2> QED
    BY <2>1
<1>2. ASSUME NEW k \in Nat, k \in K PROVE k + 1 \in K
  <2> SUFFICES ASSUME NEW T \in SUBSET Int, IsFiniteSet(T), Cardinality(T) = k + 2
               PROVE  HasMax(T)
    OBVIOUS
  <2>1. PICK x \in T : TRUE
    <3>1. k + 2 # 0
      OBVIOUS
    <3>2. T # {}
      BY <3>1, FS_EmptySet
    <3> QED
      BY <3>2
  <2>2. IsFiniteSet(T \ {x}) /\ Cardinality(T \ {x}) = k + 1
    BY <2>1, FS_RemoveElement
  <2>3. HasMax(T \ {x})
    BY <1>2, <2>2
  <2>4. PICK n \in T \ {x} : \A m \in T \ {x} : n >= m
    BY <2>3
  <2>5. CASE x >= n
    <3>1. \A m \in T : x >= m
      BY <2>1, <2>4, <2>5
    <3> QED
      BY <3>1
  <2>6. CASE ~(x >= n)
    <3>1. \A m \in T : n >= m
      BY <2>1, <2>4, <2>6
    <3> QED
      BY <3>1
  <2> QED
    BY <2>5, <2>6
<1>3. Nat \subseteq K
  <2> HIDE DEF K
  <2> QED
    BY <1>1, <1>2, SetInduction
<1>4. Cardinality(S) \in Nat /\ Cardinality(S) # 0
  BY FS_CardinalityType, FS_EmptySet
<1>5. Cardinality(S) - 1 \in K
  BY <1>3, <1>4
<1>6. HasMax(S)
  <2>1. (Cardinality(S) - 1) + 1 = Cardinality(S)
    BY <1>4
  <2> QED
    BY <1>5, <2>1
<1> QED
  BY <1>6 DEF Greatest

LEMMA LeastElement ==
    ASSUME NEW S \in SUBSET Nat, S # {}
    PROVE  Least(S) \in S /\ \A m \in S : Least(S) <= m
BY LeastNat DEF Least

LEMMA GreatestOfTwo ==
    ASSUME NEW x \in Int, NEW y \in Int
    PROVE  Greatest({x, y}) = IF x >= y THEN x ELSE y
<1> DEFINE g == IF x >= y THEN x ELSE y
<1>1. g \in {x, y} /\ \A m \in {x, y} : g >= m
  OBVIOUS
<1>2. \A n \in {x, y} : (\A m \in {x, y} : n >= m) => n = g
  OBVIOUS
<1> HIDE DEF g
<1>3. Greatest({x, y}) = g
  BY <1>1, <1>2 DEF Greatest
<1> QED
  BY <1>3 DEF g

LEMMA LeastOfTwo ==
    ASSUME NEW x \in Int, NEW y \in Int
    PROVE  Least({x, y}) = IF x <= y THEN x ELSE y
<1> DEFINE g == IF x <= y THEN x ELSE y
<1>1. g \in {x, y} /\ \A m \in {x, y} : g <= m
  OBVIOUS
<1>2. \A n \in {x, y} : (\A m \in {x, y} : n <= m) => n = g
  OBVIOUS
<1> HIDE DEF g
<1>3. Least({x, y}) = g
  BY <1>1, <1>2 DEF Least
<1> QED
  BY <1>3 DEF g

-----------------------------------------------------------------------------
(* Trajectories.                                                           *)

LEMMA TrajectoryFacts ==
    ASSUME NEW tr \in Trajectories
    PROVE  /\ tr.offset \in Int /\ tr.points \in Seq(Places)
           /\ Len(tr.points) \in Nat /\ Len(tr.points) >= 1
           /\ Duration(tr) \in Nat /\ Duration(tr) = Len(tr.points) - 1
           /\ End(tr) \in Int /\ End(tr) = tr.offset + Duration(tr)
           /\ 1 \in DOMAIN tr.points /\ Len(tr.points) \in DOMAIN tr.points
           /\ DOMAIN tr.points = 1 .. Len(tr.points)
<1>1. tr.offset \in Int /\ tr.points \in Seq(Places) /\ tr.points # <<>>
  BY DEF Trajectories
<1>2. Len(tr.points) \in Nat /\ Len(tr.points) # 0
  BY <1>1
<1> QED
  BY <1>1, <1>2 DEF Duration, End

(* The place at a local time: clamped on both sides. *)
LEMMA LocalFacts ==
    ASSUME NEW tr \in Trajectories, NEW t \in Int
    PROVE  /\ t <= 0 => Local(tr, t) = tr.points[1]
           /\ t >= Duration(tr) => Local(tr, t) = tr.points[Len(tr.points)]
           /\ t >= 0 /\ t <= Duration(tr) => Local(tr, t) = tr.points[t + 1]
           /\ Local(tr, t) \in Places
           /\ \E i \in DOMAIN tr.points : Local(tr, t) = tr.points[i]
<1> DEFINE L == Len(tr.points)
           g == IF t >= 0 THEN t ELSE 0
           n == IF g <= L - 1 THEN g ELSE L - 1
<1>0. /\ L \in Nat /\ L >= 1 /\ Duration(tr) = L - 1 /\ tr.points \in Seq(Places)
  BY TrajectoryFacts
<1>1. Greatest({t, 0}) = g
  BY GreatestOfTwo
<1>2. Least({g, L - 1}) = n
  BY <1>0, LeastOfTwo
<1>3. Local(tr, t) = tr.points[n + 1]
  BY <1>0, <1>1, <1>2 DEF Local
<1>4. /\ n + 1 \in 1 .. L
      /\ t <= 0 => n + 1 = 1
      /\ t >= L - 1 => n + 1 = L
      /\ t >= 0 /\ t <= L - 1 => n + 1 = t + 1
  BY <1>0
<1> HIDE DEF n, g, L
<1>5. /\ t <= 0 => Local(tr, t) = tr.points[1]
      /\ t >= L - 1 => Local(tr, t) = tr.points[L]
      /\ t >= 0 /\ t <= L - 1 => Local(tr, t) = tr.points[t + 1]
  BY <1>3, <1>4
<1>6. n + 1 \in DOMAIN tr.points /\ tr.points[n + 1] \in Places
  BY <1>0, <1>4 DEF L
<1> QED
  BY <1>0, <1>3, <1>5, <1>6 DEF L

(* Where a trajectory ends.                                                *)
LastPlace(tr) == tr.points[Len(tr.points)]

LEMMA LastFacts ==
    ASSUME NEW tr \in Trajectories
    PROVE  /\ Local(tr, Duration(tr)) = LastPlace(tr)
           /\ LastPlace(tr) \in Places
           /\ \A t \in Int : End(tr) <= t => PlaceAt(tr, t) = LastPlace(tr)
<1>1. Duration(tr) \in Int /\ Duration(tr) >= Duration(tr) /\ tr.offset \in Int
      /\ End(tr) = tr.offset + Duration(tr)
  BY TrajectoryFacts
<1>2. Local(tr, Duration(tr)) = LastPlace(tr) /\ LastPlace(tr) \in Places
  BY <1>1, LocalFacts DEF LastPlace
<1>3. ASSUME NEW t \in Int, End(tr) <= t PROVE PlaceAt(tr, t) = LastPlace(tr)
  <2>1. t - tr.offset \in Int /\ t - tr.offset >= Duration(tr)
    BY <1>1, <1>3
  <2> QED
    BY <2>1, LocalFacts DEF PlaceAt, LastPlace
<1> QED
  BY <1>2, <1>3

(* The constant beginning holds the first place for the latency and one     *)
(* unit of time more.                                                       *)
LEMMA PrependFacts ==
    ASSUME NEW P, NEW pts \in Seq(P), pts # <<>>, NEW n \in Nat
    PROVE  LET all == PrependConstant(pts, n) IN
           /\ all \in Seq(P) /\ all # <<>>
           /\ Len(all) = n + Len(pts)
           /\ \A i \in 1 .. n + 1 : i \in DOMAIN all /\ all[i] = pts[1]
           /\ all[Len(all)] = pts[Len(pts)]
<1> DEFINE hold == [i \in 1 .. n |-> pts[1]]
           all == hold \o pts
<1>0. Len(pts) \in Nat /\ Len(pts) >= 1 /\ DOMAIN pts = 1 .. Len(pts)
  BY EmptySeq
<1>1. pts[1] \in P /\ 1 \in DOMAIN pts /\ Len(pts) \in DOMAIN pts
  BY <1>0
<1>2. hold \in Seq(P) /\ Len(hold) = n /\ \A i \in 1 .. n : hold[i] = pts[1]
  BY <1>1
<1> HIDE DEF hold
<1>3. /\ all \in Seq(P) /\ Len(all) = n + Len(pts)
      /\ \A i \in 1 .. Len(all) : all[i] = IF i <= n THEN hold[i] ELSE pts[i - n]
  <2>1. /\ all \in Seq(P) /\ Len(all) = Len(hold) + Len(pts)
        /\ \A i \in 1 .. Len(hold) + Len(pts) :
               all[i] = IF i <= Len(hold) THEN hold[i] ELSE pts[i - Len(hold)]
    <3>1. hold \in Seq(P) /\ pts \in Seq(P)
      BY <1>2
    <3> QED
      BY <3>1, ConcatProperties
  <2> QED
    BY <1>2, <2>1
<1>4. DOMAIN all = 1 .. Len(all)
  BY <1>3
<1>5. ASSUME NEW i \in 1 .. n + 1 PROVE i \in DOMAIN all /\ all[i] = pts[1]
  <2>1. i \in 1 .. Len(all)
    BY <1>0, <1>3
  <2>2. CASE i <= n
    BY <1>2, <1>3, <1>4, <2>1, <2>2
  <2>3. CASE ~(i <= n)
    <3>1. i - n = 1
      BY <2>3
    <3> QED
      BY <1>3, <1>4, <2>1, <2>3, <3>1
  <2> QED
    BY <2>2, <2>3
<1>6. all[Len(all)] = pts[Len(pts)] /\ all # <<>>
  <2>1. Len(all) \in 1 .. Len(all) /\ ~(Len(all) <= n) /\ Len(all) - n = Len(pts)
    BY <1>0, <1>3
  <2>2. all # <<>>
    <3>1. Len(all) # 0
      BY <1>0, <1>3
    <3> HIDE DEF all
    <3> QED
      BY <3>1
  <2> QED
    BY <1>3, <2>1, <2>2
<1>7. PrependConstant(pts, n) = all
  BY DEF PrependConstant, hold
<1> HIDE DEF all
<1> QED
  BY <1>3, <1>5, <1>6, <1>7

LEMMA SliceFacts ==
    ASSUME NEW tr \in Trajectories, NEW t \in Int, tr.offset <= t, t <= End(tr)
    PROVE  SliceFromTime(tr, t) \in Trajectories
<1> DEFINE L == Len(tr.points)
           m == t - tr.offset + 1
           s == SubSeq(tr.points, m, L)
<1>0. tr.points \in Seq(Places) /\ L \in Nat /\ L >= 1 /\ End(tr) = tr.offset + (L - 1)
      /\ tr.offset \in Int
  BY TrajectoryFacts
<1>a. 0 <= t - tr.offset /\ t - tr.offset <= L - 1 /\ t - tr.offset \in Int
  BY <1>0
<1>1. m \in 1 .. L /\ L - m + 1 \in 1 .. L /\ m <= L /\ m + (L - m + 1) - 1 = L
  <2> DEFINE d == t - tr.offset
  <2>1. L \in Nat /\ d \in Int /\ 0 <= d /\ d <= L - 1 /\ m = d + 1
    BY <1>0, <1>a
  <2> HIDE DEF L, m, d
  <2> QED BY <2>1
<1>2. /\ s \in Seq(Places) /\ Len(s) = L - m + 1
      /\ \A i \in 1 .. L - m + 1 : s[i] = tr.points[m + i - 1]
  <2> HIDE DEF m, L
  <2>1. m \in 1 .. L + 1
    BY <1>0, <1>1
  <2> QED
    BY <1>0, <1>1, <2>1, SubSeqProperties DEF L
<1>3. SliceFromTime(tr, t) = [offset |-> t, points |-> s]
  BY DEF SliceFromTime
<1> HIDE DEF s
<1>4. s # <<>>
  BY <1>0, <1>1, <1>2
<1> QED
  BY <1>2, <1>3, <1>4 DEF Trajectories

(* Beginnings and ends of a path have no other places than the path.       *)
LEMMA PieceFacts ==
    ASSUME NEW P, NEW pts \in Seq(P), pts # <<>>,
           NEW m \in 1 .. Len(pts), NEW n \in m .. Len(pts)
    PROVE  SubSeq(pts, m, n) \in Seq(P) /\ SubSeq(pts, m, n) # <<>>
<1> DEFINE s == SubSeq(pts, m, n)
<1>1. \A i \in m .. n : pts[i] \in P
  OBVIOUS
<1>2. s \in Seq(P) /\ Len(s) = n - m + 1
  BY <1>1, SubSeqProperties
<1>3. Len(s) # 0
  BY <1>2
<1> HIDE DEF s
<1> QED
  BY <1>2, <1>3

LEMMA UptoFacts ==
    ASSUME NEW P, NEW pts \in Seq(P), pts # <<>>, NEW n \in Nat
    PROVE  Upto(pts, n) \in Seq(P) /\ Upto(pts, n) # <<>>
<1>1. Len(pts) \in Nat /\ Len(pts) # 0
  OBVIOUS
<1> DEFINE m == IF n + 1 <= Len(pts) THEN n + 1 ELSE Len(pts)
<1>2. Least({n + 1, Len(pts)}) = m
  BY <1>1, LeastOfTwo
<1>3. 1 \in 1 .. Len(pts) /\ m \in 1 .. Len(pts)
  BY <1>1
<1> HIDE DEF m
<1>4. Upto(pts, n) = SubSeq(pts, 1, m)
  BY <1>2 DEF Upto
<1> QED
  BY <1>3, <1>4, PieceFacts

LEMMA RemoveFacts ==
    ASSUME NEW P, NEW pts \in Seq(P), pts # <<>>
    PROVE  /\ RemoveConstantPrepend(pts) \in Seq(P)
           /\ RemoveConstantPrepend(pts) # <<>>
<1> DEFINE moves == {i \in 1 .. (Len(pts) - 1) : pts[i + 1] # pts[i]}
<1>1. Len(pts) \in Nat /\ Len(pts) # 0
  OBVIOUS
<1>2. CASE moves = {}
  BY <1>2 DEF RemoveConstantPrepend
<1>3. CASE moves # {}
  <2>1. moves \in SUBSET Nat
    BY <1>1
  <2>2. Least(moves) \in moves
    <3> HIDE DEF moves
    <3> QED
      BY <1>3, <2>1, LeastElement
  <2>3. Least(moves) \in 1 .. Len(pts) /\ Len(pts) \in Least(moves) .. Len(pts)
    BY <1>1, <2>2
  <2>4. RemoveConstantPrepend(pts) = SubSeq(pts, Least(moves), Len(pts))
    BY <1>3 DEF RemoveConstantPrepend
  <2> HIDE DEF moves
  <2> QED
    BY <2>3, <2>4, PieceFacts
<1> QED
  BY <1>2, <1>3

-----------------------------------------------------------------------------
(* The latency and the check.                                              *)

LEMMA FiniteImage ==
    ASSUME NEW D, IsFiniteSet(D), NEW R, NEW f \in [D -> R]
    PROVE  IsFiniteSet({f[d] : d \in D})
<1>1. f \in Surjection(D, {f[d] : d \in D})
  <2>1. f \in [D -> {f[d] : d \in D}]
    OBVIOUS
  <2> QED
    BY <2>1 DEF Surjection
<1> QED
  BY <1>1, FS_Surjection

(* Greatest of finitely many times, one for each arm of a set.             *)
LEMMA GreatestOfArms ==
    ASSUME NEW D \in SUBSET Arms, NEW f \in [D -> Int], NEW x \in Int
    PROVE  LET T == {x} \cup {f[a] : a \in D} IN
           /\ Greatest(T) \in Int /\ Greatest(T) >= x
           /\ \A a \in D : Greatest(T) >= f[a]
<1> DEFINE T == {x} \cup {f[a] : a \in D}
<1>1. IsFiniteSet(D)
  BY AsyncAssumption, FS_Subset
<1>2. IsFiniteSet({f[a] : a \in D})
  BY <1>1, FiniteImage
<1>3. T = {f[a] : a \in D} \cup {x}
  OBVIOUS
<1>4. IsFiniteSet(T)
  BY <1>2, <1>3, FS_AddElement
<1>5. T \in SUBSET Int /\ T # {} /\ x \in T /\ \A a \in D : f[a] \in T
  OBVIOUS
<1> HIDE DEF T
<1>6. Greatest(T) \in T /\ \A m \in T : Greatest(T) >= m
  BY <1>4, <1>5, GreatestElement
<1>7. Greatest(T) \in Int /\ Greatest(T) >= x /\ \A a \in D : Greatest(T) >= f[a]
  BY <1>5, <1>6
<1> QED
  BY <1>7 DEF T

LEMMA LatencyFacts ==
    ASSUME now \in Nat, Active \subseteq Arms,
           \A a \in Active : ask.active[a] \in Trajectories, NEW d \in Nat
    PROVE  CalcLatencyTime(d) \in Nat /\ CalcLatencyTime(d) >= Comms
<1> DEFINE f == [a \in Active |-> End(ask.active[a]) - now]
           T == {d} \cup {f[a] : a \in Active}
<1>1. f \in [Active -> Int]
  <2>1. \A a \in Active : End(ask.active[a]) - now \in Int
    BY TrajectoryFacts
  <2> QED
    BY <2>1
<1>2. Greatest(T) \in Int /\ Greatest(T) >= d
  <2> HIDE DEF f
  <2>1. Active \in SUBSET Arms /\ d \in Int
    OBVIOUS
  <2> QED
    BY <1>1, <2>1, GreatestOfArms
<1>3. T = {d} \cup {End(ask.active[a]) - now : a \in Active}
  OBVIOUS
<1> DEFINE g == Greatest(T)
<1>4. g \in Nat /\ PerCall \in Nat /\ Comms \in Nat
  BY <1>2, AsyncAssumption
<1>5. CalcLatencyTime(d) = g * PerCall + Comms
  BY <1>3 DEF CalcLatencyTime
<1> HIDE DEF g
<1>6. g * PerCall \in Nat
  BY <1>4
<1> QED
  BY <1>4, <1>5, <1>6

-----------------------------------------------------------------------------
(* The inductive invariant.                                                *)

(* The clock, the trajectories and the phase of the request.               *)
TypeInv ==
    /\ now \in Nat
    /\ exec \in [Arms -> Trajectories]
    /\ phase \in {"idle", "solve", "check", "reply"}

(* What a request says of the arms stays true while it is in flight.       *)
AskInv ==
    /\ ask.at \in Nat /\ ask.at <= now
    /\ ask.kind \in Kinds /\ ask.arm \in Arms
    /\ ask.current = exec[ask.arm]
    /\ Active \subseteq Arms
    /\ \A a \in Active : ask.active[a] = exec[a]
    /\ \A a \in Arms : ask.start[a] = PlaceAt(exec[a], ask.at)
    /\ \A a \in Arms \ Active : End(exec[a]) <= ask.at

(* The trajectories to check are of arms, and each has a type.             *)
SystemInv ==
    /\ DOMAIN sys \subseteq Arms /\ DOMAIN type = DOMAIN sys
    /\ \A a \in DOMAIN sys : sys[a] \in Trajectories

(* An update to check: no arm but the target has a type that is returned.  *)
UpdateChecked ==
    /\ ask.kind = "update"
    /\ \A a \in DOMAIN sys : a # ask.arm => type[a] = "kUndefined"

(* An active arm is not returned.                                          *)
RunningKept == \A a \in Active : type[a] = "kRunningNoUpdate"

(* Beside active arms a plan begins late and with a hold.                  *)
LatencyHeld ==
    Active # {} =>
        \A a \in Arms \ Active :
            /\ sys[a].offset = since + latency
            /\ Len(sys[a].points) >= latency + 1
            /\ \A i \in 1 .. latency + 1 : sys[a].points[i] = ask.start[a]

(* A new plan to check.                                                    *)
NewChecked ==
    /\ ask.kind = "new"
    /\ since \in Nat /\ since <= now
    /\ latency \in Nat /\ latency >= Comms
    /\ DOMAIN sys = Arms
    /\ RunningKept
    /\ LatencyHeld

(* What an arm will execute after the delivery.                            *)
Executed(a) == IF a \in DOMAIN reply.sys THEN reply.sys[a] ELSE exec[a]

(* The reply: what it may move, and that it starts late enough.            *)
ReplyInv ==
    /\ sent \in Nat /\ sent <= now /\ now <= sent + Comms
    /\ DOMAIN reply.sys \subseteq Arms
    /\ \A a \in DOMAIN reply.sys : reply.sys[a] \in Trajectories
    /\ \A a \in DOMAIN reply.sys :
          \/ ask.kind = "new" /\ a \notin Active
          \/ ask.kind = "update" /\ a = ask.arm
    /\ reply.status = "kFull" /\ ask.kind = "new" /\ Active # {} =>
          \A a \in DOMAIN reply.sys : \A t \in Int :
              t <= sent + Comms => PlaceAt(reply.sys[a], t) = ask.start[a]

Inv ==
    /\ TypeInv
    /\ phase # "idle" => AskInv
    /\ phase = "check" => SystemInv /\ (UpdateChecked \/ NewChecked)
    /\ phase = "reply" => ReplyInv

LEMMA InitInv == Init => Inv
<1> SUFFICES ASSUME Init PROVE Inv
  OBVIOUS
<1>1. PICK p \in [Arms -> Places] : exec = [a \in Arms |-> Stand(p[a])]
  BY DEF Init
<1>2. \A a \in Arms : Stand(p[a]) \in Trajectories
  <2> SUFFICES ASSUME NEW a \in Arms PROVE Stand(p[a]) \in Trajectories
    OBVIOUS
  <2>1. <<p[a]>> \in Seq(Places) /\ <<p[a]>> # <<>>
    OBVIOUS
  <2> QED
    BY <2>1 DEF Stand, Trajectories
<1> QED
  BY <1>1, <1>2 DEF Init, Inv, TypeInv

(* An answer without trajectories.                                         *)
LEMMA EmptyAnswer ==
    ASSUME Inv, phase # "idle", NEW status \in {"failure", "kAsyncActiveResource", "kAsyncCollision"},
           Answer(status, <<>>), UNCHANGED <<now, exec, ask>>
    PROVE  Inv'
<1>1. DOMAIN <<>> = {}
  OBVIOUS
<1>2. DOMAIN reply'.sys = {} /\ reply'.status = status /\ sent' = now /\ phase' = "reply"
  BY <1>1 DEF Answer
<1>3. now \in Nat /\ Comms \in Nat
  BY AsyncAssumption DEF Inv, TypeInv
<1>4. TypeInv' /\ AskInv'
  BY <1>2 DEF Inv, TypeInv, AskInv, Active
<1>5. ReplyInv'
  BY <1>2, <1>3 DEF ReplyInv
<1> QED
  BY <1>2, <1>4, <1>5 DEF Inv

LEMMA TickInv == Inv /\ Tick => Inv'
<1> SUFFICES ASSUME Inv, Tick PROVE Inv'
  OBVIOUS
<1>1. /\ now \in Nat /\ now' = now + 1 /\ Comms \in Nat
      /\ UNCHANGED <<exec, phase, ask, since, latency, sys, type, reply, sent>>
      /\ phase = "reply" => now < sent + Comms
  BY AsyncAssumption DEF Tick, Inv, TypeInv
<1>2. TypeInv'
  BY <1>1 DEF Inv, TypeInv
<1>3. (phase # "idle" => AskInv)'
  BY <1>1 DEF Inv, AskInv, Active
<1>4. (phase = "check" => SystemInv /\ (UpdateChecked \/ NewChecked))'
  BY <1>1 DEF Inv, SystemInv, UpdateChecked, NewChecked, RunningKept, LatencyHeld, Active
<1>5. (phase = "reply" => ReplyInv)'
  <2> SUFFICES ASSUME phase' = "reply" PROVE ReplyInv'
    OBVIOUS
  <2>1. ReplyInv /\ sent \in Nat
    BY <1>1 DEF Inv, ReplyInv
  <2>2. sent <= now + 1 /\ now + 1 <= sent + Comms
    BY <1>1, <2>1 DEF ReplyInv
  <2> QED
    BY <1>1, <2>1, <2>2 DEF ReplyInv, Active
<1> QED
  BY <1>2, <1>3, <1>4, <1>5 DEF Inv

LEMMA RequestInv == Inv /\ Request => Inv'
<1> SUFFICES ASSUME Inv, Request PROVE Inv'
  OBVIOUS
<1>1. /\ now \in Nat /\ phase' = "solve" /\ UNCHANGED <<now, exec>>
      /\ exec \in [Arms -> Trajectories]
  BY DEF Request, Inv, TypeInv
<1>2. PICK k \in Kinds, a \in Arms, more \in SUBSET Arms :
          ask' = [kind |-> k, arm |-> a, at |-> now,
                  start |-> [b \in Arms |-> PlaceNow(b)], current |-> exec[a],
                  active |-> [b \in more \cup {c \in Arms : Running(c)} |-> exec[b]]]
  BY DEF Request
<1>3. \A b \in Arms : End(exec[b]) \in Int
  BY <1>1, TrajectoryFacts
<1>4. AskInv'
  <2>1. Active' = more \cup {c \in Arms : Running(c)}
    BY <1>2 DEF Active
  <2>2. \A b \in Arms \ Active' : End(exec[b]) <= now
    BY <1>1, <1>3, <2>1 DEF Running
  <2>3. /\ ask'.at = now /\ ask'.kind = k /\ ask'.arm = a /\ ask'.current = exec[a]
        /\ \A b \in Arms : ask'.start[b] = PlaceAt(exec[b], now)
        /\ \A b \in Active' : ask'.active[b] = exec[b]
    BY <1>2, <2>1 DEF PlaceNow
  <2>4. Active' \subseteq Arms
    BY <2>1
  <2> HIDE DEF Active
  <2> QED
    BY <1>1, <2>2, <2>3, <2>4 DEF AskInv
<1> QED
  BY <1>1, <1>4 DEF Inv, TypeInv

LEMMA SolveFailsInv == Inv /\ SolveFails => Inv'
BY EmptyAnswer DEF SolveFails

LEMMA DeliverInv == Inv /\ Deliver => Inv'
<1> SUFFICES ASSUME Inv, Deliver PROVE Inv'
  OBVIOUS
<1>1. /\ exec' = [a \in Arms |-> IF a \in DOMAIN reply.sys THEN reply.sys[a] ELSE exec[a]]
      /\ phase' = "idle" /\ now' = now /\ ReplyInv
  BY DEF Deliver, Inv
<1>2. exec' \in [Arms -> Trajectories]
  BY <1>1 DEF ReplyInv, Inv, TypeInv
<1> QED
  BY <1>1, <1>2 DEF Inv, TypeInv

-----------------------------------------------------------------------------
(* A new plan.                                                             *)

LEMMA PlanPaths ==
    ASSUME NEW m \in Plans
    PROVE  \E n \in Nat :
              /\ n >= 1
              /\ \A a \in Arms : /\ m[a] \in Seq(Places) /\ m[a] # <<>>
                                 /\ Len(m[a]) = n
                                 /\ m[a][1] = ask.start[a]
<1>1. PICK n \in 1 .. MaxLength :
          /\ m \in [Arms -> [1 .. n -> Places]]
          /\ \A a \in Arms : m[a][1] = ask.start[a]
  BY DEF Plans
<1>2. n \in Nat /\ n >= 1
  BY AsyncAssumption
<1>3. ASSUME NEW a \in Arms
      PROVE  m[a] \in Seq(Places) /\ m[a] # <<>> /\ Len(m[a]) = n
  <2>1. m[a] \in [1 .. n -> Places]
    BY <1>1
  <2>2. m[a] \in Seq(Places) /\ Len(m[a]) = n
    BY <1>2, <2>1
  <2> QED
    BY <1>2, <2>2
<1> QED
  BY <1>1, <1>2, <1>3

(* The path of an arm in the new trajectory, with the hold of the latency. *)
LEMMA HeldPath ==
    ASSUME NEW pts \in Seq(Places), pts # <<>>, NEW l \in Nat,
           NEW held, held = IF InvolvesAsync THEN PrependConstant(pts, l) ELSE pts
    PROVE  /\ held \in Seq(Places) /\ held # <<>>
           /\ InvolvesAsync => /\ Len(held) >= l + 1
                               /\ \A i \in 1 .. l + 1 : held[i] = pts[1]
<1>1. CASE ~InvolvesAsync
  BY <1>1
<1>2. CASE InvolvesAsync
  <2>1. held = PrependConstant(pts, l)
    BY <1>2
  <2>2. Len(pts) \in Nat /\ Len(pts) >= 1
    <3>1. Len(pts) \in Nat /\ Len(pts) # 0
      OBVIOUS
    <3> QED
      BY <3>1
  <2>3. /\ held \in Seq(Places) /\ held # <<>> /\ Len(held) = l + Len(pts)
        /\ \A i \in 1 .. l + 1 : held[i] = pts[1]
    BY <2>1, PrependFacts
  <2>4. Len(held) >= l + 1
    BY <2>2, <2>3
  <2> QED
    BY <1>2, <2>3, <2>4
<1> QED
  BY <1>1, <1>2

LEMMA SolveNewInv == Inv /\ SolveNew => Inv'
<1> SUFFICES ASSUME Inv, SolveNew PROVE Inv'
  OBVIOUS
<1>0. /\ phase = "solve" /\ ask.kind = "new" /\ UNCHANGED <<now, exec, ask>>
      /\ now \in Nat /\ exec \in [Arms -> Trajectories] /\ AskInv
  BY DEF SolveNew, Inv, TypeInv
<1>1. PICK m \in Plans :
        LET l == CalcLatencyTime(Len(m[ask.arm]) - 1)
            new == [a \in Arms |->
                      [offset |-> now + l,
                       points |-> IF InvolvesAsync THEN PrependConstant(m[a], l) ELSE m[a]]]
            combined == Combine(new, [a \in Arms |-> NewType(a, m[a])])
        IN /\ since' = now
           /\ latency' = l
           /\ \/ ask.arm \in Active /\ Answer("kAsyncActiveResource", <<>>)
                 /\ UNCHANGED <<sys, type>>
              \/ NotStarted /\ Answer("failure", <<>>) /\ UNCHANGED <<sys, type>>
              \/ /\ ask.arm \notin Active /\ ~NotStarted
                 /\ sys' = combined.sys
                 /\ type' = combined.type
                 /\ phase' = "check"
                 /\ UNCHANGED <<reply, sent>>
  BY DEF SolveNew
<1> DEFINE l == CalcLatencyTime(Len(m[ask.arm]) - 1)
           path == [a \in Arms |-> IF InvolvesAsync THEN PrependConstant(m[a], l) ELSE m[a]]
           new == [a \in Arms |->
                      [offset |-> now + l,
                       points |-> IF InvolvesAsync THEN PrependConstant(m[a], l) ELSE m[a]]]
           types == [a \in Arms |-> NewType(a, m[a])]
<1>2. CASE Answer("kAsyncActiveResource", <<>>)
  BY <1>0, <1>2, EmptyAnswer
<1>3. CASE Answer("failure", <<>>)
  BY <1>0, <1>3, EmptyAnswer
<1>4. CASE /\ ask.arm \notin Active /\ ~NotStarted
           /\ since' = now /\ latency' = l
           /\ sys' = Combine(new, types).sys /\ type' = Combine(new, types).type
           /\ phase' = "check"
  <2>1. PICK n \in Nat :
              /\ n >= 1
              /\ \A a \in Arms : /\ m[a] \in Seq(Places) /\ m[a] # <<>>
                                 /\ Len(m[a]) = n
                                 /\ m[a][1] = ask.start[a]
    BY PlanPaths
  <2>2. /\ ask.arm \in Arms /\ Active \subseteq Arms
        /\ \A a \in Active : ask.active[a] = exec[a] /\ ask.active[a] \in Trajectories
    BY <1>0 DEF AskInv
  <2>3. l \in Nat /\ l >= Comms
    <3>1. Len(m[ask.arm]) - 1 \in Nat
      BY <2>1, <2>2
    <3> QED
      BY <1>0, <2>2, <3>1, LatencyFacts
  <2> HIDE DEF l
  <2>4. ASSUME NEW a \in Arms
        PROVE  /\ path[a] \in Seq(Places) /\ path[a] # <<>>
               /\ InvolvesAsync => /\ Len(path[a]) >= l + 1
                                   /\ \A i \in 1 .. l + 1 : path[a][i] = ask.start[a]
    <3>1. path[a] = IF InvolvesAsync THEN PrependConstant(m[a], l) ELSE m[a]
      OBVIOUS
    <3> HIDE DEF path
    <3>2. m[a] \in Seq(Places) /\ m[a] # <<>> /\ Len(m[a]) = n /\ m[a][1] = ask.start[a]
      BY <2>1
    <3>3. /\ path[a] \in Seq(Places) /\ path[a] # <<>>
          /\ InvolvesAsync => /\ Len(path[a]) >= l + 1
                              /\ \A i \in 1 .. l + 1 : path[a][i] = m[a][1]
      BY <2>3, <3>1, <3>2, HeldPath DEF InvolvesAsync
    <3> QED
      BY <3>2, <3>3
  <2>5. \A a \in Arms : new[a].offset = now + l /\ new[a].points = path[a]
    OBVIOUS
  <2>6. \A a \in Arms : new[a] \in Trajectories
    <3> SUFFICES ASSUME NEW a \in Arms PROVE new[a] \in Trajectories
      OBVIOUS
    <3>1. new[a] = [offset |-> now + l, points |-> path[a]] /\ now + l \in Int
      BY <1>0, <2>3
    <3> HIDE DEF new, path
    <3> QED
      BY <2>4, <3>1 DEF Trajectories
  <2>7. /\ sys' = [a \in Arms |-> IF a \in Active /\ now <= End(ask.active[a])
                                 THEN SliceFromTime(ask.active[a], now) ELSE new[a]]
        /\ type' = [a \in Arms |-> IF a \in Active THEN "kRunningNoUpdate" ELSE types[a]]
    BY <1>4 DEF Combine
  <2>8. \A a \in Arms : types[a] = NewType(a, m[a])
    OBVIOUS
  <2> HIDE DEF new, path, types
  <2>9. \A a \in Active : now <= End(exec[a]) =>
           SliceFromTime(ask.active[a], now) \in Trajectories
    <3> SUFFICES ASSUME NEW a \in Active, now <= End(exec[a])
                 PROVE  SliceFromTime(ask.active[a], now) \in Trajectories
      OBVIOUS
    <3>1. exec[a] \in Trajectories /\ exec[a].offset \in Int
      BY <1>0, <2>2, TrajectoryFacts
    <3>2. exec[a].offset <= now
      BY <1>0, <1>4, <2>2, <3>1 DEF NotStarted
    <3> QED
      BY <1>0, <2>2, <3>1, <3>2, SliceFacts
  <2>10. /\ DOMAIN sys' = Arms /\ DOMAIN type' = Arms
         /\ \A a \in Arms : sys'[a] \in Trajectories
         /\ \A a \in Arms \ Active : sys'[a] = new[a] /\ type'[a] = types[a]
    BY <2>2, <2>6, <2>7, <2>9
  <2>11. SystemInv'
    BY <2>10 DEF SystemInv
  <2>12. \A a \in Active : type'[a] = "kRunningNoUpdate"
    BY <2>2, <2>7
  <2>13. Active # {} => \A a \in Arms \ Active :
            /\ sys'[a].offset = now + l
            /\ Len(sys'[a].points) >= l + 1
            /\ \A i \in 1 .. l + 1 : sys'[a].points[i] = ask.start[a]
    BY <2>4, <2>5, <2>10 DEF InvolvesAsync
  <2>14. Active' = Active
    BY <1>0 DEF Active
  <2>15. NewChecked'
    <3>1. RunningKept'
      BY <1>0, <2>12, <2>14 DEF RunningKept
    <3>2. LatencyHeld'
      BY <1>0, <1>4, <2>13, <2>14 DEF LatencyHeld
    <3> QED
      BY <1>0, <1>4, <2>3, <2>10, <2>14, <3>1, <3>2 DEF NewChecked
  <2>16. TypeInv' /\ AskInv'
    BY <1>0, <1>4, <2>14 DEF TypeInv, AskInv
  <2> QED
    BY <1>4, <2>11, <2>15, <2>16 DEF Inv
<1> QED
  BY <1>1, <1>2, <1>3, <1>4

-----------------------------------------------------------------------------
(* An update.                                                              *)

LEMMA UpdatePaths ==
    ASSUME ask.current \in Trajectories, now \in Nat, ask.at \in Nat, NEW pts \in Updates
    PROVE  pts \in Seq(Places) /\ pts # <<>>
<1> DEFINE old == ask.current
           leaving == ask.at - old.offset + (now - ask.at) + SwitchAfter
           n == (IF leaving >= 0 THEN leaving ELSE 0) + 1
           prefix == [i \in 1 .. n |-> Local(old, i - 1)]
<1>1. old.offset \in Int /\ SwitchAfter \in Nat /\ MaxLength \in Nat
  BY TrajectoryFacts, AsyncAssumption
<1>2. leaving \in Int /\ n \in Nat /\ n >= 1
  BY <1>1
<1> HIDE DEF leaving
<1>3. Greatest({leaving, 0}) + 1 = n
  BY <1>2, GreatestOfTwo
<1>4. PICK rest \in UNION {[1..k -> Places] : k \in 0..MaxLength - 1} : pts = prefix \o rest
  BY <1>3 DEF Updates, leaving
<1>5. rest \in Seq(Places)
  <2>1. PICK k \in 0 .. MaxLength - 1 : rest \in [1 .. k -> Places]
    OBVIOUS
  <2>2. k \in Nat
    BY <1>1
  <2> QED
    BY <2>1, <2>2
<1> HIDE DEF n
<1>6. \A i \in 1 .. n : Local(old, i - 1) \in Places
  <2> SUFFICES ASSUME NEW i \in 1 .. n PROVE Local(old, i - 1) \in Places
    OBVIOUS
  <2>1. i - 1 \in Int
    BY <1>2
  <2> QED
    BY <2>1, LocalFacts
<1>7. prefix \in Seq(Places) /\ Len(prefix) = n
  BY <1>2, <1>6
<1> HIDE DEF prefix
<1>8. pts \in Seq(Places) /\ Len(pts) = Len(prefix) + Len(rest)
  BY <1>4, <1>5, <1>7, ConcatProperties
<1>9. Len(pts) # 0
  BY <1>2, <1>5, <1>7, <1>8
<1> QED
  BY <1>8, <1>9

LEMMA SolveUpdateInv == Inv /\ SolveUpdate => Inv'
<1> SUFFICES ASSUME Inv, SolveUpdate PROVE Inv'
  OBVIOUS
<1>0. /\ phase = "solve" /\ ask.kind = "update" /\ phase' = "check"
      /\ UNCHANGED <<now, exec, ask>>
      /\ now \in Nat /\ exec \in [Arms -> Trajectories] /\ AskInv
  BY DEF SolveUpdate, Inv, TypeInv
<1>1. PICK pts \in Updates :
        /\ sys' = [a \in Active \cup {ask.arm} |->
                       IF a = ask.arm THEN [ask.current EXCEPT !.points = pts]
                                      ELSE ask.active[a]]
        /\ type' = [a \in Active \cup {ask.arm} |->
                       IF a = ask.arm THEN "kUpdate" ELSE "kUndefined"]
  BY DEF SolveUpdate
<1>2. /\ ask.arm \in Arms /\ Active \subseteq Arms /\ ask.current \in Trajectories
      /\ ask.at \in Nat
      /\ \A a \in Active : ask.active[a] \in Trajectories
  BY <1>0 DEF AskInv
<1>3. pts \in Seq(Places) /\ pts # <<>>
  BY <1>0, <1>2, UpdatePaths
<1>4. [ask.current EXCEPT !.points = pts] \in Trajectories
  BY <1>2, <1>3 DEF Trajectories
<1>5. SystemInv'
  BY <1>1, <1>2, <1>4 DEF SystemInv
<1>6. UpdateChecked'
  BY <1>0, <1>1 DEF UpdateChecked
<1>7. TypeInv' /\ AskInv'
  BY <1>0 DEF TypeInv, AskInv, Active
<1> QED
  BY <1>0, <1>5, <1>6, <1>7 DEF Inv

-----------------------------------------------------------------------------
(* The check.                                                              *)

(* The movable arms, stopped at a time, have trajectories still.           *)
LEMMA StopAtFacts ==
    ASSUME SystemInv, NEW t \in Nat, NEW retimed \in SUBSET Movable
    PROVE  /\ DOMAIN StopAt(t, retimed) = DOMAIN sys
           /\ \A a \in DOMAIN sys : StopAt(t, retimed)[a] \in Trajectories
<1> SUFFICES ASSUME NEW a \in DOMAIN sys
             PROVE  StopAt(t, retimed)[a] \in Trajectories
  BY DEF StopAt
<1>0. /\ sys[a] \in Trajectories /\ sys[a] \in [offset : Int, points : Seq(Places)]
      /\ sys[a].points \in Seq(Places) /\ sys[a].points # <<>>
  BY DEF SystemInv, Trajectories
<1> DEFINE cut == Upto(sys[a].points, t)
<1>1. cut \in Seq(Places) /\ cut # <<>>
  BY <1>0, UptoFacts
<1>2. CASE a \in retimed
  <2>1. StopAt(t, retimed)[a] = [offset |-> 0, points |-> RemoveConstantPrepend(cut)]
    BY <1>2 DEF StopAt
  <2> HIDE DEF cut
  <2>2. RemoveConstantPrepend(cut) \in Seq(Places) /\ RemoveConstantPrepend(cut) # <<>>
    BY <1>1, RemoveFacts
  <2> QED
    BY <2>1, <2>2 DEF Trajectories
<1>3. CASE a \in Movable \ retimed
  <2>1. StopAt(t, retimed)[a] = [sys[a] EXCEPT !.points = cut]
    BY <1>3 DEF StopAt
  <2> HIDE DEF cut
  <2> QED
    BY <1>0, <1>1, <2>1 DEF Trajectories
<1>4. CASE a \notin Movable
  BY <1>0, <1>4 DEF StopAt
<1> QED
  BY <1>2, <1>3, <1>4

(* What the best approach finds is the movable arms stopped at a time.     *)
LEMMA BestApproachFacts ==
    ASSUME CollisionTimes(sys) # {}, latency \in Nat, NEW lo \in Nat, NEW hi \in Nat,
           NEW retimed, BestApproach(lo, hi, retimed) # None
    PROVE  \E t \in Nat : BestApproach(lo, hi, retimed) = StopAt(t, retimed)
<1> DEFINE best == Least(CollisionTimes(sys)) - Buffer
           upper == IF best <= hi + latency THEN best ELSE hi + latency
           clear == {t \in (lo + latency)..Least({best, hi + latency}) :
                        CollisionTimes(StopAt(t, retimed)) = {}}
<1>1. best \in Int
  <2>1. CollisionTimes(sys) \in SUBSET Nat
    BY DEF CollisionTimes
  <2>2. Least(CollisionTimes(sys)) \in Nat
    BY <2>1, LeastElement
  <2> QED
    BY <2>2, AsyncAssumption
<1> HIDE DEF best
<1>2. Least({best, hi + latency}) = upper /\ upper \in Int
  BY <1>1, LeastOfTwo
<1>3. clear \in SUBSET ((lo + latency) .. upper)
  BY <1>2
<1>4. IsFiniteSet(clear) /\ clear \in SUBSET Nat
  <2>1. lo + latency \in Nat
    OBVIOUS
  <2> HIDE DEF clear, upper
  <2>2. IsFiniteSet((lo + latency) .. upper)
    BY <1>2, <2>1, FS_Interval
  <2>3. \A x \in (lo + latency) .. upper : x \in Nat
    BY <1>2, <2>1
  <2>4. IsFiniteSet(clear)
    BY <1>3, <2>2, FS_Subset
  <2> QED
    BY <1>3, <2>3, <2>4
<1>5. BestApproach(lo, hi, retimed) =
         IF clear = {} THEN None ELSE StopAt(Greatest(clear), retimed)
  BY DEF BestApproach, best
<1>6. clear # {}
  BY <1>5
<1>7. Greatest(clear) \in clear
  <2> HIDE DEF clear
  <2>1. clear \in SUBSET Int
    BY <1>4
  <2> QED
    BY <1>4, <1>6, <2>1, GreatestElement
<1> QED
  BY <1>4, <1>5, <1>6, <1>7

(* The trajectories returned are those of the arms with a new plan, or the *)
(* one of the update.                                                      *)
LEMMA ReturnedFacts ==
    ASSUME SystemInv, UpdateChecked \/ NewChecked, NEW s, DOMAIN s = DOMAIN sys
    PROVE  /\ DOMAIN Returned(s) \subseteq DOMAIN sys
           /\ \A a \in DOMAIN Returned(s) :
                 /\ Returned(s)[a] = s[a]
                 /\ \/ ask.kind = "new" /\ a \notin Active
                    \/ ask.kind = "update" /\ a = ask.arm
<1>1. /\ DOMAIN Returned(s) = {b \in DOMAIN s :
             type[b] \in {"kNewAndTargeted", "kNewNotTargeted", "kUpdate"}}
      /\ \A a \in DOMAIN Returned(s) : Returned(s)[a] = s[a]
  BY DEF Returned
<1>2. CASE UpdateChecked
  BY <1>1, <1>2 DEF UpdateChecked
<1>3. CASE NewChecked
  BY <1>1, <1>3 DEF NewChecked, RunningKept
<1> QED
  BY <1>2, <1>3

LEMMA CheckInv == Inv /\ Check => Inv'
<1> SUFFICES ASSUME Inv, Check PROVE Inv'
  OBVIOUS
<1>0. /\ phase = "check" /\ UNCHANGED <<now, exec, ask, since, latency, sys, type>>
      /\ now \in Nat /\ Comms \in Nat /\ exec \in [Arms -> Trajectories]
      /\ AskInv /\ SystemInv /\ (UpdateChecked \/ NewChecked)
  BY AsyncAssumption DEF Check, Inv, TypeInv
<1>1. CASE Answer("failure", <<>>) \/ Answer("kAsyncCollision", <<>>)
  BY <1>0, <1>1, EmptyAnswer
<1>2. ASSUME NEW s, NEW status \in {"kFull", "kStoppedShort"},
             Answer(status, Returned(s)), DOMAIN s = DOMAIN sys,
             \A a \in DOMAIN sys : s[a] \in Trajectories,
             status = "kFull" /\ Active # {} /\ NewChecked => s = sys /\ now - since <= latency
      PROVE  Inv'
  <2>1. /\ reply'.status = status /\ reply'.sys = Returned(s)
        /\ phase' = "reply" /\ sent' = now
    BY <1>2 DEF Answer
  <2>2. /\ DOMAIN Returned(s) \subseteq DOMAIN sys
        /\ \A a \in DOMAIN Returned(s) :
              /\ Returned(s)[a] = s[a]
              /\ \/ ask.kind = "new" /\ a \notin Active
                 \/ ask.kind = "update" /\ a = ask.arm
    BY <1>0, <1>2, ReturnedFacts
  <2>3. /\ DOMAIN reply'.sys \subseteq Arms
        /\ \A a \in DOMAIN reply'.sys : reply'.sys[a] \in Trajectories
    BY <1>0, <1>2, <2>1, <2>2 DEF SystemInv
  <2>4. ASSUME status = "kFull", ask.kind = "new", Active # {},
               NEW a \in DOMAIN Returned(s), NEW t \in Int, t <= now + Comms
        PROVE  PlaceAt(Returned(s)[a], t) = ask.start[a]
    <3>0. NewChecked
      BY <1>0, <2>4 DEF UpdateChecked
    <3>1. /\ a \in Arms \ Active /\ Returned(s)[a] = sys[a] /\ sys[a] \in Trajectories
          /\ now - since <= latency
      BY <1>0, <1>2, <2>2, <2>4, <3>0 DEF SystemInv
    <3>2. /\ since \in Nat /\ latency \in Nat /\ latency >= Comms
          /\ sys[a].offset = since + latency
          /\ Len(sys[a].points) >= latency + 1
          /\ \A i \in 1 .. latency + 1 : sys[a].points[i] = ask.start[a]
      BY <2>4, <3>0, <3>1 DEF NewChecked, LatencyHeld
    <3> DEFINE d == t - sys[a].offset
    <3>3. d \in Int /\ d <= latency /\ PlaceAt(sys[a], t) = Local(sys[a], d)
      BY <1>0, <2>4, <3>1, <3>2 DEF PlaceAt
    <3>4. Len(sys[a].points) \in Nat /\ Duration(sys[a]) = Len(sys[a].points) - 1
      BY <3>1, TrajectoryFacts
    <3> HIDE DEF d
    <3>5. d <= Duration(sys[a])
      BY <3>2, <3>3, <3>4
    <3>6. Local(sys[a], d) = IF d >= 0 THEN sys[a].points[d + 1] ELSE sys[a].points[1]
      BY <3>1, <3>3, <3>5, LocalFacts
    <3>7. 1 \in 1 .. latency + 1 /\ (d >= 0 => d + 1 \in 1 .. latency + 1)
      BY <3>2, <3>3
    <3> QED
      BY <3>1, <3>2, <3>3, <3>6, <3>7
  <2>5. TypeInv' /\ AskInv'
    BY <1>0, <2>1 DEF TypeInv, AskInv, Active
  <2>6. Active' = Active
    BY <1>0 DEF Active
  <2> HIDE DEF Active
  <2>7. sent' \in Nat /\ sent' <= now' /\ now' <= sent' + Comms
    BY <1>0, <2>1
  <2>8. (\A a \in DOMAIN reply.sys :
            \/ ask.kind = "new" /\ a \notin Active
            \/ ask.kind = "update" /\ a = ask.arm)'
    BY <1>0, <2>1, <2>2, <2>6
  <2>9. (reply.status = "kFull" /\ ask.kind = "new" /\ Active # {} =>
          \A a \in DOMAIN reply.sys : \A t \in Int :
              t <= sent + Comms => PlaceAt(reply.sys[a], t) = ask.start[a])'
    BY <1>0, <2>1, <2>4, <2>6
  <2>10. ReplyInv'
    BY <2>3, <2>7, <2>8, <2>9 DEF ReplyInv
  <2> QED
    BY <2>1, <2>5, <2>10 DEF Inv
<1>3. CASE NoCheck /\ Answer("kFull", Returned(sys))
  <2>1. NewChecked => Active = {}
    BY <1>3 DEF NoCheck, NewChecked, InvolvesAsync
  <2> QED
    BY <1>0, <1>2, <1>3, <2>1 DEF SystemInv
<1>4. CASE ~TooSlow /\ Answer("kFull", Returned(sys))
  <2>1. NewChecked => now - since <= latency
    BY <1>0, <1>4 DEF TooSlow, NewChecked
  <2> QED
    BY <1>0, <1>2, <1>4, <2>1 DEF SystemInv
<1>5. ASSUME CollisionTimes(sys) # {}, ask.kind = "new",
             NEW lo \in 0 .. MaxLength - 1, NEW hi \in 0 .. MaxLength - 1,
             NEW retimed \in SUBSET Movable, BestApproach(lo, hi, retimed) # None,
             Answer("kStoppedShort", Returned(BestApproach(lo, hi, retimed)))
      PROVE  Inv'
  <2>0. NewChecked /\ latency \in Nat /\ DOMAIN sys = Arms
    BY <1>0, <1>5 DEF UpdateChecked, NewChecked
  <2>1. lo \in Nat /\ hi \in Nat
    BY AsyncAssumption
  <2>2. PICK t \in Nat : BestApproach(lo, hi, retimed) = StopAt(t, retimed)
    BY <1>5, <2>0, <2>1, BestApproachFacts
  <2> DEFINE s == StopAt(t, retimed)
  <2>3. DOMAIN s = DOMAIN sys /\ \A a \in DOMAIN sys : s[a] \in Trajectories
    BY <1>0, StopAtFacts
  <2> HIDE DEF s
  <2>4. Answer("kStoppedShort", Returned(s))
    BY <1>5, <2>2 DEF s
  <2> QED
    BY <1>2, <2>3, <2>4
<1> QED
  <2>1. \/ NoCheck /\ Answer("kFull", Returned(sys))
        \/ /\ CollisionTimes(sys) # {}
           /\ \E lo, hi \in 0..MaxLength - 1, retimed \in SUBSET Movable :
                 \/ Answer("kAsyncCollision", <<>>)
                 \/ /\ ask.kind = "new" /\ BestApproach(lo, hi, retimed) # None
                    /\ Answer("kStoppedShort", Returned(BestApproach(lo, hi, retimed)))
        \/ Answer("failure", <<>>)
        \/ ~TooSlow /\ Answer("kFull", Returned(sys))
    BY DEF Check
  <2> QED
    BY <1>1, <1>3, <1>4, <1>5, <2>1

LEMMA NextInv == Inv /\ [Next]_vars => Inv'
<1>1. ASSUME Inv, UNCHANGED vars PROVE Inv'
  BY <1>1 DEF vars, Inv, TypeInv, AskInv, SystemInv, UpdateChecked, NewChecked,
              RunningKept, LatencyHeld, ReplyInv, Active
<1> QED
  BY <1>1, TickInv, RequestInv, SolveFailsInv, SolveNewInv, SolveUpdateInv, CheckInv,
     DeliverInv DEF Next

LEMMA Invariant == Spec => []Inv
BY InitInv, NextInv, PTL DEF Spec

-----------------------------------------------------------------------------
(* Only the delivery of a reply changes what the arms execute.             *)
LEMMA OnlyDelivery ==
    ASSUME Next, Inv
    PROVE  /\ exec' # exec => Deliver
           /\ phase = "reply" /\ phase' = "idle" => Deliver
<1>1. CASE Tick
  BY <1>1 DEF Tick
<1>2. CASE Request
  BY <1>2 DEF Request
<1>3. CASE SolveFails
  BY <1>3 DEF SolveFails
<1>4. CASE SolveNew
  BY <1>4 DEF SolveNew
<1>5. CASE SolveUpdate
  BY <1>5 DEF SolveUpdate
<1>6. CASE Check
  BY <1>6 DEF Check
<1> QED
  BY <1>1, <1>2, <1>3, <1>4, <1>5, <1>6 DEF Next

(* What a reply says of an arm when it is delivered.                       *)
LEMMA DeliveryFacts ==
    ASSUME Inv, Deliver, NEW a \in Arms
    PROVE  /\ exec'[a] = Executed(a)
           /\ a \notin Active =>
                 /\ End(exec[a]) <= now
                 /\ PlaceAt(exec[a], now) = ask.start[a]
<1>0. /\ AskInv /\ now \in Nat /\ exec[a] \in Trajectories
      /\ exec' = [b \in Arms |-> IF b \in DOMAIN reply.sys THEN reply.sys[b] ELSE exec[b]]
  BY DEF Deliver, Inv, TypeInv
<1>1. exec'[a] = Executed(a)
  BY <1>0 DEF Executed
<1>2. ASSUME a \notin Active
      PROVE  End(exec[a]) <= now /\ PlaceAt(exec[a], now) = ask.start[a]
  <2>1. /\ End(exec[a]) <= ask.at /\ ask.at <= now /\ ask.at \in Int /\ now \in Int
        /\ ask.start[a] = PlaceAt(exec[a], ask.at) /\ End(exec[a]) \in Int
    BY <1>0, <1>2, TrajectoryFacts DEF AskInv
  <2>2. End(exec[a]) <= now
    BY <2>1
  <2> QED
    BY <1>0, <2>1, <2>2, LastFacts
<1> QED
  BY <1>1, <1>2

(* No reply changes where a running arm goes, but an update of that arm:    *)
(* Combine and the filter of SolvePlan leave the arms out that the request  *)
(* says are active, and those are all that run.                             *)
THEOREM RunningUndisturbed == Spec => RunningArmsUndisturbed
<1> DEFINE Kept ==
        \A a \in Arms : Running(a) /\ exec'[a] # exec[a] =>
           \/ ask.kind = "update" /\ a = ask.arm
           \/ \A t \in now..MaxTime : PlaceAt(exec'[a], t) = PlaceAt(exec[a], t)
<1>1. Inv /\ [Next]_vars => [Kept]_vars
  <2> SUFFICES ASSUME Inv, Next, NEW a \in Arms, Running(a), exec'[a] # exec[a]
               PROVE  ask.kind = "update" /\ a = ask.arm
    OBVIOUS
  <2>1. Deliver /\ ReplyInv /\ now \in Nat /\ exec[a] \in Trajectories
    BY OnlyDelivery DEF Deliver, Inv, TypeInv
  <2>2. a \in DOMAIN reply.sys
    BY <2>1, DeliveryFacts DEF Executed
  <2>3. CASE ask.kind = "new" /\ a \notin Active
    <3>1. End(exec[a]) <= now /\ now < End(exec[a]) /\ End(exec[a]) \in Int
      BY <2>1, <2>3, DeliveryFacts, TrajectoryFacts DEF Running
    <3> QED
      BY <2>1, <3>1
  <2> QED
    BY <2>1, <2>2, <2>3 DEF ReplyInv
<1> QED
  BY <1>1, Invariant, PTL DEF Spec, RunningArmsUndisturbed

(* When a full plan that was made beside active arms is delivered, no arm   *)
(* has a place to jump to: the latency, which CalcLatencyTime makes no      *)
(* shorter than the time of the message, outlasts computation and message.  *)
THEOREM NoArmJumps == Spec => NoJump
<1> DEFINE Jumps ==
        Replied({"kFull"}) /\ ask.kind = "new" /\ InvolvesAsync =>
           \A a \in Arms : PlaceAt(exec'[a], now) = PlaceNow(a)
<1>1. Inv /\ [Next]_vars => [Jumps]_vars
  <2> SUFFICES ASSUME Inv, Next, phase = "reply", phase' = "idle", reply.status = "kFull",
                      ask.kind = "new", Active # {}, NEW a \in Arms
               PROVE  PlaceAt(exec'[a], now) = PlaceAt(exec[a], now)
    BY DEF Replied, PlaceNow, InvolvesAsync
  <2>1. Deliver /\ ReplyInv /\ now \in Int /\ now <= sent + Comms
    BY OnlyDelivery DEF Inv, TypeInv, ReplyInv
  <2>2. CASE a \in DOMAIN reply.sys
    <3>1. a \notin Active /\ PlaceAt(reply.sys[a], now) = ask.start[a]
      BY <2>1, <2>2 DEF ReplyInv
    <3> QED
      BY <2>1, <2>2, <3>1, DeliveryFacts DEF Executed
  <2>3. CASE a \notin DOMAIN reply.sys
    BY <2>1, <2>3, DeliveryFacts DEF Executed
  <2> QED
    BY <2>2, <2>3
<1> QED
  BY <1>1, Invariant, PTL DEF Spec, NoJump

-----------------------------------------------------------------------------
(***************************************************************************)
(* TrajectoryUpdate.  The slice ends, and the cubic path begins, where the *)
(* trajectory is at the switch; the path ends where the spline is at the   *)
(* landing point, and from there the spline's own pieces follow.           *)
(***************************************************************************)
LEMMA Prefixed ==
    ASSUME NEW S, NEW a \in S, NEW q \in Seq(S)
    PROVE  /\ <<a>> \o q \in Seq(S)
           /\ Len(<<a>> \o q) = 1 + Len(q)
           /\ (<<a>> \o q)[1] = a
           /\ \A i \in 1 .. Len(q) : (<<a>> \o q)[1 + i] = q[i]
<1> DEFINE first == <<a>>
<1>1. first \in Seq(S) /\ Len(first) = 1 /\ first[1] = a
  OBVIOUS
<1>2. Len(q) \in Nat
  BY LenProperties
<1> HIDE DEF first
<1>3. /\ first \o q \in Seq(S) /\ Len(first \o q) = Len(first) + Len(q)
      /\ \A i \in 1 .. Len(first) + Len(q) :
            (first \o q)[i] = IF i <= Len(first) THEN first[i] ELSE q[i - Len(first)]
  BY <1>1, ConcatProperties
<1> DEFINE t == first \o q
<1> HIDE DEF t
<1>4. /\ t \in Seq(S) /\ Len(t) = 1 + Len(q) /\ t[1] = a
      /\ \A i \in 1 .. Len(q) : t[1 + i] = q[i]
  <2>1. \A i \in 1 .. 1 + Len(q) : t[i] = IF i <= 1 THEN first[i] ELSE q[i - 1]
    BY <1>1, <1>3 DEF t
  <2>2. \A i \in 1 .. Len(q) : 1 + i \in 1 .. 1 + Len(q) /\ ~(1 + i <= 1)
                               /\ (1 + i) - 1 = i
    BY <1>2
  <2>3. \A i \in 1 .. Len(q) : t[1 + i] = q[i]
    BY <2>1, <2>2
  <2>4. t[1] = a
    BY <1>1, <1>2, <2>1
  <2>5. t \in Seq(S) /\ Len(t) = 1 + Len(q)
    BY <1>1, <1>3 DEF t
  <2> QED
    BY <2>3, <2>4, <2>5
<1> QED
  BY <1>4 DEF t, first

LEMMA JoinedPieces ==
    ASSUME NEW S, NEW a \in S, NEW b \in S, NEW r \in Seq(S), NEW s \in Seq(S)
    PROVE  LET t == <<a>> \o (<<b>> \o r \o s)
           IN  /\ Len(r) \in Nat /\ Len(s) \in Nat
               /\ Len(t) = 2 + Len(r) + Len(s)
               /\ t[1] = a /\ t[2] = b
               /\ \A i \in 1 .. Len(r) : t[2 + i] = r[i]
               /\ \A i \in 1 .. Len(s) : t[2 + Len(r) + i] = s[i]
<1> DEFINE br == <<b>> \o r
<1>1. /\ br \in Seq(S) /\ Len(br) = 1 + Len(r) /\ br[1] = b
      /\ \A i \in 1 .. Len(r) : br[1 + i] = r[i]
      /\ Len(r) \in Nat /\ Len(s) \in Nat
  BY Prefixed, LenProperties
<1> HIDE DEF br
<1> DEFINE brs == br \o s
<1>2. /\ brs \in Seq(S) /\ Len(brs) = Len(br) + Len(s)
      /\ \A i \in 1 .. Len(br) + Len(s) :
            brs[i] = IF i <= Len(br) THEN br[i] ELSE s[i - Len(br)]
  <2>1. br \in Seq(S) /\ s \in Seq(S)
    BY <1>1
  <2> QED
    BY <2>1, ConcatProperties
<1> HIDE DEF brs
<1> DEFINE u == <<a>> \o brs
<1>3. /\ Len(u) = 1 + Len(brs) /\ u[1] = a
      /\ \A i \in 1 .. Len(brs) : u[1 + i] = brs[i]
  BY <1>2, Prefixed
<1> HIDE DEF u
<1>4. Len(u) = 2 + Len(r) + Len(s)
  BY <1>1, <1>2, <1>3
<1>5. u[2] = b
  <2>1. 1 \in 1 .. Len(brs) /\ 1 \in 1 .. Len(br) + Len(s) /\ 1 <= Len(br)
    BY <1>1, <1>2
  <2>2. u[1 + 1] = brs[1] /\ brs[1] = br[1]
    BY <2>1, <1>2, <1>3
  <2> QED
    BY <2>2, <1>1
<1>6. ASSUME NEW i \in 1 .. Len(r) PROVE u[2 + i] = r[i]
  <2>1. /\ 1 + i \in 1 .. Len(brs) /\ 1 + i \in 1 .. Len(br) + Len(s)
        /\ 1 + i <= Len(br) /\ 1 + (1 + i) = 2 + i
    BY <1>1, <1>2
  <2>2. u[1 + (1 + i)] = brs[1 + i]
    BY <2>1, <1>3
  <2>3. brs[1 + i] = br[1 + i]
    BY <2>1, <1>2
  <2> QED
    BY <2>1, <2>2, <2>3, <1>1
<1>7. ASSUME NEW i \in 1 .. Len(s) PROVE u[2 + Len(r) + i] = s[i]
  <2> DEFINE j == 1 + Len(r) + i
  <2>1. /\ j \in 1 .. Len(brs) /\ j \in 1 .. Len(br) + Len(s)
        /\ ~(j <= Len(br)) /\ j - Len(br) = i /\ 1 + j = 2 + Len(r) + i
    BY <1>1, <1>2
  <2> HIDE DEF j
  <2>2. u[1 + j] = brs[j]
    BY <2>1, <1>3
  <2>3. brs[j] = s[i]
    BY <2>1, <1>2
  <2> QED
    BY <2>1, <2>2, <2>3
<1> QED
  BY <1>1, <1>3, <1>4, <1>5, <1>6, <1>7 DEF u, brs, br

UpdateInv ==
    /\ request.goals \in Seq(Int) /\ request.wiggle \in {0, 1}
    /\ waypoints \in Seq(Int)
    /\ step = "land" =>
          /\ spline.pos \in Seq(Int)
          /\ Len(spline.pos) = Len(waypoints) /\ 1 < Len(waypoints)
          /\ Magnitude(spline.pos[Len(waypoints)] - waypoints[Len(waypoints)])
                <= request.wiggle
    /\ Updated => step = "done" /\ ContinuesMotion

LEMMA UpdateInitInv == UpdateInit => UpdateInv
BY GoalsAssumption DEF UpdateInit, UpdateInv, Updated, NotUpdated

(* A step that does not answer with a trajectory. *)
LEMMA NoTrajectory ==
    ASSUME UpdateInv, step # "done", request' = request, waypoints' \in Seq(Int),
           updated' = updated \/ updated'.kind # "trajectory",
           step' # "land"
    PROVE  UpdateInv'
<1>1. ~Updated
  BY DEF UpdateInv
<1>2. ~Updated'
  BY <1>1 DEF Updated
<1> QED
  BY <1>2 DEF UpdateInv

LEMMA TakeWaypointsStep == UpdateInv /\ TakeWaypoints => UpdateInv'
<1> SUFFICES ASSUME UpdateInv, TakeWaypoints PROVE UpdateInv'
  OBVIOUS
<1> QED
  BY NoTrajectory DEF TakeWaypoints, UpdateInv

LEMMA SolveIkStep == UpdateInv /\ SolveIk => UpdateInv'
<1> SUFFICES ASSUME UpdateInv, SolveIk PROVE UpdateInv'
  OBVIOUS
<1>1. request' = request /\ step = "ik"
  BY DEF SolveIk
<1>2. CASE step' \in {"timing", "ik"} /\ updated' = updated
           /\ \E q \in Int : waypoints' = Append(waypoints, q)
  <2>1. waypoints' \in Seq(Int)
    BY <1>2, AppendProperties DEF UpdateInv
  <2> QED
    BY <1>1, <1>2, <2>1, NoTrajectory
<1>3. CASE Conclude("error", <<>>) /\ waypoints' = waypoints
  BY <1>1, <1>3, NoTrajectory DEF Conclude, UpdateInv
<1> QED
  BY <1>2, <1>3 DEF SolveIk

LEMMA OtherUpdateSteps ==
    UpdateInv /\ (SetSwitch \/ ProgramFails \/ ProgramGivenUp) => UpdateInv'
<1> SUFFICES ASSUME UpdateInv, SetSwitch \/ ProgramFails \/ ProgramGivenUp
             PROVE  UpdateInv'
  OBVIOUS
<1>1. waypoints \in Seq(Int)
  BY DEF UpdateInv
<1> QED
  BY <1>1, NoTrajectory DEF SetSwitch, ProgramFails, ProgramGivenUp, UsesProgram,
     Nullopt, Conclude

LEMMA SmoothedFacts ==
    ASSUME UpdateInv, 1 < Len(waypoints), NEW pos \in Smoothed
    PROVE  /\ pos \in Seq(Int) /\ Len(pos) = Len(waypoints)
           /\ Magnitude(pos[Len(waypoints)] - waypoints[Len(waypoints)])
                 <= request.wiggle
<1>1. waypoints \in Seq(Int) /\ DOMAIN waypoints = 1 .. Len(waypoints)
      /\ Len(waypoints) \in Nat
  BY LenProperties DEF UpdateInv
<1>2. pos \in [1 .. Len(waypoints) -> Int]
  BY <1>1 DEF Smoothed
<1>3. pos \in Seq(Int) /\ Len(pos) = Len(waypoints)
  BY <1>1, <1>2, IsASeq, LenProperties
<1>4. DOMAIN pos = 1 .. Len(waypoints) /\ Len(waypoints) \in 1 .. Len(waypoints)
  BY <1>1, <1>2
<1> QED
  BY <1>3, <1>4 DEF Smoothed

LEMMA SplineStep == UpdateInv /\ (SimpleSpline \/ ProgramSolved) => UpdateInv'
<1> SUFFICES ASSUME UpdateInv, SimpleSpline \/ ProgramSolved PROVE UpdateInv'
  OBVIOUS
<1>1. /\ 1 < Len(waypoints) /\ step = "calc"
      /\ UNCHANGED <<request, waypoints, updated>>
  BY DEF SimpleSpline, ProgramSolved, UsesProgram
<1>2. \E pos \in Smoothed : spline' \in SimpleSplines(pos) \cup ProgramSplines(pos)
  BY DEF SimpleSpline, ProgramSolved
<1>3. PICK pos \in Smoothed : spline'.pos = pos
  BY <1>2 DEF SimpleSplines, ProgramSplines
<1>4. ~Updated
  BY <1>1 DEF UpdateInv
<1> QED
  BY <1>1, <1>3, <1>4, SmoothedFacts DEF UpdateInv, Updated

LEMMA CubicFacts ==
    ASSUME NEW q0, NEW v0, NEW q1, NEW v1, NEW p \in CalcOptimalCubicPath(q0, v0, q1, v1)
    PROVE  p.q0 = q0 /\ p.v0 = v0 /\ p.q1 = q1 /\ p.v1 = v1
BY DEF CalcOptimalCubicPath, Piece

LEMMA SingleWaypointStep == UpdateInv /\ SingleWaypoint => UpdateInv'
<1> SUFFICES ASSUME UpdateInv, SingleWaypoint PROVE UpdateInv'
  OBVIOUS
<1>1. /\ step = "calc" /\ Len(waypoints) = 1
      /\ UNCHANGED <<request, waypoints, switch>>
  BY DEF SingleWaypoint
<1>2. CASE Nullopt
  BY <1>1, <1>2, NoTrajectory DEF Nullopt, Conclude, UpdateInv
<1>3. ASSUME NEW p \in CalcOptimalCubicPath(Position(switch), Velocity(switch),
                                            waypoints[1], 0),
             Conclude("trajectory", MergeTrajectory(<<p>>))
      PROVE  UpdateInv'
  <2>1. p.q0 = Position(switch) /\ p.v0 = Velocity(switch) /\ p.q1 = waypoints[1]
    BY CubicFacts
  <2>2. step' = "done" /\ updated' = [kind |-> "trajectory",
                                      pieces |-> MergeTrajectory(<<p>>)]
    BY <1>3 DEF Conclude
  <2>3. ASSUME ~NowAfterEnd
        PROVE  MergeTrajectory(<<p>>) = <<Slice, p>>
    <3> DEFINE S == {Slice, p}
    <3>1. MergeTrajectory(<<p>>) = <<Slice>> \o <<p>>
      BY <2>3 DEF MergeTrajectory
    <3> HIDE DEF Slice
    <3> QED
      BY <3>1
  <2>4. waypoints[1] \in Int /\ Magnitude(waypoints[1] - waypoints[1]) = 0
    <3>1. waypoints[1] \in Int
      <4>1. waypoints \in Seq(Int) /\ 1 \in 1 .. Len(waypoints)
        BY <1>1 DEF UpdateInv
      <4> QED
        BY <4>1, ElementOfSeq
    <3> QED
      BY <3>1 DEF Magnitude
  <2>5. ContinuesMotion'
    <3>1. /\ NowAfterEnd' = NowAfterEnd /\ Position(request.now)' = Position(request.now)
          /\ Velocity(request.now)' = Velocity(request.now)
      BY <1>1 DEF NowAfterEnd, EndTime, Position, Velocity, Sample
    <3> SUFFICES ASSUME ~NowAfterEnd
                 PROVE  LET t == <<Slice, p>>
                        IN  /\ t[1].q0 = Position(request.now)
                            /\ t[1].v0 = Velocity(request.now)
                            /\ \A i \in 1 .. Len(t) - 1 :
                                  t[i].q1 = t[i + 1].q0 /\ t[i].v1 = t[i + 1].v0
                            /\ Magnitude(t[Len(t)].q1 - waypoints[1])
                                  <= request.wiggle
      BY <1>1, <2>2, <2>3, <3>1 DEF ContinuesMotion, Final
    <3>2. /\ Slice.q0 = Position(request.now) /\ Slice.v0 = Velocity(request.now)
          /\ Slice.q1 = Position(switch) /\ Slice.v1 = Velocity(switch)
      BY DEF Slice, Piece
    <3>3. request.wiggle >= 0
      BY DEF UpdateInv
    <3> QED
      BY <2>1, <2>4, <3>2, <3>3
  <2> QED
    BY <1>1, <2>2, <2>5 DEF UpdateInv
<1> QED
  BY <1>2, <1>3 DEF SingleWaypoint

(* There is a cheapest landing point, and it is chosen. *)
LEMMA BestLanding ==
    ASSUME spline.pos \in Seq(Int), Landings # {}
    PROVE  /\ Best(Landings).at \in 1 .. Len(spline.pos) - 1
           /\ Best(Landings).piece.q0 = Position(switch)
           /\ Best(Landings).piece.v0 = Velocity(switch)
           /\ Best(Landings).piece.q1 = spline.pos[Best(Landings).at]
           /\ Best(Landings).piece.v1 = spline.vel[Best(Landings).at]
<1>1. \A l \in Landings : l.at \in 1 .. Len(spline.pos) - 1
         /\ l.piece \in CalcOptimalCubicPath(Position(switch), Velocity(switch),
                                             spline.pos[l.at], spline.vel[l.at])
  BY DEF Landings
<1>2. \A l \in Landings : l.at \in Nat /\ l.piece.h \in Nat
  <2>1. Len(spline.pos) \in Nat
    BY LenProperties
  <2>2. ASSUME NEW q0, NEW v0, NEW q1, NEW v1,
               NEW p \in CalcOptimalCubicPath(q0, v0, q1, v1)
        PROVE  p.h \in Nat
    <3>1. \A h \in MinimumTimes(q0, v0, q1, v1, MaxVelocity, MaxAcceleration) :
             h \in Nat
      BY DEF MinimumTimes
    <3>2. p.h \in MinimumTimes(q0, v0, q1, v1, MaxVelocity, MaxAcceleration)
      BY DEF CalcOptimalCubicPath, Piece
    <3> QED
      BY <3>1, <3>2
  <2> QED
    BY <1>1, <2>1, <2>2
<1>3. PICK l \in Landings : \A m \in Landings : Cost(l) <= Cost(m)
  <2> DEFINE T == {Cost(m) : m \in Landings}
  <2>1. T \in SUBSET Nat /\ T # {}
    BY <1>2 DEF Cost
  <2>2. PICK x \in T : \A y \in T : x <= y
    BY <2>1, LeastNat
  <2> QED
    BY <2>2
<1>4. PICK k \in Landings : Cost(k) = Cost(l)
         /\ \A m \in Landings : Cost(m) = Cost(l) => k.at <= m.at
  <2> DEFINE T == {m.at : m \in {n \in Landings : Cost(n) = Cost(l)}}
  <2>1. T \in SUBSET Nat /\ T # {}
    BY <1>2
  <2>2. PICK x \in T : \A y \in T : x <= y
    BY <2>1, LeastNat
  <2> QED
    BY <2>2
<1>5. \A m \in Landings : Cost(k) < Cost(m) \/ (Cost(k) = Cost(m) /\ k.at <= m.at)
  <2>1. \A m \in Landings : Cost(m) \in Nat
    BY <1>2 DEF Cost
  <2> QED
    BY <1>3, <1>4, <2>1
<1>6. Best(Landings) \in Landings
  BY <1>5 DEF Best
<1> HIDE DEF Best
<1> QED
  BY <1>1, <1>6, CubicFacts

LEMMA LandStep == UpdateInv /\ Land => UpdateInv'
<1> SUFFICES ASSUME UpdateInv, Land PROVE UpdateInv'
  OBVIOUS
<1> DEFINE n == Len(waypoints)
<1>1. /\ step = "land" /\ UNCHANGED <<request, waypoints, margin, switch>>
      /\ request.goals \in Seq(Int) /\ request.wiggle \in {0, 1}
      /\ waypoints \in Seq(Int) /\ ~Updated
      /\ spline.pos \in Seq(Int) /\ Len(spline.pos) = n /\ 1 < n /\ n \in Nat
      /\ Magnitude(spline.pos[n] - waypoints[n]) <= request.wiggle
  BY LenProperties DEF Land, UpdateInv
<1>2. CASE Nullopt
  BY <1>1, <1>2, NoTrajectory DEF Nullopt, Conclude
<1>3. CASE Conclude("threw", <<>>)
  BY <1>1, <1>3, NoTrajectory DEF Conclude
<1>4. CASE /\ (IF NowAfterEnd THEN {Hold} ELSE Landings) # {}
           /\ Conclude("trajectory",
                       Joined(Best(IF NowAfterEnd THEN {Hold} ELSE Landings)))
           /\ UNCHANGED <<atRest, spline, relaxed>>
  <2>1. /\ step' = "done" /\ updated'.kind = "trajectory"
        /\ spline' = spline /\ atRest' = atRest
    BY <1>4 DEF Conclude
  <2>2. ASSUME ~NowAfterEnd
        PROVE  /\ updated'.pieces[1].q0 = Position(request.now)
               /\ updated'.pieces[1].v0 = Velocity(request.now)
               /\ \A i \in 1 .. Len(updated'.pieces) - 1 :
                     /\ updated'.pieces[i].q1 = updated'.pieces[i + 1].q0
                     /\ updated'.pieces[i].v1 = updated'.pieces[i + 1].v0
               /\ LET final == updated'.pieces[Len(updated'.pieces)]
                  IN  \/ final.kind = "stop"
                      \/ Magnitude(final.q1 - waypoints[n]) <= request.wiggle
    <3> DEFINE l == Best(Landings)
               at == l.at
               m == n - at
               rest == Rest(at)
               S == {Slice, l.piece} \cup {rest[i] : i \in 1 .. m}
                       \cup {Piece("stop", spline.pos[n], spline.vel[n],
                                   spline.pos[n] + spline.vel[n], 0, 2)}
               t == updated'.pieces
    <3>1. t = <<Slice>> \o (<<l.piece>> \o rest \o Stop)
      BY <1>4, <2>2 DEF Conclude, Joined, MergeTrajectory
    <3>2. /\ at \in 1 .. n - 1 /\ l.piece.q0 = Position(switch)
          /\ l.piece.v0 = Velocity(switch)
          /\ l.piece.q1 = spline.pos[at] /\ l.piece.v1 = spline.vel[at]
      BY <1>1, <1>4, <2>2, BestLanding
    <3>3. /\ Slice.q0 = Position(request.now) /\ Slice.v0 = Velocity(request.now)
          /\ Slice.q1 = Position(switch) /\ Slice.v1 = Velocity(switch)
      BY DEF Slice, Piece
    <3> HIDE DEF l
    <3>4. /\ m \in Nat /\ 1 <= m
          /\ rest = [i \in 1 .. m |->
                        Piece("spline", spline.pos[at + i - 1], spline.vel[at + i - 1],
                              spline.pos[at + i], spline.vel[at + i], 1)]
      BY <1>1, <3>2, SMTT(60) DEF Rest
    <3>5. rest \in Seq(S) /\ Len(rest) = m
      <4>1. rest \in [1 .. m -> S]
        <5>1. \A i \in 1 .. m : rest[i] \in S
          OBVIOUS
        <5>2. DOMAIN rest = 1 .. m /\ rest = [i \in 1 .. m |-> rest[i]]
          BY <3>4
        <5> HIDE DEF S, rest, m
        <5> QED
          BY <5>1, <5>2
      <4> HIDE DEF S, rest, m
      <4> QED
        BY <3>4, <4>1, IsASeq, LenProperties
    <3>6. /\ Stop \in Seq(S) /\ Len(Stop) \in {0, 1}
          /\ Len(Stop) = 1 => /\ Stop[1].q0 = spline.pos[n]
                              /\ Stop[1].v0 = spline.vel[n]
                              /\ Stop[1].kind = "stop"
      <4> DEFINE p == Piece("stop", spline.pos[n], spline.vel[n],
                            spline.pos[n] + spline.vel[n], 0, 2)
      <4>1. Stop = <<>> \/ Stop = <<p>>
        BY <1>1 DEF Stop
      <4>2. p \in S /\ p.q0 = spline.pos[n] /\ p.v0 = spline.vel[n] /\ p.kind = "stop"
        BY DEF Piece
      <4> HIDE DEF p, S
      <4>3. CASE Stop = <<>>
        BY <4>3
      <4>4. CASE Stop = <<p>>
        <5>1. <<p>> \in Seq(S) /\ Len(<<p>>) = 1 /\ <<p>>[1] = p
          BY <4>2
        <5> QED
          BY <5>1, <4>2, <4>4
      <4> QED
        BY <4>1, <4>3, <4>4
    <3>7. Slice \in S /\ l.piece \in S
      OBVIOUS
    <3>8. \A i \in 1 .. m : /\ rest[i].q0 = spline.pos[at + i - 1]
                            /\ rest[i].v0 = spline.vel[at + i - 1]
                            /\ rest[i].q1 = spline.pos[at + i]
                            /\ rest[i].v1 = spline.vel[at + i]
      BY <3>4 DEF Piece
    <3>9. at \in Nat /\ at + m = n
      <4>1. at \in Int /\ at \in Nat /\ n \in Int
        BY <1>1, <3>2
      <4>2. \A x, y \in Int : x + (y - x) = y
        OBVIOUS
      <4> HIDE DEF at, n
      <4> QED
        BY <4>1, <4>2
    <3> HIDE DEF rest, m, S, at
    <3>10. /\ Len(t) = 2 + m + Len(Stop)
           /\ t[1] = Slice /\ t[2] = l.piece
           /\ \A i \in 1 .. m : t[2 + i] = rest[i]
           /\ \A i \in 1 .. Len(Stop) : t[2 + m + i] = Stop[i]
      <4> DEFINE u == <<Slice>> \o (<<l.piece>> \o rest \o Stop)
      <4>1. /\ Len(rest) \in Nat /\ Len(Stop) \in Nat
            /\ Len(u) = 2 + Len(rest) + Len(Stop)
            /\ u[1] = Slice /\ u[2] = l.piece
            /\ \A i \in 1 .. Len(rest) : u[2 + i] = rest[i]
            /\ \A i \in 1 .. Len(Stop) : u[2 + Len(rest) + i] = Stop[i]
        <5> DEFINE p == l.piece
        <5>1. Slice \in S /\ p \in S /\ rest \in Seq(S) /\ Stop \in Seq(S)
          BY <3>5, <3>6, <3>7
        <5> HIDE DEF p
        <5>2. LET v == <<Slice>> \o (<<p>> \o rest \o Stop)
              IN  /\ Len(rest) \in Nat /\ Len(Stop) \in Nat
                  /\ Len(v) = 2 + Len(rest) + Len(Stop)
                  /\ v[1] = Slice /\ v[2] = p
                  /\ \A i \in 1 .. Len(rest) : v[2 + i] = rest[i]
                  /\ \A i \in 1 .. Len(Stop) : v[2 + Len(rest) + i] = Stop[i]
          BY <5>1, JoinedPieces
        <5> QED
          BY <5>2 DEF p
      <4>2. t = u
        BY <3>1
      <4> HIDE DEF u
      <4> QED
        BY <4>1, <4>2, <3>5
    <3> HIDE DEF t
    <3>11. ASSUME NEW i \in 1 .. Len(t) - 1
           PROVE  t[i].q1 = t[i + 1].q0 /\ t[i].v1 = t[i + 1].v0
      <4>1. i = 1 \/ i = 2 \/ (i - 2 \in 1 .. m - 1) \/ (i = m + 2 /\ Len(Stop) = 1)
        <5> DEFINE len == Len(t)
                   stops == Len(Stop)
        <5>1. m \in Nat /\ 1 <= m /\ len = 2 + m + stops /\ stops \in {0, 1}
              /\ i \in 1 .. len - 1
          BY <3>4, <3>6, <3>10
        <5> HIDE DEF m, len, stops
        <5>2. i = 1 \/ i = 2 \/ (i - 2 \in 1 .. m - 1) \/ (i = m + 2 /\ stops = 1)
          BY <5>1
        <5> QED
          BY <5>2 DEF stops
      <4>2. CASE i = 1
        BY <4>2, <3>2, <3>3, <3>10
      <4>3. CASE i = 2
        <5>1. 1 \in 1 .. m /\ t[2 + 1] = rest[1] /\ at + 1 - 1 = at /\ i + 1 = 2 + 1
          BY <3>4, <3>9, <3>10, <4>3
        <5>2. rest[1].q0 = spline.pos[at + 1 - 1] /\ rest[1].v0 = spline.vel[at + 1 - 1]
          BY <3>8, <5>1
        <5> QED
          BY <4>3, <5>1, <5>2, <3>2, <3>10 DEF at
      <4>4. CASE i - 2 \in 1 .. m - 1
        <5> DEFINE j == i - 2
        <5>1. /\ j \in 1 .. m /\ j + 1 \in 1 .. m /\ i = 2 + j /\ i + 1 = 2 + (j + 1)
              /\ at + (j + 1) - 1 = at + j
          BY <3>4, <3>9, <4>4
        <5> HIDE DEF j
        <5>2. t[i] = rest[j] /\ t[i + 1] = rest[j + 1]
          BY <5>1, <3>10
        <5>3. /\ rest[j].q1 = spline.pos[at + j] /\ rest[j].v1 = spline.vel[at + j]
              /\ rest[j + 1].q0 = spline.pos[at + (j + 1) - 1]
              /\ rest[j + 1].v0 = spline.vel[at + (j + 1) - 1]
          BY <5>1, <3>8
        <5> QED
          BY <5>1, <5>2, <5>3
      <4>5. CASE i = m + 2 /\ Len(Stop) = 1
        <5>1. /\ m \in 1 .. m /\ 1 \in 1 .. Len(Stop)
              /\ i = 2 + m /\ i + 1 = 2 + m + 1
          BY <3>4, <4>5
        <5>2. t[i] = rest[m] /\ t[i + 1] = Stop[1]
          BY <5>1, <3>10
        <5>3. rest[m].q1 = spline.pos[n] /\ rest[m].v1 = spline.vel[n]
          BY <5>1, <3>8, <3>9
        <5> QED
          BY <4>5, <5>2, <5>3, <3>6
      <4> QED
        BY <4>1, <4>2, <4>3, <4>4, <4>5
    <3>12. t[Len(t)].kind = "stop"
           \/ Magnitude(t[Len(t)].q1 - waypoints[n]) <= request.wiggle
      <4>1. CASE Len(Stop) = 1
        <5>1. 1 \in 1 .. Len(Stop) /\ Len(t) = 2 + m + 1
          BY <4>1, <3>4, <3>10
        <5>2. t[2 + m + 1] = Stop[1]
          BY <5>1, <3>10
        <5> QED
          BY <4>1, <5>1, <5>2, <3>6
      <4>2. CASE Len(Stop) = 0
        <5>1. m \in 1 .. m /\ Len(t) = 2 + m
          BY <4>2, <3>4, <3>10
        <5>2. t[2 + m] = rest[m] /\ rest[m].q1 = spline.pos[n]
          BY <5>1, <3>8, <3>9, <3>10
        <5> QED
          BY <5>1, <5>2, <1>1
      <4> QED
        BY <3>6, <4>1, <4>2
    <3> QED
      BY <3>3, <3>10, <3>11, <3>12 DEF t
  <2>3. /\ NowAfterEnd' = NowAfterEnd /\ Position(request.now)' = Position(request.now)
        /\ Velocity(request.now)' = Velocity(request.now)
    BY <1>1 DEF NowAfterEnd, EndTime, Position, Velocity, Sample
  <2>4. ContinuesMotion'
    BY <1>1, <2>1, <2>2, <2>3 DEF ContinuesMotion, Final
  <2> QED
    BY <1>1, <2>1, <2>4 DEF UpdateInv
<1> QED
  BY <1>2, <1>3, <1>4 DEF Land

LEMMA UpdateStep == UpdateInv /\ [UpdateNext]_updateVars => UpdateInv'
<1> SUFFICES ASSUME UpdateInv, [UpdateNext]_updateVars PROVE UpdateInv'
  OBVIOUS
<1>1. CASE UNCHANGED updateVars
  BY <1>1 DEF updateVars, UpdateInv, Updated, ContinuesMotion, Final, NowAfterEnd,
     EndTime, Position, Velocity, Sample
<1> QED
  BY <1>1, TakeWaypointsStep, SolveIkStep, OtherUpdateSteps, SplineStep,
     SingleWaypointStep, LandStep DEF UpdateNext

(* An update takes over from the trajectory at the present position and     *)
(* velocity, its pieces meet in position and velocity and it ends at the    *)
(* last waypoint or in a stop, whatever the solvers answer and wherever     *)
(* the cubic path lands (TimeOptimalSpliner::CalcTrajTowardNewWaypoints).   *)
THEOREM MotionContinues == UpdateSpec => []ContinuesMotion
<1>1. UpdateInv => ContinuesMotion
  BY DEF UpdateInv, ContinuesMotion
<1> QED
  BY <1>1, UpdateInitInv, UpdateStep, PTL DEF UpdateSpec

-----------------------------------------------------------------------------
(***************************************************************************)
(* Toppra.  A row that has u bounds y = x + u from both sides, by lines    *)
(* over x of the same whole slope.  So the controllable speeds form an     *)
(* interval, and where no slope is negative, which is over a steady path,  *)
(* a greater speed never lowers what is reached next.                      *)
(***************************************************************************)
LEMMA GreatestBounded ==
    ASSUME NEW T \in SUBSET Int, T # {}, NEW b \in Int, \A x \in T : x <= b
    PROVE  Extrema!Max(T) \in T /\ \A y \in T : y <= Extrema!Max(T)
<1> DEFINE D == {b - x : x \in T}
<1>1. D \in SUBSET Nat /\ D # {}
  <2>1. ASSUME NEW x \in T PROVE b - x \in Nat
    <3>1. x \in Int /\ x <= b
      OBVIOUS
    <3> QED
      BY <3>1
  <2> QED
    BY <2>1
<1>2. \A y \in T : b - y \in D
  OBVIOUS
<1> HIDE DEF D
<1>3. PICK d \in D : \A e \in D : d <= e
  BY <1>1, LeastNat
<1>4. PICK x \in T : d = b - x
  BY <1>3 DEF D
<1>5. \A y \in T : x >= y
  <2> SUFFICES ASSUME NEW y \in T PROVE x >= y
    OBVIOUS
  <2>1. b - x <= b - y /\ x \in Int /\ y \in Int
    BY <1>2, <1>3, <1>4
  <2> QED
    BY <2>1
<1>6. Extrema!Max(T) \in T /\ \A y \in T : Extrema!Max(T) >= y
  BY <1>5 DEF Extrema!Max
<1>7. \A y \in T : y \in Int
  OBVIOUS
<1> QED
  BY <1>6, <1>7

LEMMA LeastSpeed ==
    ASSUME NEW T \in SUBSET Nat, T # {}
    PROVE  Extrema!Min(T) \in T /\ \A y \in T : Extrema!Min(T) <= y
BY LeastNat DEF Extrema!Min

LEMMA LeastOfPair ==
    ASSUME NEW x \in Int, NEW y \in Int
    PROVE  Extrema!Min({x, y}) \in Int
<1>1. \E m \in {x, y} : \A n \in {x, y} : m <= n
  OBVIOUS
<1>2. Extrema!Min({x, y}) \in {x, y}
  BY <1>1 DEF Extrema!Min
<1> QED
  BY <1>2

LEMMA ProblemFacts ==
    ASSUME problem \in Problems
    PROVE  /\ problem.path \in [0 .. Segments - 1 -> Shapes]
           /\ problem.limits \in LimitSets
           /\ problem.start \in Speeds /\ problem.end \in Speeds
           /\ problem.interpolate \/ problem.limits.frame.set =>
                 \A k \in 0 .. Segments - 1 :
                    problem.path[k].d + problem.path[k].dd \in -1 .. 1
BY DEF Problems, UnitRows

LEMMA BoundFacts ==
    ASSUME problem \in Problems, NEW k \in 0 .. Segments - 1
    PROVE  VelocityBound(k) \in Int /\ SpeedBound(k) \in Int
<1>1. XMax \in Int /\ problem.limits.velocity \in Int /\ problem.limits.speed \in Int
  BY ProblemFacts, LimitsAssumption
<1> DEFINE v == problem.limits.velocity
           s == problem.limits.speed
<1> HIDE DEF v, s
<1>2. v * v \in Int /\ s * s \in Int
  BY <1>1 DEF v, s
<1>3. Extrema!Min({XMax, v * v}) \in Int /\ Extrema!Min({XMax, s * s}) \in Int
  BY <1>1, <1>2, LeastOfPair
<1> QED
  BY <1>1, <1>3 DEF VelocityBound, SpeedBound, v, s

UnitRow(row) ==
  row.x \in Int /\ row.u \in -1 .. 1 /\ row.lo \in Int /\ row.up \in Int

LEMMA RowFacts ==
    ASSUME problem \in Problems, NEW k \in 0 .. Segments - 1, NEW row \in Rows(k)
    PROVE  UnitRow(row)
<1> DEFINE Coupled == problem.interpolate \/ problem.limits.frame.set
<1>1. \A j \in 0 .. Segments - 1 :
         /\ problem.path[j].d \in -1 .. 1 /\ problem.path[j].dd \in Int
         /\ Coupled => problem.path[j].d + problem.path[j].dd \in -1 .. 1
  BY ProblemFacts, UnitAssumption
<1>2. LET l == problem.limits
      IN  {l.acceleration, l.torque, l.gravity, l.frame.lo, l.frame.up} \subseteq Int
  BY ProblemFacts, LimitsAssumption
<1> HIDE DEF Coupled
<1>3. \A j \in 0 .. Segments - 1 :
         \A r \in {AccelerationRow(j), TorqueRow(j), FrameRow(j)} :
            /\ UnitRow(r) /\ (Coupled => r.u + r.x \in -1 .. 1)
            /\ r = [x |-> r.x, u |-> r.u, lo |-> r.lo, up |-> r.up]
  BY <1>1, <1>2 DEF AccelerationRow, TorqueRow, FrameRow, Row, UnitRow
<1>4. k \in 0 .. Segments - 1 /\ (k # Segments - 1 => k + 1 \in 0 .. Segments - 1)
  BY LimitsAssumption
<1>5. ASSUME NEW r, NEW next, UnitRow(r),
             k # Segments - 1 => /\ UnitRow(next) /\ next.u + next.x \in -1 .. 1
                                 /\ next = [x |-> next.x, u |-> next.u,
                                            lo |-> next.lo, up |-> next.up]
      PROVE  UnitRow(Interpolated(r, next, k))
  BY <1>5 DEF Interpolated, UnitRow
<1>6. Coupled => /\ UnitRow(Interpolated(AccelerationRow(k), AccelerationRow(k + 1), k))
               /\ UnitRow(Interpolated(FrameRow(k), FrameRow(k + 1), k))
  BY <1>3, <1>4, <1>5
<1> QED
  BY <1>3, <1>6 DEF Rows, AccelerationRows, TorqueRowOnly, FrameRows, Coupled

(* Where a row with u keeps y, when x is the speed. *)
Slope(row) == 1 - row.u * row.x
LowBase(row) == IF row.u = 1 THEN row.lo ELSE -row.up
UpBase(row) == IF row.u = 1 THEN row.up ELSE -row.lo

LEMMA RowBounds ==
    ASSUME NEW row, UnitRow(row), row.u # 0, NEW x \in Int, NEW y \in Int
    PROVE  /\ Slope(row) \in Int /\ LowBase(row) \in Int /\ UpBase(row) \in Int
           /\ Holds(row, x, y - x) <=> /\ Slope(row) * x + LowBase(row) <= y
                                       /\ y <= Slope(row) * x + UpBase(row)
<1>1. row.u \in {-1, 1} /\ row.x \in Int /\ row.lo \in Int /\ row.up \in Int
  BY DEF UnitRow
<1> DEFINE a == row.x
           m == a * x
           lo == row.lo
           up == row.up
<1>2. a \in Int /\ m \in Int /\ lo \in Int /\ up \in Int
  BY <1>1
<1>3. CASE row.u = 1
  <2>1. Holds(row, x, y - x) <=> lo <= m + 1 * (y - x) /\ m + 1 * (y - x) <= up
    BY <1>3 DEF Holds
  <2>2. /\ Slope(row) = 1 - 1 * a /\ LowBase(row) = lo /\ UpBase(row) = up
    BY <1>3 DEF Slope, LowBase, UpBase
  <2>3. (1 - 1 * a) * x = x - m /\ 1 - 1 * a \in Int
    BY <1>2
  <2> HIDE DEF m, a, lo, up
  <2> QED
    BY <1>2, <2>1, <2>2, <2>3
<1>4. CASE row.u = -1
  <2>1. Holds(row, x, y - x) <=> lo <= m + (-1) * (y - x) /\ m + (-1) * (y - x) <= up
    BY <1>4 DEF Holds
  <2>2. /\ Slope(row) = 1 - (-1) * a /\ LowBase(row) = -up /\ UpBase(row) = -lo
    BY <1>4 DEF Slope, LowBase, UpBase
  <2>3. (1 - (-1) * a) * x = x + m /\ 1 - (-1) * a \in Int
    BY <1>2
  <2> HIDE DEF m, a, lo, up
  <2> QED
    BY <1>2, <2>1, <2>2, <2>3
<1> QED
  BY <1>1, <1>3, <1>4

LEMMA ProductRises ==
    ASSUME NEW a \in Int, 0 <= a, NEW x \in Int, NEW z \in Int, x <= z
    PROVE  a * x <= a * z
<1>1. z - x \in Nat /\ a \in Nat
  OBVIOUS
<1>2. a * (z - x) \in Nat
  BY <1>1
<1>3. a * (z - x) = a * z - a * x /\ a * z \in Int /\ a * x \in Int
  OBVIOUS
<1> QED
  BY <1>2, <1>3

(* A line is within bounds that it keeps on both sides. *)
LEMMA LineBetween ==
    ASSUME NEW a \in Int, NEW c \in Int, NEW x1 \in Int, NEW x \in Int, NEW x2 \in Int,
           x1 <= x, x <= x2, c <= a * x1, c <= a * x2
    PROVE  c <= a * x
<1>1. a * x \in Int /\ a * x1 \in Int /\ a * x2 \in Int
  OBVIOUS
<1>2. CASE 0 <= a
  BY <1>1, <1>2, ProductRises
<1>3. CASE ~(0 <= a)
  <2>1. 0 <= -a /\ -a \in Int
    BY <1>3
  <2>2. (-a) * x <= (-a) * x2
    BY <2>1, ProductRises
  <2>3. (-a) * x = -(a * x) /\ (-a) * x2 = -(a * x2)
    OBVIOUS
  <2> QED
    BY <1>1, <2>2, <2>3
<1> QED
  BY <1>2, <1>3

(* Between two places where one line is above another it stays above. *)
LEMMA LinesBetween ==
    ASSUME NEW a \in Int, NEW b \in Int, NEW c \in Int, NEW d \in Int,
           NEW x1 \in Int, NEW x \in Int, NEW x2 \in Int, x1 <= x, x <= x2,
           a * x1 + c <= b * x1 + d, a * x2 + c <= b * x2 + d
    PROVE  a * x + c <= b * x + d
<1> DEFINE m == b - a
<1>1. \A z \in Int : m * z = b * z - a * z /\ b * z \in Int /\ a * z \in Int
  OBVIOUS
<1>2. m \in Int /\ c - d \in Int
  OBVIOUS
<1> HIDE DEF m
<1>3. c - d <= m * x1 /\ c - d <= m * x2
  BY <1>1
<1>4. c - d <= m * x
  BY <1>2, <1>3, LineBetween
<1> QED
  BY <1>1, <1>4

LEMMA LineIsInt ==
    ASSUME NEW a \in Int, NEW c \in Int, NEW x \in Int
    PROVE  a * x + c \in Int
OBVIOUS

LEMMA LineRises ==
    ASSUME NEW a \in Int, 0 <= a, NEW c \in Int, NEW x \in Int, NEW z \in Int, x <= z
    PROVE  a * x + c <= a * z + c
<1>1. a * x <= a * z /\ a * x \in Int /\ a * z \in Int
  BY ProductRises
<1> QED
  BY <1>1

(* A row without u bounds the speed alone. *)
LEMMA RowBetween ==
    ASSUME NEW row, UnitRow(row), row.u = 0, NEW x1 \in Int, NEW x \in Int, NEW x2 \in Int,
           x1 <= x, x <= x2, NEW u1 \in Int, NEW u \in Int, NEW u2 \in Int,
           Holds(row, x1, u1), Holds(row, x2, u2)
    PROVE  Holds(row, x, u)
<1> DEFINE a == row.x
<1>1. a \in Int /\ -a \in Int /\ row.lo \in Int /\ row.up \in Int /\ -row.up \in Int
  BY DEF UnitRow
<1>2. \A z \in Int, v \in Int : Holds(row, z, v) <=> row.lo <= a * z /\ a * z <= row.up
  <2>1. ASSUME NEW z \in Int, NEW v \in Int
        PROVE  a * z + row.u * v = a * z
    <3>1. row.u * v = 0
      OBVIOUS
    <3>2. a * z \in Int
      BY <1>1
    <3> QED
      BY <3>1, <3>2
  <2> QED
    BY <2>1 DEF Holds
<1>3. /\ row.lo <= a * x1 /\ a * x1 <= row.up
      /\ row.lo <= a * x2 /\ a * x2 <= row.up
  BY <1>2
<1>4. \A z \in Int : (-a) * z = -(a * z) /\ a * z \in Int
  BY <1>1
<1> HIDE DEF a
<1>5. row.lo <= a * x
  BY <1>1, <1>3, LineBetween
<1>6. -row.up <= (-a) * x
  <2>1. -row.up <= (-a) * x1 /\ -row.up <= (-a) * x2
    BY <1>1, <1>3, <1>4
  <2> QED
    BY <1>1, <2>1, LineBetween
<1>7. a * x <= row.up
  BY <1>1, <1>4, <1>6
<1> QED
  BY <1>2, <1>5, <1>7

ControlSets == [Knots -> [lo : Speeds, up : Speeds]]

LEMMA SetFacts ==
    ASSUME ctrl \in ControlSets, NEW k \in Knots
    PROVE  /\ ctrl[k].lo \in 0 .. XMax /\ ctrl[k].up \in 0 .. XMax
           /\ \A y \in Int : Inside(y, ctrl[k]) => y \in Speeds
<1>1. ctrl[k].lo \in 0 .. XMax /\ ctrl[k].up \in 0 .. XMax /\ XMax \in Nat
  BY LimitsAssumption DEF ControlSets, Speeds
<1> QED
  BY <1>1 DEF Inside, Speeds

LEMMA NextKnot ==
    ASSUME NEW k \in 0 .. Segments - 1
    PROVE  k \in Int /\ k \in Knots /\ k + 1 \in Knots
BY LimitsAssumption DEF Knots

(* What a step from x to y asks, row by row. *)
LEMMA AllowedFacts ==
    ASSUME problem \in Problems, NEW k \in 0 .. Segments - 1, NEW x \in Int, NEW y \in Int
    PROVE  Allowed(k, x, y) <=>
             /\ x <= VelocityBound(k) /\ x <= SpeedBound(k)
             /\ \A row \in Rows(k) : row.u = 0 => Holds(row, x, y - x)
             /\ \A row \in Rows(k) : row.u # 0 =>
                   /\ Slope(row) * x + LowBase(row) <= y
                   /\ y <= Slope(row) * x + UpBase(row)
<1>1. \A row \in Rows(k) : row.u # 0 =>
         (Holds(row, x, y - x) <=> /\ Slope(row) * x + LowBase(row) <= y
                                   /\ y <= Slope(row) * x + UpBase(row))
  BY RowFacts, RowBounds
<1> QED
  BY <1>1 DEF Allowed

LEMMA ControllableConvex ==
    ASSUME problem \in Problems, ctrl \in ControlSets, NEW k \in 0 .. Segments - 1,
           NEW x1 \in Controllable(k), NEW x2 \in Controllable(k), NEW x \in Int,
           x1 <= x, x <= x2
    PROVE  x \in Controllable(k)
<1> DEFINE L == ctrl[k + 1].lo
           U == ctrl[k + 1].up
           R == {row \in Rows(k) : row.u # 0}
           Low(row, z) == Slope(row) * z + LowBase(row)
           Upp(row, z) == Slope(row) * z + UpBase(row)
           T == {y \in Nat : L <= y /\ \A row \in R : Low(row, x) <= y}
<1>1. /\ x1 \in 0 .. XMax /\ x2 \in 0 .. XMax /\ XMax \in Nat
      /\ L \in 0 .. XMax /\ U \in 0 .. XMax
  BY SetFacts, NextKnot, LimitsAssumption DEF Controllable, Speeds
<1>2. PICK y1 \in Speeds : Inside(y1, ctrl[k + 1]) /\ Allowed(k, x1, y1)
  BY DEF Controllable
<1>3. PICK y2 \in Speeds : Inside(y2, ctrl[k + 1]) /\ Allowed(k, x2, y2)
  BY DEF Controllable
<1>4. y1 \in Int /\ y2 \in Int /\ L <= y1 /\ y1 <= U /\ L <= y2 /\ y2 <= U
  BY <1>1, <1>2, <1>3 DEF Inside, Speeds
<1>5. /\ x1 <= VelocityBound(k) /\ x1 <= SpeedBound(k)
      /\ \A row \in Rows(k) : row.u = 0 => Holds(row, x1, y1 - x1)
      /\ \A row \in R : Low(row, x1) <= y1 /\ y1 <= Upp(row, x1)
  <2>1. x1 \in Int /\ y1 \in Int /\ Allowed(k, x1, y1)
    BY <1>1, <1>2, <1>4
  <2> QED
    BY <2>1, AllowedFacts
<1>6. /\ x2 <= VelocityBound(k) /\ x2 <= SpeedBound(k)
      /\ \A row \in Rows(k) : row.u = 0 => Holds(row, x2, y2 - x2)
      /\ \A row \in R : Low(row, x2) <= y2 /\ y2 <= Upp(row, x2)
  <2>1. x2 \in Int /\ y2 \in Int /\ Allowed(k, x2, y2)
    BY <1>1, <1>3, <1>4
  <2> QED
    BY <2>1, AllowedFacts
<1>7. \A row \in R : Slope(row) \in Int /\ LowBase(row) \in Int /\ UpBase(row) \in Int
  BY RowFacts, RowBounds
<1>8. \A row \in R : \A z \in Int : Low(row, z) \in Int /\ Upp(row, z) \in Int
  BY <1>7, LineIsInt
<1> HIDE DEF L, U, R
<1>9. \A row, other \in R : Low(row, x) <= Upp(other, x)
  <2> SUFFICES ASSUME NEW row \in R, NEW other \in R
               PROVE  Low(row, x) <= Upp(other, x)
    OBVIOUS
  <2>1. Low(row, x1) <= Upp(other, x1) /\ Low(row, x2) <= Upp(other, x2)
    <3>1. /\ Low(row, x1) \in Int /\ Upp(other, x1) \in Int
          /\ Low(row, x2) \in Int /\ Upp(other, x2) \in Int
      BY <1>1, <1>8
    <3>2. /\ Low(row, x1) <= y1 /\ y1 <= Upp(other, x1)
          /\ Low(row, x2) <= y2 /\ y2 <= Upp(other, x2)
      BY <1>5, <1>6
    <3> HIDE DEF Low, Upp
    <3> QED
      BY <3>1, <3>2, <1>4
  <2>2. x1 \in Int /\ x2 \in Int
    BY <1>1
  <2> QED
    BY <1>7, <2>1, <2>2, LinesBetween
<1>10. \A row \in R : Low(row, x) <= U /\ L <= Upp(row, x)
  <2> SUFFICES ASSUME NEW row \in R PROVE Low(row, x) <= U /\ L <= Upp(row, x)
    OBVIOUS
  <2> DEFINE a == Slope(row)
             c == LowBase(row)
             d == UpBase(row)
  <2>1. a \in Int /\ c \in Int /\ d \in Int /\ x1 \in Int /\ x2 \in Int
        /\ L \in Int /\ U \in Int
    BY <1>1, <1>7
  <2>2. /\ a * x1 + c <= y1 /\ y1 <= a * x1 + d
        /\ a * x2 + c <= y2 /\ y2 <= a * x2 + d
    BY <1>5, <1>6
  <2>3. /\ a * x1 + c \in Int /\ a * x1 + d \in Int
        /\ a * x2 + c \in Int /\ a * x2 + d \in Int
    BY <2>1, LineIsInt
  <2> HIDE DEF a, c, d
  <2>4. /\ a * x1 + c <= 0 * x1 + U /\ 0 * x1 + L <= a * x1 + d
        /\ a * x2 + c <= 0 * x2 + U /\ 0 * x2 + L <= a * x2 + d
    BY <1>4, <2>1, <2>2, <2>3
  <2>5. a * x + c <= 0 * x + U /\ 0 * x + L <= a * x + d
    BY <2>1, <2>4, LinesBetween
  <2>6. a * x + c <= U /\ L <= a * x + d
    BY <2>1, <2>5
  <2> QED
    BY <2>6 DEF a, c, d
<1>11. PICK y \in T : \A z \in T : y <= z
  <2>1. U \in T
    BY <1>1, <1>4, <1>10
  <2>2. T \in SUBSET Nat /\ T # {}
    BY <2>1
  <2> HIDE DEF T
  <2> QED
    BY <2>2, LeastNat
<1>12. y \in Nat /\ L <= y /\ y <= U /\ \A row \in R : Low(row, x) <= y
  BY <1>1, <1>4, <1>10, <1>11
<1>13. ASSUME NEW row \in R PROVE y <= Upp(row, x)
  <2> SUFFICES ASSUME ~(y <= Upp(row, x)) PROVE FALSE
    OBVIOUS
  <2> DEFINE e == Upp(row, x)
  <2>1. e \in Int /\ L <= e /\ \A other \in R : Low(other, x) <= e /\ Low(other, x) \in Int
    BY <1>8, <1>9, <1>10
  <2>2. ~(y <= e)
    OBVIOUS
  <2> HIDE DEF e, Low
  <2>3. y - 1 \in Nat /\ L <= y - 1 /\ \A other \in R : Low(other, x) <= y - 1
    BY <1>1, <1>12, <2>1, <2>2
  <2>4. y - 1 \in T
    BY <2>3
  <2> QED
    BY <1>11, <1>12, <2>4
<1>14. x \in Speeds /\ x <= VelocityBound(k) /\ x <= SpeedBound(k)
  <2>1. VelocityBound(k) \in Int /\ SpeedBound(k) \in Int
    BY BoundFacts
  <2> QED
    BY <1>1, <1>6, <2>1 DEF Speeds
<1>15. \A row \in Rows(k) : row.u = 0 => Holds(row, x, y - x)
  <2>1. /\ y1 - x1 \in Int /\ y2 - x2 \in Int /\ y - x \in Int
        /\ x1 \in Int /\ x2 \in Int
    BY <1>1, <1>4, <1>12
  <2> QED
    BY <1>5, <1>6, <2>1, RowFacts, RowBetween
<1>16. Allowed(k, x, y)
  <2>1. \A row \in Rows(k) : row.u # 0 =>
           /\ Slope(row) * x + LowBase(row) <= y /\ y <= Slope(row) * x + UpBase(row)
    BY <1>12, <1>13 DEF R
  <2> QED
    BY <1>12, <1>14, <1>15, <2>1, AllowedFacts
<1>17. Inside(y, ctrl[k + 1]) /\ y \in Speeds
  BY <1>1, <1>12 DEF Inside, Speeds, L, U
<1> QED
  BY <1>14, <1>16, <1>17 DEF Controllable

(* So the two linear programs of a grid point say all about its set. *)
LEMMA ControllableInterval ==
    ASSUME problem \in Problems, ctrl \in ControlSets, NEW k \in 0 .. Segments - 1,
           Controllable(k) # {}
    PROVE  LET set == [lo |-> Extrema!Min(Controllable(k)),
                       up |-> Extrema!Max(Controllable(k))]
           IN  /\ set \in [lo : Speeds, up : Speeds]
               /\ \A x \in Int : Inside(x, set) <=> x \in Controllable(k)
<1> DEFINE C == Controllable(k)
           l == Extrema!Min(C)
           u == Extrema!Max(C)
<1>1. C \in SUBSET Speeds /\ C \in SUBSET Nat /\ C \in SUBSET Int /\ C # {}
      /\ XMax \in Int /\ \A x \in C : x <= XMax
  BY LimitsAssumption DEF Controllable, Speeds
<1> HIDE DEF C
<1>2. l \in C /\ \A x \in C : l <= x
  BY <1>1, LeastSpeed
<1>3. u \in C /\ \A x \in C : x <= u
  BY <1>1, GreatestBounded
<1> HIDE DEF l, u
<1>4. \A x \in Int : l <= x /\ x <= u <=> x \in C
  BY <1>2, <1>3, ControllableConvex DEF C
<1>5. l \in Speeds /\ u \in Speeds
  BY <1>1, <1>2, <1>3
<1> DEFINE set == [lo |-> l, up |-> u]
<1>6. set \in [lo : Speeds, up : Speeds] /\ \A x \in Int : Inside(x, set) <=> x \in C
  BY <1>4, <1>5 DEF Inside
<1> QED
  BY <1>6 DEF set, l, u, C

(* Over a steady path as much can be reached from a greater speed, or more. *)
LEMMA GreaterReaches ==
    ASSUME Steady, problem \in Problems, ctrl \in ControlSets, NEW k \in 0 .. Segments - 1,
           NEW x \in Int, NEW y \in Int, Inside(y, ctrl[k + 1]), Allowed(k, x, y),
           NEW z \in Controllable(k), x <= z
    PROVE  \E w \in Int : y <= w /\ Inside(w, ctrl[k + 1]) /\ Allowed(k, z, w)
<1>1. PICK v \in Speeds : Inside(v, ctrl[k + 1]) /\ Allowed(k, z, v)
  BY DEF Controllable
<1>2. v \in Int /\ z \in Int
  BY LimitsAssumption DEF Controllable, Speeds
<1>3. CASE y <= v
  BY <1>1, <1>2, <1>3
<1>4. CASE ~(y <= v)
  <2>1. /\ z <= VelocityBound(k) /\ z <= SpeedBound(k)
        /\ \A row \in Rows(k) : row.u = 0 => Holds(row, z, v - z)
        /\ \A row \in Rows(k) : row.u # 0 => Slope(row) * z + LowBase(row) <= v
    BY <1>1, <1>2, AllowedFacts
  <2>2. \A row \in Rows(k) : row.u # 0 => y <= Slope(row) * x + UpBase(row)
    BY AllowedFacts
  <2>3. \A row \in Rows(k) : row.u = 0 => Holds(row, z, y - z)
    <3>1. v - z \in Int /\ y - z \in Int /\ z <= z
      BY <1>2
    <3> QED
      BY <1>2, <2>1, <3>1, RowFacts, RowBetween
  <2>4. ASSUME NEW row \in Rows(k), row.u # 0
        PROVE  Slope(row) * z + LowBase(row) <= y /\ y <= Slope(row) * z + UpBase(row)
    <3> DEFINE a == Slope(row)
               c == LowBase(row)
               d == UpBase(row)
    <3>1. a \in Int /\ 0 <= a /\ c \in Int /\ d \in Int
      <4>1. UnitRow(row)
        BY RowFacts
      <4>2. Slope(row) \in Int /\ LowBase(row) \in Int /\ UpBase(row) \in Int
        BY <2>4, <4>1, <1>2, RowBounds
      <4>3. row.u * row.x <= row.u * row.u
        BY DEF Steady
      <4>4. row.u * row.u = 1 /\ row.u * row.x \in Int
        <5>1. row.u \in {-1, 1} /\ row.x \in Int
          BY <2>4, <4>1 DEF UnitRow
        <5> QED
          BY <5>1
      <4>5. 0 <= Slope(row)
        BY <4>3, <4>4 DEF Slope
      <4> QED
        BY <4>2, <4>5
    <3>2. a * z + c <= v /\ y <= a * x + d
      BY <2>1, <2>2, <2>4
    <3> HIDE DEF a, c, d
    <3>3. a * x + d <= a * z + d
      BY <1>2, <3>1, LineRises
    <3>5. a * z + c \in Int /\ a * z + d \in Int /\ a * x + d \in Int
      BY <1>2, <3>1, LineIsInt
    <3>6. a * z + c <= y /\ y <= a * z + d
      BY <1>2, <1>4, <3>2, <3>3, <3>5
    <3> QED
      BY <3>6 DEF a, c, d
  <2>5. Allowed(k, z, y)
    BY <1>2, <2>1, <2>3, <2>4, AllowedFacts
  <2> QED
    BY <2>5
<1> QED
  BY <1>3, <1>4

(* The accelerations of the forward pass are the steps that are allowed. *)
LEMMA AccelerationFacts ==
    ASSUME problem \in Problems, ctrl \in ControlSets, NEW k \in 0 .. Segments - 1,
           NEW x \in Speeds
    PROVE  /\ \A u \in Accelerations(k, x) :
                 u \in Int /\ x + u \in Speeds /\ Inside(x + u, ctrl[k + 1])
           /\ \A y \in Int : Inside(y, ctrl[k + 1]) /\ Allowed(k, x, y) =>
                 y - x \in Accelerations(k, x)
           /\ x \in Controllable(k) =>
                 \A u \in Accelerations(k, x) : Allowed(k, x, x + u)
<1>1. x \in 0 .. XMax /\ XMax \in Nat /\ Eps \in Nat /\ k + 1 \in Knots
  BY LimitsAssumption, NextKnot DEF Speeds
<1>2. \A y \in Int : Inside(y, ctrl[k + 1]) => y \in 0 .. XMax
  BY <1>1, SetFacts DEF Speeds
<1>3. \A u \in Accelerations(k, x) :
         u \in Int /\ x + u \in Int /\ Inside(x + u, ctrl[k + 1])
  BY <1>1 DEF Accelerations
<1>4. ASSUME NEW y \in Int, Inside(y, ctrl[k + 1]), Allowed(k, x, y)
      PROVE  y - x \in Accelerations(k, x)
  <2>1. y \in 0 .. XMax
    BY <1>2, <1>4
  <2>2. y - x \in -(XMax + Eps) .. (XMax + Eps) /\ x + (y - x) = y
    BY <1>1, <2>1
  <2>3. \A row \in Rows(k) : Holds(row, x, y - x)
    BY <1>4 DEF Allowed
  <2> QED
    BY <1>4, <2>2, <2>3 DEF Accelerations
<1>5. ASSUME x \in Controllable(k), NEW u \in Accelerations(k, x)
      PROVE  Allowed(k, x, x + u)
  <2>1. PICK v \in Speeds : Allowed(k, x, v)
    BY <1>5 DEF Controllable
  <2>2. u \in Int /\ x + u \in Int /\ v \in Int /\ (x + u) - x = u
        /\ v - x \in Int /\ x \in Int /\ x <= x
    BY <1>1, <1>3 DEF Speeds
  <2>3. \A row \in Rows(k) : row.u # 0 => Holds(row, x, u)
    BY DEF Accelerations
  <2>4. \A row \in Rows(k) : Holds(row, x, v - x)
    BY <2>1 DEF Allowed
  <2>5. \A row \in Rows(k) : row.u = 0 => Holds(row, x, u)
    BY <2>2, <2>4, RowFacts, RowBetween
  <2>6. \A row \in Rows(k) : Holds(row, x, u)
    BY <2>3, <2>5
  <2> QED
    BY <2>1, <2>2, <2>6 DEF Allowed
<1> QED
  BY <1>2, <1>3, <1>4, <1>5 DEF Speeds

(* How far the forward pass got: it stays in the sets, every step from a     *)
(* controllable speed is allowed, a profile that leaves the first pass is    *)
(* slower there, and over a steady path none is faster anywhere.             *)
Passed(n) ==
  /\ \A j \in 1 .. n : Inside(speeds[j], ctrl[j])
  /\ \A j \in 0 .. n - 1 : \A x, y \in Speeds :
        x = speeds[j] /\ y = speeds[j + 1] /\ x \in Controllable(j) => Allowed(j, x, y)
  /\ Inside(problem.start, ctrl[0]) => scale = 0
  /\ scale = 0 => \A p \in Profiles : \A j \in 0 .. n - 1 :
        SameUntil(p, j) => p[j + 1] <= speeds[j + 1]
  /\ scale = 0 /\ Steady => \A p \in Profiles : \A j \in 0 .. n : p[j] <= speeds[j]

ToppraType ==
  /\ problem \in Problems /\ ctrl \in ControlSets /\ speeds \in [Knots -> Speeds]
  /\ scale \in Nat /\ knot \in Int
  /\ ctrl[Segments] = [lo |-> problem.end, up |-> problem.end]
  /\ speeds[0] = problem.start

Known(k) == pc = "backward" => knot < k

(* The sets computed are exactly those that reach the end, and every profile *)
(* lies in them.                                                             *)
SetsKnown ==
  /\ \A k \in 0 .. Segments - 1 : Known(k) =>
        \A x \in Int : Inside(x, ctrl[k]) <=> x \in Controllable(k)
  /\ \A p \in Profiles : \A k \in Knots : Known(k) => Inside(p[k], ctrl[k])

ToppraInv ==
  /\ ToppraType
  /\ result \in {"none", "timed", "failed"} /\ pc \in {"backward", "forward", "done"}
  /\ result = "failed" => pc = "done" /\ Profiles = {}
  /\ result # "failed" => SetsKnown
  /\ pc = "backward" => knot \in -1 .. Segments - 1 /\ scale = 0 /\ result = "none"
  /\ pc = "forward" => knot \in 0 .. Segments /\ result = "none" /\ Passed(knot)
  /\ pc = "done" => result # "none" /\ (result = "timed" => Passed(Segments))

LEMMA ProfileFacts ==
    ASSUME problem \in Problems, NEW p \in Profiles
    PROVE  /\ \A k \in Knots : p[k] \in Int /\ p[k] \in Speeds
           /\ p[0] = problem.start /\ p[Segments] = problem.end
           /\ \A k \in 0 .. Segments - 1 : Allowed(k, p[k], p[k + 1])
BY LimitsAssumption, NextKnot DEF Profiles, Speeds

LEMMA KnotFacts ==
    /\ 0 \in Knots /\ Segments \in Knots /\ Segments - 1 \in 0 .. Segments - 1
    /\ \A k \in Knots : k \in Int
    /\ \A k \in Knots : k # Segments => k \in 0 .. Segments - 1
    /\ 0 \in 0 .. Segments - 1
BY LimitsAssumption DEF Knots

LEMMA AllowedKept ==
    ASSUME problem' = problem, NEW k, NEW x, NEW y
    PROVE  Allowed(k, x, y)' <=> Allowed(k, x, y)
BY DEF Allowed, VelocityBound, SpeedBound, Rows, AccelerationRows, TorqueRowOnly,
   FrameRows, AccelerationRow, TorqueRow, FrameRow, Interpolated, Row, Holds

LEMMA SteadyKept ==
    ASSUME problem' = problem
    PROVE  Steady' <=> Steady
BY DEF Steady, Rows, AccelerationRows, TorqueRowOnly, FrameRows, AccelerationRow,
   TorqueRow, FrameRow, Interpolated, Row

LEMMA ProfilesKept ==
    ASSUME problem' = problem
    PROVE  Profiles' = Profiles
BY AllowedKept DEF Profiles, Knots, Speeds

LEMMA ControllableKept ==
    ASSUME problem' = problem, NEW k, ctrl'[k + 1] = ctrl[k + 1]
    PROVE  Controllable(k)' = Controllable(k)
BY AllowedKept DEF Controllable, Inside, Speeds

LEMMA ToppraInitInv == ToppraInit => ToppraInv
<1> SUFFICES ASSUME ToppraInit PROVE ToppraInv
  OBVIOUS
<1>1. problem \in Problems
  BY DEF ToppraInit
<1>2. problem.start \in Speeds /\ problem.end \in Speeds
  BY <1>1, ProblemFacts
<1>3. ToppraType
  BY <1>1, <1>2, KnotFacts, LimitsAssumption DEF ToppraInit, ToppraType, ControlSets
<1>4. SetsKnown
  <2>1. \A k \in Knots : Known(k) => k = Segments
    <3>1. pc = "backward" /\ knot = Segments - 1
      BY DEF ToppraInit
    <3> QED
      BY <3>1, LimitsAssumption DEF Known, Knots
  <2>2. ASSUME NEW k \in 0 .. Segments - 1 PROVE ~Known(k)
    BY <2>1, NextKnot, LimitsAssumption
  <2>3. ASSUME NEW p \in Profiles, NEW k \in Knots, Known(k)
        PROVE  Inside(p[k], ctrl[k])
    <3>1. k = Segments
      BY <2>1, <2>3
    <3>2. p[k] = problem.end /\ p[k] \in Int
      BY <1>1, <3>1, ProfileFacts
    <3>3. ctrl[k] = [lo |-> problem.end, up |-> problem.end]
      BY <1>3, <3>1 DEF ToppraType
    <3> QED
      BY <3>2, <3>3 DEF Inside
  <2> QED
    BY <2>2, <2>3 DEF SetsKnown
<1> QED
  BY <1>3, <1>4, LimitsAssumption DEF ToppraInit, ToppraInv

LEMMA BackwardStep == ToppraInv /\ Backward => ToppraInv'
<1> SUFFICES ASSUME ToppraInv, Backward PROVE ToppraInv'
  OBVIOUS
<1>1. /\ problem \in Problems /\ ctrl \in ControlSets /\ speeds \in [Knots -> Speeds]
      /\ ctrl[Segments] = [lo |-> problem.end, up |-> problem.end]
      /\ speeds[0] = problem.start
      /\ pc = "backward" /\ knot \in 0 .. Segments - 1 /\ scale = 0 /\ result = "none"
      /\ SetsKnown /\ problem' = problem /\ scale' = scale /\ speeds' = speeds
  BY LimitsAssumption DEF Backward, ToppraInv, ToppraType
<1>2. /\ knot \in Int /\ knot + 1 \in Knots /\ knot \in Knots
  BY <1>1, NextKnot
<1>3. Profiles' = Profiles
  BY <1>1, ProfilesKept
<1>4. ASSUME NEW p \in Profiles PROVE p[knot] \in Controllable(knot)
  <2>1. Inside(p[knot + 1], ctrl[knot + 1])
    BY <1>1, <1>2 DEF SetsKnown, Known
  <2> QED
    BY <1>1, <1>2, <2>1, ProfileFacts DEF Controllable
<1>5. CASE Controllable(knot) = {}
  <2>1. pc' = "done" /\ result' = "failed" /\ knot' = knot /\ ctrl' = ctrl
    BY <1>5 DEF Backward
  <2>2. Profiles' = {}
    BY <1>3, <1>4, <1>5
  <2>3. ToppraType'
    BY <1>1, <1>2, <2>1 DEF ToppraType, Problems, UnitRows, ControlSets, Knots, Speeds
  <2> QED
    BY <2>1, <2>2, <2>3 DEF ToppraInv
<1>6. CASE Controllable(knot) # {}
  <2> DEFINE set == [lo |-> Extrema!Min(Controllable(knot)),
                     up |-> Extrema!Max(Controllable(knot))]
  <2>1. /\ ctrl' = [ctrl EXCEPT ![knot] = set] /\ knot' = knot - 1
        /\ pc' = pc /\ result' = result
    BY <1>6 DEF Backward
  <2>2. /\ set \in [lo : Speeds, up : Speeds]
        /\ \A x \in Int : Inside(x, set) <=> x \in Controllable(knot)
    BY <1>1, <1>6, ControllableInterval
  <2> HIDE DEF set
  <2>3. ctrl' \in ControlSets /\ ctrl'[knot] = set
        /\ \A k \in Knots : k # knot => ctrl'[k] = ctrl[k]
    BY <1>1, <1>2, <2>1, <2>2 DEF ControlSets
  <2>4. ToppraType'
    <3>1. ctrl'[Segments] = ctrl[Segments]
      BY <1>1, <2>3, KnotFacts, LimitsAssumption
    <3> QED
      BY <1>1, <1>2, <2>1, <2>3, <3>1 DEF ToppraType, Problems, UnitRows, ControlSets, Knots, Speeds
  <2>5. ASSUME NEW k \in 0 .. Segments - 1, knot <= k
        PROVE  \A x \in Int : Inside(x, ctrl'[k]) <=> x \in Controllable(k)'
    <3>1. k + 1 \in Knots /\ k + 1 # knot /\ k \in Knots /\ k \in Int
      BY <1>2, <2>5, NextKnot
    <3>2. Controllable(k)' = Controllable(k)
      BY <1>1, <2>3, <3>1, ControllableKept
    <3>3. CASE k = knot
      BY <2>2, <2>3, <3>2, <3>3
    <3>4. CASE k # knot
      <4>1. knot < k
        BY <1>2, <2>5, <3>1, <3>4
      <4> QED
        BY <1>1, <2>3, <3>1, <3>2, <3>4, <4>1 DEF SetsKnown, Known
    <3> QED
      BY <3>3, <3>4
  <2>6. ASSUME NEW p \in Profiles, NEW k \in Knots, knot <= k
        PROVE  Inside(p[k], ctrl'[k])
    <3>1. p[k] \in Int /\ k \in Int
      BY <1>1, ProfileFacts, KnotFacts
    <3>2. CASE k = knot
      BY <1>4, <2>2, <2>3, <3>1, <3>2
    <3>3. CASE k # knot
      <4>1. knot < k
        BY <1>2, <2>6, <3>1, <3>3
      <4> QED
        BY <1>1, <2>3, <3>3, <4>1 DEF SetsKnown, Known
    <3> QED
      BY <3>2, <3>3
  <2>7. \A k \in Int : Known(k)' => knot <= k
    BY <1>1, <1>2, <2>1 DEF Known
  <2>8. SetsKnown'
    <3>1. \A k \in 0 .. Segments - 1 : Known(k)' =>
             \A x \in Int : Inside(x, ctrl[k])' <=> x \in Controllable(k)'
      BY <2>5, <2>7 DEF Inside
    <3>2. \A p \in Profiles : \A k \in Knots : Known(k)' => Inside(p[k], ctrl[k])'
      BY <2>6, <2>7, KnotFacts DEF Inside
    <3> QED
      BY <1>3, <3>1, <3>2 DEF SetsKnown, Knots
  <2>9. knot' \in -1 .. Segments - 1 /\ pc' = "backward" /\ result' = "none" /\ scale' = 0
    BY <1>1, <1>2, <2>1, LimitsAssumption
  <2> QED
    BY <2>4, <2>8, <2>9 DEF ToppraInv
<1> QED
  BY <1>5, <1>6

LEMMA KnownKept ==
    ASSUME SetsKnown, problem' = problem, ctrl' = ctrl,
           \A k \in Knots : Known(k)
    PROVE  SetsKnown'
<1>1. \A k \in Int : Controllable(k)' = Controllable(k)
  BY ControllableKept
<1>2. Profiles' = Profiles
  BY ProfilesKept
<1>3. \A k \in 0 .. Segments - 1 : \A x \in Int :
         Inside(x, ctrl[k]) <=> x \in Controllable(k)
  BY NextKnot DEF SetsKnown
<1>4. \A p \in Profiles : \A k \in Knots : Inside(p[k], ctrl[k])
  BY DEF SetsKnown
<1>5. \A k \in 0 .. Segments - 1 : \A x \in Int :
         Inside(x, ctrl'[k]) <=> x \in Controllable(k)'
  BY <1>1, <1>3
<1>6. \A p \in Profiles' : \A k \in Knots : Inside(p[k], ctrl'[k])
  BY <1>2, <1>4
<1> QED
  BY <1>5, <1>6 DEF SetsKnown, Knots, Inside

LEMMA TestStartStep == ToppraInv /\ TestStart => ToppraInv'
<1> SUFFICES ASSUME ToppraInv, TestStart PROVE ToppraInv'
  OBVIOUS
<1>1. /\ ToppraType /\ SetsKnown /\ scale = 0 /\ result = "none" /\ pc = "backward"
      /\ knot < 0 /\ knot \in Int
      /\ problem' = problem /\ ctrl' = ctrl /\ scale' = scale /\ speeds' = speeds
  BY DEF TestStart, ToppraInv, ToppraType
<1>2. \A k \in Knots : Known(k)
  BY <1>1, LimitsAssumption DEF Known, Knots
<1>3. SetsKnown' /\ Profiles' = Profiles
  BY <1>1, <1>2, KnownKept, ProfilesKept
<1>4. knot' \in Int => ToppraType'
  BY <1>1 DEF ToppraType, Problems, UnitRows, ControlSets, Knots, Speeds
<1>5. CASE pc' = "forward" /\ knot' = 0 /\ UNCHANGED result
  <2>1. Passed(0)'
    <3>1. \A p \in Profiles : p[0] <= speeds[0]
      <4>1. speeds[0] = problem.start /\ speeds[0] \in Int
        BY <1>1, KnotFacts, LimitsAssumption DEF ToppraType, Speeds
      <4>2. problem \in Problems
        BY <1>1 DEF ToppraType
      <4> QED
        BY <4>1, <4>2, ProfileFacts
    <3>2. \A j \in 0 .. 0 : j = 0
      OBVIOUS
    <3>3. \A p \in Profiles' : \A j \in 0 .. 0 : p[j] <= speeds'[j]
      BY <1>1, <1>3, <3>1, <3>2
    <3>4. 0 .. 0 - 1 = {} /\ 1 .. 0 = {}
      OBVIOUS
    <3> QED
      BY <1>1, <3>3, <3>4 DEF Passed
  <2> QED
    BY <1>1, <1>3, <1>4, <1>5, <2>1, LimitsAssumption DEF ToppraInv
<1>6. CASE /\ pc' = "done" /\ result' = "failed" /\ UNCHANGED knot
           /\ ~Inside(problem.start, [lo |-> ctrl[0].lo - Eps, up |-> ctrl[0].up + Eps])
  <2>1. ~Inside(problem.start, ctrl[0])
    <3>1. /\ problem.start \in Int /\ Eps \in Nat
          /\ ctrl[0].lo \in Int /\ ctrl[0].up \in Int
      BY <1>1, KnotFacts, SetFacts, ProblemFacts, LimitsAssumption
         DEF ToppraType, Speeds
    <3> QED
      BY <1>6, <3>1 DEF Inside
  <2>2. Profiles = {}
    <3> SUFFICES ASSUME NEW p \in Profiles PROVE FALSE
      OBVIOUS
    <3>1. Inside(p[0], ctrl[0])
      BY <1>1, <1>2, KnotFacts DEF SetsKnown
    <3>2. p[0] = problem.start
      BY <1>1, ProfileFacts DEF ToppraType
    <3> QED
      BY <2>1, <3>1, <3>2
  <2> QED
    BY <1>1, <1>3, <1>4, <1>6, <2>2 DEF ToppraInv
<1> QED
  BY <1>5, <1>6 DEF TestStart

(* In its set the speed at hand is controllable, and a step is left. *)
LEMMA OnTheWay ==
    ASSUME ToppraInv, pc = "forward", knot < Segments
    PROVE  /\ problem \in Problems /\ ctrl \in ControlSets /\ SetsKnown
           /\ knot \in 0 .. Segments - 1 /\ knot \in Knots /\ knot + 1 \in Knots
           /\ knot \in Int /\ speeds[knot] \in Speeds
           /\ Inside(problem.start, ctrl[0]) => Inside(speeds[knot], ctrl[knot])
           /\ knot # 0 => Inside(speeds[knot], ctrl[knot])
           /\ \A x \in Int : Inside(x, ctrl[knot]) <=> x \in Controllable(knot)
           /\ \A p \in Profiles : \A k \in Knots : Inside(p[k], ctrl[k])
<1>1. /\ ToppraType /\ SetsKnown /\ Passed(knot) /\ knot \in 0 .. Segments
  BY DEF ToppraInv
<1>2. knot \in 0 .. Segments - 1 /\ knot \in Int
  BY <1>1, LimitsAssumption
<1>3. knot \in Knots /\ knot + 1 \in Knots
  BY <1>2, NextKnot
<1>4. knot # 0 => Inside(speeds[knot], ctrl[knot])
  <2>1. knot # 0 => knot \in 1 .. knot
    BY <1>2
  <2> QED
    BY <1>1, <2>1 DEF Passed
<1>5. speeds[0] = problem.start
  BY <1>1 DEF ToppraType
<1>6. \A k \in Int : Known(k)
  BY DEF Known
<1> QED
  BY <1>1, <1>2, <1>3, <1>4, <1>5, <1>6, KnotFacts DEF ToppraType, SetsKnown

LEMMA ForwardStep == ToppraInv /\ Forward => ToppraInv'
<1> SUFFICES ASSUME ToppraInv, Forward PROVE ToppraInv'
  OBVIOUS
<1> DEFINE k == knot
           x == speeds[knot]
<1>1. /\ pc = "forward" /\ knot < Segments /\ ToppraType /\ Passed(knot)
      /\ result = "none" /\ knot' = knot + 1
      /\ UNCHANGED <<problem, pc, ctrl, scale, result>>
  BY DEF Forward, ToppraInv
<1>2. PICK u \in Accelerations(knot, speeds[knot]) :
         /\ speeds' = [speeds EXCEPT ![knot + 1] = speeds[knot] + u]
         /\ scale = 0 => u = Extrema!Max(Accelerations(knot, speeds[knot]))
  <2> DEFINE A == Accelerations(knot, speeds[knot])
  <2>1. A # {} /\ \E v \in Greedy(scale, A) :
                     speeds' = [speeds EXCEPT ![knot + 1] = speeds[knot] + v]
    BY DEF Forward
  <2>2. A \in SUBSET Int /\ XMax + Eps \in Int /\ \A v \in A : v <= XMax + Eps
    BY LimitsAssumption DEF Accelerations
  <2> HIDE DEF A
  <2>3. Extrema!Max(A) \in A
    BY <2>1, <2>2, GreatestBounded
  <2> QED
    BY <2>1, <2>3 DEF Greedy, A
<1>3. /\ problem \in Problems /\ ctrl \in ControlSets /\ SetsKnown
      /\ knot \in 0 .. Segments - 1 /\ knot \in Knots /\ knot + 1 \in Knots
      /\ knot \in Int /\ speeds[knot] \in Speeds
      /\ \A z \in Int : Inside(z, ctrl[knot]) <=> z \in Controllable(knot)
      /\ \A p \in Profiles : \A j \in Knots : Inside(p[j], ctrl[j])
  BY <1>1, OnTheWay
<1>4. /\ u \in Int /\ speeds[knot] + u \in Speeds
      /\ Inside(speeds[knot] + u, ctrl[knot + 1])
      /\ speeds[knot] \in Controllable(knot) =>
            Allowed(knot, speeds[knot], speeds[knot] + u)
  BY <1>2, <1>3, AccelerationFacts
<1>5. /\ speeds' \in [Knots -> Speeds] /\ speeds'[knot + 1] = speeds[knot] + u
      /\ \A j \in Knots : j # knot + 1 => speeds'[j] = speeds[j]
  BY <1>1, <1>2, <1>3, <1>4 DEF ToppraType
<1>6. \A j \in 0 .. knot : j \in Knots /\ j # knot + 1 /\ j \in Int
  BY <1>3, LimitsAssumption DEF Knots
<1>7. ToppraType'
  <2>1. speeds'[0] = speeds[0]
    BY <1>3, <1>5, <1>6
  <2> QED
    BY <1>1, <1>3, <1>5, <2>1 DEF ToppraType, Problems, UnitRows, ControlSets, Knots, Speeds
<1>8. SetsKnown' /\ Profiles' = Profiles
  <2>1. \A j \in Knots : Known(j)
    BY <1>1 DEF Known
  <2> QED
    BY <1>1, <1>3, <2>1, KnownKept, ProfilesKept
<1>9. \A j \in 1 .. knot + 1 : Inside(speeds'[j], ctrl[j])
  <2> SUFFICES ASSUME NEW j \in 1 .. knot + 1 PROVE Inside(speeds'[j], ctrl[j])
    OBVIOUS
  <2>1. j = knot + 1 \/ (j \in 1 .. knot /\ j \in 0 .. knot)
    BY <1>3
  <2> QED
    BY <1>1, <1>4, <1>5, <1>6, <2>1 DEF Passed
<1>10. ASSUME NEW j \in 0 .. knot, NEW y \in Speeds, NEW z \in Speeds,
              y = speeds'[j], z = speeds'[j + 1], y \in Controllable(j)'
       PROVE  Allowed(j, y, z)'
  <2>1. y = speeds[j] /\ y \in Controllable(j)
    <3>1. ctrl'[j + 1] = ctrl[j + 1]
      BY <1>1
    <3> QED
      BY <1>1, <1>5, <1>6, <1>10, <3>1, ControllableKept
  <2>2. Allowed(j, y, z)
    <3>1. CASE j = knot
      BY <1>4, <1>5, <1>10, <2>1, <3>1
    <3>2. CASE j # knot
      <4>1. j \in 0 .. knot - 1 /\ j + 1 \in 0 .. knot
        BY <1>3, <3>2
      <4>2. z = speeds[j + 1]
        BY <1>5, <1>6, <1>10, <4>1
      <4> QED
        BY <1>1, <2>1, <4>1, <4>2 DEF Passed
    <3> QED
      BY <3>1, <3>2
  <2> QED
    BY <1>1, <2>2, AllowedKept
<1>11. ASSUME scale = 0, NEW w \in Int, Inside(w, ctrl[knot + 1]),
              Allowed(knot, speeds[knot], w)
       PROVE  w <= speeds'[knot + 1]
  <2>1. w - speeds[knot] \in Accelerations(knot, speeds[knot])
    BY <1>3, <1>11, AccelerationFacts
  <2>2. w - speeds[knot] <= u
    <3> DEFINE A == Accelerations(knot, speeds[knot])
    <3>1. A \in SUBSET Int /\ XMax + Eps \in Int /\ \A v \in A : v <= XMax + Eps
      BY LimitsAssumption DEF Accelerations
    <3>2. w - speeds[knot] \in A /\ u = Extrema!Max(A)
      BY <1>2, <1>11, <2>1
    <3> HIDE DEF A
    <3> QED
      BY <3>1, <3>2, GreatestBounded
  <2>3. speeds[knot] \in Int
    BY <1>3, LimitsAssumption DEF Speeds
  <2> QED
    BY <1>4, <1>5, <1>11, <2>2, <2>3
<1>12. ASSUME NEW p \in Profiles
       PROVE  /\ p[knot] \in Int /\ p[knot + 1] \in Int
              /\ Allowed(knot, p[knot], p[knot + 1])
              /\ Inside(p[knot + 1], ctrl[knot + 1])
              /\ speeds[knot] \in Controllable(knot) /\ speeds[knot] \in Int
  <2>1. /\ p[knot] \in Int /\ p[knot + 1] \in Int
        /\ Allowed(knot, p[knot], p[knot + 1])
        /\ Inside(p[knot + 1], ctrl[knot + 1])
        /\ p[0] = problem.start /\ Inside(p[0], ctrl[0])
    BY <1>3, ProfileFacts, KnotFacts
  <2>2. Inside(speeds[knot], ctrl[knot])
    BY <1>1, <2>1, OnTheWay
  <2>3. speeds[knot] \in Int
    BY <1>3, LimitsAssumption DEF Speeds
  <2> QED
    BY <1>3, <2>1, <2>2, <2>3
<1>13. ASSUME scale = 0, NEW p \in Profiles, NEW j \in 0 .. knot,
              \A i \in 0 .. j : p[i] = speeds'[i]
       PROVE  p[j + 1] <= speeds'[j + 1]
  <2>1. CASE j = knot
    <3>1. p[knot] = speeds[knot]
      <4>1. knot \in 0 .. j /\ knot \in 0 .. knot
        BY <1>3, <2>1
      <4> QED
        BY <1>5, <1>6, <1>13, <4>1
    <3> QED
      BY <1>11, <1>12, <1>13, <2>1, <3>1
  <2>2. CASE j # knot
    <3>1. j \in 0 .. knot - 1 /\ j + 1 \in 0 .. knot
      BY <1>3, <2>2
    <3>2. \A i \in 0 .. j : i \in 0 .. knot
      BY <1>3
    <3>3. SameUntil(p, j)
      BY <1>5, <1>6, <1>13, <3>2 DEF SameUntil
    <3> QED
      BY <1>1, <1>5, <1>6, <1>13, <3>1, <3>3 DEF Passed
  <2> QED
    BY <2>1, <2>2
<1>14. ASSUME scale = 0, Steady, NEW p \in Profiles, NEW j \in 0 .. knot + 1
       PROVE  p[j] <= speeds'[j]
  <2>1. \A i \in 0 .. knot : p[i] <= speeds[i]
    BY <1>1, <1>14 DEF Passed
  <2>2. CASE j # knot + 1
    <3>1. j \in 0 .. knot
      BY <1>3, <2>2
    <3> QED
      BY <1>5, <1>6, <2>1, <3>1
  <2>3. CASE j = knot + 1
    <3>1. p[knot] <= speeds[knot]
      <4>1. knot \in 0 .. knot
        BY <1>3
      <4> QED
        BY <2>1, <4>1
    <3>2. PICK w \in Int : /\ p[knot + 1] <= w /\ Inside(w, ctrl[knot + 1])
                           /\ Allowed(knot, speeds[knot], w)
      BY <1>3, <1>12, <1>14, <3>1, GreaterReaches
    <3>3. w <= speeds'[knot + 1] /\ speeds'[knot + 1] \in Int
      BY <1>3, <1>4, <1>5, <1>11, <1>14, <3>2, LimitsAssumption DEF Speeds
    <3> QED
      BY <1>12, <2>3, <3>2, <3>3
  <2> QED
    BY <2>2, <2>3
<1>15. Passed(knot)'
  <2>1. knot' = knot + 1 /\ knot' - 1 = knot
    BY <1>1, <1>3
  <2>2. \A j \in 1 .. knot' : Inside(speeds[j], ctrl[j])'
    BY <1>1, <1>9 DEF Inside
  <2>3. \A j \in 0 .. knot' - 1 : \A y, z \in Speeds :
           y = speeds'[j] /\ z = speeds'[j + 1] /\ y \in Controllable(j)' =>
              Allowed(j, y, z)'
    BY <1>10, <2>1
  <2>4. Inside(problem.start, ctrl[0])' => scale' = 0
    BY <1>1 DEF Passed, Inside
  <2>5. scale' = 0 => \A p \in Profiles' : \A j \in 0 .. knot' - 1 :
           SameUntil(p, j)' => p[j + 1] <= speeds'[j + 1]
    BY <1>1, <1>8, <1>13, <2>1 DEF SameUntil
  <2>6. scale' = 0 /\ Steady' =>
           \A p \in Profiles' : \A j \in 0 .. knot' : p[j] <= speeds'[j]
    BY <1>1, <1>8, <1>14, <2>1, SteadyKept
  <2> QED
    BY <2>2, <2>3, <2>4, <2>5, <2>6 DEF Passed, Speeds
<1>16. knot' \in 0 .. Segments
  BY <1>1, <1>3, LimitsAssumption
<1> QED
  BY <1>1, <1>3, <1>7, <1>8, <1>15, <1>16 DEF ToppraInv

LEMMA RescaleStep == ToppraInv /\ Rescale => ToppraInv'
<1> SUFFICES ASSUME ToppraInv, Rescale PROVE ToppraInv'
  OBVIOUS
<1>1. /\ pc = "forward" /\ knot < Segments /\ ToppraType /\ result = "none"
      /\ Accelerations(knot, speeds[knot]) = {} /\ scale' = scale + 1
      /\ UNCHANGED <<problem, ctrl, speeds>>
  BY DEF Rescale, ToppraInv
<1>2. /\ problem \in Problems /\ ctrl \in ControlSets /\ SetsKnown
      /\ knot \in 0 .. Segments - 1 /\ knot \in Knots /\ knot + 1 \in Knots
      /\ knot \in Int /\ speeds[knot] \in Speeds
      /\ Inside(problem.start, ctrl[0]) => Inside(speeds[knot], ctrl[knot])
      /\ \A z \in Int : Inside(z, ctrl[knot]) <=> z \in Controllable(knot)
      /\ \A p \in Profiles : \A j \in Knots : Inside(p[j], ctrl[j])
  BY <1>1, OnTheWay
<1>3. ~Inside(problem.start, ctrl[0])
  <2> SUFFICES ASSUME Inside(problem.start, ctrl[0]) PROVE FALSE
    OBVIOUS
  <2>1. speeds[knot] \in Int
    BY <1>2, LimitsAssumption DEF Speeds
  <2>2. speeds[knot] \in Controllable(knot)
    BY <1>2, <2>1
  <2>3. PICK y \in Speeds : Inside(y, ctrl[knot + 1]) /\ Allowed(knot, speeds[knot], y)
    BY <2>2 DEF Controllable
  <2>4. y \in Int
    BY LimitsAssumption DEF Speeds
  <2>5. y - speeds[knot] \in Accelerations(knot, speeds[knot])
    BY <1>2, <2>3, <2>4, AccelerationFacts
  <2> QED
    BY <1>1, <2>5
<1>4. Profiles = {}
  <2> SUFFICES ASSUME NEW p \in Profiles PROVE FALSE
    OBVIOUS
  <2> QED
    BY <1>2, <1>3, KnotFacts, ProfileFacts
<1>5. SetsKnown' /\ Profiles' = {}
  <2>1. \A j \in Knots : Known(j)
    BY <1>1 DEF Known
  <2> QED
    BY <1>1, <1>2, <1>4, <2>1, KnownKept, ProfilesKept
<1>6. scale' \in Nat /\ (knot' \in Int => ToppraType')
  BY <1>1 DEF ToppraType, Problems, UnitRows, ControlSets, Knots, Speeds
<1>7. CASE knot' = 0 /\ UNCHANGED <<pc, result>>
  <2>1. Passed(0)'
    <3>1. \A p \in Profiles' : \A j \in 0 .. 0 : p[j] <= speeds'[j]
      BY <1>5
    <3>2. ~Inside(problem.start, ctrl[0])'
      BY <1>1, <1>3 DEF Inside
    <3>3. 0 .. 0 - 1 = {} /\ 1 .. 0 = {}
      OBVIOUS
    <3> QED
      BY <1>5, <3>1, <3>2, <3>3 DEF Passed
  <2> QED
    BY <1>1, <1>5, <1>6, <1>7, <2>1, LimitsAssumption DEF ToppraInv
<1>8. CASE pc' = "done" /\ result' = "failed" /\ UNCHANGED knot
  BY <1>1, <1>2, <1>5, <1>6, <1>8 DEF ToppraInv
<1> QED
  BY <1>7, <1>8 DEF Rescale

(* Whatever leaves the sets, the speeds and the pass as they are.            *)
LEMMA PassKept ==
    ASSUME UNCHANGED <<problem, ctrl, speeds, scale>>, NEW n \in Int, Passed(n)
    PROVE  Passed(n)'
<1>1. Profiles' = Profiles
  BY ProfilesKept
<1>2. \A j \in Int : Controllable(j)' = Controllable(j)
  BY ControllableKept
<1>3. \A j \in 0 .. n - 1 : \A y, z \in Speeds :
         y = speeds'[j] /\ z = speeds'[j + 1] /\ y \in Controllable(j)' =>
            Allowed(j, y, z)'
  BY <1>2, AllowedKept DEF Passed
<1>4. \A j \in 1 .. n : Inside(speeds[j], ctrl[j])'
  BY DEF Passed, Inside
<1>5. Inside(problem.start, ctrl[0])' => scale' = 0
  BY DEF Passed, Inside
<1>6. scale' = 0 => \A p \in Profiles' : \A j \in 0 .. n - 1 :
         SameUntil(p, j)' => p[j + 1] <= speeds'[j + 1]
  BY <1>1 DEF Passed, SameUntil
<1>7. scale' = 0 /\ Steady' => \A p \in Profiles' : \A j \in 0 .. n : p[j] <= speeds'[j]
  BY <1>1, SteadyKept DEF Passed
<1> QED
  BY <1>3, <1>4, <1>5, <1>6, <1>7 DEF Passed, Speeds

LEMMA TimedStep == ToppraInv /\ Timed => ToppraInv'
<1> SUFFICES ASSUME ToppraInv, Timed PROVE ToppraInv'
  OBVIOUS
<1>1. /\ pc = "forward" /\ knot = Segments /\ ToppraType /\ Passed(Segments)
      /\ SetsKnown /\ pc' = "done" /\ result' = "timed"
      /\ UNCHANGED <<problem, knot, ctrl, scale, speeds>>
  BY DEF Timed, ToppraInv
<1>2. SetsKnown'
  <2>1. \A j \in Knots : Known(j)
    BY <1>1 DEF Known
  <2> QED
    BY <1>1, <2>1, KnownKept
<1>3. ToppraType'
  BY <1>1 DEF ToppraType, Problems, UnitRows, ControlSets, Knots, Speeds
<1>4. Passed(Segments)'
  BY <1>1, PassKept, LimitsAssumption
<1> QED
  BY <1>1, <1>2, <1>3, <1>4 DEF ToppraInv

LEMMA ToppraStep == ToppraInv /\ [ToppraNext]_toppraVars => ToppraInv'
<1> SUFFICES ASSUME ToppraInv, [ToppraNext]_toppraVars PROVE ToppraInv'
  OBVIOUS
<1>1. CASE UNCHANGED toppraVars
  <2>1. UNCHANGED <<problem, pc, knot, ctrl, scale, speeds, result>>
    BY <1>1 DEF toppraVars
  <2>2. Profiles' = Profiles
    BY <2>1, ProfilesKept
  <2>3. ToppraType'
    BY <2>1 DEF ToppraInv, ToppraType, Problems, UnitRows, ControlSets, Knots, Speeds
  <2>4. SetsKnown => SetsKnown'
    <3> SUFFICES ASSUME SetsKnown PROVE SetsKnown'
      OBVIOUS
    <3>1. \A j \in Int : Controllable(j)' = Controllable(j)
      BY <2>1, ControllableKept
    <3>2. \A k \in 0 .. Segments - 1 : Known(k)' =>
             \A x \in Int : Inside(x, ctrl[k])' <=> x \in Controllable(k)'
      BY <2>1, <3>1 DEF SetsKnown, Known, Inside
    <3>3. \A p \in Profiles' : \A k \in Knots : Known(k)' => Inside(p[k], ctrl[k])'
      BY <2>1, <2>2 DEF SetsKnown, Known, Inside
    <3> QED
      BY <3>2, <3>3 DEF SetsKnown, Knots
  <2>5. \A n \in Int : Passed(n) => Passed(n)'
    BY <2>1, PassKept
  <2>6. (Passed(Segments) => Passed(Segments)') /\ (Passed(knot) => Passed(knot)')
    <3>1. Passed(knot)' <=> \E n \in Int : n = knot /\ Passed(n)'
      BY <2>1, <2>3 DEF ToppraType, Passed
    <3>2. Passed(knot) => \E n \in Int : n = knot /\ Passed(n)
      BY DEF ToppraInv, ToppraType
    <3> QED
      BY <2>5, <3>1, <3>2, LimitsAssumption
  <2> QED
    BY <2>1, <2>2, <2>3, <2>4, <2>6 DEF ToppraInv
<1> QED
  BY <1>1, BackwardStep, TestStartStep, ForwardStep, RescaleStep, TimedStep
     DEF ToppraNext

LEMMA ToppraOptimal == ToppraInv => TimesOptimally
<1> SUFFICES ASSUME ToppraInv, pc = "done"
             PROVE  IF Profiles # {}
                      THEN /\ result = "timed" /\ speeds \in Profiles
                           /\ \A p \in Profiles : \A k \in 0 .. Segments - 1 :
                                SameUntil(p, k) => p[k + 1] <= speeds[k + 1]
                           /\ Steady =>
                                \A p \in Profiles : \A k \in Knots : p[k] <= speeds[k]
                      ELSE result = "timed" =>
                             /\ ~Inside(problem.start, ctrl[0])
                             /\ speeds[Segments] = problem.end
                             /\ \A k \in 1 .. Segments - 1 :
                                  Allowed(k, speeds[k], speeds[k + 1])
  BY DEF TimesOptimally
<1>1. result \in {"timed", "failed"} /\ (result = "failed" => Profiles = {})
      /\ ToppraType
  BY DEF ToppraInv
<1>2. ASSUME result = "timed"
      PROVE  /\ speeds[Segments] = problem.end
             /\ \A k \in 1 .. Segments - 1 : Allowed(k, speeds[k], speeds[k + 1])
             /\ Inside(problem.start, ctrl[0]) =>
                   /\ speeds \in Profiles
                   /\ \A p \in Profiles : \A k \in 0 .. Segments - 1 :
                        SameUntil(p, k) => p[k + 1] <= speeds[k + 1]
                   /\ Steady => \A p \in Profiles : \A k \in Knots : p[k] <= speeds[k]
             /\ Profiles # {} => Inside(problem.start, ctrl[0])
  <2>1. /\ SetsKnown /\ Passed(Segments) /\ \A k \in Int : Known(k)
        /\ speeds \in [Knots -> Speeds] /\ speeds[0] = problem.start
        /\ \A k \in Knots : speeds[k] \in Int /\ speeds[k] \in Speeds
    BY <1>1, <1>2, LimitsAssumption DEF ToppraInv, ToppraType, Known, Speeds
  <2>2. ASSUME NEW k \in 0 .. Segments - 1, Inside(speeds[k], ctrl[k])
        PROVE  Allowed(k, speeds[k], speeds[k + 1])
    <3>1. k \in Knots /\ k + 1 \in Knots /\ k \in Int
      BY NextKnot
    <3>2. speeds[k] \in Controllable(k)
      BY <2>1, <2>2, <3>1 DEF SetsKnown
    <3> QED
      BY <2>1, <3>1, <3>2 DEF Passed
  <2>3. \A k \in 1 .. Segments : Inside(speeds[k], ctrl[k])
    BY <2>1 DEF Passed
  <2>4. speeds[Segments] = problem.end
    <3>1. Segments \in 1 .. Segments /\ problem.end \in Int
      BY <1>1, ProblemFacts, LimitsAssumption DEF ToppraType, Speeds
    <3>2. ctrl[Segments] = [lo |-> problem.end, up |-> problem.end]
      BY <1>1 DEF ToppraType
    <3> QED
      BY <2>1, <2>3, <3>1, <3>2, KnotFacts DEF Inside
  <2>5. \A k \in 1 .. Segments - 1 : k \in 0 .. Segments - 1 /\ k \in 1 .. Segments
    BY LimitsAssumption
  <2>6. ASSUME Inside(problem.start, ctrl[0]) PROVE speeds \in Profiles
    <3>1. \A k \in 0 .. Segments - 1 : k = 0 \/ k \in 1 .. Segments
      BY LimitsAssumption
    <3>2. \A k \in 0 .. Segments - 1 : Inside(speeds[k], ctrl[k])
      BY <2>1, <2>3, <2>6, <3>1
    <3> QED
      BY <2>1, <2>2, <2>4, <3>2 DEF Profiles
  <2>7. ASSUME Inside(problem.start, ctrl[0])
        PROVE  /\ \A p \in Profiles : \A k \in 0 .. Segments - 1 :
                    SameUntil(p, k) => p[k + 1] <= speeds[k + 1]
               /\ Steady => \A p \in Profiles : \A k \in Knots : p[k] <= speeds[k]
    BY <2>1, <2>7 DEF Passed, Knots
  <2>8. ASSUME NEW p \in Profiles PROVE Inside(problem.start, ctrl[0])
    <3>1. Inside(p[0], ctrl[0])
      BY <2>1, KnotFacts DEF SetsKnown
    <3> QED
      BY <1>1, <3>1, ProfileFacts DEF ToppraType
  <2> QED
    BY <2>2, <2>3, <2>4, <2>5, <2>6, <2>7, <2>8
<1> QED
  BY <1>1, <1>2

(* The time parameterisation returns a profile within the limits whenever    *)
(* there is one, the one that is greedy from the start, and over a steady    *)
(* path the fastest; without one it answers only where the tolerance let the *)
(* start through, and then keeps to the rows from the first grid point on    *)
(* (Toppra::SolvePathParameterization).                                      *)
THEOREM TimesAreOptimal == ToppraSpec => []TimesOptimally
<1> QED
  BY ToppraInitInv, ToppraStep, ToppraOptimal, PTL DEF ToppraSpec
-----------------------------------------------------------------------------
(***************************************************************************)
(* RegionBuilding: the verdicts of the inspector and the cliques.          *)
(***************************************************************************)
(* A sequence of steps has its results, one after each step.               *)
Results(S, a, n, move) ==
    {f \in [0 .. n -> S] : f[0] = a /\ \A i \in 1 .. n : f[i] = move[<<i, f[i - 1]>>]}

LEMMA ResultsExist ==
    ASSUME NEW S, NEW a \in S, NEW n \in Nat, NEW move \in [(1 .. n) \X S -> S]
    PROVE  Results(S, a, n, move) # {}
<1> DEFINE P(k) == \E f \in [0 .. k -> S] :
              f[0] = a /\ \A i \in 1 .. k : f[i] = move[<<i, f[i - 1]>>]
           K == {k \in Nat : k <= n => P(k)}
<1>1. 0 \in K
  <2>1. [i \in 0 .. 0 |-> a] \in [0 .. 0 -> S]
    OBVIOUS
  <2>2. 1 .. 0 = {}
    OBVIOUS
  <2> QED
    <3> DEFINE f == [i \in 0 .. 0 |-> a]
    <3>1. f \in [0 .. 0 -> S] /\ f[0] = a
      OBVIOUS
    <3>2. \A i \in 1 .. 0 : f[i] = move[<<i, f[i - 1]>>]
      OBVIOUS
    <3> HIDE DEF f
    <3>3. P(0)
      BY <3>1, <3>2
    <3> QED
      BY <3>3
<1>2. ASSUME NEW k \in Nat, k \in K PROVE k + 1 \in K
  <2> SUFFICES ASSUME k + 1 <= n PROVE P(k + 1)
    OBVIOUS
  <2>1. PICK f \in [0 .. k -> S] :
              f[0] = a /\ \A i \in 1 .. k : f[i] = move[<<i, f[i - 1]>>]
    BY <1>2
  <2> DEFINE g == [i \in 0 .. (k + 1) |-> IF i = k + 1 THEN move[<<k + 1, f[k]>>] ELSE f[i]]
  <2>2. move[<<k + 1, f[k]>>] \in S
    OBVIOUS
  <2>3. g \in [0 .. (k + 1) -> S]
    BY <2>2
  <2>4. g[0] = a
    BY <2>1
  <2>5. ASSUME NEW i \in 1 .. (k + 1) PROVE g[i] = move[<<i, g[i - 1]>>]
    <3>1. CASE i = k + 1
      <4>1. k \in 0 .. (k + 1) /\ k # k + 1 /\ (k + 1) - 1 = k
        OBVIOUS
      <4>2. g[k] = f[k] /\ g[k + 1] = move[<<k + 1, f[k]>>]
        BY <4>1
      <4> HIDE DEF g
      <4> QED
        BY <3>1, <4>1, <4>2
    <3>2. CASE i # k + 1
      <4>1. i \in 1 .. k /\ i - 1 \in 0 .. k
        BY <3>2
      <4> QED
        BY <2>1, <3>2, <4>1
    <3> QED
      BY <3>1, <3>2
  <2> HIDE DEF g
  <2> QED
    BY <2>3, <2>4, <2>5
<1> HIDE DEF K
<1>3. Nat \subseteq K
  BY <1>1, <1>2, SetInduction
<1>4. P(n)
  BY <1>3 DEF K
<1> QED
  BY <1>4 DEF Results

LEMMA DivisionFacts ==
    ASSUME NEW a \in Int, NEW b \in Nat \ {0}
    PROVE  /\ a \div b \in Int
           /\ b * (a \div b) <= a
           /\ a < b * (a \div b) + b
OBVIOUS

LEMMA Monotone ==
    ASSUME NEW b \in Nat, NEW m \in Int, NEW n \in Int, m <= n
    PROVE  b * m <= b * n
OBVIOUS

LEMMA DivisionIs ==
    ASSUME NEW a \in Int, NEW b \in Nat \ {0}, NEW k \in Int,
           b * k <= a, a < b * k + b
    PROVE  a \div b = k
<1> DEFINE d == a \div b
<1>1. d \in Int /\ b * d <= a /\ a < b * d + b
  BY DivisionFacts
<1> HIDE DEF d
<1>2. ~(d + 1 <= k)
  <2> SUFFICES ASSUME d + 1 <= k PROVE FALSE
    OBVIOUS
  <2>1. b * (d + 1) <= b * k
    BY <1>1, Monotone
  <2>2. b * (d + 1) = b * d + b
    BY <1>1
  <2> QED
    BY <1>1, <2>1, <2>2
<1>3. ~(k + 1 <= d)
  <2> SUFFICES ASSUME k + 1 <= d PROVE FALSE
    OBVIOUS
  <2>1. b * (k + 1) <= b * d
    BY <1>1, Monotone
  <2>2. b * (k + 1) = b * k + b
    BY <1>1
  <2> QED
    BY <1>1, <2>1, <2>2
<1> QED
  BY <1>1, <1>2, <1>3 DEF d

(* The turns that CalcWrapMultiple gives are those that bring an angle      *)
(* within half a turn of the other.                                         *)
LEMMA WrapIsNearest ==
    ASSUME NEW q \in Int, NEW ref \in Int, NEW k \in Int
    PROVE  k = WrapMultiple(q, ref) <=>
             /\ -Period <= 2 * (q + k * Period - ref)
             /\ 2 * (q + k * Period - ref) < Period
<1> DEFINE a == 2 * (q - ref) + Period
           b == 2 * Period
           d == a \div b
<1>1. Period \in Nat \ {0}
  BY PeriodIsOdd
<1>2. a \in Int /\ b \in Nat \ {0}
  BY <1>1
<1>3. d \in Int /\ b * d <= a /\ a < b * d + b
  BY <1>2, DivisionFacts
<1>4. WrapMultiple(q, ref) = -d
  BY DEF WrapMultiple
<1>5. b * (-k) = -(2 * (k * Period))
  BY <1>1
<1>6. ASSUME k = -d PROVE /\ -Period <= 2 * (q + k * Period - ref)
                          /\ 2 * (q + k * Period - ref) < Period
  <2>1. -k = d /\ k * Period \in Int
    BY <1>1, <1>3, <1>6
  <2>2. b * d = -(2 * (k * Period))
    BY <1>5, <2>1
  <2> HIDE DEF d
  <2> QED
    BY <1>1, <1>3, <2>1, <2>2
<1>7. ASSUME /\ -Period <= 2 * (q + k * Period - ref)
             /\ 2 * (q + k * Period - ref) < Period
      PROVE  k = -d
  <2>1. k * Period \in Int
    BY <1>1
  <2>2. b * (-k) <= a /\ a < b * (-k) + b
    BY <1>1, <1>5, <1>7, <2>1
  <2>3. -k \in Int
    OBVIOUS
  <2>4. d = -k
    <3> HIDE DEF a, b
    <3> QED
      BY <1>2, <2>2, <2>3, DivisionIs
  <2> HIDE DEF d
  <2> QED
    BY <2>4
<1> QED
  BY <1>4, <1>6, <1>7
LEMMA MaxFacts ==
    ASSUME NEW S \in SUBSET Int, S # {}, IsFiniteSet(S)
    PROVE  Extremes!Max(S) \in S /\ \A m \in S : Extremes!Max(S) >= m
BY GreatestElement DEF Extremes!Max, Greatest

(***************************************************************************)
(* The turns of a point.                                                   *)
(***************************************************************************)
(* The turns that keep the joints that do not turn.                        *)
TurnsAllowed == {k \in Turns : \A i \in Axes \ Continuous : k[i] = 0}

IsBox(r) ==
    /\ r.lb \in [Axes -> Int] /\ r.ub \in [Axes -> Int]
    /\ \A i \in Continuous : 2 * (r.ub[i] - r.lb[i]) <= Period

InReach(q, r) ==
    /\ q \in [Axes -> Int]
    /\ \A i \in Continuous : \A bound \in {r.lb[i], r.ub[i]} :
         /\ -5 * Period < 2 * (q[i] - bound)
         /\ 2 * (q[i] - bound) < 5 * Period

LEMMA BoxFacts == \A r \in GrownBoxes : IsBox(r)
<1> SUFFICES ASSUME NEW r \in GrownBoxes PROVE IsBox(r)
  OBVIOUS
<1>1. PICK rs \in Grown : r \in {rs[n] : n \in DOMAIN rs}
  BY DEF GrownBoxes
<1>2. PICK n \in DOMAIN rs : r = rs[n]
  BY <1>1
<1> QED
  BY <1>2, BoxesAssumption DEF IsBox

LEMMA PointFacts ==
    ASSUME NEW ps \in PointLists
    PROVE  /\ ps \in Seq([Axes -> Int])
           /\ \A n \in DOMAIN ps : ps[n] \in [Axes -> Int]
           /\ \A n \in DOMAIN ps : \A r \in GrownBoxes : InReach(ps[n], r)
<1>1. ps \in Seq([Axes -> Int])
  BY PointsAssumption
<1>2. \A n \in DOMAIN ps : ps[n] \in [Axes -> Int]
  BY <1>1
<1> QED
  BY <1>1, <1>2, PointsAssumption DEF InReach

LEMMA WrapIsSmall ==
    ASSUME NEW q \in Int, NEW ref \in Int,
           -5 * Period < 2 * (q - ref), 2 * (q - ref) < 5 * Period
    PROVE  WrapMultiple(q, ref) \in -2 .. 2
<1> DEFINE a == 2 * (q - ref) + Period
           b == 2 * Period
           d == a \div b
<1>1. Period \in Nat \ {0}
  BY PeriodIsOdd
<1>2. a \in Int /\ b \in Nat \ {0}
  BY <1>1
<1>3. d \in Int /\ b * d <= a /\ a < b * d + b
  BY <1>2, DivisionFacts
<1>4. -4 * Period < a /\ a < 6 * Period
  BY <1>1
<1> HIDE DEF d
<1>5. ~(d <= -3)
  <2> SUFFICES ASSUME d <= -3 PROVE FALSE
    OBVIOUS
  <2>1. b * d <= b * (-3)
    <3> HIDE DEF b
    <3> QED
      BY <1>2, <1>3, Monotone
  <2> QED
    BY <1>1, <1>2, <1>3, <1>4, <2>1
<1>6. ~(3 <= d)
  <2> SUFFICES ASSUME 3 <= d PROVE FALSE
    OBVIOUS
  <2>1. b * 3 <= b * d
    <3> HIDE DEF b
    <3> QED
      BY <1>2, <1>3, Monotone
  <2> QED
    BY <1>1, <1>2, <1>3, <1>4, <2>1
<1>7. d \in -2 .. 2
  BY <1>3, <1>5, <1>6
<1> QED
  BY <1>7 DEF WrapMultiple, d

LEMMA WrapsAreAllowed ==
    ASSUME NEW r, IsBox(r), NEW q, InReach(q, r)
    PROVE  /\ Wraps(q, r) \subseteq TurnsAllowed
           /\ \A k \in TurnsAllowed :
                k \in Wraps(q, r) <=> \A i \in Axes : k[i] \in WrapsOf(q, r, i)
<1>1. \A i \in Axes : WrapsOf(q, r, i) \subseteq -2 .. 2
  <2> SUFFICES ASSUME NEW i \in Axes PROVE WrapsOf(q, r, i) \subseteq -2 .. 2
    OBVIOUS
  <2>1. CASE i \notin Continuous
    BY <2>1 DEF WrapsOf
  <2>2. CASE i \in Continuous
    <3>1. q[i] \in Int /\ r.lb[i] \in Int /\ r.ub[i] \in Int
      BY DEF IsBox, InReach
    <3>2. WrapMultiple(q[i], r.lb[i]) \in -2 .. 2
      BY <2>2, <3>1, WrapIsSmall DEF InReach
    <3>3. WrapMultiple(q[i], r.ub[i]) \in -2 .. 2
      BY <2>2, <3>1, WrapIsSmall DEF InReach
    <3> QED
      BY <2>2, <3>2, <3>3 DEF WrapsOf
  <2> QED
    BY <2>1, <2>2
<1>2. ASSUME NEW k \in Wraps(q, r) PROVE k \in TurnsAllowed
  <2>1. /\ k \in [Axes -> UNION {WrapsOf(q, r, i) : i \in Axes}]
        /\ \A i \in Axes : k[i] \in WrapsOf(q, r, i)
    BY <1>2 DEF Wraps
  <2>2. k \in [Axes -> -2 .. 2]
    BY <1>1, <2>1
  <2>3. \A i \in Axes \ Continuous : k[i] = 0
    BY <2>1 DEF WrapsOf
  <2> QED
    BY <2>2, <2>3 DEF TurnsAllowed, Turns
<1>3. ASSUME NEW k \in TurnsAllowed, \A i \in Axes : k[i] \in WrapsOf(q, r, i)
      PROVE  k \in Wraps(q, r)
  <2>1. k \in [Axes -> -2 .. 2]
    BY DEF TurnsAllowed, Turns
  <2>2. k \in [Axes -> UNION {WrapsOf(q, r, i) : i \in Axes}]
    <3>1. \A i \in Axes : k[i] \in UNION {WrapsOf(q, r, j) : j \in Axes}
      BY <1>3
    <3> HIDE DEF Axes
    <3> QED
      BY <2>1, <3>1
  <2> QED
    BY <1>3, <2>2 DEF Wraps
<1>4. \A k \in Wraps(q, r) : \A i \in Axes : k[i] \in WrapsOf(q, r, i)
  BY DEF Wraps
<1> QED
  BY <1>2, <1>3, <1>4

(* A turn that comes within half a turn of the region is one of those.     *)
LEMMA WrapsThatReach ==
    ASSUME NEW r, IsBox(r), NEW q, InReach(q, r), NEW k \in TurnsAllowed,
           \A i \in Continuous :
             2 * Size(Clamped(Turned(q, k), r)[i] - Turned(q, k)[i]) <= Period
    PROVE  k \in Wraps(q, r)
<1> SUFFICES ASSUME NEW i \in Axes PROVE k[i] \in WrapsOf(q, r, i)
  BY WrapsAreAllowed
<1>1. CASE i \notin Continuous
  BY <1>1 DEF TurnsAllowed, WrapsOf
<1>2. CASE i \in Continuous
  <2> DEFINE x == q[i] + k[i] * Period
             lb == r.lb[i]
             ub == r.ub[i]
  <2>1. /\ q[i] \in Int /\ lb \in Int /\ ub \in Int /\ k[i] \in Int
        /\ Period \in Nat /\ Period % 2 = 1
    BY PeriodIsOdd DEF IsBox, InReach, TurnsAllowed, Turns
  <2>2. x \in Int /\ 2 * (ub - lb) <= Period
    BY <1>2, <2>1 DEF IsBox
  <2>3. Turned(q, k)[i] = x
    BY DEF Turned
  <2>4. Clamped(Turned(q, k), r)[i] = IF x < lb THEN lb ELSE IF x > ub THEN ub ELSE x
    BY <2>3 DEF Clamped
  <2>5. 2 * Size((IF x < lb THEN lb ELSE IF x > ub THEN ub ELSE x) - x) <= Period
    BY <1>2, <2>3, <2>4
  <2> HIDE DEF x, lb, ub
  <2>6. \/ -Period <= 2 * (x - lb) /\ 2 * (x - lb) < Period
        \/ -Period <= 2 * (x - ub) /\ 2 * (x - ub) < Period
    BY <2>1, <2>2, <2>5 DEF Size
  <2>7. k[i] = WrapMultiple(q[i], lb) \/ k[i] = WrapMultiple(q[i], ub)
    <3>1. \A ref \in Int :
             /\ -Period <= 2 * (x - ref)
             /\ 2 * (x - ref) < Period
             => k[i] = WrapMultiple(q[i], ref)
      <4> SUFFICES ASSUME NEW ref \in Int,
                          -Period <= 2 * (x - ref), 2 * (x - ref) < Period
                   PROVE  k[i] = WrapMultiple(q[i], ref)
        OBVIOUS
      <4>1. /\ -Period <= 2 * (q[i] + k[i] * Period - ref)
            /\ 2 * (q[i] + k[i] * Period - ref) < Period
        BY <2>1 DEF x
      <4> QED
        BY <2>1, <4>1, WrapIsNearest, Zenon
    <3> QED
      BY <2>1, <2>6, <3>1
  <2> QED
    BY <1>2, <2>7 DEF WrapsOf, lb, ub
<1> QED
  BY <1>1, <1>2

(* So nothing is missed by looking at those turns only.                    *)
LEMMA InsideIsLies ==
    ASSUME NEW r, IsBox(r), NEW q, InReach(q, r)
    PROVE  InsideRegion(q, r) <=> LiesIn(q, r)
<1>1. LiesIn(q, r) <=> \E k \in TurnsAllowed : PointInSet(Turned(q, k), r)
  BY DEF LiesIn, TurnsOf, TurnsAllowed
<1>2. ASSUME NEW k \in TurnsAllowed, PointInSet(Turned(q, k), r)
      PROVE  k \in Wraps(q, r)
  <2> SUFFICES ASSUME NEW i \in Continuous
               PROVE  2 * Size(Clamped(Turned(q, k), r)[i] - Turned(q, k)[i]) <= Period
    BY WrapsThatReach
  <2>1. i \in Axes
    BY JointsAssumption
  <2>2. /\ q[i] \in Int /\ k[i] \in Int /\ Period \in Nat
        /\ r.lb[i] \in Int /\ r.ub[i] \in Int
    BY <2>1, PeriodIsOdd DEF IsBox, InReach, TurnsAllowed, Turns
  <2>3. Turned(q, k)[i] \in Int
    BY <2>1, <2>2 DEF Turned
  <2>4. Clamped(Turned(q, k), r)[i] = Turned(q, k)[i]
    BY <1>2, <2>1, <2>2, <2>3 DEF Clamped, PointInSet
  <2> QED
    BY <2>2, <2>3, <2>4 DEF Size
<1> QED
  BY <1>1, <1>2, WrapsAreAllowed DEF InsideRegion

LEMMA ConnectedIsSees ==
    ASSUME NEW r, IsBox(r), NEW q, InReach(q, r)
    PROVE  ConnectedTo(q, r) <=> SeesRegion(q, r)
<1>1. SeesRegion(q, r) <=> \E k \in TurnsAllowed : VisiblePoint(Turned(q, k), r) # {}
  BY DEF SeesRegion, TurnsOf, TurnsAllowed
<1>2. ASSUME NEW k \in TurnsAllowed, VisiblePoint(Turned(q, k), r) # {}
      PROVE  k \in Wraps(q, r)
  <2>1. \A i \in Continuous :
           2 * Size(Clamped(Turned(q, k), r)[i] - Turned(q, k)[i]) <= Period
    BY <1>2 DEF VisiblePoint
  <2> QED
    BY <2>1, WrapsThatReach
<1> QED
  BY <1>1, <1>2, WrapsAreAllowed DEF ConnectedTo

(* The constraints do not tell a configuration from a turned one.          *)
LEMMA ModuloTurn ==
    ASSUME NEW a \in Int, NEW b \in Nat \ {0}, NEW k \in Int
    PROVE  (a + k * b) % b = a % b
<1> DEFINE d == a \div b
           c == a + k * b
<1>1. d \in Int /\ b * d <= a /\ a < b * d + b
  BY DivisionFacts
<1>2. k * b \in Int /\ c \in Int
  OBVIOUS
<1>3. b * (d + k) = b * d + k * b /\ d + k \in Int
  BY <1>1
<1>4. b * (d + k) <= c /\ c < b * (d + k) + b
  <2> HIDE DEF d
  <2> QED
    BY <1>1, <1>2, <1>3
<1>5. c \div b = d + k
  <2> HIDE DEF c, d
  <2> QED
    BY <1>1, <1>2, <1>3, <1>4, DivisionIs
<1>6. \A x \in Int : x % b = x - b * (x \div b)
  OBVIOUS
<1>7. a % b = a - b * d /\ c % b = c - b * (d + k)
  BY <1>2, <1>5, <1>6
<1> HIDE DEF d
<1> QED
  BY <1>1, <1>2, <1>3, <1>7

LEMMA TurnedIsAsFree ==
    ASSUME NEW q \in [Axes -> Int], NEW k \in TurnsAllowed
    PROVE  /\ Turned(q, k) \in [Axes -> Int]
           /\ Free(Turned(q, k)) <=> Free(q)
<1>1. k \in [Axes -> Int] /\ \A i \in Axes \ Continuous : k[i] = 0
  BY DEF TurnsAllowed, Turns
<1>2. Period \in Nat \ {0}
  BY PeriodIsOdd
<1>3. \A i \in Axes : Turned(q, k)[i] = q[i] + k[i] * Period
  BY DEF Turned
<1>4. Turned(q, k) \in [Axes -> Int]
  BY <1>1, <1>2 DEF Turned
<1>5. \A i \in Axes : Wrapped(Turned(q, k))[i] = Wrapped(q)[i]
  <2> SUFFICES ASSUME NEW i \in Axes PROVE Wrapped(Turned(q, k))[i] = Wrapped(q)[i]
    OBVIOUS
  <2>1. q[i] \in Int /\ k[i] \in Int
    BY <1>1
  <2>2. CASE i \in Continuous
    <3>1. (q[i] + k[i] * Period) % Period = q[i] % Period
      BY <1>2, <2>1, ModuloTurn
    <3> QED
      BY <1>3, <2>2, <3>1 DEF Wrapped
  <2>3. CASE i \notin Continuous
    <3>1. k[i] * Period = 0
      BY <1>1, <1>2, <2>3
    <3>2. q[i] + k[i] * Period = q[i]
      BY <2>1, <3>1
    <3> QED
      BY <1>3, <2>3, <3>2 DEF Wrapped
  <2> QED
    BY <2>2, <2>3
<1>6. Wrapped(Turned(q, k)) = Wrapped(q)
  BY <1>5 DEF Wrapped
<1> QED
  BY <1>4, <1>6 DEF Free

(* A segment has its first end.                                            *)
Spans(p, q) == {Size(q[i] - p[i]) : i \in Axes} \cup {1}
Longest(p, q) == Extremes!Max(Spans(p, q))

LEMMA LongestFacts ==
    ASSUME NEW p \in [Axes -> Int], NEW q \in [Axes -> Int]
    PROVE  Longest(p, q) \in Nat \ {0}
<1> DEFINE S == {Size(q[i] - p[i]) : i \in Axes}
<1>1. IsFiniteSet(Axes)
  BY JointsAssumption, FS_Interval DEF Axes
<1>2. IsFiniteSet(S)
  <2> DEFINE f == [i \in Axes |-> Size(q[i] - p[i])]
  <2>1. S = {f[i] : i \in Axes}
    OBVIOUS
  <2>2. f \in [Axes -> S]
    OBVIOUS
  <2> HIDE DEF f, S
  <2>3. IsFiniteSet({f[i] : i \in Axes})
    BY <1>1, <2>2, FiniteImage
  <2> QED
    BY <2>1, <2>3
<1>3. IsFiniteSet(Spans(p, q))
  BY <1>2, FS_AddElement DEF Spans
<1>4. Spans(p, q) \in SUBSET Int /\ 1 \in Spans(p, q)
  BY DEF Spans, Size
<1>5. /\ Longest(p, q) \in Spans(p, q)
      /\ \A m \in Spans(p, q) : Longest(p, q) >= m
  BY <1>3, <1>4, MaxFacts DEF Longest
<1> QED
  BY <1>4, <1>5

LEMMA BetweenIs ==
    ASSUME NEW p, NEW q
    PROVE  Between(p, q) =
             {[i \in Axes |-> p[i] + (2 * k * (q[i] - p[i]) + Longest(p, q))
                                \div (2 * Longest(p, q))] : k \in 0 .. Longest(p, q)}
BY DEF Between, Longest, Spans

LEMMA BetweenStarts ==
    ASSUME NEW p \in [Axes -> Int], NEW q \in [Axes -> Int]
    PROVE  p \in Between(p, q)
<1> DEFINE n == Longest(p, q)
           At(k) == [i \in Axes |-> p[i] + (2 * k * (q[i] - p[i]) + n) \div (2 * n)]
<1>1. n \in Nat \ {0}
  BY LongestFacts
<1>2. n \div (2 * n) = 0
  <2> HIDE DEF n
  <2>1. 2 * n \in Nat \ {0} /\ (2 * n) * 0 = 0
    BY <1>1
  <2> QED
    BY <1>1, <2>1, DivisionIs
<1> HIDE DEF n
<1>3. \A i \in Axes : At(0)[i] = p[i]
  <2> SUFFICES ASSUME NEW i \in Axes PROVE At(0)[i] = p[i]
    OBVIOUS
  <2>1. p[i] \in Int /\ q[i] \in Int
    OBVIOUS
  <2>2. 2 * 0 * (q[i] - p[i]) + n = n
    BY <1>1, <2>1
  <2> QED
    BY <1>2, <2>1, <2>2
<1>4. At(0) = p
  BY <1>3
<1>5. 0 \in 0 .. n
  BY <1>1
<1>6. Between(p, q) = {At(k) : k \in 0 .. n}
  BY BetweenIs DEF n
<1> QED
  BY <1>4, <1>5, <1>6

LEMMA BlindUnlessFree ==
    ASSUME NEW q \in [Axes -> Int], NEW r, IsBox(r), SeesRegion(q, r)
    PROVE  Free(q)
<1>1. PICK k \in TurnsAllowed : VisiblePoint(Turned(q, k), r) # {}
  BY DEF SeesRegion, TurnsOf, TurnsAllowed
<1> DEFINE p == Turned(q, k)
           c == Clamped(p, r)
<1>2. Sees(p, c)
  BY <1>1 DEF VisiblePoint
<1>3. p \in [Axes -> Int] /\ (Free(p) <=> Free(q))
  BY TurnedIsAsFree
<1>4. c \in [Axes -> Int]
  BY <1>3 DEF Clamped, IsBox
<1> HIDE DEF p, c
<1> QED
  BY <1>2, <1>3, <1>4, BetweenStarts DEF Sees

(***************************************************************************)
(* The coverage.                                                           *)
(***************************************************************************)
Marks == {"uncovered", "visibility", "volume", "violates"}
InOne(q, E) == \E n \in E : LiesIn(q, regions[n])
SeesOne(q, E) == \E n \in E : SeesRegion(q, regions[n])

(* What the mark of q is once the regions of E are evaluated.              *)
MarkIsRight(q, E, m) ==
    IF Free(q)
    THEN m = IF InOne(q, E) THEN "volume"
             ELSE IF SeesOne(q, E) THEN "visibility" ELSE "uncovered"
    ELSE IF E = {} THEN m = "uncovered"
         ELSE m \in {"volume", "violates"} /\ (m = "volume" => InOne(q, E))

CoverageInv ==
    /\ regions \in Seq(GrownBoxes)
    /\ evaluated \subseteq DOMAIN regions
    /\ settings \in Nat
    /\ settings = 0 => points = <<>> /\ DOMAIN marks = {} /\ evaluated = {}
    /\ settings = 1 =>
         /\ points \in PointLists
         /\ \A i \in DOMAIN points : MarkIsRight(points[i], evaluated, marks[i])

LEMMA MarkTypes ==
    ASSUME NEW q, NEW E, NEW m, MarkIsRight(q, E, m)
    PROVE  m \in Marks
BY DEF MarkIsRight, Marks

LEMMA JudgedMark ==
    ASSUME NEW m \in Marks, NEW q, NEW r
    PROVE  Judged(m, q, r) \in Marks
BY DEF Judged, Marks

(* One more region.                                                        *)
LEMMA JudgedRight ==
    ASSUME NEW q, NEW n, NEW E, NEW m, IsBox(regions[n]), InReach(q, regions[n]),
           MarkIsRight(q, E, m)
    PROVE  MarkIsRight(q, E \cup {n}, Judged(m, q, regions[n]))
<1> DEFINE r == regions[n]
           F == E \cup {n}
<1>1. InsideRegion(q, r) <=> LiesIn(q, r)
  BY InsideIsLies
<1>2. ConnectedTo(q, r) <=> SeesRegion(q, r)
  BY ConnectedIsSees
<1>3. SeesRegion(q, r) => Free(q)
  <2>1. q \in [Axes -> Int]
    BY DEF InReach
  <2> QED
    BY <2>1, BlindUnlessFree
<1>4. InOne(q, F) <=> InOne(q, E) \/ LiesIn(q, r)
  BY DEF InOne
<1>5. SeesOne(q, F) <=> SeesOne(q, E) \/ SeesRegion(q, r)
  BY DEF SeesOne
<1>6. F # {}
  OBVIOUS
<1> HIDE DEF F, r
<1>7. CASE Free(q)
  <2>1. m = IF InOne(q, E) THEN "volume"
            ELSE IF SeesOne(q, E) THEN "visibility" ELSE "uncovered"
    BY <1>7 DEF MarkIsRight
  <2>2. Judged(m, q, r) = IF InOne(q, F) THEN "volume"
                          ELSE IF SeesOne(q, F) THEN "visibility" ELSE "uncovered"
    BY <1>1, <1>2, <1>4, <1>5, <1>7, <2>1 DEF Judged
  <2>3. MarkIsRight(q, F, Judged(m, q, r))
    BY <1>7, <2>2 DEF MarkIsRight
  <2> QED
    BY <2>3 DEF F, r
<1>8. CASE ~Free(q)
  <2>1. /\ m \in {"uncovered", "volume", "violates"}
        /\ m = "volume" => InOne(q, E)
    BY <1>8 DEF MarkIsRight
  <2>2. /\ Judged(m, q, r) \in {"volume", "violates"}
        /\ Judged(m, q, r) = "volume" => InOne(q, F)
    BY <1>1, <1>2, <1>3, <1>4, <1>8, <2>1 DEF Judged
  <2>3. MarkIsRight(q, F, Judged(m, q, r))
    BY <1>6, <1>8, <2>2 DEF MarkIsRight
  <2> QED
    BY <2>3 DEF F, r
<1> QED
  BY <1>7, <1>8

(* All of them.                                                            *)
LEMMA JudgedByAllRight ==
    ASSUME regions \in Seq(GrownBoxes), evaluated \subseteq DOMAIN regions,
           NEW q, \A r \in GrownBoxes : InReach(q, r),
           NEW m, MarkIsRight(q, evaluated, m)
    PROVE  MarkIsRight(q, DOMAIN regions, JudgedByAll(m, q))
<1> DEFINE n == Len(regions)
           Add(i, k) == IF i \in evaluated THEN k ELSE Judged(k, q, regions[i])
           move == [z \in (1 .. n) \X Marks |-> Add(z[1], z[2])]
           Steps(after) == after = [i \in 0 .. n |->
                            IF i = 0 THEN m
                            ELSE IF i \in evaluated THEN after[i - 1]
                                 ELSE Judged(after[i - 1], q, regions[i])]
           after == CHOOSE after : Steps(after)
<1>1. n \in Nat /\ DOMAIN regions = 1 .. n /\ \A i \in 1 .. n : regions[i] \in GrownBoxes
  OBVIOUS
<1>2. \A i \in 1 .. n : \A k \in Marks : Add(i, k) \in Marks
  BY JudgedMark
<1>3. move \in [(1 .. n) \X Marks -> Marks]
  <2> SUFFICES ASSUME NEW z \in (1 .. n) \X Marks PROVE Add(z[1], z[2]) \in Marks
    OBVIOUS
  <2> HIDE DEF Add
  <2> QED
    BY <1>2
<1>4. \A i \in 1 .. n : \A k \in Marks : move[<<i, k>>] = Add(i, k)
  OBVIOUS
<1> HIDE DEF move, Add
<1>5. PICK f \in [0 .. n -> Marks] :
              f[0] = m /\ \A i \in 1 .. n : f[i] = move[<<i, f[i - 1]>>]
  <2>1. Results(Marks, m, n, move) # {}
    <3>1. m \in Marks
      BY MarkTypes
    <3> QED
      BY <1>1, <1>3, <3>1, ResultsExist
  <2> QED
    BY <2>1 DEF Results
<1>6. \A i \in 1 .. n : f[i] = Add(i, f[i - 1])
  <2> SUFFICES ASSUME NEW i \in 1 .. n PROVE f[i] = Add(i, f[i - 1])
    OBVIOUS
  <2>1. i - 1 \in 0 .. n
    BY <1>1
  <2> QED
    BY <1>4, <1>5, <2>1
<1>7. Steps(f)
  <2>1. \A i \in 0 .. n : i # 0 => i \in 1 .. n
    BY <1>1
  <2> QED
    BY <1>5, <1>6, <2>1 DEF Add
<1>8. Steps(after)
  <2> HIDE DEF Steps
  <2> QED
    BY <1>7
<1>9. JudgedByAll(m, q) = after[n]
  BY DEF JudgedByAll
<1> HIDE DEF after
<1>10. after[0] = m /\ \A i \in 1 .. n : after[i] = Add(i, after[i - 1])
  <2>1. 0 \in 0 .. n /\ \A i \in 1 .. n : i \in 0 .. n /\ i # 0
    BY <1>1
  <2> QED
    BY <1>8, <2>1 DEF Add
<1> DEFINE Right(k) == MarkIsRight(q, evaluated \cup (1 .. k), after[k])
           K == {k \in Nat : k <= n => Right(k)}
<1>11. 0 \in K
  <2>1. evaluated \cup (1 .. 0) = evaluated
    OBVIOUS
  <2> QED
    BY <1>10, <2>1
<1>12. ASSUME NEW k \in Nat, k \in K PROVE k + 1 \in K
  <2> SUFFICES ASSUME k + 1 <= n PROVE Right(k + 1)
    OBVIOUS
  <2>1. Right(k)
    BY <1>1, <1>12
  <2>2. k + 1 \in 1 .. n /\ (k + 1) - 1 = k
    BY <1>1
  <2>3. after[k + 1] = Add(k + 1, after[k])
    BY <1>10, <2>2
  <2>4. 1 .. (k + 1) = (1 .. k) \cup {k + 1}
    OBVIOUS
  <2>5. CASE k + 1 \in evaluated
    <3>1. evaluated \cup (1 .. (k + 1)) = evaluated \cup (1 .. k)
      BY <2>4, <2>5
    <3>2. after[k + 1] = after[k]
      BY <2>3, <2>5 DEF Add
    <3> QED
      BY <2>1, <3>1, <3>2
  <2>6. CASE k + 1 \notin evaluated
    <3>1. evaluated \cup (1 .. (k + 1)) = (evaluated \cup (1 .. k)) \cup {k + 1}
      BY <2>4
    <3>2. after[k + 1] = Judged(after[k], q, regions[k + 1])
      BY <2>3, <2>6 DEF Add
    <3>3. regions[k + 1] \in GrownBoxes
      BY <1>1, <2>2
    <3>4. IsBox(regions[k + 1]) /\ InReach(q, regions[k + 1])
      BY <3>3, BoxFacts
    <3>5. MarkIsRight(q, (evaluated \cup (1 .. k)) \cup {k + 1},
                      Judged(after[k], q, regions[k + 1]))
      BY <2>1, <3>4, JudgedRight
    <3> QED
      BY <3>1, <3>2, <3>5
  <2> QED
    BY <2>5, <2>6
<1> HIDE DEF K
<1>13. n \in K
  BY <1>1, <1>11, <1>12, SetInduction
<1>14. Right(n)
  BY <1>1, <1>13 DEF K
<1>15. evaluated \cup (1 .. n) = DOMAIN regions
  BY <1>1
<1> QED
  BY <1>9, <1>14, <1>15

-----------------------------------------------------------------------------
LEMMA CoverageInit == RegionInit => CoverageInv
BY DEF RegionInit, CoverageInv

LEMMA AddRegionsCoverage ==
    ASSUME CoverageInv, NEW rs \in Grown, AddRegions(rs) PROVE CoverageInv'
<1>1. rs \in Seq(GrownBoxes) /\ regions \in Seq(GrownBoxes)
  BY BoxesAssumption DEF CoverageInv
<1>2. regions \o rs \in Seq(GrownBoxes)
  BY <1>1
<1> QED
  BY <1>2 DEF AddRegions, NewInspector, CoverageInv

LEMMA ReplaceRegionsCoverage ==
    ASSUME CoverageInv, NEW i \in DOMAIN regions, NEW r \in GrownBoxes,
           ReplaceRegions(i, r)
    PROVE  CoverageInv'
<1>1. [regions EXCEPT ![i] = r] \in Seq(GrownBoxes)
  BY DEF CoverageInv
<1> QED
  BY <1>1 DEF ReplaceRegions, NewInspector, CoverageInv

LEMMA SetPointsCoverage ==
    ASSUME CoverageInv, NEW ps \in PointLists, SetPoints(ps), UNCHANGED blocked
    PROVE  CoverageInv'
<1>1. /\ regions' \in Seq(GrownBoxes) /\ evaluated' \subseteq DOMAIN regions'
      /\ settings' \in Nat /\ settings' # 0
  BY DEF CoverageInv, SetPoints
<1>2. ASSUME settings' = 1
      PROVE  /\ points' \in PointLists
             /\ \A i \in DOMAIN points' :
                  MarkIsRight(points[i], evaluated, marks[i])'
  <2>1. settings = 0
    BY <1>2 DEF CoverageInv, SetPoints
  <2>2. points' = ps /\ \A i \in DOMAIN ps : marks'[i] = "uncovered"
    BY <2>1 DEF CoverageInv, SetPoints
  <2>3. evaluated' = {}
    BY DEF SetPoints
  <2> QED
    BY <2>2, <2>3 DEF MarkIsRight, InOne, SeesOne
<1> QED
  BY <1>1, <1>2 DEF CoverageInv

LEMMA EvaluateStepCoverage ==
    ASSUME CoverageInv, EvaluateCoverage, UNCHANGED blocked PROVE CoverageInv'
<1>1. /\ regions' = regions /\ points' = points /\ settings' = settings
      /\ DOMAIN marks' = DOMAIN points
      /\ \A i \in DOMAIN points : marks'[i] = JudgedByAll(marks[i], points[i])
      /\ evaluated' = IF points = <<>> THEN evaluated ELSE DOMAIN regions
  BY DEF EvaluateCoverage
<1>2. settings' = 0 => points' = <<>> /\ DOMAIN marks' = {} /\ evaluated' = {}
  BY <1>1 DEF CoverageInv
<1>3. ASSUME settings' = 1, NEW i \in DOMAIN points
      PROVE  MarkIsRight(points[i], evaluated, marks[i])'
  <2>1. points \in PointLists /\ MarkIsRight(points[i], evaluated, marks[i])
    BY <1>1, <1>3 DEF CoverageInv
  <2>2. \A r \in GrownBoxes : InReach(points[i], r)
    BY <1>3, <2>1, PointFacts
  <2>3. MarkIsRight(points[i], DOMAIN regions, JudgedByAll(marks[i], points[i]))
    BY <2>1, <2>2, JudgedByAllRight DEF CoverageInv
  <2>4. points # <<>>
    BY <1>3
  <2>5. evaluated' = DOMAIN regions
    BY <1>1, <2>4
  <2>6. MarkIsRight(points[i], DOMAIN regions, JudgedByAll(marks[i], points[i]))
          <=> MarkIsRight(points[i], evaluated, marks[i])'
    BY <1>1, <1>3, <2>5 DEF MarkIsRight, InOne, SeesOne, LiesIn, SeesRegion,
       VisiblePoint, Sees, Free
  <2> QED
    BY <2>3, <2>6
<1>4. /\ regions' \in Seq(GrownBoxes) /\ evaluated' \subseteq DOMAIN regions'
      /\ settings' \in Nat /\ (settings' = 1 => points' \in PointLists)
  BY <1>1 DEF CoverageInv
<1> QED
  BY <1>1, <1>2, <1>3, <1>4 DEF CoverageInv

LEMMA CoverageStays ==
    ASSUME CoverageInv,
           UNCHANGED <<blocked, regions, points, marks, evaluated, settings>>
    PROVE  CoverageInv'
BY DEF CoverageInv, MarkIsRight, InOne, SeesOne, LiesIn, SeesRegion, VisiblePoint,
       Sees, Free

LEMMA CoverageNext == CoverageInv /\ [RegionNext]_regionVars => CoverageInv'
<1> SUFFICES ASSUME CoverageInv, [RegionNext]_regionVars PROVE CoverageInv'
  OBVIOUS
<1>1. CASE UNCHANGED regionVars
  BY <1>1, CoverageStays DEF regionVars
<1>2. CASE RegionNext
  <2>1. UNCHANGED blocked
    BY <1>2 DEF RegionNext
  <2>2. CASE \E ps \in PointLists : SetPoints(ps)
    BY <2>1, <2>2, SetPointsCoverage
  <2>3. CASE EvaluateCoverage
    BY <2>1, <2>3, EvaluateStepCoverage
  <2>4. CASE \E q \in Seeds, rs \in Grown : BuildFromConfig(q, rs)
    BY <2>4, AddRegionsCoverage DEF BuildFromConfig
  <2>5. CASE \E p, q \in Seeds, rs \in Grown : p # q /\ BuildFromEdge(p, q, rs)
    BY <2>5, AddRegionsCoverage DEF BuildFromEdge
  <2>6. CASE NothingBuilt
    BY <2>1, <2>6, CoverageStays DEF NothingBuilt
  <2>7. CASE \E i \in DOMAIN regions, r \in GrownBoxes : ReplaceRegions(i, r)
    BY <2>7, ReplaceRegionsCoverage
  <2> QED
    BY <1>2, <2>2, <2>3, <2>4, <2>5, <2>6, <2>7 DEF RegionNext
<1> QED
  BY <1>1, <1>2

(* IrisInspector, EvaluateCoverage: for any regions, points and           *)
(* constraints, the verdict on each point is what it means.                *)
THEOREM CoverageStaysCurrent == RegionSpec => []CoverageIsCurrent
<1>1. CoverageInv => CoverageIsCurrent
  BY DEF CoverageInv, CoverageIsCurrent, MarkIsRight, InOne, SeesOne
<1> QED
  BY <1>1, CoverageInit, CoverageNext, PTL DEF RegionSpec

(***************************************************************************)
(* The cliques.                                                            *)
(***************************************************************************)
(* A segment passes the same points from either end.                       *)
LEMMA DivisionShift ==
    ASSUME NEW a \in Int, NEW b \in Nat \ {0}, NEW k \in Int
    PROVE  (a + b * k) \div b = a \div b + k
<1> DEFINE d == a \div b
           c == a + b * k
<1>1. d \in Int /\ b * d <= a /\ a < b * d + b
  BY DivisionFacts
<1>2. b * k \in Int /\ c \in Int
  OBVIOUS
<1>3. b * (d + k) = b * d + b * k /\ d + k \in Int
  BY <1>1
<1>4. b * (d + k) <= c /\ c < b * (d + k) + b
  <2> HIDE DEF d
  <2> QED
    BY <1>1, <1>2, <1>3
<1> HIDE DEF d, c
<1>5. c \div b = d + k
  BY <1>2, <1>3, <1>4, DivisionIs
<1> QED
  BY <1>5 DEF d, c

LEMMA BetweenReversed ==
    ASSUME NEW p \in [Axes -> Int], NEW q \in [Axes -> Int]
    PROVE  Between(p, q) \subseteq Between(q, p)
<1> DEFINE n == Longest(p, q)
           At(x, y, k) == [i \in Axes |-> x[i] + (2 * k * (y[i] - x[i]) + n) \div (2 * n)]
<1>1. n \in Nat \ {0}
  BY LongestFacts
<1>2. Spans(p, q) = Spans(q, p)
  <2>1. \A i \in Axes : Size(q[i] - p[i]) = Size(p[i] - q[i])
    BY DEF Size
  <2> QED
    BY <2>1 DEF Spans
<1>3. n = Longest(q, p)
  BY <1>2 DEF Longest
<1>4. /\ Between(p, q) = {At(p, q, k) : k \in 0 .. n}
      /\ Between(q, p) = {At(q, p, k) : k \in 0 .. n}
  <2>1. Between(p, q) = {At(p, q, k) : k \in 0 .. n}
    BY BetweenIs
  <2>2. Between(q, p) = {At(q, p, k) : k \in 0 .. n}
    BY <1>3, BetweenIs
  <2> QED
    BY <2>1, <2>2
<1> HIDE DEF n
<1>5. ASSUME NEW k \in 0 .. n PROVE At(p, q, k) = At(q, p, n - k)
  <2>1. ASSUME NEW i \in Axes
        PROVE  p[i] + (2 * k * (q[i] - p[i]) + n) \div (2 * n)
                 = q[i] + (2 * (n - k) * (p[i] - q[i]) + n) \div (2 * n)
    <3> DEFINE x == p[i]
               y == q[i]
               a == 2 * k * (y - x) + n
               b == 2 * n
    <3>1. x \in Int /\ y \in Int /\ k \in Int /\ n \in Int /\ b \in Nat \ {0}
      BY <1>1
    <3>2. a \in Int /\ x - y \in Int
      BY <3>1
    <3>3. 2 * (n - k) * (x - y) + n = a + b * (x - y)
      <4> HIDE DEF x, y
      <4>1. (n - k) * (x - y) = n * (x - y) - k * (x - y)
        BY <3>1
      <4>2. k * (y - x) = -(k * (x - y)) /\ k * (x - y) \in Int /\ n * (x - y) \in Int
        BY <3>1
      <4>3. 2 * (n - k) * (x - y) = 2 * ((n - k) * (x - y))
        BY <3>1
      <4>4. 2 * k * (y - x) = 2 * (k * (y - x))
        BY <3>1
      <4>5. b * (x - y) = 2 * (n * (x - y))
        BY <3>1
      <4> QED
        BY <3>1, <4>1, <4>2, <4>3, <4>4, <4>5
    <3>4. (a + b * (x - y)) \div b = a \div b + (x - y)
      <4> HIDE DEF a, b, x, y
      <4> QED
        BY <3>1, <3>2, DivisionShift
    <3>5. a \div b \in Int
      <4> HIDE DEF a, b
      <4> QED
        BY <3>1, <3>2, DivisionFacts
    <3>6. x + a \div b = y + (a + b * (x - y)) \div b
      <4> HIDE DEF a, b, x, y
      <4> QED
        BY <3>1, <3>4, <3>5
    <3> QED
      BY <3>3, <3>6
  <2> QED
    BY <2>1
<1>6. ASSUME NEW k \in 0 .. n PROVE n - k \in 0 .. n
  BY <1>1
<1> HIDE DEF At
<1> QED
  BY <1>4, <1>5, <1>6

LEMMA SeesSymmetric ==
    ASSUME NEW p \in [Axes -> Int], NEW q \in [Axes -> Int], Sees(p, q)
    PROVE  Sees(q, p)
BY BetweenReversed DEF Sees

-----------------------------------------------------------------------------
(* The greedy search: what is taken is linked, what is left is linked to   *)
(* all of it, and some vertex is taken as long as any is left.             *)
States(nodes) == [taken : SUBSET nodes, left : SUBSET nodes]

Growing(nodes, links, z, n, c) ==
    /\ c \in States(nodes)
    /\ z \in c.taken \cup c.left
    /\ \A v, w \in c.taken : v # w => <<v, w>> \in links
    /\ \A v \in c.taken, w \in c.left : v # w /\ <<v, w>> \in links
    /\ c.left = {} \/ Cardinality(c.left) + n <= Cardinality(nodes)

LEMMA TakeStates ==
    ASSUME NEW nodes, NEW links, NEW c \in States(nodes)
    PROVE  TakeVertex(c, links) \subseteq States(nodes)
<1>1. c.taken \subseteq nodes /\ c.left \subseteq nodes
  BY DEF States
<1>2. CASE c.left = {}
  BY <1>2 DEF TakeVertex
<1>3. CASE c.left # {}
  <2> SUFFICES ASSUME NEW v \in Widest(c.left, links)
               PROVE  [taken |-> c.taken \cup {v}, left |-> Linked(v, c.left, links)]
                        \in States(nodes)
    BY <1>3 DEF TakeVertex
  <2>1. v \in nodes
    BY <1>1 DEF Widest
  <2>2. Linked(v, c.left, links) \subseteq nodes
    BY <1>1 DEF Linked
  <2> QED
    BY <1>1, <2>1, <2>2 DEF States
<1> QED
  BY <1>2, <1>3

LEMMA TakeGrows ==
    ASSUME NEW nodes, IsFiniteSet(nodes), NEW links, NEW z \in nodes,
           \A v, w \in nodes : <<v, w>> \in links => <<w, v>> \in links,
           \A v \in nodes : <<v, z>> \in links,
           NEW n \in Nat, NEW c, Growing(nodes, links, z, n, c),
           NEW d \in TakeVertex(c, links)
    PROVE  Growing(nodes, links, z, n + 1, d)
<1>1. /\ c \in States(nodes) /\ c.taken \subseteq nodes /\ c.left \subseteq nodes
      /\ z \in c.taken \cup c.left
      /\ \A v, w \in c.taken : v # w => <<v, w>> \in links
      /\ \A v \in c.taken, w \in c.left : v # w /\ <<v, w>> \in links
      /\ c.left = {} \/ Cardinality(c.left) + n <= Cardinality(nodes)
  BY DEF Growing, States
<1>2. CASE c.left = {}
  <2>1. d = c
    BY <1>2 DEF TakeVertex
  <2> QED
    BY <1>1, <1>2, <2>1 DEF Growing
<1>3. CASE c.left # {}
  <2>1. PICK v \in Widest(c.left, links) :
           d = [taken |-> c.taken \cup {v}, left |-> Linked(v, c.left, links)]
    BY <1>3 DEF TakeVertex
  <2>2. v \in c.left /\ v \in nodes
    BY <1>1 DEF Widest
  <2>3. d.taken = c.taken \cup {v} /\ d.left = {w \in c.left : w # v /\ <<v, w>> \in links}
    BY <2>1 DEF Linked
  <2>4. d \in States(nodes)
    BY <1>1, <2>1, <2>2 DEF States, Linked
  <2>5. z \in d.taken \cup d.left
    BY <1>1, <2>2, <2>3
  <2>6. ASSUME NEW x \in d.taken, NEW y \in d.taken, x # y PROVE <<x, y>> \in links
    <3>1. CASE x \in c.taken /\ y \in c.taken
      BY <1>1, <2>6, <3>1
    <3>2. CASE x \in c.taken /\ y = v
      BY <1>1, <2>2, <3>2
    <3>3. CASE x = v /\ y \in c.taken
      <4>1. <<y, x>> \in links
        BY <1>1, <2>2, <3>3
      <4> QED
        BY <1>1, <2>2, <3>3, <4>1
    <3> QED
      BY <2>3, <2>6, <3>1, <3>2, <3>3
  <2>7. \A x \in d.taken, y \in d.left : x # y /\ <<x, y>> \in links
    BY <1>1, <2>2, <2>3
  <2>8. Cardinality(d.left) + (n + 1) <= Cardinality(nodes)
    <3>1. IsFiniteSet(c.left)
      BY <1>1, FS_Subset
    <3>2. IsFiniteSet(c.left \ {v}) /\ Cardinality(c.left \ {v}) = Cardinality(c.left) - 1
      BY <2>2, <3>1, FS_RemoveElement
    <3>3. d.left \subseteq c.left \ {v}
      BY <2>3
    <3>4. IsFiniteSet(d.left) /\ Cardinality(d.left) <= Cardinality(c.left \ {v})
      BY <3>2, <3>3, FS_Subset
    <3>5. /\ Cardinality(d.left) \in Nat /\ Cardinality(c.left) \in Nat
          /\ Cardinality(nodes) \in Nat
      BY <3>1, <3>4, FS_CardinalityType
    <3> QED
      BY <1>1, <1>3, <3>2, <3>4, <3>5
  <2> QED
    BY <2>4, <2>5, <2>6, <2>7, <2>8 DEF Growing
<1> QED
  BY <1>2, <1>3

LEMMA CliqueFacts ==
    ASSUME NEW nodes, IsFiniteSet(nodes), NEW links, NEW z \in nodes,
           \A v, w \in nodes : <<v, w>> \in links => <<w, v>> \in links,
           \A v \in nodes : <<v, z>> \in links,
           NEW s \in Cliques(nodes, links)
    PROVE  /\ s \subseteq nodes
           /\ z \in s
           /\ \A v, w \in s : v # w => <<v, w>> \in links
<1> DEFINE n == Cardinality(nodes)
           S == SUBSET States(nodes)
           start == [taken |-> {}, left |-> nodes]
           Add(k) == UNION {TakeVertex(c, links) : c \in k}
           move == [x \in (1 .. n) \X S |-> Add(x[2])]
           Steps(grow) == grow = [i \in 0 .. n |->
                            IF i = 0 THEN {start}
                            ELSE UNION {TakeVertex(c, links) : c \in grow[i - 1]}]
           grow == CHOOSE grow : Steps(grow)
<1>1. n \in Nat
  BY FS_CardinalityType
<1>2. \A k \in S : Add(k) \in S
  BY TakeStates
<1>3. move \in [(1 .. n) \X S -> S]
  <2> SUFFICES ASSUME NEW x \in (1 .. n) \X S PROVE Add(x[2]) \in S
    OBVIOUS
  <2>1. x[2] \in S
    OBVIOUS
  <2> HIDE DEF Add, S
  <2> QED
    BY <1>2, <2>1
<1>4. \A i \in 1 .. n : \A k \in S : move[<<i, k>>] = Add(k)
  OBVIOUS
<1>5. {start} \in S
  BY DEF States
<1> HIDE DEF move, S
<1>6. PICK f \in [0 .. n -> S] :
              f[0] = {start} /\ \A i \in 1 .. n : f[i] = move[<<i, f[i - 1]>>]
  <2>1. Results(S, {start}, n, move) # {}
    BY <1>1, <1>3, <1>5, ResultsExist
  <2> QED
    BY <2>1 DEF Results
<1>7. \A i \in 1 .. n : f[i] = Add(f[i - 1])
  <2> SUFFICES ASSUME NEW i \in 1 .. n PROVE f[i] = Add(f[i - 1])
    OBVIOUS
  <2>1. i - 1 \in 0 .. n
    BY <1>1
  <2> QED
    BY <1>4, <1>6, <2>1
<1>8. Steps(f)
  <2>1. \A i \in 0 .. n : i # 0 => i \in 1 .. n
    BY <1>1
  <2> QED
    BY <1>6, <1>7, <2>1
<1>9. Steps(grow)
  <2> HIDE DEF Steps
  <2> QED
    BY <1>8
<1>10. Cliques(nodes, links) = {c.taken : c \in grow[n]}
  BY DEF Cliques
<1> HIDE DEF grow
<1>11. grow[0] = {start} /\ \A i \in 1 .. n : grow[i] = Add(grow[i - 1])
  <2>1. 0 \in 0 .. n /\ \A i \in 1 .. n : i \in 0 .. n /\ i # 0
    BY <1>1
  <2> QED
    BY <1>9, <2>1
<1> DEFINE Fine(k) == \A c \in grow[k] : Growing(nodes, links, z, k, c)
           K == {k \in Nat : k <= n => Fine(k)}
<1>12. 0 \in K
  <2>1. Growing(nodes, links, z, 0, start)
    BY <1>1 DEF Growing, States
  <2> QED
    BY <1>11, <2>1
<1>13. ASSUME NEW k \in Nat, k \in K PROVE k + 1 \in K
  <2> SUFFICES ASSUME k + 1 <= n, NEW d \in grow[k + 1]
               PROVE  Growing(nodes, links, z, k + 1, d)
    OBVIOUS
  <2>1. Fine(k)
    BY <1>1, <1>13
  <2>2. k + 1 \in 1 .. n /\ (k + 1) - 1 = k
    BY <1>1
  <2>3. grow[k + 1] = Add(grow[k])
    BY <1>11, <2>2
  <2>4. PICK c \in grow[k] : d \in TakeVertex(c, links)
    BY <2>3
  <2>5. Growing(nodes, links, z, k, c)
    BY <2>1, <2>4
  <2> QED
    BY <2>4, <2>5, TakeGrows
<1> HIDE DEF K
<1>14. n \in K
  BY <1>1, <1>12, <1>13, SetInduction
<1>15. Fine(n)
  BY <1>1, <1>14 DEF K
<1>16. PICK c \in grow[n] : s = c.taken
  BY <1>10
<1>17. Growing(nodes, links, z, n, c)
  BY <1>15, <1>16
<1>18. c.left = {}
  <2> SUFFICES ASSUME c.left # {} PROVE FALSE
    OBVIOUS
  <2>1. c.left \subseteq nodes
    BY <1>17 DEF Growing, States
  <2>2. IsFiniteSet(c.left)
    BY <2>1, FS_Subset
  <2>3. Cardinality(c.left) \in Nat /\ Cardinality(c.left) # 0
    BY <2>2, FS_CardinalityType, FS_EmptySet
  <2> QED
    BY <1>1, <1>17, <2>3 DEF Growing
<1> QED
  BY <1>16, <1>17, <1>18 DEF Growing, States

(* What a clique is worth around seeds when the vertices in view are given. *)
CliqueIsFine(c, seeds, visible) ==
    /\ c.seeds = seeds
    /\ c.kept
    /\ c.members \subseteq visible
    /\ \A v, w \in c.members : v # w => <<v, w>> \in adjacency
    /\ \A v \in c.members : \A r \in c.past : ~PointInSet(CliqueVertices[v], r)
    /\ IsFiniteSet(c.members)
    /\ Cardinality(c.members) + Cardinality(seeds) >= Dim + 1

AdjacencySymmetric ==
    \A v, w \in DOMAIN CliqueVertices :
        <<v, w>> \in adjacency => <<w, v>> \in adjacency

LEMMA VertexFacts ==
    /\ DOMAIN CliqueVertices = 1 .. Len(CliqueVertices)
    /\ Len(CliqueVertices) \in Nat
    /\ IsFiniteSet(DOMAIN CliqueVertices)
    /\ \A v \in DOMAIN CliqueVertices : CliqueVertices[v] \in [Axes -> Int] /\ v # 0
<1>1. CliqueVertices \in Seq([Axes -> Int])
  BY VerticesAssumption
<1>2. DOMAIN CliqueVertices = 1 .. Len(CliqueVertices) /\ Len(CliqueVertices) \in Nat
  BY <1>1
<1>3. IsFiniteSet(1 .. Len(CliqueVertices))
  BY <1>2, FS_Interval
<1>4. \A v \in DOMAIN CliqueVertices : CliqueVertices[v] \in [Axes -> Int]
  BY <1>1
<1>5. \A v \in DOMAIN CliqueVertices : v # 0
  BY <1>2
<1> QED
  BY <1>2, <1>3, <1>4, <1>5

LEMMA CliqueAroundFacts ==
    ASSUME AdjacencySymmetric, NEW seeds, Cardinality(seeds) \in Nat,
           NEW visible, visible \subseteq Uncovered, NEW least,
           NEW c \in CliqueAround(seeds, visible, least)
    PROVE  CliqueIsFine(c, seeds, visible)
<1> DEFINE nodes == visible \cup {0}
           links == adjacency \cup ({0} \X nodes) \cup (nodes \X {0})
           past == IF excluding THEN InAdapter ELSE {}
<1>1. PICK s \in Cliques(nodes, links) :
         /\ Cardinality(s) - 1 + Cardinality(seeds) >= Dim + 1
         /\ c = [seeds |-> seeds, members |-> s \ {0}, kept |-> 0 \in s, past |-> past]
  BY DEF CliqueAround
<1>2. visible \subseteq DOMAIN CliqueVertices /\ IsFiniteSet(visible) /\ 0 \notin visible
  <2>1. visible \subseteq DOMAIN CliqueVertices
    BY DEF Uncovered
  <2> QED
    BY <2>1, VertexFacts, FS_Subset
<1>3. IsFiniteSet(nodes) /\ 0 \in nodes
  BY <1>2, FS_AddElement
<1>4. \A v, w \in nodes : <<v, w>> \in links => <<w, v>> \in links
  <2> SUFFICES ASSUME NEW v \in nodes, NEW w \in nodes, <<v, w>> \in links
               PROVE  <<w, v>> \in links
    OBVIOUS
  <2>1. CASE v = 0 \/ w = 0
    BY <2>1
  <2>2. CASE v # 0 /\ w # 0
    <3>1. v \in DOMAIN CliqueVertices /\ w \in DOMAIN CliqueVertices
      BY <1>2, <2>2
    <3>2. <<v, w>> \in adjacency
      BY <2>2
    <3> QED
      BY <3>1, <3>2 DEF AdjacencySymmetric
  <2> QED
    BY <2>1, <2>2
<1>5. \A v \in nodes : <<v, 0>> \in links
  OBVIOUS
<1>6. s \subseteq nodes /\ 0 \in s /\ \A v, w \in s : v # w => <<v, w>> \in links
  <2> HIDE DEF nodes, links
  <2> QED
    BY <1>3, <1>4, <1>5, CliqueFacts
<1>7. \A v, w \in s \ {0} : v # w => <<v, w>> \in adjacency
  BY <1>6
<1>8. s \ {0} \subseteq visible
  BY <1>6
<1>9. /\ IsFiniteSet(s \ {0}) /\ Cardinality(s \ {0}) = Cardinality(s) - 1
      /\ Cardinality(s) \in Nat
  <2>1. IsFiniteSet(s)
    BY <1>3, <1>6, FS_Subset
  <2> QED
    BY <1>6, <2>1, FS_RemoveElement, FS_CardinalityType
<1>10. \A v \in s \ {0} : \A r \in past : ~PointInSet(CliqueVertices[v], r)
  <2> SUFFICES ASSUME NEW v \in s \ {0}, NEW r \in past
               PROVE  ~PointInSet(CliqueVertices[v], r)
    OBVIOUS
  <2>1. v \in Uncovered
    BY <1>8
  <2>2. excluding /\ r \in InAdapter
    OBVIOUS
  <2> QED
    BY <2>1, <2>2 DEF Uncovered, InsideAny, InAdapter
<1>11. /\ c.seeds = seeds /\ c.members = s \ {0} /\ c.kept = (0 \in s) /\ c.past = past
  BY <1>1
<1>12. Cardinality(s \ {0}) + Cardinality(seeds) >= Dim + 1
  BY <1>1, <1>9
<1> HIDE DEF nodes, links, past
<1> QED
  BY <1>6, <1>7, <1>8, <1>9, <1>10, <1>11, <1>12 DEF CliqueIsFine

(* The vertex of a configuration is the one there is.                      *)
LEMMA VertexOfFacts ==
    ASSUME NEW q
    PROVE  /\ VertexOf(q) # 0 => /\ VertexOf(q) \in DOMAIN CliqueVertices
                                 /\ CliqueVertices[VertexOf(q)] = q
           /\ VertexOf(q) = 0 => \A v \in DOMAIN CliqueVertices : CliqueVertices[v] # q
<1> DEFINE S == {v \in DOMAIN CliqueVertices : CliqueVertices[v] = q}
<1>1. VertexOf(q) = IF S = {} THEN 0 ELSE Extremes!Min(S)
  BY DEF VertexOf
<1>2. S \in SUBSET Nat
  BY VertexFacts
<1>3. ASSUME S # {} PROVE Extremes!Min(S) \in S
  <2> HIDE DEF S
  <2>1. \E x \in S : \A y \in S : x <= y
    BY <1>2, <1>3, LeastNat
  <2> QED
    BY <2>1 DEF Extremes!Min
<1>4. \A v \in S : v # 0
  BY VertexFacts
<1>5. CASE S = {}
  BY <1>1, <1>5
<1>6. CASE S # {}
  <2>1. VertexOf(q) \in S
    BY <1>1, <1>3, <1>6
  <2> QED
    BY <1>4, <2>1
<1> QED
  BY <1>5, <1>6

SoundClique(c) ==
    /\ c.kept
    /\ \A v, w \in c.members : v # w => <<v, w>> \in adjacency
    /\ \A v \in c.members, q \in c.seeds :
         <<VertexOf(q), v>> \in adjacency \/ Sees(q, CliqueVertices[v])
    /\ \A v \in c.members, r \in c.past : ~PointInSet(CliqueVertices[v], r)
    /\ Cardinality(c.seeds) = 1 =>
         Cardinality({CliqueVertices[v] : v \in c.members} \cup c.seeds) >= Dim + 1

(* With the seed, a clique has as many configurations as it has vertices   *)
(* and one more.                                                           *)
LEMMA Distinct ==
    ASSUME NEW members, members \subseteq DOMAIN CliqueVertices,
           IsFiniteSet(members), NEW q,
           \A v \in members : CliqueVertices[v] # q
    PROVE  Cardinality({CliqueVertices[v] : v \in members} \cup {q})
             = Cardinality(members) + 1
<1> DEFINE T == {CliqueVertices[v] : v \in members}
           f == [v \in members |-> CliqueVertices[v]]
<1>1. f \in Bijection(members, T)
  <2>1. f \in [members -> T]
    OBVIOUS
  <2>2. \A v, w \in members : f[v] = f[w] => v = w
    BY VerticesAssumption
  <2>3. \A t \in T : \E v \in members : f[v] = t
    OBVIOUS
  <2> HIDE DEF f, T
  <2> QED
    BY <2>1, <2>2, <2>3 DEF Bijection, Injection, Surjection, IsInjective
<1>2. q \notin T
  OBVIOUS
<1> HIDE DEF f, T
<1>3. IsFiniteSet(T) /\ Cardinality(T) = Cardinality(members)
  BY <1>1, FS_Bijection DEF ExistsBijection
<1>4. Cardinality(T \cup {q}) = Cardinality(T) + 1
  BY <1>2, <1>3, FS_AddElement
<1> QED
  BY <1>3, <1>4 DEF T

LEMMA ConfigCliqueSound ==
    ASSUME AdjacencySymmetric, NEW q, NEW c \in CliqueAroundConfig(q)
    PROVE  SoundClique(c)
<1> DEFINE v == VertexOf(q)
           near == {w \in Uncovered \ {v} : <<v, w>> \in adjacency}
           inView == {w \in Uncovered : Sees(q, CliqueVertices[w])}
           visible == IF v # 0 THEN near ELSE inView
<1>1. c \in CliqueAround({q}, visible, Dim + 1)
  BY DEF CliqueAroundConfig
<1>2. Cardinality({q}) = 1
  BY FS_Singleton
<1>3. visible \subseteq Uncovered
  OBVIOUS
<1>4. CliqueIsFine(c, {q}, visible)
  <2> HIDE DEF visible
  <2> QED
    BY <1>1, <1>2, <1>3, CliqueAroundFacts
<1>5. /\ c.seeds = {q} /\ c.kept /\ c.members \subseteq visible
      /\ \A x, w \in c.members : x # w => <<x, w>> \in adjacency
      /\ \A x \in c.members : \A r \in c.past : ~PointInSet(CliqueVertices[x], r)
      /\ IsFiniteSet(c.members)
      /\ Cardinality(c.members) + Cardinality({q}) >= Dim + 1
  BY <1>4 DEF CliqueIsFine
<1>6. \A x \in c.members : <<v, x>> \in adjacency \/ Sees(q, CliqueVertices[x])
  BY <1>5
<1>7. \A x \in c.members : CliqueVertices[x] # q
  <2>1. CASE v # 0
    <3>1. v \in DOMAIN CliqueVertices /\ CliqueVertices[v] = q
      BY <2>1, VertexOfFacts
    <3>2. \A x \in c.members : x # v /\ x \in DOMAIN CliqueVertices
      BY <1>5, <2>1 DEF Uncovered
    <3> QED
      BY <3>1, <3>2, VerticesAssumption
  <2>2. CASE v = 0
    <3>1. \A x \in c.members : x \in DOMAIN CliqueVertices
      BY <1>5 DEF Uncovered
    <3> QED
      BY <2>2, <3>1, VertexOfFacts
  <2> QED
    BY <2>1, <2>2
<1>8. c.members \subseteq DOMAIN CliqueVertices
  BY <1>5 DEF Uncovered
<1>9. Cardinality({CliqueVertices[x] : x \in c.members} \cup {q}) = Cardinality(c.members) + 1
  BY <1>5, <1>7, <1>8, Distinct
<1>10. Cardinality({CliqueVertices[x] : x \in c.members} \cup c.seeds) >= Dim + 1
  BY <1>2, <1>5, <1>9
<1> HIDE DEF visible
<1> QED
  BY <1>5, <1>6, <1>10 DEF SoundClique

LEMMA EdgeCliqueSound ==
    ASSUME AdjacencySymmetric, NEW p, NEW q, p # q, NEW c \in CliqueAroundEdge(p, q)
    PROVE  SoundClique(c)
<1> DEFINE v == VertexOf(p)
           w == VertexOf(q)
           onRoadmap == v # 0 /\ w # 0 /\ v # w /\ <<v, w>> \in adjacency
           near == {u \in Uncovered \ {v, w} :
                      {<<v, u>>, <<w, u>>} \subseteq adjacency}
           inView == {u \in Uncovered : /\ Sees(p, CliqueVertices[u])
                                        /\ Sees(q, CliqueVertices[u])}
           visible == IF onRoadmap THEN near ELSE inView
           least == IF onRoadmap THEN Dim - 1 ELSE Dim + 1
<1>1. c \in CliqueAround({p, q}, visible, least)
  BY DEF CliqueAroundEdge
<1>2. Cardinality({p, q}) = 2
  <2>1. IsFiniteSet({p}) /\ Cardinality({p}) = 1
    BY FS_Singleton
  <2>2. Cardinality({p} \cup {q}) = 2
    BY <2>1, FS_AddElement
  <2>3. {p} \cup {q} = {p, q}
    OBVIOUS
  <2> QED
    BY <2>2, <2>3
<1>3. visible \subseteq Uncovered
  OBVIOUS
<1>4. CliqueIsFine(c, {p, q}, visible)
  <2> HIDE DEF visible, least
  <2> QED
    BY <1>1, <1>2, <1>3, CliqueAroundFacts
<1>5. /\ c.seeds = {p, q} /\ c.kept /\ c.members \subseteq visible
      /\ \A x, y \in c.members : x # y => <<x, y>> \in adjacency
      /\ \A x \in c.members : \A r \in c.past : ~PointInSet(CliqueVertices[x], r)
  BY <1>4 DEF CliqueIsFine
<1>6. \A x \in c.members :
         /\ <<v, x>> \in adjacency \/ Sees(p, CliqueVertices[x])
         /\ <<w, x>> \in adjacency \/ Sees(q, CliqueVertices[x])
  BY <1>5
<1>7. Cardinality(c.seeds) # 1
  BY <1>2, <1>5
<1> HIDE DEF visible
<1> QED
  BY <1>5, <1>6, <1>7 DEF SoundClique

LEMMA NoCliqueSound == SoundClique(NoClique)
BY FS_EmptySet DEF SoundClique, NoClique

CliqueInv == AdjacencySymmetric /\ SoundClique(clique)

LEMMA CliqueInit == RegionInit => CliqueInv
<1> SUFFICES ASSUME RegionInit PROVE CliqueInv
  OBVIOUS
<1>1. CASE adjacency = SightsOf(CliqueVertices)
  <2> SUFFICES ASSUME NEW v \in DOMAIN CliqueVertices, NEW w \in DOMAIN CliqueVertices,
                      <<v, w>> \in adjacency
               PROVE  <<w, v>> \in adjacency
    BY NoCliqueSound DEF RegionInit, CliqueInv, AdjacencySymmetric
  <2>1. v # w /\ Sees(CliqueVertices[v], CliqueVertices[w])
    BY <1>1 DEF SightsOf
  <2>2. Sees(CliqueVertices[w], CliqueVertices[v])
    BY <2>1, VertexFacts, SeesSymmetric
  <2> QED
    BY <1>1, <2>1, <2>2 DEF SightsOf
<1>2. CASE adjacency \in Roadmaps
  <2>1. AdjacencySymmetric
    BY <1>2, RoadmapsAssumption DEF AdjacencySymmetric
  <2> QED
    BY <2>1, NoCliqueSound DEF RegionInit, CliqueInv
<1> QED
  BY <1>1, <1>2 DEF RegionInit

LEMMA CliqueKept ==
    ASSUME AdjacencySymmetric, SoundClique(clique'), UNCHANGED <<blocked, adjacency>>
    PROVE  CliqueInv'
BY DEF CliqueInv, AdjacencySymmetric, SoundClique, Sees, Free

LEMMA CliqueNext == CliqueInv /\ [RegionNext]_regionVars => CliqueInv'
<1> SUFFICES ASSUME CliqueInv, [RegionNext]_regionVars PROVE CliqueInv'
  OBVIOUS
<1>1. UNCHANGED <<blocked, adjacency>> /\ AdjacencySymmetric /\ SoundClique(clique)
  BY DEF RegionNext, regionVars, CliqueInv
<1> SUFFICES SoundClique(clique')
  BY <1>1, CliqueKept
<1>2. CASE UNCHANGED clique
  BY <1>1, <1>2
<1>3. CASE \E q \in Seeds, rs \in Grown : BuildFromConfig(q, rs)
  BY <1>1, <1>3, ConfigCliqueSound, NoCliqueSound DEF BuildFromConfig
<1>4. CASE \E p, q \in Seeds, rs \in Grown : p # q /\ BuildFromEdge(p, q, rs)
  BY <1>1, <1>4, EdgeCliqueSound, NoCliqueSound DEF BuildFromEdge
<1>5. \/ UNCHANGED clique
      \/ \E q \in Seeds, rs \in Grown : BuildFromConfig(q, rs)
      \/ \E p, q \in Seeds, rs \in Grown : p # q /\ BuildFromEdge(p, q, rs)
  BY DEF RegionNext, regionVars, SetPoints, EvaluateCoverage, NothingBuilt,
         ReplaceRegions
<1> QED
  BY <1>2, <1>3, <1>4, <1>5

(* CliqueGenerator: for any vertices, roadmap and constraints, the clique   *)
(* that a region is seeded with keeps its seeds and is one.                 *)
THEOREM CliquesStaySound == RegionSpec => []CliquesAreSound
<1>1. CliqueInv => CliquesAreSound
  BY DEF CliqueInv, SoundClique, CliquesAreSound
<1> QED
  BY <1>1, CliqueInit, CliqueNext, PTL DEF RegionSpec

-----------------------------------------------------------------------------
(* RobotModel: merging the groups.                                          *)


(* What each step of a run keeps, every place of it has.                   *)
LEMMA KeepsType ==
    ASSUME NEW T, NEW n \in Nat, NEW g, g[0] \in T,
           \A k \in 1 .. n : g[k - 1] \in T => g[k] \in T
    PROVE  \A k \in 0 .. n : g[k] \in T
<1> DEFINE K == {k \in Nat : k <= n => g[k] \in T}
<1>1. 0 \in K
  OBVIOUS
<1>2. ASSUME NEW k \in Nat, k \in K PROVE k + 1 \in K
  <2> SUFFICES ASSUME k + 1 <= n PROVE g[k + 1] \in T
    OBVIOUS
  <2>1. k + 1 \in 1 .. n /\ (k + 1) - 1 = k /\ g[k] \in T
    BY <1>2
  <2> QED BY <2>1
<1> HIDE DEF K
<1>3. Nat \subseteq K
  BY <1>1, <1>2, SetInduction
<1> QED BY <1>3 DEF K

Apart(gs) == \A a, b \in DOMAIN gs : a # b => gs[a] \cap gs[b] = {}

(* One turn of the inner loop: a group joins group i or stays.             *)
Absorbed(soFar, i, g) ==
    IF soFar[i] \cap g # {} THEN [soFar EXCEPT ![i] = @ \cup g] ELSE Append(soFar, g)

LEMMA AbsorbedType ==
    ASSUME NEW B, NEW s \in Seq(SUBSET B), NEW i \in Nat, NEW g \in SUBSET B
    PROVE  Absorbed(s, i, g) \in Seq(SUBSET B)
<1>1. ASSUME i \in DOMAIN s
      PROVE  [s EXCEPT ![i] = @ \cup g] \in Seq(SUBSET B)
  <2>1. s[i] \cup g \in SUBSET B
    BY <1>1
  <2> QED BY <1>1, <2>1
<1>2. ASSUME i \notin DOMAIN s
      PROVE  [s EXCEPT ![i] = @ \cup g] = s
  BY <1>2
<1>3. Append(s, g) \in Seq(SUBSET B)
  OBVIOUS
<1> QED BY <1>1, <1>2, <1>3 DEF Absorbed

MergeRun(gs, i, f) ==
    /\ f[i] = SubSeq(gs, 1, i)
    /\ \A k \in (i + 1) .. Len(gs) : f[k] = Absorbed(f[k - 1], i, gs[k])
    /\ MergeInto(gs, i) = f[Len(gs)]

(* MergeInto runs through the groups after i, one after the other.         *)
LEMMA MergeIntoFacts ==
    ASSUME NEW B, NEW gs \in Seq(SUBSET B), NEW i \in 1 .. Len(gs)
    PROVE  \E f \in [0 .. Len(gs) -> Seq(SUBSET B)] : MergeRun(gs, i, f)
<1> DEFINE n == Len(gs)
           T == Seq(SUBSET B)
           Add(k, s) == IF k <= i THEN SubSeq(gs, 1, k) ELSE Absorbed(s, i, gs[k])
           move == [z \in (1 .. n) \X T |-> Add(z[1], z[2])]
           Steps(merged) == merged = [k \in 0 .. n |->
                IF k <= i THEN SubSeq(gs, 1, k)
                ELSE Absorbed(merged[k - 1], i, gs[k])]
           merged == CHOOSE merged : Steps(merged)
<1>1. n \in Nat /\ i \in Nat /\ i <= n
  OBVIOUS
<1>2. \A k \in 1 .. n : \A s \in T : Add(k, s) \in T
  <2> SUFFICES ASSUME NEW k \in 1 .. n, NEW s \in T PROVE Add(k, s) \in T
    OBVIOUS
  <2>1. CASE k <= i
    <3>1. SubSeq(gs, 1, k) \in T
      BY <2>1, SubSeqProperties
    <3> QED BY <2>1, <3>1
  <2>2. CASE ~(k <= i)
    <3>1. gs[k] \in SUBSET B
      OBVIOUS
    <3>2. Absorbed(s, i, gs[k]) \in T
      BY <3>1, AbsorbedType
    <3> QED BY <2>2, <3>2
  <2> QED BY <2>1, <2>2
<1>3. move \in [(1 .. n) \X T -> T]
  <2> SUFFICES ASSUME NEW z \in (1 .. n) \X T PROVE Add(z[1], z[2]) \in T
    OBVIOUS
  <2> HIDE DEF Add, T
  <2> QED BY <1>2
<1>4. \A k \in 1 .. n : \A s \in T : move[<<k, s>>] = Add(k, s)
  OBVIOUS
<1>5. SubSeq(gs, 1, 0) \in T
  BY <1>1, SubSeqProperties
<1> HIDE DEF move, Add, T
<1>6. PICK f \in [0 .. n -> T] :
              f[0] = SubSeq(gs, 1, 0) /\ \A k \in 1 .. n : f[k] = move[<<k, f[k - 1]>>]
  <2>1. Results(T, SubSeq(gs, 1, 0), n, move) # {}
    BY <1>1, <1>3, <1>5, ResultsExist
  <2> QED BY <2>1 DEF Results
<1>7. \A k \in 1 .. n : f[k] = Add(k, f[k - 1])
  <2> SUFFICES ASSUME NEW k \in 1 .. n PROVE f[k] = Add(k, f[k - 1])
    OBVIOUS
  <2>1. k - 1 \in 0 .. n
    BY <1>1
  <2> QED BY <1>4, <1>6, <2>1
<1>8. Steps(f)
  <2>1. \A k \in 0 .. n : k # 0 => k \in 1 .. n
    BY <1>1
  <2>2. 0 <= i
    BY <1>1
  <2>3. \A k \in 0 .. n : f[k] = IF k <= i THEN SubSeq(gs, 1, k)
                                  ELSE Absorbed(f[k - 1], i, gs[k])
    BY <1>6, <1>7, <2>1, <2>2 DEF Add
  <2>4. f = [k \in 0 .. n |-> f[k]]
    BY <1>6
  <2> QED BY <2>3, <2>4
<1>9. Steps(merged)
  <2> HIDE DEF Steps
  <2> QED BY <1>8
<1>10. MergeInto(gs, i) = merged[n]
  BY DEF MergeInto, Absorbed
<1> HIDE DEF merged
<1>11. /\ \A k \in 0 .. n : k <= i => merged[k] = SubSeq(gs, 1, k)
       /\ \A k \in 1 .. n : merged[k] = Add(k, merged[k - 1])
  <2>1. \A k \in 0 .. n : merged[k] = IF k <= i THEN SubSeq(gs, 1, k)
                                       ELSE Absorbed(merged[k - 1], i, gs[k])
    BY <1>9
  <2>2. \A k \in 1 .. n : k \in 0 .. n
    BY <1>1
  <2> QED BY <2>1, <2>2 DEF Add
<1> HIDE DEF Steps
<1>12. \A k \in 0 .. n : merged[k] \in T
  <2>1. merged[0] \in T
    <3>1. 0 \in 0 .. n /\ 0 <= i
      BY <1>1
    <3> QED BY <1>5, <1>11, <3>1
  <2> QED BY <1>1, <1>2, <1>11, <2>1, KeepsType
<1>13. merged \in [0 .. n -> T]
  <2>1. merged = [k \in 0 .. n |-> merged[k]]
    BY <1>9 DEF Steps
  <2> QED BY <1>12, <2>1
<1>14. \A k \in (i + 1) .. n : k \in 1 .. n /\ ~(k <= i)
  BY <1>1
<1>15. merged[i] = SubSeq(gs, 1, i)
  BY <1>1, <1>11
<1>16. \A k \in (i + 1) .. n : merged[k] = Absorbed(merged[k - 1], i, gs[k])
  BY <1>11, <1>14 DEF Add
<1> QED
  BY <1>10, <1>13, <1>15, <1>16 DEF T, MergeRun

(* Prefixes of a sequence.                                                 *)
LEMMA FirstMembers ==
    ASSUME NEW S, NEW s \in Seq(S), NEW k \in 0 .. Len(s)
    PROVE  /\ SubSeq(s, 1, k) \in Seq(S) /\ Len(SubSeq(s, 1, k)) = k
           /\ \A x \in 1 .. k : SubSeq(s, 1, k)[x] = s[x]
BY SubSeqProperties

(* A prefix is the one before it and the next member.                      *)
LEMMA NextMember ==
    ASSUME NEW S, NEW s \in Seq(S), NEW k \in 1 .. Len(s)
    PROVE  SubSeq(s, 1, k) = Append(SubSeq(s, 1, k - 1), s[k])
<1> DEFINE p == SubSeq(s, 1, k)
           q == Append(SubSeq(s, 1, k - 1), s[k])
<1>1. k \in 0 .. Len(s) /\ k - 1 \in 0 .. Len(s)
  OBVIOUS
<1>2. /\ p \in Seq(S) /\ Len(p) = k /\ \A x \in 1 .. k : p[x] = s[x]
  BY <1>1, FirstMembers
<1>3. /\ q \in Seq(S) /\ Len(q) = k /\ q[k] = s[k]
      /\ \A x \in 1 .. (k - 1) : q[x] = SubSeq(s, 1, k - 1)[x]
  BY <1>1, FirstMembers
<1>4. \A x \in 1 .. k : q[x] = s[x]
  BY <1>1, <1>3, FirstMembers
<1> HIDE DEF p, q
<1>5. p = q
  BY <1>2, <1>3, <1>4
<1> QED BY <1>5 DEF p, q

LEMMA WholeSequence ==
    ASSUME NEW S, NEW s \in Seq(S)
    PROVE  SubSeq(s, 1, Len(s)) = s
BY FirstMembers

(* A sequence with a member appended, as a function.                       *)
LEMMA AppendIs ==
    ASSUME NEW S, NEW s \in Seq(S), NEW g \in S, NEW k \in Nat, Len(s) = k - 1
    PROVE  Append(s, g) = [x \in 1 .. k |-> IF x = k THEN g ELSE s[x]]
<1> DEFINE p == Append(s, g)
<1>1. /\ p \in Seq(S) /\ Len(p) = k /\ p[k] = g
      /\ \A x \in 1 .. (k - 1) : p[x] = s[x]
  BY AppendProperties
<1>2. \A x \in 1 .. k : x # k => x \in 1 .. (k - 1)
  OBVIOUS
<1> HIDE DEF p
<1>3. p = [x \in 1 .. Len(p) |-> p[x]]
  BY <1>1
<1>4. \A x \in 1 .. k : p[x] = IF x = k THEN g ELSE s[x]
  BY <1>1, <1>2
<1>5. p = [x \in 1 .. k |-> IF x = k THEN g ELSE s[x]]
  BY <1>1, <1>3, <1>4
<1> QED BY <1>5 DEF p

(* The next place of a run that has begun.                                 *)
LEMMA NextPlace ==
    ASSUME NEW i \in Nat, NEW k \in Nat, NEW n \in Nat,
           1 <= i, i <= k + 1, k + 1 <= n, i # k + 1
    PROVE  /\ k + 1 \in (i + 1) .. n /\ (k + 1) - 1 = k /\ k + 1 \in 1 .. n
           /\ k \in 0 .. n /\ i \in 1 .. k
OBVIOUS

(* A group that meets no later one stays as it is.                         *)
LEMMA MergeIntoNone ==
    ASSUME NEW B, NEW gs \in Seq(SUBSET B), NEW i \in 1 .. Len(gs),
           \A k \in (i + 1) .. Len(gs) : gs[i] \cap gs[k] = {}
    PROVE  MergeInto(gs, i) = gs
<1> DEFINE n == Len(gs)
<1>a. PICK f \in [0 .. Len(gs) -> Seq(SUBSET B)] : MergeRun(gs, i, f)
  BY MergeIntoFacts
<1>1. /\ f[i] = SubSeq(gs, 1, i)
      /\ \A k \in (i + 1) .. n : f[k] = Absorbed(f[k - 1], i, gs[k])
      /\ MergeInto(gs, i) = f[n]
  BY <1>a DEF MergeRun
<1> DEFINE K == {k \in Nat : i <= k /\ k <= n => f[k] = SubSeq(gs, 1, k)}
<1>2. 0 \in K
  OBVIOUS
<1>3. ASSUME NEW k \in Nat, k \in K PROVE k + 1 \in K
  <2> SUFFICES ASSUME i <= k + 1, k + 1 <= n PROVE f[k + 1] = SubSeq(gs, 1, k + 1)
    OBVIOUS
  <2>1. CASE i = k + 1
    BY <1>1, <2>1
  <2>2. CASE i # k + 1
    <3>0. i \in Nat /\ n \in Nat /\ 1 <= i /\ k \in Nat /\ i <= k + 1 /\ k + 1 <= n
      OBVIOUS
    <3>1. k + 1 \in (i + 1) .. n /\ (k + 1) - 1 = k /\ k + 1 \in 1 .. n
          /\ k \in 0 .. n /\ i \in 1 .. k
      <4> HIDE DEF n, K
      <4> QED BY <2>2, <3>0, NextPlace
    <3>2. f[k] = SubSeq(gs, 1, k)
      BY <1>3, <3>1
    <3>3. f[k][i] \cap gs[k + 1] = {}
      BY <3>1, <3>2, FirstMembers
    <3>4. f[k + 1] = Append(f[k], gs[k + 1])
      BY <1>1, <3>1, <3>3 DEF Absorbed
    <3> QED BY <3>1, <3>2, <3>4, NextMember
  <2> QED BY <2>1, <2>2
<1>4. n \in K
  <2> HIDE DEF K
  <2>1. Nat \subseteq K
    BY <1>2, <1>3, SetInduction
  <2> QED BY <2>1
<1> QED BY <1>1, <1>4, WholeSequence

(* One that meets one later group takes it over.                           *)
Without(gs, a, b) ==
    [x \in 1 .. (Len(gs) - 1) |-> IF x = a THEN gs[a] \cup gs[b]
                                  ELSE IF x < b THEN gs[x] ELSE gs[x + 1]]

(* A group that meets one later one takes it over.                         *)
LEMMA MergeIntoOne ==
    ASSUME NEW B, NEW gs \in Seq(SUBSET B), NEW a \in 1 .. Len(gs),
           NEW b \in (a + 1) .. Len(gs), gs[a] \cap gs[b] # {},
           \A k \in (a + 1) .. Len(gs) :
              k # b => gs[a] \cap gs[k] = {} /\ gs[b] \cap gs[k] = {}
    PROVE  MergeInto(gs, a) = Without(gs, a, b)
<1> DEFINE n == Len(gs)
           Part(k) == [x \in 1 .. (k - 1) |-> IF x = a THEN gs[a] \cup gs[b]
                                  ELSE IF x < b THEN gs[x] ELSE gs[x + 1]]
<1>0. n \in Nat /\ a \in Nat /\ b \in Nat /\ 1 <= a /\ a < b /\ b <= n
  OBVIOUS
<1>a. PICK f \in [0 .. Len(gs) -> Seq(SUBSET B)] : MergeRun(gs, a, f)
  BY MergeIntoFacts
<1>1. /\ f[a] = SubSeq(gs, 1, a)
      /\ \A k \in (a + 1) .. n : f[k] = Absorbed(f[k - 1], a, gs[k])
      /\ MergeInto(gs, a) = f[n]
  BY <1>a DEF MergeRun
<1> DEFINE K == {k \in Nat : a <= k /\ k <= n =>
                     f[k] = IF k < b THEN SubSeq(gs, 1, k) ELSE Part(k)}
<1>2. 0 \in K
  BY <1>0
<1>3. ASSUME NEW k \in Nat, k \in K PROVE k + 1 \in K
  <2> SUFFICES ASSUME a <= k + 1, k + 1 <= n
               PROVE  f[k + 1] = IF k + 1 < b THEN SubSeq(gs, 1, k + 1) ELSE Part(k + 1)
    OBVIOUS
  <2>1. CASE a = k + 1
    BY <1>0, <1>1, <2>1
  <2>2. CASE a # k + 1
    <3>1. k + 1 \in (a + 1) .. n /\ (k + 1) - 1 = k /\ k + 1 \in 1 .. n
          /\ k \in 0 .. n /\ a \in 1 .. k
      BY <1>0, <2>2
    <3>2. f[k + 1] = Absorbed(f[k], a, gs[k + 1])
      BY <1>1, <3>1
    <3>3. CASE k + 1 < b
      <4>1. f[k] = SubSeq(gs, 1, k)
        BY <1>0, <1>3, <3>1, <3>3
      <4>2. f[k][a] \cap gs[k + 1] = {}
        <5>1. f[k][a] = gs[a]
          BY <3>1, <4>1, FirstMembers
        <5>2. k + 1 \in (a + 1) .. Len(gs) /\ k + 1 # b
          BY <3>1, <3>3
        <5> QED BY <5>1, <5>2
      <4> QED BY <3>1, <3>2, <3>3, <4>1, <4>2, NextMember DEF Absorbed
    <3>4. CASE k + 1 = b
      <4>1. f[k] = SubSeq(gs, 1, k)
        BY <1>0, <1>3, <3>1, <3>4
      <4>2. /\ f[k] \in Seq(SUBSET B) /\ Len(f[k]) = k
            /\ \A x \in 1 .. k : f[k][x] = gs[x]
        BY <3>1, <4>1, FirstMembers
      <4>3. f[k + 1] = [f[k] EXCEPT ![a] = @ \cup gs[b]]
        BY <3>1, <3>2, <3>4, <4>2 DEF Absorbed
      <4> DEFINE s == f[k]
      <4>a. s = [x \in 1 .. Len(s) |-> s[x]]
        <5> HIDE DEF s
        <5>1. s \in Seq(SUBSET B)
          BY <4>2 DEF s
        <5> QED BY <5>1
      <4> HIDE DEF s
      <4>b. /\ Len(s) = k
            /\ \A x \in 1 .. k : s[x] = gs[x]
        BY <4>2 DEF s
      <4>c. s = [x \in 1 .. k |-> gs[x]]
        BY <4>a, <4>b, Zenon
      <4>4. f[k] = [x \in 1 .. k |-> gs[x]]
        BY <4>c DEF s
      <4>5. f[k + 1] = [x \in 1 .. k |-> IF x = a THEN gs[a] \cup gs[b] ELSE gs[x]]
        BY <3>1, <4>3, <4>4
      <4>6. \A x \in 1 .. k : x < b
        BY <3>4
      <4>7. ~(k + 1 < b) /\ (k + 1) - 1 = k
        BY <3>4
      <4>8. Part(k + 1) = [x \in 1 .. k |-> IF x = a THEN gs[a] \cup gs[b] ELSE gs[x]]
        BY <4>6, <4>7
      <4> QED BY <4>5, <4>7, <4>8
    <3>5. CASE b < k + 1
      <4>1. f[k] = Part(k) /\ k + 1 # b /\ b <= k
        BY <1>0, <1>3, <3>1, <3>5
      <4>2. a \in 1 .. (k - 1)
        BY <1>0, <3>1, <4>1
      <4>3. f[k][a] \cap gs[k + 1] = {}
        BY <3>1, <4>1, <4>2
      <4>4. f[k + 1] = Append(Part(k), gs[k + 1])
        BY <3>2, <4>1, <4>3 DEF Absorbed
      <4>5. Append(Part(k), gs[k + 1]) = Part(k + 1)
        <5>1. Part(k) \in Seq(SUBSET B)
          BY <1>1, <3>1, <4>1
        <5>2. Len(Part(k)) = k - 1
          BY <1>0, <4>1
        <5>3. ~(k < b) /\ k # a
          BY <1>0, <4>1
        <5>4. Part(k + 1) = [x \in 1 .. k |-> IF x = k THEN gs[k + 1] ELSE Part(k)[x]]
          BY <1>0, <4>1, <5>3
        <5>5. gs[k + 1] \in SUBSET B
          BY <3>1
        <5> HIDE DEF Part
        <5>6. Append(Part(k), gs[k + 1]) =
                [x \in 1 .. k |-> IF x = k THEN gs[k + 1] ELSE Part(k)[x]]
          <6> DEFINE T == SUBSET B
                     s == Part(k)
                     g == gs[k + 1]
          <6>1. s \in Seq(T) /\ Len(s) = k - 1 /\ k \in Nat /\ g \in T
            BY <5>1, <5>2, <5>5
          <6> HIDE DEF T, s, g
          <6>2. Append(s, g) = [x \in 1 .. k |-> IF x = k THEN g ELSE s[x]]
            BY <6>1, AppendIs
          <6> QED BY <6>2 DEF s, g
        <5> QED BY <5>4, <5>6
      <4> QED BY <3>5, <4>4, <4>5
    <3> QED BY <1>0, <3>3, <3>4, <3>5
  <2> QED BY <2>1, <2>2
<1>4. n \in K
  <2> HIDE DEF K
  <2>1. Nat \subseteq K
    BY <1>2, <1>3, SetInduction
  <2> QED BY <1>0, <2>1
<1>5. f[n] = Part(n)
  BY <1>0, <1>4
<1> QED BY <1>1, <1>5 DEF Without

(* One turn of the outer loop.                                             *)
AfterTurn(s, i) == IF i <= Len(s) THEN MergeInto(s, i) ELSE s

LEMMA AfterTurnType ==
    ASSUME NEW B, NEW s \in Seq(SUBSET B), NEW i \in Nat \ {0}
    PROVE  AfterTurn(s, i) \in Seq(SUBSET B)
<1>1. CASE i <= Len(s)
  <2>1. i \in 1 .. Len(s)
    BY <1>1
  <2>2. PICK f \in [0 .. Len(s) -> Seq(SUBSET B)] : MergeRun(s, i, f)
    BY <2>1, MergeIntoFacts
  <2>3. MergeInto(s, i) = f[Len(s)]
    BY <2>2 DEF MergeRun
  <2>4. f[Len(s)] \in Seq(SUBSET B)
    OBVIOUS
  <2> QED BY <1>1, <2>3, <2>4 DEF AfterTurn
<1>2. CASE ~(i <= Len(s))
  BY <1>2 DEF AfterTurn
<1> QED BY <1>1, <1>2

MergeRuns(gs, f) ==
    /\ f[0] = gs
    /\ \A i \in 1 .. Len(gs) : f[i] = AfterTurn(f[i - 1], i)
    /\ MergeGroups(gs) = f[Len(gs)]

(* MergeGroups gives every group that is left its turn.                    *)
LEMMA MergeGroupsFacts ==
    ASSUME NEW B, NEW gs \in Seq(SUBSET B)
    PROVE  \E f : MergeRuns(gs, f)
<1> DEFINE n == Len(gs)
           T == Seq(SUBSET B)
           move == [z \in (1 .. n) \X T |-> AfterTurn(z[2], z[1])]
           Steps(merged) == merged = [i \in 0 .. n |->
                IF i = 0 THEN gs ELSE AfterTurn(merged[i - 1], i)]
           merged == CHOOSE merged : Steps(merged)
<1>1. n \in Nat
  OBVIOUS
<1>2. \A i \in 1 .. n : \A s \in T : AfterTurn(s, i) \in T
  BY AfterTurnType
<1>3. move \in [(1 .. n) \X T -> T]
  <2> SUFFICES ASSUME NEW z \in (1 .. n) \X T PROVE AfterTurn(z[2], z[1]) \in T
    OBVIOUS
  <2> HIDE DEF T
  <2> QED BY <1>2
<1>4. \A i \in 1 .. n : \A s \in T : move[<<i, s>>] = AfterTurn(s, i)
  OBVIOUS
<1>5. gs \in T
  OBVIOUS
<1> HIDE DEF move, T
<1>6. PICK f \in [0 .. n -> T] :
              f[0] = gs /\ \A i \in 1 .. n : f[i] = move[<<i, f[i - 1]>>]
  <2>1. Results(T, gs, n, move) # {}
    BY <1>1, <1>3, <1>5, ResultsExist
  <2> QED BY <2>1 DEF Results
<1>7. \A i \in 1 .. n : f[i] = AfterTurn(f[i - 1], i)
  <2> SUFFICES ASSUME NEW i \in 1 .. n PROVE f[i] = AfterTurn(f[i - 1], i)
    OBVIOUS
  <2>1. i - 1 \in 0 .. n
    BY <1>1
  <2> QED BY <1>4, <1>6, <2>1
<1>8. Steps(f)
  <2>1. \A i \in 0 .. n : i # 0 => i \in 1 .. n
    BY <1>1
  <2>2. \A i \in 0 .. n : f[i] = IF i = 0 THEN gs ELSE AfterTurn(f[i - 1], i)
    BY <1>6, <1>7, <2>1
  <2>3. f = [i \in 0 .. n |-> f[i]]
    BY <1>6
  <2> QED BY <2>2, <2>3
<1>9. Steps(merged)
  <2> HIDE DEF Steps
  <2> QED BY <1>8
<1>10. MergeGroups(gs) = merged[n]
  BY DEF MergeGroups, AfterTurn
<1> HIDE DEF merged
<1>11. \A i \in 0 .. n : merged[i] = IF i = 0 THEN gs ELSE AfterTurn(merged[i - 1], i)
  BY <1>9
<1>12. merged[0] = gs /\ \A i \in 1 .. n : merged[i] = AfterTurn(merged[i - 1], i)
  <2>1. 0 \in 0 .. n /\ \A i \in 1 .. n : i \in 0 .. n /\ i # 0
    BY <1>1
  <2> QED BY <1>11, <2>1
<1> QED BY <1>10, <1>12 DEF MergeRuns

(* A turn among groups that share no body changes nothing.                 *)
LEMMA TurnedApart ==
    ASSUME NEW B, NEW s \in Seq(SUBSET B), NEW i \in Nat \ {0}, Apart(s)
    PROVE  AfterTurn(s, i) = s
<1>1. CASE i <= Len(s)
  <2>1. i \in 1 .. Len(s)
    BY <1>1
  <2>2. \A k \in (i + 1) .. Len(s) : s[i] \cap s[k] = {}
    BY <2>1 DEF Apart
  <2> QED BY <1>1, <2>1, <2>2, MergeIntoNone DEF AfterTurn
<1>2. CASE ~(i <= Len(s))
  BY <1>2 DEF AfterTurn
<1> QED BY <1>1, <1>2

(* Groups that share no body are left as they are.                         *)
LEMMA MergeApart ==
    ASSUME NEW B, NEW gs \in Seq(SUBSET B), Apart(gs)
    PROVE  MergeGroups(gs) = gs
<1> DEFINE n == Len(gs)
<1>1. PICK f : MergeRuns(gs, f)
  BY MergeGroupsFacts
<1>2. f[0] = gs /\ MergeGroups(gs) = f[n]
      /\ \A i \in 1 .. n : f[i] = AfterTurn(f[i - 1], i)
  BY <1>1 DEF MergeRuns
<1>3. n \in Nat /\ \A i \in 1 .. n : AfterTurn(gs, i) = gs
  BY TurnedApart
<1>4. \A k \in 0 .. n : f[k] \in {gs}
  <2> DEFINE T == {gs}
  <2>1. f[0] \in T /\ \A k \in 1 .. n : f[k - 1] \in T => f[k] \in T
    BY <1>2, <1>3
  <2> SUFFICES \A k \in 0 .. n : f[k] \in T
    OBVIOUS
  <2> HIDE DEF n, T
  <2> QED BY <1>3, <2>1, KeepsType
<1> QED BY <1>2, <1>3, <1>4

(* Only the groups a and b share bodies.                                   *)
OnlyPair(gs, a, b) ==
    /\ a \in DOMAIN gs /\ b \in DOMAIN gs /\ a < b
    /\ gs[a] \cap gs[b] # {}
    /\ \A x, y \in DOMAIN gs : x # y /\ {x, y} # {a, b} => gs[x] \cap gs[y] = {}

Parted(B, gs, w, a, b) ==
    /\ w \in Seq(SUBSET B) /\ Apart(w) /\ DOMAIN w = 1 .. (Len(gs) - 1)
    /\ a \in 1 .. (Len(gs) - 1) /\ w[a] = gs[a] \cup gs[b]
    /\ \A x \in 1 .. (Len(gs) - 1) : x # a => \E y \in DOMAIN gs \ {a, b} : w[x] = gs[y]
    /\ \A y \in DOMAIN gs \ {a, b} : \E x \in 1 .. (Len(gs) - 1) : x # a /\ w[x] = gs[y]

(* Joining them leaves groups that are apart.                              *)
LEMMA WithoutFacts ==
    ASSUME NEW B, NEW gs \in Seq(SUBSET B), NEW a, NEW b, OnlyPair(gs, a, b)
    PROVE  Parted(B, gs, Without(gs, a, b), a, b)
<1> DEFINE n == Len(gs)
           w == Without(gs, a, b)
           At(x) == IF x < b THEN x ELSE x + 1
<1>0. /\ n \in Nat /\ a \in 1 .. n /\ b \in 1 .. n /\ a < b /\ DOMAIN gs = 1 .. n
      /\ a \in 1 .. (n - 1)
  BY DEF OnlyPair
<1>1. DOMAIN w = 1 .. (n - 1)
  BY DEF Without
<1>2. w[a] = gs[a] \cup gs[b]
  BY <1>0 DEF Without
<1>3. \A x \in 1 .. (n - 1) : x # a => At(x) \in DOMAIN gs \ {a, b} /\ w[x] = gs[At(x)]
  BY <1>0 DEF Without
<1>4. ASSUME NEW y \in DOMAIN gs \ {a, b}
      PROVE  \E x \in 1 .. (n - 1) : x # a /\ w[x] = gs[y]
  <2>1. CASE y < b
    <3>1. y \in 1 .. (n - 1) /\ y # a /\ At(y) = y
      BY <1>0, <2>1
    <3> QED BY <1>3, <3>1
  <2>2. CASE ~(y < b)
    <3>1. y - 1 \in 1 .. (n - 1) /\ y - 1 # a /\ At(y - 1) = y
      BY <1>0, <2>2
    <3> QED BY <1>3, <3>1
  <2> QED BY <2>1, <2>2
<1>5. ASSUME NEW x \in 1 .. (n - 1) PROVE w[x] \in SUBSET B
  <2>1. gs[a] \cup gs[b] \in SUBSET B
    BY <1>0
  <2> QED BY <1>0, <1>2, <1>3, <2>1
<1>6. w \in Seq(SUBSET B)
  <2>1. w = [x \in 1 .. (n - 1) |-> w[x]]
    BY DEF Without
  <2>2. n - 1 \in Nat
    BY <1>0
  <2> HIDE DEF w, n
  <2> QED BY <1>5, <2>1, <2>2
<1>7. Apart(w)
  <2> SUFFICES ASSUME NEW x \in 1 .. (n - 1), NEW y \in 1 .. (n - 1), x # y
               PROVE  w[x] \cap w[y] = {}
    BY <1>1 DEF Apart
  <2>1. \A c, d \in DOMAIN gs : c # d /\ {c, d} # {a, b} => gs[c] \cap gs[d] = {}
    BY DEF OnlyPair
  <2>2. ASSUME NEW c \in DOMAIN gs \ {a, b} PROVE w[a] \cap gs[c] = {}
    <3>1. gs[a] \cap gs[c] = {}
      BY <1>0, <2>1
    <3>2. gs[b] \cap gs[c] = {}
      BY <1>0, <2>1
    <3> QED BY <1>2, <3>1, <3>2
  <2>3. CASE x = a
    <3>1. At(y) \in DOMAIN gs \ {a, b} /\ w[y] = gs[At(y)]
      BY <1>3, <2>3
    <3> QED BY <2>2, <2>3, <3>1
  <2>4. CASE y = a
    <3>1. At(x) \in DOMAIN gs \ {a, b} /\ w[x] = gs[At(x)]
      BY <1>3, <2>4
    <3> QED BY <2>2, <2>4, <3>1
  <2>5. CASE x # a /\ y # a
    <3>1. /\ At(x) \in DOMAIN gs \ {a, b} /\ w[x] = gs[At(x)]
          /\ At(y) \in DOMAIN gs \ {a, b} /\ w[y] = gs[At(y)]
      BY <1>3, <2>5
    <3>2. At(x) # At(y)
      BY <1>0
    <3> HIDE DEF At, w
    <3>3. {At(x), At(y)} # {a, b}
      BY <3>1
    <3> QED BY <2>1, <3>1, <3>2, <3>3
  <2> QED BY <2>3, <2>4, <2>5
<1>8. \A x \in 1 .. (n - 1) : x # a => \E y \in DOMAIN gs \ {a, b} : w[x] = gs[y]
  <2> HIDE DEF w, At
  <2> QED BY <1>3
<1> HIDE DEF w
<1> QED BY <1>0, <1>1, <1>2, <1>4, <1>6, <1>7, <1>8 DEF w, Parted

(* Two groups that share bodies become one.                                *)
LEMMA MergePair ==
    ASSUME NEW B, NEW gs \in Seq(SUBSET B), NEW a, NEW b, OnlyPair(gs, a, b)
    PROVE  MergeGroups(gs) = Without(gs, a, b)
<1> DEFINE n == Len(gs)
           w == Without(gs, a, b)
<1>0. /\ n \in Nat /\ a \in 1 .. n /\ b \in 1 .. n /\ a < b /\ DOMAIN gs = 1 .. n
  BY DEF OnlyPair
<1>1. PICK f : MergeRuns(gs, f)
  BY MergeGroupsFacts
<1>2. f[0] = gs /\ MergeGroups(gs) = f[n]
      /\ \A i \in 1 .. n : f[i] = AfterTurn(f[i - 1], i)
  BY <1>1 DEF MergeRuns
<1>3. \A i \in 1 .. n : AfterTurn(w, i) = w
  <2>1. w \in Seq(SUBSET B) /\ Apart(w)
    BY WithoutFacts DEF Parted
  <2>2. \A i \in 1 .. n : i \in Nat \ {0}
    OBVIOUS
  <2> HIDE DEF w, n
  <2> QED BY <2>1, <2>2, TurnedApart
<1>4. ASSUME NEW i \in 1 .. n, i < a PROVE AfterTurn(gs, i) = gs
  <2>1. \A k \in (i + 1) .. Len(gs) : gs[i] \cap gs[k] = {}
    <3> SUFFICES ASSUME NEW k \in (i + 1) .. Len(gs) PROVE gs[i] \cap gs[k] = {}
      OBVIOUS
    <3>1. k \in DOMAIN gs /\ i # k /\ i # a /\ i # b
      BY <1>0, <1>4
    <3>2. {i, k} # {a, b}
      BY <3>1
    <3> QED BY <3>1, <3>2 DEF OnlyPair
  <2> QED BY <2>1, MergeIntoNone DEF AfterTurn
<1>5. AfterTurn(gs, a) = w
  <2>1. b \in (a + 1) .. Len(gs) /\ gs[a] \cap gs[b] # {}
    BY <1>0 DEF OnlyPair
  <2>2. ASSUME NEW k \in (a + 1) .. Len(gs), k # b
        PROVE  gs[a] \cap gs[k] = {} /\ gs[b] \cap gs[k] = {}
    <3>1. k \in DOMAIN gs /\ k # a /\ k # b
      BY <1>0, <2>2
    <3>2. {a, k} # {a, b} /\ {b, k} # {a, b}
      BY <3>1
    <3> QED BY <1>0, <3>1, <3>2 DEF OnlyPair
  <2>3. MergeInto(gs, a) = w
    BY <1>0, <2>1, <2>2, MergeIntoOne
  <2> QED BY <1>0, <2>3 DEF AfterTurn
<1> DEFINE K == {k \in Nat : k <= n => f[k] = IF k < a THEN gs ELSE w}
<1> HIDE DEF w
<1>6. 0 \in K
  BY <1>0, <1>2
<1>7. ASSUME NEW k \in Nat, k \in K PROVE k + 1 \in K
  <2> SUFFICES ASSUME k + 1 <= n PROVE f[k + 1] = IF k + 1 < a THEN gs ELSE w
    OBVIOUS
  <2>1. f[k] = IF k < a THEN gs ELSE w
    BY <1>7
  <2>2. k + 1 \in 1 .. n /\ (k + 1) - 1 = k
    OBVIOUS
  <2>3. f[k + 1] = AfterTurn(f[k], k + 1)
    BY <1>2, <2>2
  <2>4. CASE k + 1 < a
    BY <1>0, <1>4, <2>1, <2>2, <2>3, <2>4
  <2>5. CASE k + 1 = a
    BY <1>0, <1>5, <2>1, <2>2, <2>3, <2>5
  <2>6. CASE k + 1 > a
    BY <1>0, <1>3, <2>1, <2>2, <2>3, <2>6
  <2> QED BY <1>0, <2>4, <2>5, <2>6
<1>8. n \in K
  <2> HIDE DEF K
  <2>1. Nat \subseteq K
    BY <1>6, <1>7, SetInduction
  <2> QED BY <1>0, <2>1
<1> QED BY <1>0, <1>2, <1>8 DEF w

(* The least index.                                                        *)
LEMMA MinFacts ==
    ASSUME NEW S \in SUBSET Nat, S # {}
    PROVE  SetOps!Min(S) \in S /\ \A x \in S : SetOps!Min(S) <= x
BY LeastNat DEF SetOps!Min

(* What is known of a plant.                                               *)
LEMMA PlantFacts ==
    ASSUME plant \in Plants
    PROVE  /\ Len(plant.modelOf) \in Nat
           /\ PlantBodies = 1 .. Len(plant.modelOf)
           /\ Len(plant.joints) \in Nat /\ Len(plant.joints) > 0
           /\ DOMAIN plant.joints = 1 .. Len(plant.joints)
           /\ \A i \in DOMAIN plant.joints :
                 /\ plant.joints[i].parent \in PlantBodies
                 /\ plant.joints[i].child \in PlantBodies \ {World}
                 /\ plant.joints[i].weld \in BOOLEAN
                 /\ plant.joints[i].position \in 0 .. Len(plant.joints)
           /\ DOMAIN plant.models = 1 .. Len(plant.models) /\ Len(plant.models) \in Nat
           /\ \A b \in PlantBodies : plant.modelOf[b] \in DOMAIN plant.models
           /\ plant.collision \subseteq PlantBodies
<1>1. IsPlant(plant)
  BY PlantsAssumption
<1> DEFINE bodies == 1 .. Len(plant.modelOf)
<1>2. /\ DOMAIN plant.models = 1 .. Len(plant.models) /\ Len(plant.models) \in Nat
      /\ plant.modelOf \in Seq(DOMAIN plant.models)
      /\ plant.collision \subseteq bodies
      /\ plant.joints # <<>>
      /\ plant.joints \in Seq([parent : bodies, child : bodies \ {World},
                               weld : BOOLEAN, position : 0 .. Len(plant.joints)])
  BY <1>1 DEF IsPlant
<1>3. Len(plant.modelOf) \in Nat /\ PlantBodies = bodies
  BY <1>2 DEF PlantBodies
<1>4. /\ Len(plant.joints) \in Nat /\ Len(plant.joints) > 0
      /\ DOMAIN plant.joints = 1 .. Len(plant.joints)
  BY <1>2
<1>5. ASSUME NEW i \in DOMAIN plant.joints
      PROVE  /\ plant.joints[i].parent \in bodies
             /\ plant.joints[i].child \in bodies \ {World}
             /\ plant.joints[i].weld \in BOOLEAN
             /\ plant.joints[i].position \in 0 .. Len(plant.joints)
  <2> DEFINE R == [parent : bodies, child : bodies \ {World},
                   weld : BOOLEAN, position : 0 .. Len(plant.joints)]
             js == plant.joints
  <2>1. js \in Seq(R) /\ i \in DOMAIN js
    BY <1>2, <1>5
  <2>2. \A j \in R : /\ j.parent \in bodies /\ j.child \in bodies \ {World}
                      /\ j.weld \in BOOLEAN /\ j.position \in 0 .. Len(plant.joints)
    OBVIOUS
  <2> HIDE DEF R, js, bodies
  <2>3. js[i] \in R
    BY <2>1
  <2> QED BY <2>2, <2>3 DEF js
<1>6. \A b \in PlantBodies : plant.modelOf[b] \in DOMAIN plant.models
  BY <1>2, <1>3, SMTT(60)
<1> HIDE DEF bodies
<1>7. \A i \in DOMAIN plant.joints :
         /\ plant.joints[i].parent \in PlantBodies
         /\ plant.joints[i].child \in PlantBodies \ {World}
         /\ plant.joints[i].weld \in BOOLEAN
         /\ plant.joints[i].position \in 0 .. Len(plant.joints)
  BY <1>3, <1>5
<1>8. /\ Len(plant.modelOf) \in Nat /\ PlantBodies = 1 .. Len(plant.modelOf)
      /\ plant.collision \subseteq PlantBodies
  BY <1>2, <1>3 DEF bodies
<1>9. DOMAIN plant.models = 1 .. Len(plant.models) /\ Len(plant.models) \in Nat
  BY <1>2
<1> QED BY <1>4, <1>6, <1>7, <1>8, <1>9

(* Every set that no weld leads out of has all of G or nothing of it.      *)
Bonded(G) ==
    \A S \in SUBSET PlantBodies : WeldsStayIn(S) /\ S \cap G # {} => G \subseteq S

(* Two that overlap are bonded together.                                   *)
LEMMA BondedUnion ==
    ASSUME NEW G, NEW H, Bonded(G), Bonded(H), G \cap H # {}
    PROVE  Bonded(G \cup H)
<1> SUFFICES ASSUME NEW S \in SUBSET PlantBodies, WeldsStayIn(S), S \cap (G \cup H) # {}
             PROVE  G \cup H \subseteq S
  BY DEF Bonded
<1>1. S \cap G # {} => G \subseteq S
  BY DEF Bonded
<1>2. S \cap H # {} => H \subseteq S
  BY DEF Bonded
<1> QED BY <1>1, <1>2

GroupsCore(gs) ==
    /\ gs \in Seq(SUBSET PlantBodies)
    /\ Apart(gs)
    /\ \A k \in DOMAIN gs : gs[k] # {} /\ Bonded(gs[k])

(* The joint has its bodies in groups, in one if it is a weld.             *)
Grouped(gs, j) ==
    \E k, l \in DOMAIN gs :
       j.parent \in gs[k] /\ j.child \in gs[l] /\ (j.weld => k = l)

(* Every group lives on in one of the new groups.                          *)
Carries(gs, hs) == \A x \in DOMAIN gs : \E y \in DOMAIN hs : gs[x] \subseteq hs[y]

(* What is grouped stays so as long as every group lives on.               *)
LEMMA GroupedStays ==
    ASSUME NEW gs, NEW hs, NEW j, Grouped(gs, j), Carries(gs, hs)
    PROVE  Grouped(hs, j)
<1>1. PICK k \in DOMAIN gs, l \in DOMAIN gs :
              j.parent \in gs[k] /\ j.child \in gs[l] /\ (j.weld => k = l)
  BY DEF Grouped
<1>2. PICK m \in DOMAIN hs : gs[k] \subseteq hs[m]
  BY DEF Carries
<1>3. PICK n \in DOMAIN hs : gs[l] \subseteq hs[n]
  BY DEF Carries
<1>4. CASE j.weld
  BY <1>1, <1>2, <1>4 DEF Grouped
<1>5. CASE ~j.weld
  BY <1>1, <1>2, <1>3, <1>5 DEF Grouped
<1> QED BY <1>4, <1>5

(* A bonded group that meets no other can be added.                        *)
LEMMA GroupAdded ==
    ASSUME NEW gs, GroupsCore(gs), NEW G \in SUBSET PlantBodies, G # {}, Bonded(G),
           \A k \in DOMAIN gs : gs[k] \cap G = {}
    PROVE  /\ GroupsCore(Append(gs, G)) /\ Carries(gs, Append(gs, G))
           /\ Len(gs) + 1 \in DOMAIN Append(gs, G) /\ Append(gs, G)[Len(gs) + 1] = G
           /\ \A k \in DOMAIN gs : k \in DOMAIN Append(gs, G) /\ Append(gs, G)[k] = gs[k]
<1> DEFINE hs == Append(gs, G)
           n == Len(gs)
<1>1. gs \in Seq(SUBSET PlantBodies) /\ n \in Nat /\ DOMAIN gs = 1 .. n
  BY DEF GroupsCore
<1>2. /\ hs \in Seq(SUBSET PlantBodies) /\ DOMAIN hs = 1 .. (n + 1) /\ hs[n + 1] = G
      /\ \A k \in 1 .. n : hs[k] = gs[k]
  BY <1>1
<1>3. \A k \in 1 .. (n + 1) : k # n + 1 => k \in 1 .. n
  BY <1>1
<1>4. Apart(hs)
  <2> HIDE DEF hs, n
  <2>1. \A a, b \in 1 .. n : a # b => gs[a] \cap gs[b] = {}
    BY <1>1 DEF GroupsCore, Apart
  <2> QED BY <1>1, <1>2, <1>3, <2>1 DEF Apart
<1>5. \A k \in DOMAIN hs : hs[k] # {} /\ Bonded(hs[k])
  <2> HIDE DEF hs, n
  <2> QED BY <1>1, <1>2, <1>3 DEF GroupsCore
<1>6. Carries(gs, hs)
  <2>1. \A k \in 1 .. n : k \in 1 .. (n + 1)
    BY <1>1
  <2> HIDE DEF hs, n
  <2> QED BY <1>1, <1>2, <2>1 DEF Carries
<1>7. n + 1 \in 1 .. (n + 1) /\ \A k \in 1 .. n : k \in 1 .. (n + 1)
  BY <1>1
<1> HIDE DEF hs
<1> QED BY <1>1, <1>2, <1>4, <1>5, <1>6, <1>7 DEF GroupsCore, hs

(* A body is in a group after it was seen to.                              *)
LEMMA WithBodyFacts ==
    ASSUME NEW gs, GroupsCore(gs), NEW b \in PlantBodies
    PROVE  /\ GroupsCore(WithBody(gs, b)) /\ Carries(gs, WithBody(gs, b))
           /\ \E k \in DOMAIN WithBody(gs, b) : b \in WithBody(gs, b)[k]
<1>1. CASE \E k \in DOMAIN gs : b \in gs[k]
  BY <1>1 DEF WithBody, Carries
<1>2. CASE ~\E k \in DOMAIN gs : b \in gs[k]
  <2>1. {b} \in SUBSET PlantBodies /\ {b} # {} /\ Bonded({b})
        /\ \A k \in DOMAIN gs : gs[k] \cap {b} = {}
    BY <1>2 DEF Bonded
  <2>2. WithBody(gs, b) = Append(gs, {b})
    BY <1>2 DEF WithBody
  <2>3. /\ GroupsCore(Append(gs, {b})) /\ Carries(gs, Append(gs, {b}))
        /\ Len(gs) + 1 \in DOMAIN Append(gs, {b}) /\ Append(gs, {b})[Len(gs) + 1] = {b}
    BY <2>1, GroupAdded
  <2> QED BY <2>2, <2>3
<1> QED BY <1>1, <1>2

LEMMA CarriesThrough ==
    ASSUME NEW fs, NEW gs, NEW hs, Carries(fs, gs), Carries(gs, hs)
    PROVE  Carries(fs, hs)
<1> SUFFICES ASSUME NEW x \in DOMAIN fs PROVE \E y \in DOMAIN hs : fs[x] \subseteq hs[y]
  BY DEF Carries
<1>1. PICK y \in DOMAIN gs : fs[x] \subseteq gs[y]
  BY DEF Carries
<1>2. PICK z \in DOMAIN hs : gs[y] \subseteq hs[z]
  BY DEF Carries
<1> QED BY <1>1, <1>2

(* A joint that moves has its bodies grouped.                              *)
LEMMA MovingJointGrouped ==
    ASSUME NEW gs, GroupsCore(gs), NEW j, j.parent \in PlantBodies,
           j.child \in PlantBodies, ~j.weld
    PROVE  LET hs == MergeGroups(WithBody(WithBody(gs, j.parent), j.child))
           IN  GroupsCore(hs) /\ Carries(gs, hs) /\ Grouped(hs, j)
<1> DEFINE ms == WithBody(gs, j.parent)
           hs == WithBody(ms, j.child)
<1>1. GroupsCore(ms) /\ Carries(gs, ms) /\ \E k \in DOMAIN ms : j.parent \in ms[k]
  BY WithBodyFacts
<1> HIDE DEF ms
<1>2. GroupsCore(hs) /\ Carries(ms, hs) /\ \E k \in DOMAIN hs : j.child \in hs[k]
  BY <1>1, WithBodyFacts
<1> HIDE DEF hs
<1>3. MergeGroups(hs) = hs
  BY <1>2, MergeApart DEF GroupsCore
<1>4. Carries(gs, hs)
  BY <1>1, <1>2, CarriesThrough
<1>5. Grouped(hs, j)
  <2>1. PICK k \in DOMAIN ms : j.parent \in ms[k]
    BY <1>1
  <2>2. PICK m \in DOMAIN hs : ms[k] \subseteq hs[m]
    BY <1>2 DEF Carries
  <2>3. PICK l \in DOMAIN hs : j.child \in hs[l]
    BY <1>2
  <2> QED BY <2>1, <2>2, <2>3 DEF Grouped
<1> QED BY <1>2, <1>3, <1>4, <1>5 DEF hs, ms

(* And so has a weld, which may join two groups.                           *)
LEMMA WeldGrouped ==
    ASSUME NEW gs, GroupsCore(gs), NEW j, j.parent \in PlantBodies,
           j.child \in PlantBodies, j.weld, Bonded({j.parent, j.child})
    PROVE  LET hs == MergeGroups(Welded(gs, j))
           IN  GroupsCore(hs) /\ Carries(gs, hs) /\ Grouped(hs, j)
<1> DEFINE P == {j.parent, j.child}
           holders == {k \in DOMAIN gs : gs[k] \cap P # {}}
           ws == Welded(gs, j)
           n == Len(gs)
<1>0. /\ gs \in Seq(SUBSET PlantBodies) /\ n \in Nat /\ DOMAIN gs = 1 .. n
      /\ P \in SUBSET PlantBodies /\ P # {} /\ Bonded(P)
      /\ j.parent \in P /\ j.child \in P
  BY DEF GroupsCore
<1>1. ws = IF holders = {} THEN Append(gs, P)
           ELSE [gs EXCEPT ![SetOps!Min(holders)] = gs[SetOps!Min(holders)] \cup P]
  <2>1. holders # {} => SetOps!Min(holders) \in DOMAIN gs
    <3>1. holders \in SUBSET Nat
      BY <1>0
    <3> HIDE DEF P
    <3>2. holders # {} => SetOps!Min(holders) \in holders
      BY <3>1, MinFacts
    <3> QED BY <3>2
  <2> QED BY <2>1 DEF Welded
<1> HIDE DEF P, ws, n
<1>2. CASE holders = {}
  <2>1. ws = Append(gs, P)
    BY <1>1, <1>2
  <2>2. \A k \in DOMAIN gs : gs[k] \cap P = {}
    BY <1>2
  <2>3. /\ GroupsCore(ws) /\ Carries(gs, ws)
        /\ Len(gs) + 1 \in DOMAIN ws /\ ws[Len(gs) + 1] = P
    BY <1>0, <2>1, <2>2, GroupAdded
  <2>4. MergeGroups(ws) = ws
    BY <2>3, MergeApart DEF GroupsCore
  <2>5. Grouped(ws, j)
    BY <1>0, <2>3 DEF Grouped
  <2> QED BY <2>3, <2>4, <2>5 DEF ws
<1>3. ASSUME holders # {}
      PROVE  LET hs == MergeGroups(ws)
             IN  GroupsCore(hs) /\ Carries(gs, hs) /\ Grouped(hs, j)
  <2> DEFINE k == SetOps!Min(holders)
             G == gs[k] \cup P
  <2>1. k \in DOMAIN gs /\ gs[k] \cap P # {} /\ \A x \in holders : k <= x
    <3>1. holders \in SUBSET Nat
      BY <1>0
    <3>2. k \in holders /\ \A x \in holders : k <= x
      BY <1>3, <3>1, MinFacts
    <3> QED BY <3>2
  <2>2. ws = [gs EXCEPT ![k] = G]
    BY <1>1, <1>3
  <2> HIDE DEF k
  <2>3. /\ DOMAIN ws = DOMAIN gs /\ ws[k] = G
        /\ \A x \in DOMAIN gs : x # k => ws[x] = gs[x]
    BY <2>1, <2>2
  <2>4. /\ \A x \in DOMAIN gs : gs[x] # {} /\ Bonded(gs[x])
        /\ \A x, y \in DOMAIN gs : x # y => gs[x] \cap gs[y] = {}
    BY DEF GroupsCore, Apart
  <2>5. G \in SUBSET PlantBodies /\ Bonded(G) /\ gs[k] \subseteq G /\ P \subseteq G
        /\ G # {}
    BY <1>0, <2>1, <2>4, BondedUnion
  <2>6. ws \in Seq(SUBSET PlantBodies)
    BY <1>0, <2>1, <2>2, <2>5
  <2> HIDE DEF G
  <2>7. CASE \A x \in DOMAIN gs : x # k => gs[x] \cap P = {}
    <3>1. ASSUME NEW x \in DOMAIN gs, x # k PROVE G \cap gs[x] = {}
      BY <2>1, <2>4, <2>7, <3>1 DEF G
    <3>2. Apart(ws)
      <4> SUFFICES ASSUME NEW x \in DOMAIN gs, NEW y \in DOMAIN gs, x # y
                   PROVE  ws[x] \cap ws[y] = {}
        BY <2>3 DEF Apart
      <4> QED BY <2>3, <2>4, <3>1
    <3>3. \A x \in DOMAIN ws : ws[x] # {} /\ Bonded(ws[x])
      BY <2>3, <2>4, <2>5
    <3>4. GroupsCore(ws) /\ MergeGroups(ws) = ws
      BY <2>6, <3>2, <3>3, MergeApart DEF GroupsCore
    <3>5. Carries(gs, ws)
      <4> SUFFICES ASSUME NEW x \in DOMAIN gs PROVE gs[x] \subseteq ws[x]
        BY <2>3 DEF Carries
      <4> QED BY <2>3, <2>5
    <3>6. Grouped(ws, j)
      BY <1>0, <2>1, <2>3, <2>5 DEF Grouped
    <3> QED BY <3>4, <3>5, <3>6
  <2>8. ASSUME NEW b \in DOMAIN gs, b # k, gs[b] \cap P # {}
        PROVE  LET hs == MergeGroups(ws)
               IN  GroupsCore(hs) /\ Carries(gs, hs) /\ Grouped(hs, j)
    <3>1. k < b
      <4>1. b \in holders /\ b \in Nat /\ k \in Nat
        BY <1>0, <2>1, <2>8
      <4> QED BY <2>1, <2>8, <4>1
    <3>2. P \subseteq gs[k] \cup gs[b]
      BY <2>1, <2>4, <2>8 DEF P
    <3>3. ASSUME NEW x \in DOMAIN gs, x # k, x # b
          PROVE  G \cap gs[x] = {}
      BY <2>1, <2>4, <3>2, <3>3 DEF G
    <3>4. G \cap gs[b] # {}
      BY <2>8 DEF G
    <3>5. OnlyPair(ws, k, b)
      <4>1. ws[k] \cap ws[b] # {}
        BY <2>3, <2>8, <3>4
      <4>2. ASSUME NEW x \in DOMAIN ws, NEW y \in DOMAIN ws, x # y, {x, y} # {k, b}
            PROVE  ws[x] \cap ws[y] = {}
        <5>1. CASE x = k
          BY <2>3, <3>3, <4>2, <5>1
        <5>2. CASE y = k
          BY <2>3, <3>3, <4>2, <5>2
        <5>3. CASE x # k /\ y # k
          BY <2>3, <2>4, <4>2, <5>3
        <5> QED BY <5>1, <5>2, <5>3
      <4> QED BY <2>1, <2>3, <2>8, <3>1, <4>1, <4>2 DEF OnlyPair
    <3> DEFINE hs == Without(ws, k, b)
               m == Len(ws) - 1
    <3>6. MergeGroups(ws) = hs
      BY <2>6, <3>5, MergePair
    <3>7. /\ hs \in Seq(SUBSET PlantBodies) /\ Apart(hs) /\ DOMAIN hs = 1 .. m
          /\ hs[k] = ws[k] \cup ws[b] /\ k \in 1 .. m
          /\ \A x \in 1 .. m : x # k => \E y \in DOMAIN ws \ {k, b} : hs[x] = ws[y]
          /\ \A y \in DOMAIN ws \ {k, b} : \E x \in 1 .. m : x # k /\ hs[x] = ws[y]
      <4>1. Parted(PlantBodies, ws, Without(ws, k, b), k, b)
        BY <2>6, <3>5, WithoutFacts
      <4> QED BY <4>1 DEF Parted
    <3> HIDE DEF hs, m
    <3>8. hs[k] = G \cup gs[b] /\ Bonded(G \cup gs[b]) /\ G \cup gs[b] # {}
      BY <2>3, <2>4, <2>5, <2>8, <3>4, <3>7, BondedUnion
    <3>9. ASSUME NEW x \in DOMAIN hs PROVE hs[x] # {} /\ Bonded(hs[x])
      <4>1. CASE x = k
        BY <3>8, <4>1
      <4>2. CASE x # k
        BY <2>3, <2>4, <3>7, <4>2
      <4> QED BY <4>1, <4>2
    <3>10. ASSUME NEW x \in DOMAIN gs PROVE \E y \in DOMAIN hs : gs[x] \subseteq hs[y]
      <4>1. CASE x \in {k, b}
        BY <2>5, <3>7, <3>8, <4>1
      <4>2. CASE x \notin {k, b}
        <5>1. PICK y \in 1 .. m : hs[y] = ws[x]
          BY <2>3, <3>7, <4>2
        <5> QED BY <2>3, <3>7, <4>2, <5>1
      <4> QED BY <4>1, <4>2
    <3>11. Grouped(hs, j)
      BY <1>0, <2>5, <3>7, <3>8 DEF Grouped
    <3> QED BY <3>6, <3>7, <3>9, <3>10, <3>11 DEF GroupsCore, Carries
  <2> QED BY <2>7, <2>8
<1> QED BY <1>2, <1>3 DEF ws

(* The joints of a plant make a tree with the world at its root.           *)
LEMMA PlantTree ==
    ASSUME plant \in Plants
    PROVE  /\ World \in PlantBodies
           /\ \A b \in PlantBodies \ {World} : \E i \in DOMAIN plant.joints :
                \A k \in DOMAIN plant.joints : plant.joints[k].child = b <=> k = i
           /\ \A S \in SUBSET (PlantBodies \ {World}) : S # {} =>
                \E i \in DOMAIN plant.joints :
                   plant.joints[i].child \in S /\ plant.joints[i].parent \notin S
<1>1. IsPlant(plant)
  BY PlantsAssumption
<1> DEFINE bodies == 1 .. Len(plant.modelOf)
<1>2. /\ \A b \in bodies \ {World} : \E i \in DOMAIN plant.joints :
            \A k \in DOMAIN plant.joints : plant.joints[k].child = b <=> k = i
      /\ \A S \in (SUBSET (bodies \ {World})) \ {{}} : \E i \in DOMAIN plant.joints :
            plant.joints[i].child \in S /\ plant.joints[i].parent \notin S
  BY <1>1 DEF IsPlant
<1>3. PlantBodies = bodies /\ Len(plant.modelOf) \in Nat
  BY PlantFacts
<1>4. World \in PlantBodies
  <2>1. plant.joints[1].child \in bodies
    BY <1>3, PlantFacts
  <2> QED BY <1>3, <2>1 DEF World
<1> HIDE DEF bodies
<1> QED BY <1>2, <1>3, <1>4

(* Every body, the world too, is in some joint.                            *)
LEMMA BodyInAJoint ==
    ASSUME plant \in Plants, NEW b \in PlantBodies
    PROVE  \E i \in DOMAIN plant.joints :
              b = plant.joints[i].parent \/ b = plant.joints[i].child
<1>1. CASE b # World
  <2>1. PICK i \in DOMAIN plant.joints :
                \A k \in DOMAIN plant.joints : plant.joints[k].child = b <=> k = i
    BY <1>1, PlantTree
  <2> QED BY <2>1
<1>2. CASE b = World
  <2> DEFINE S == PlantBodies \ {World}
  <2>1. S # {}
    <3>1. 1 \in DOMAIN plant.joints /\ plant.joints[1].child \in S
      BY PlantFacts
    <3> QED BY <3>1
  <2>2. PICK i \in DOMAIN plant.joints :
                plant.joints[i].child \in S /\ plant.joints[i].parent \notin S
    BY <2>1, PlantTree
  <2>3. plant.joints[i].parent \in PlantBodies
    BY PlantFacts
  <2> QED BY <1>2, <2>2, <2>3
<1> QED BY <1>1, <1>2

(* What every step of the model leaves alone.                              *)
ModelCallStep ==
    /\ building = "ready"
    /\ UNCHANGED <<plant, building, nextIndex, env, chains, groups, masks, minimal,
                   marked>>

(* The steps by what they are; none changes the plant.                     *)
LEMMA ModelSteps ==
    ASSUME ModelNext
    PROVE  /\ plant' = plant
           /\ \/ GroupModel \/ ChainsFound \/ AddJoint \/ FindMapping \/ Propagate
              \/ ModelReady \/ ModelCallStep
<1>1. CASE GroupModel \/ ChainsFound \/ AddJoint \/ FindMapping \/ Propagate \/ ModelReady
  BY <1>1 DEF GroupModel, ChainsFound, AddJoint, FindMapping, Propagate, ModelReady
<1>2. CASE LiftConf
  BY <1>2 DEF LiftConf, CanCall, ModelCall, ModelCallStep
<1>3. ASSUME NEW active, NEW ref,
             SetIdleModelsConfigToRef(active, ref) \/ SetIdleArmsConfigToRef(active, ref)
      PROVE  plant' = plant /\ ModelCallStep
  BY <1>3 DEF SetIdleModelsConfigToRef, SetIdleArmsConfigToRef, CanCall, ModelCall,
              ModelCallStep
<1>4. ASSUME NEW given, ThroughSystemConf(given)
      PROVE  plant' = plant /\ ModelCallStep
  BY <1>4 DEF ThroughSystemConf, CanCall, ModelCall, ModelCallStep
<1> QED BY <1>1, <1>2, <1>3, <1>4 DEF ModelNext

-----------------------------------------------------------------------------
(* The groups while the joints are gone through: the joints behind have    *)
(* their bodies grouped, and every group is bonded and apart from the      *)
(* others.                                                                 *)
GroupsFound ==
    /\ plant \in Plants
    /\ building \in {"chains", "groups", "kinematics", "ready", "thrown"}
    /\ building = "chains" => groups = <<>>
    /\ GroupsCore(groups)
    /\ building = "groups" =>
          /\ nextIndex \in Nat \ {0}
          /\ \A i \in DOMAIN plant.joints :
                i < nextIndex => Grouped(groups, plant.joints[i])
    /\ building \in {"kinematics", "ready"} =>
          \A i \in DOMAIN plant.joints : Grouped(groups, plant.joints[i])

(* What holds of the groups that a step leaves holds after it.             *)
LEMMA GroupsKept ==
    ASSUME plant' = plant, NEW hs, groups' = hs, GroupsCore(hs)
    PROVE  GroupsCore(groups)'
BY DEF GroupsCore, Apart, Bonded, WeldsStayIn, PlantBodies

(* A joint that is added keeps what is grouped and is grouped itself.      *)
LEMMA JointGrouped ==
    ASSUME GroupsFound, AddJoint
    PROVE  /\ GroupsCore(groups') /\ Carries(groups, groups')
           /\ Grouped(groups', plant.joints[nextIndex])
<1> DEFINE j == plant.joints[nextIndex]
<1>1. GroupsCore(groups) /\ plant \in Plants /\ nextIndex \in DOMAIN plant.joints
      /\ groups' = MergeGroups(IF j.weld THEN Welded(groups, j)
                               ELSE WithBody(WithBody(groups, j.parent), j.child))
  BY DEF GroupsFound, AddJoint
<1>2. j.parent \in PlantBodies /\ j.child \in PlantBodies
  BY <1>1, PlantFacts
<1>3. CASE ~j.weld
  <2>1. groups' = MergeGroups(WithBody(WithBody(groups, j.parent), j.child))
    BY <1>1, <1>3
  <2> DEFINE hs == MergeGroups(WithBody(WithBody(groups, j.parent), j.child))
  <2>2. GroupsCore(hs) /\ Carries(groups, hs) /\ Grouped(hs, j)
    <3> HIDE DEF j
    <3> QED BY <1>1, <1>2, <1>3, MovingJointGrouped
  <2>3. groups' = hs
    BY <2>1
  <2> HIDE DEF hs
  <2> QED BY <2>2, <2>3
<1>4. CASE j.weld
  <2>1. groups' = MergeGroups(Welded(groups, j))
    BY <1>1, <1>4
  <2>2. Bonded({j.parent, j.child})
    BY <1>1, <1>4 DEF Bonded, WeldsStayIn
  <2> DEFINE hs == MergeGroups(Welded(groups, j))
  <2>3. GroupsCore(hs) /\ Carries(groups, hs) /\ Grouped(hs, j)
    <3> HIDE DEF j
    <3> QED BY <1>1, <1>2, <1>4, <2>2, WeldGrouped
  <2>4. groups' = hs
    BY <2>1
  <2> HIDE DEF hs
  <2> QED BY <2>3, <2>4
<1> QED BY <1>3, <1>4

LEMMA GroupsFoundInit == ModelInit => GroupsFound
<1> SUFFICES ASSUME ModelInit PROVE GroupsFound
  OBVIOUS
<1>1. <<>> \in Seq(SUBSET PlantBodies) /\ DOMAIN <<>> = {}
  OBVIOUS
<1> QED BY <1>1 DEF ModelInit, GroupsFound, GroupsCore, Apart

(* The joints are gone through in any order: only AddJoint changes the     *)
(* groups.                                                                 *)
LEMMA GroupsFoundStep ==
    ASSUME GroupsFound, [ModelNext]_modelVars
    PROVE  GroupsFound'
<1>1. CASE UNCHANGED modelVars
  BY <1>1 DEF modelVars, GroupsFound, GroupsCore, Apart, Bonded, WeldsStayIn,
              PlantBodies, Grouped
<1>2. CASE ModelNext
  <2>1. plant' = plant /\ plant \in Plants /\ GroupsCore(groups)
    BY <1>2, ModelSteps DEF GroupsFound
  <2>2. CASE groups' = groups
    <3>1. GroupsCore(groups)'
      BY <2>1, <2>2 DEF GroupsCore, Apart, Bonded, WeldsStayIn, PlantBodies
    <3>2. CASE GroupModel \/ Propagate \/ ModelReady \/ ModelCallStep
      BY <2>1, <2>2, <3>1, <3>2
         DEF GroupModel, Propagate, ModelReady, ModelCallStep, GroupsFound, Grouped
    <3>3. CASE ChainsFound
      <4>1. \A i \in DOMAIN plant.joints : ~(i < 1)
        BY <2>1, PlantFacts
      <4> QED BY <2>1, <2>2, <3>1, <3>3, <4>1 DEF ChainsFound, GroupsFound
    <3>4. CASE FindMapping
      <4>1. nextIndex \in Nat \ {0} /\ nextIndex \notin DOMAIN plant.joints
            /\ \A i \in DOMAIN plant.joints :
                  i < nextIndex => Grouped(groups, plant.joints[i])
        BY <3>4 DEF FindMapping, GroupsFound
      <4>2. \A i \in DOMAIN plant.joints : i < nextIndex
        BY <2>1, <4>1, PlantFacts
      <4>3. building' \in {"thrown", "kinematics"}
        BY <3>4 DEF FindMapping
      <4> QED BY <2>1, <2>2, <3>1, <4>1, <4>2, <4>3 DEF GroupsFound, Grouped
    <3> QED
      <4>1. CASE AddJoint
        <5>1. /\ nextIndex \in Nat \ {0} /\ building = "groups" /\ building' = building
              /\ nextIndex' = nextIndex + 1 /\ nextIndex \in DOMAIN plant.joints
              /\ \A i \in DOMAIN plant.joints :
                    i < nextIndex => Grouped(groups, plant.joints[i])
          BY <4>1 DEF AddJoint, GroupsFound
        <5>2. Grouped(groups, plant.joints[nextIndex])
          BY <2>2, <4>1, JointGrouped
        <5>3. \A i \in DOMAIN plant.joints : i < nextIndex + 1 => i < nextIndex \/ i = nextIndex
          BY <2>1, <5>1, PlantFacts
        <5>4. \A i \in DOMAIN plant.joints :
                  i < nextIndex + 1 => Grouped(groups, plant.joints[i])
          BY <5>1, <5>2, <5>3
        <5>5. nextIndex' \in Nat \ {0}
          BY <5>1
        <5> QED BY <2>1, <2>2, <3>1, <5>1, <5>4, <5>5 DEF GroupsFound, Grouped
      <4> QED BY <1>2, <3>2, <3>3, <3>4, <4>1, ModelSteps
  <2>3. CASE groups' # groups
    <3>1. AddJoint
      BY <1>2, <2>3, ModelSteps DEF GroupModel, ChainsFound, FindMapping, Propagate,
           ModelReady, ModelCallStep
    <3>2. PICK hs : hs = groups'
      OBVIOUS
    <3>3. GroupsCore(hs) /\ Carries(groups, hs) /\ Grouped(hs, plant.joints[nextIndex])
      BY <3>1, <3>2, JointGrouped
    <3>4. GroupsCore(groups)'
      BY <2>1, <3>2, <3>3, GroupsKept
    <3>5. /\ nextIndex \in Nat \ {0} /\ building = "groups" /\ building' = building
          /\ nextIndex' = nextIndex + 1 /\ nextIndex \in DOMAIN plant.joints
          /\ \A i \in DOMAIN plant.joints :
                i < nextIndex => Grouped(groups, plant.joints[i])
      BY <3>1 DEF AddJoint, GroupsFound
    <3>6. \A i \in DOMAIN plant.joints : i < nextIndex + 1 => i < nextIndex \/ i = nextIndex
      BY <2>1, <3>5, PlantFacts
    <3>7. \A i \in DOMAIN plant.joints :
              i < nextIndex + 1 => Grouped(hs, plant.joints[i])
      BY <3>3, <3>5, <3>6, GroupedStays
    <3>8. nextIndex' \in Nat \ {0}
      BY <3>5
    <3>9. \A i \in DOMAIN plant'.joints :
              i < nextIndex' => Grouped(groups, plant.joints[i])'
      BY <2>1, <3>2, <3>5, <3>7 DEF Grouped
    <3> QED BY <2>1, <3>4, <3>5, <3>8, <3>9 DEF GroupsFound
  <2> QED BY <2>2, <2>3
<1> QED BY <1>1, <1>2

(* Groups that are apart, bonded and have every joint grouped are what the *)
(* welds connect.                                                          *)
LEMMA GroupsAreWelded ==
    ASSUME GroupsFound, building = "ready"
    PROVE  /\ LET closed == {S \in SUBSET PlantBodies : WeldsStayIn(S)}
              IN {groups[k] : k \in DOMAIN groups} =
                   {WeldReach(b, closed) : b \in PlantBodies}
           /\ \A a, b \in DOMAIN groups : a # b => groups[a] \cap groups[b] = {}
<1> DEFINE closed == {S \in SUBSET PlantBodies : WeldsStayIn(S)}
<1>1. /\ plant \in Plants
      /\ \A k \in DOMAIN groups :
            groups[k] \in SUBSET PlantBodies /\ groups[k] # {} /\ Bonded(groups[k])
      /\ \A a, b \in DOMAIN groups : a # b => groups[a] \cap groups[b] = {}
      /\ \A i \in DOMAIN plant.joints : Grouped(groups, plant.joints[i])
  BY DEF GroupsFound, GroupsCore, Apart
<1>2. ASSUME NEW k \in DOMAIN groups PROVE groups[k] \in closed
  <2>1. ASSUME NEW i \in DOMAIN plant.joints, plant.joints[i].weld
        PROVE  plant.joints[i].parent \in groups[k] <=> plant.joints[i].child \in groups[k]
    <3>1. PICK a \in DOMAIN groups : plant.joints[i].parent \in groups[a]
                                     /\ plant.joints[i].child \in groups[a]
      BY <1>1, <2>1 DEF Grouped
    <3> QED BY <1>1, <3>1
  <2> QED BY <1>1, <2>1 DEF WeldsStayIn
<1>3. ASSUME NEW k \in DOMAIN groups, NEW b \in groups[k]
      PROVE  WeldReach(b, closed) = groups[k]
  <2>1. WeldReach(b, closed) \subseteq groups[k]
    BY <1>2 DEF WeldReach
  <2>2. ASSUME NEW c \in groups[k], NEW S \in closed, b \in S PROVE c \in S
    BY <1>1, <2>2 DEF Bonded
  <2>3. groups[k] \subseteq WeldReach(b, closed)
    BY <1>1, <2>2 DEF WeldReach
  <2> QED BY <2>1, <2>3
<1>4. ASSUME NEW b \in PlantBodies PROVE \E k \in DOMAIN groups : b \in groups[k]
  <2>1. PICK i \in DOMAIN plant.joints :
              b = plant.joints[i].parent \/ b = plant.joints[i].child
    BY <1>1, BodyInAJoint
  <2> QED BY <1>1, <2>1 DEF Grouped
<1> HIDE DEF closed
<1>5. {groups[k] : k \in DOMAIN groups} = {WeldReach(b, closed) : b \in PlantBodies}
  <2>1. ASSUME NEW k \in DOMAIN groups PROVE \E b \in PlantBodies : groups[k] = WeldReach(b, closed)
    BY <1>1, <1>3
  <2>2. ASSUME NEW b \in PlantBodies PROVE \E k \in DOMAIN groups : WeldReach(b, closed) = groups[k]
    BY <1>3, <1>4
  <2> QED BY <2>1, <2>2
<1> QED BY <1>1, <1>5 DEF closed

(* The arms of a model among the given chains.                             *)
Arm(cs, m) == {k \in DOMAIN cs : \E i \in DOMAIN cs[k] : cs[k][i] = m}

(* A model has its place: in the environment if it does not move, else in  *)
(* one arm, below the environment or a model of that arm.                  *)
InArm(m) ==
    \/ m \in env /\ PositionsOf(m) = {}
    \/ /\ \E k : ArmOf(m) = {k}
       /\ ParentModel(m) \in env \/ ArmOf(ParentModel(m)) = ArmOf(m)

(* The chains while the models are gone through: the models behind have    *)
(* their places, and no other model is in a chain.                         *)
ArmsFound ==
    /\ plant \in Plants
    /\ building \in {"chains", "groups", "kinematics", "ready", "thrown"}
    /\ chains \in Seq(Seq(Nat))
    /\ building = "chains" =>
          /\ nextIndex \in Nat /\ nextIndex >= 3
          /\ \A m : ArmOf(m) # {} => m \in 3 .. (nextIndex - 1)
          /\ \A m \in 3 .. (nextIndex - 1) : InArm(m)
    /\ building \in {"groups", "kinematics", "ready"} =>
          \A m \in 3 .. Len(plant.models) : InArm(m)

(* A model that starts a chain, or is put at the end of one, is in that    *)
(* one only; the others stay where they are.                               *)
LEMMA ArmStarted ==
    ASSUME NEW cs \in Seq(Seq(Nat)), NEW m \in Nat, Arm(cs, m) = {}
    PROVE  /\ Append(cs, <<m>>) \in Seq(Seq(Nat))
           /\ \E k : Arm(Append(cs, <<m>>), m) = {k}
           /\ \A x : x # m => Arm(Append(cs, <<m>>), x) = Arm(cs, x)
<1> DEFINE n == Len(cs)
           c == <<m>>
           ds == Append(cs, c)
<1>1. c \in Seq(Nat) /\ DOMAIN c = {1} /\ c[1] = m
  OBVIOUS
<1>2. n \in Nat /\ DOMAIN cs = 1 .. n
  OBVIOUS
<1> HIDE DEF c
<1>3. /\ ds \in Seq(Seq(Nat)) /\ DOMAIN ds = 1 .. (n + 1) /\ ds[n + 1] = c
      /\ \A k \in 1 .. n : ds[k] = cs[k]
  BY <1>1
<1> HIDE DEF ds, n
<1>4. \A k : k \in 1 .. (n + 1) <=> k \in 1 .. n \/ k = n + 1
  BY <1>2
<1>5. Arm(ds, m) = {n + 1}
  <2>1. ASSUME NEW k \in 1 .. n PROVE ~\E i \in DOMAIN cs[k] : cs[k][i] = m
    BY <1>2 DEF Arm
  <2>2. n + 1 \in Arm(ds, m)
    BY <1>1, <1>3, <1>4 DEF Arm
  <2> QED BY <1>3, <1>4, <2>1, <2>2 DEF Arm
<1>6. ASSUME NEW x, x # m PROVE Arm(ds, x) = Arm(cs, x)
  <2>1. ~\E i \in DOMAIN c : c[i] = x
    BY <1>1, <1>6
  <2>2. n + 1 \notin 1 .. n
    BY <1>2
  <2> QED BY <1>2, <1>3, <1>4, <2>1, <2>2 DEF Arm
<1> QED BY <1>3, <1>5, <1>6 DEF ds, c

(* The chains with a model appended to one.                                *)
Extended(cs, h, m) == [cs EXCEPT ![h] = Append(@, m)]

(* A model joins an arm, and no other moves.                               *)
JoinsArm(cs, ds, h, m) ==
    /\ ds \in Seq(Seq(Nat)) /\ Arm(ds, m) = {h}
    /\ \A x : x # m => Arm(ds, x) = Arm(cs, x)

(* A model that is in no chain, appended to one, is in that one alone, and *)
(* the others are where they were.                                         *)
LEMMA ArmExtended ==
    ASSUME NEW cs \in Seq(Seq(Nat)), NEW m \in Nat, Arm(cs, m) = {}, NEW h \in DOMAIN cs,
           NEW ds, ds = Extended(cs, h, m)
    PROVE  JoinsArm(cs, ds, h, m)
<1> DEFINE c == cs[h]
           d == Append(c, m)
<1>1. c \in Seq(Nat)
  OBVIOUS
<1>2. /\ d \in Seq(Nat) /\ DOMAIN c = 1 .. Len(c) /\ Len(c) \in Nat
      /\ DOMAIN d = 1 .. (Len(c) + 1) /\ d[Len(c) + 1] = m
      /\ \A i \in 1 .. Len(c) : d[i] = c[i]
  BY <1>1
<1>3. \A i : i \in 1 .. (Len(c) + 1) <=> i \in 1 .. Len(c) \/ i = Len(c) + 1
  BY <1>2
<1>4. /\ ds \in Seq(Seq(Nat)) /\ DOMAIN ds = DOMAIN cs /\ ds[h] = d
      /\ \A k \in DOMAIN cs : k # h => ds[k] = cs[k]
  BY <1>2 DEF Extended
<1> HIDE DEF d
<1>5. Arm(ds, m) = {h}
  <2>1. ASSUME NEW k \in DOMAIN cs, k # h PROVE ~\E i \in DOMAIN ds[k] : ds[k][i] = m
    BY <1>4, <2>1 DEF Arm
  <2>2. \E i \in DOMAIN d : d[i] = m
    BY <1>2, <1>3
  <2> QED BY <1>4, <2>1, <2>2 DEF Arm
<1>6. ASSUME NEW x, x # m PROVE Arm(ds, x) = Arm(cs, x)
  <2>1. (\E i \in DOMAIN d : d[i] = x) <=> (\E i \in DOMAIN c : c[i] = x)
    BY <1>2, <1>3, <1>6
  <2>2. \A k \in DOMAIN cs : (\E i \in DOMAIN ds[k] : ds[k][i] = x)
                             <=> (\E i \in DOMAIN cs[k] : cs[k][i] = x)
    BY <1>4, <2>1
  <2> QED BY <1>4, <2>2 DEF Arm
<1> QED BY <1>4, <1>5, <1>6 DEF JoinsArm

LEMMA ArmsFoundInit == ModelInit => ArmsFound
<1> SUFFICES ASSUME ModelInit PROVE ArmsFound
  OBVIOUS
<1>1. <<>> \in Seq(Seq(Nat)) /\ DOMAIN <<>> = {} /\ 3 .. (3 - 1) = {}
  OBVIOUS
<1> QED BY <1>1 DEF ModelInit, ArmsFound, ArmOf

(* The plant stays, and what is read of it.                                *)
LEMMA ModelsOfPlantKept ==
    ASSUME plant' = plant, NEW m
    PROVE  ParentModel(m)' = ParentModel(m) /\ PositionsOf(m)' = PositionsOf(m)
<1>1. PositionsOf(m)' = PositionsOf(m)
  BY DEF PositionsOf
<1>2. JointsToOthers(m)' = JointsToOthers(m)
  BY DEF JointsToOthers
<1>3. ParentModel(m)' = ParentModel(m)
  BY <1>2 DEF ParentModel
<1> QED BY <1>1, <1>3

LEMMA ArmsKept ==
    ASSUME plant' = plant, chains' = chains, env' = env, NEW m, InArm(m)
    PROVE  InArm(m)'
<1>1. /\ ParentModel(m)' = ParentModel(m) /\ PositionsOf(m)' = PositionsOf(m)
      /\ ArmOf(m)' = ArmOf(m)
  BY ModelsOfPlantKept DEF ArmOf
<1>2. ArmOf(ParentModel(m))' = ArmOf(ParentModel(m))
  BY <1>1 DEF ArmOf
<1> QED BY <1>1, <1>2 DEF InArm

(* The model that was looked at last has its place, and those before it    *)
(* keep theirs.                                                            *)
LEMMA ModelGrouped ==
    ASSUME ArmsFound, GroupModel, building' = "chains"
    PROVE  /\ chains' \in Seq(Seq(Nat))
           /\ \A m : ArmOf(m)' # {} => m \in 3 .. nextIndex
           /\ \A m \in 3 .. nextIndex : InArm(m)'
<1>0. PICK m : m = nextIndex
  OBVIOUS
<1> SUFFICES /\ chains' \in Seq(Seq(Nat))
             /\ \A x : ArmOf(x)' # {} => x \in 3 .. m
             /\ \A x \in 3 .. m : InArm(x)'
  BY <1>0
<1> DEFINE p == ParentModel(m)
<1>1. /\ plant' = plant /\ chains \in Seq(Seq(Nat)) /\ m \in Nat /\ m >= 3
      /\ \A x : ArmOf(x) # {} => x \in 3 .. (m - 1)
      /\ \A x \in 3 .. (m - 1) : InArm(x)
      /\ m \in DOMAIN plant.models
  BY <1>0 DEF ArmsFound, GroupModel
<1>2. ArmOf(m) = {}
  <2>1. m \notin 3 .. (m - 1)
    BY <1>1
  <2> QED BY <1>1, <2>1, Zenon
<1>3. \A x \in 3 .. m : x = m \/ x \in 3 .. (m - 1)
  BY <1>1
<1>4. \A x : ArmOf(x) = Arm(chains, x) /\ ArmOf(x)' = Arm(chains', x)
  BY DEF ArmOf, Arm
<1>5. \A x : ParentModel(x)' = ParentModel(x) /\ PositionsOf(x)' = PositionsOf(x)
  BY <1>1, ModelsOfPlantKept
<1>6. \A x : ArmOf(ParentModel(x))' = Arm(chains', ParentModel(x))
  BY <1>5 DEF ArmOf, Arm
(* The models before are left alone by either change of the chains.        *)
<1>7. ASSUME env \subseteq env', \A x : x # m => Arm(chains', x) = Arm(chains, x),
             NEW x \in 3 .. (m - 1)
      PROVE  InArm(x)'
  <2>1. InArm(x) /\ x # m /\ ArmOf(x)' = ArmOf(x)
    BY <1>1, <1>4, <1>7
  <2>2. CASE x \in env /\ PositionsOf(x) = {}
    BY <1>5, <1>7, <2>2 DEF InArm
  <2>3. CASE (\E k : ArmOf(x) = {k}) /\ ParentModel(x) \in env
    BY <1>5, <1>7, <2>1, <2>3 DEF InArm
  <2>4. CASE (\E k : ArmOf(x) = {k}) /\ ArmOf(ParentModel(x)) = ArmOf(x)
    <3>1. ParentModel(x) # m
      BY <1>2, <2>4
    <3>2. ArmOf(ParentModel(x))' = ArmOf(ParentModel(x))
      BY <1>4, <1>6, <1>7, <3>1
    <3> QED BY <2>1, <2>4, <3>2 DEF InArm
  <2> QED BY <2>1, <2>2, <2>3, <2>4 DEF InArm
<1>8. CASE p \in env /\ PositionsOf(m) = {} /\ env' = env \cup {m} /\ chains' = chains
  <2>1. InArm(m)'
    BY <1>5, <1>8 DEF InArm
  <2>2. \A x : ArmOf(x)' = ArmOf(x)
    BY <1>8 DEF ArmOf
  <2>3. \A x \in 3 .. (m - 1) : InArm(x)'
    BY <1>7, <1>8
  <2>4. \A x \in 3 .. (m - 1) : x \in 3 .. m
    BY <1>1
  <2>5. \A x : ArmOf(x)' # {} => x \in 3 .. m
    BY <1>1, <2>2, <2>4
  <2>6. \A x \in 3 .. m : InArm(x)'
    BY <1>3, <2>1, <2>3
  <2> QED BY <1>1, <1>8, <2>5, <2>6
<1>9. CASE p \in env /\ chains' = Append(chains, <<m>>) /\ env' = env
  <2>1. /\ chains' \in Seq(Seq(Nat)) /\ \E k : Arm(chains', m) = {k}
        /\ \A x : x # m => Arm(chains', x) = Arm(chains, x)
    <3> DEFINE ds == Append(chains, <<m>>)
    <3>1. /\ ds \in Seq(Seq(Nat)) /\ \E k : Arm(ds, m) = {k}
          /\ \A x : x # m => Arm(ds, x) = Arm(chains, x)
      BY <1>1, <1>2, <1>4, ArmStarted
    <3> HIDE DEF ds
    <3>2. chains' = ds
      BY <1>9 DEF ds
    <3> QED BY <3>1, <3>2
  <2>2. InArm(m)'
    BY <1>4, <1>5, <1>9, <2>1 DEF InArm
  <2>3. \A x \in 3 .. (m - 1) : InArm(x)'
    BY <1>7, <1>9, <2>1
  <2>4. \A x : ArmOf(x)' # {} => x = m \/ ArmOf(x) # {}
    BY <1>4, <2>1
  <2>5. m \in 3 .. m /\ \A x \in 3 .. (m - 1) : x \in 3 .. m
    BY <1>1
  <2>9. \A x : ArmOf(x)' # {} => x \in 3 .. m
    BY <1>1, <2>4, <2>5
  <2>10. \A x \in 3 .. m : InArm(x)'
    BY <1>3, <2>2, <2>3
  <2> QED BY <2>1, <2>9, <2>10
<1>10. CASE /\ p \notin env /\ ArmOf(p) # {}
            /\ chains' = [chains EXCEPT ![SetOps!Min(ArmOf(p))] = Append(@, m)]
            /\ env' = env
  <2>1. PICK h : ArmOf(p) = {h}
    <3>1. p \in 3 .. (m - 1)
      BY <1>1, <1>10
    <3> QED BY <1>1, <1>10, <3>1 DEF InArm
  <2>2. h \in DOMAIN chains /\ h \in Nat
    <3>1. h \in ArmOf(p)
      BY <2>1
    <3>2. DOMAIN chains \subseteq Nat
      BY <1>1
    <3> QED BY <3>1, <3>2 DEF ArmOf
  <2>3. SetOps!Min(ArmOf(p)) = h
    <3>1. {h} \in SUBSET Nat /\ {h} # {}
      BY <2>2
    <3>2. SetOps!Min({h}) \in {h}
      BY <3>1, MinFacts
    <3> QED BY <2>1, <3>2
  <2>4. /\ chains' \in Seq(Seq(Nat)) /\ Arm(chains', m) = {h}
        /\ \A x : x # m => Arm(chains', x) = Arm(chains, x)
    <3>0. PICK ds : ds = Extended(chains, h, m)
      OBVIOUS
    <3>1. chains \in Seq(Seq(Nat)) /\ m \in Nat /\ h \in DOMAIN chains
      BY <1>1, <2>2
    <3>2. Arm(chains, m) = {}
      BY <1>2, <1>4, Zenon
    <3>3. JoinsArm(chains, ds, h, m)
      BY <3>0, <3>1, <3>2, ArmExtended
    <3>4. chains' = ds
      BY <1>10, <2>3, <3>0 DEF Extended
    <3> QED BY <3>3, <3>4 DEF JoinsArm
  <2>5. InArm(m)'
    <3>1. p # m
      BY <1>2, <1>10
    <3>2. Arm(chains', p) = {h}
      BY <1>4, <2>1, <2>4, <3>1
    <3>3. ArmOf(m)' = {h} /\ ArmOf(ParentModel(m))' = {h}
      BY <1>4, <1>6, <2>4, <3>2
    <3> QED BY <3>3 DEF InArm
  <2>6. \A x \in 3 .. (m - 1) : InArm(x)'
    BY <1>7, <1>10, <2>4
  <2>7. \A x : ArmOf(x)' # {} => x = m \/ ArmOf(x) # {}
    BY <1>4, <2>4
  <2>8. m \in 3 .. m /\ \A x \in 3 .. (m - 1) : x \in 3 .. m
    BY <1>1
  <2>9. \A x : ArmOf(x)' # {} => x \in 3 .. m
    BY <1>1, <2>7, <2>8
  <2>10. \A x \in 3 .. m : InArm(x)'
    BY <1>3, <2>5, <2>6
  <2> QED BY <2>4, <2>9, <2>10
<1>11. \/ p \in env /\ PositionsOf(m) = {} /\ env' = env \cup {m} /\ chains' = chains
       \/ p \in env /\ chains' = Append(chains, <<m>>) /\ env' = env
       \/ /\ p \notin env /\ ArmOf(p) # {}
          /\ chains' = [chains EXCEPT ![SetOps!Min(ArmOf(p))] = Append(@, m)]
          /\ env' = env
  BY <1>0 DEF GroupModel
<1> QED BY <1>8, <1>9, <1>10, <1>11

(* The models are gone through in order: only GroupModel changes the       *)
(* chains.                                                                 *)
LEMMA ArmsFoundStep ==
    ASSUME ArmsFound, [ModelNext]_modelVars
    PROVE  ArmsFound'
<1>0. plant \in Plants /\ chains \in Seq(Seq(Nat))
      /\ building \in {"chains", "groups", "kinematics", "ready", "thrown"}
  BY DEF ArmsFound
<1>1. CASE UNCHANGED modelVars
  <2>1. /\ plant' = plant /\ building' = building /\ nextIndex' = nextIndex
        /\ chains' = chains /\ env' = env
    BY <1>1 DEF modelVars
  <2>2. \A m : ArmOf(m)' = ArmOf(m) /\ (InArm(m) => InArm(m)')
    BY <2>1, ArmsKept DEF ArmOf
  <2> QED BY <2>1, <2>2 DEF ArmsFound
<1>2. CASE ModelNext /\ ~GroupModel
  <2>1. /\ plant' = plant /\ chains' = chains /\ env' = env
        /\ building' \in {"groups", "kinematics", "ready", "thrown"}
        /\ ChainsFound \/ building \in {"groups", "kinematics", "ready"}
    BY <1>2, ModelSteps
       DEF ChainsFound, AddJoint, FindMapping, Propagate, ModelReady, ModelCallStep
  <2>2. \A m : InArm(m) => InArm(m)'
    BY <2>1, ArmsKept
  <2>3. \A m \in 3 .. Len(plant.models) : InArm(m)
    <3>1. CASE ChainsFound
      <4>1. nextIndex \in Nat /\ nextIndex >= 3 /\ nextIndex \notin DOMAIN plant.models
            /\ \A m \in 3 .. (nextIndex - 1) : InArm(m)
        BY <3>1 DEF ChainsFound, ArmsFound
      <4>2. \A m \in 3 .. Len(plant.models) : m \in 3 .. (nextIndex - 1)
        BY <1>0, <4>1, PlantFacts
      <4> QED BY <4>1, <4>2
    <3>2. CASE building \in {"groups", "kinematics", "ready"}
      BY <3>2 DEF ArmsFound
    <3> QED BY <2>1, <3>1, <3>2
  <2> QED BY <1>0, <2>1, <2>2, <2>3 DEF ArmsFound
<1>3. CASE GroupModel
  <2>1. plant' = plant /\ building = "chains" /\ nextIndex' = nextIndex + 1
        /\ building' \in {"chains", "thrown"} /\ nextIndex \in Nat /\ nextIndex >= 3
    BY <1>3 DEF GroupModel, ArmsFound
  <2>2. CASE building' = "thrown"
    <3>1. chains' = chains
      BY <1>3, <2>1, <2>2 DEF GroupModel
    <3> QED BY <1>0, <2>1, <2>2, <3>1 DEF ArmsFound
  <2>3. CASE building' = "chains"
    <3>1. /\ chains' \in Seq(Seq(Nat))
          /\ \A m : ArmOf(m)' # {} => m \in 3 .. nextIndex
          /\ \A m \in 3 .. nextIndex : InArm(m)'
      BY <1>3, <2>3, ModelGrouped
    <3>2. nextIndex' \in Nat /\ nextIndex' >= 3 /\ nextIndex' - 1 = nextIndex
      BY <2>1
    <3> QED BY <1>0, <2>1, <2>3, <3>1, <3>2 DEF ArmsFound
  <2> QED BY <2>1, <2>2, <2>3
<1> QED BY <1>1, <1>2, <1>3

(* A model with positions is one that moves.                               *)
LEMMA MovableAreArms ==
    ASSUME plant \in Plants, NEW m \in DOMAIN plant.models, PositionsOf(m) # {}
    PROVE  m \in 3 .. Len(plant.models)
<1>1. IsPlant(plant)
  BY PlantsAssumption
<1>2. \A i \in Moving(plant) : plant.modelOf[plant.joints[i].child] > 2
  BY <1>1 DEF IsPlant
<1>3. PICK i \in Moving(plant) : plant.modelOf[plant.joints[i].child] = m
  BY DEF PositionsOf, PositionsIn
<1>4. DOMAIN plant.models = 1 .. Len(plant.models) /\ Len(plant.models) \in Nat
  BY PlantFacts
<1>5. m > 2 /\ m \in 1 .. Len(plant.models)
  BY <1>2, <1>3, <1>4
<1> QED BY <1>4, <1>5

(* In the end every model that moves is in one arm, with what it hangs     *)
(* from.                                                                   *)
LEMMA ArmsAreSingle ==
    ASSUME ArmsFound, building = "ready", NEW m \in DOMAIN plant.models,
           PositionsOf(m) # {}
    PROVE  /\ Cardinality(ArmOf(m)) = 1
           /\ ParentModel(m) \in env \/ ArmOf(ParentModel(m)) = ArmOf(m)
<1>1. InArm(m)
  BY MovableAreArms DEF ArmsFound
<1>2. PICK k : ArmOf(m) = {k}
  BY <1>1 DEF InArm
<1>3. Cardinality({k}) = 1
  BY FS_Singleton
<1> QED BY <1>1, <1>2, <1>3 DEF InArm

(* One step up, staying at the world.                                      *)
Up(c) == IF c = World THEN World ELSE ParentBody(c)

(* A body has one parent, by the one joint it is the child of.             *)
LEMMA ParentBodyFacts ==
    ASSUME plant \in Plants, NEW b \in PlantBodies \ {World}
    PROVE  /\ ParentBody(b) \in PlantBodies
           /\ \A i \in DOMAIN plant.joints :
                 plant.joints[i].child = b => ParentBody(b) = plant.joints[i].parent
<1>1. PICK i \in DOMAIN plant.joints :
              \A k \in DOMAIN plant.joints : plant.joints[k].child = b <=> k = i
  BY PlantTree
<1>2. (CHOOSE k \in DOMAIN plant.joints : plant.joints[k].child = b) = i
  BY <1>1
<1>3. ParentBody(b) = plant.joints[i].parent
  BY <1>2 DEF ParentBody
<1>4. ParentBody(b) \in PlantBodies
  BY <1>3, PlantFacts
<1> QED BY <1>1, <1>3, <1>4

LEMMA UpType ==
    ASSUME plant \in Plants, NEW b \in PlantBodies
    PROVE  Up(b) \in PlantBodies
BY ParentBodyFacts, PlantTree DEF Up

(* The climb from a body to the world.                                     *)
Climbs(b, f) ==
    /\ DOMAIN f = 0 .. Len(plant.modelOf)
    /\ \A k \in 0 .. Len(plant.modelOf) : f[k] \in PlantBodies
    /\ f[0] = b
    /\ \A k \in 1 .. Len(plant.modelOf) : f[k] = Up(f[k - 1])

(* Above is the climb.                                                     *)
LEMMA AboveFacts ==
    ASSUME plant \in Plants, NEW b \in PlantBodies
    PROVE  Climbs(b, Above(b))
<1> DEFINE n == Len(plant.modelOf)
           T == PlantBodies
           move == [z \in (1 .. n) \X T |-> Up(z[2])]
           Steps(above) == above = [k \in 0 .. n |->
                IF k = 0 THEN b
                ELSE IF above[k - 1] = World THEN World ELSE ParentBody(above[k - 1])]
           above == CHOOSE above : Steps(above)
<1>1. n \in Nat
  BY PlantFacts
<1>2. move \in [(1 .. n) \X T -> T]
  BY UpType
<1>3. \A k \in 1 .. n : \A s \in T : move[<<k, s>>] = Up(s)
  OBVIOUS
<1> HIDE DEF move, T
<1>4. PICK f \in [0 .. n -> T] :
              f[0] = b /\ \A k \in 1 .. n : f[k] = move[<<k, f[k - 1]>>]
  <2>1. Results(T, b, n, move) # {}
    <3>1. b \in T
      BY DEF T
    <3> QED BY <1>1, <1>2, <3>1, ResultsExist
  <2> QED BY <2>1 DEF Results
<1>5. \A k \in 1 .. n : f[k] = Up(f[k - 1])
  <2> SUFFICES ASSUME NEW k \in 1 .. n PROVE f[k] = Up(f[k - 1])
    OBVIOUS
  <2>1. k - 1 \in 0 .. n
    BY <1>1
  <2> QED BY <1>3, <1>4, <2>1
<1>6. Steps(f)
  <2>1. \A k \in 0 .. n : k # 0 => k \in 1 .. n
    BY <1>1
  <2>2. \A k \in 0 .. n : f[k] = IF k = 0 THEN b
                ELSE IF f[k - 1] = World THEN World ELSE ParentBody(f[k - 1])
    BY <1>4, <1>5, <2>1 DEF Up
  <2>3. f = [k \in 0 .. n |-> f[k]]
    BY <1>4
  <2> HIDE DEF n
  <2> QED BY <2>2, <2>3
<1>7. Steps(above)
  <2> HIDE DEF Steps
  <2> QED BY <1>6
<1>8. Above(b) = above
  BY DEF Above
<1> HIDE DEF above
<1>9. /\ DOMAIN above = 0 .. n /\ above[0] = b
      /\ \A k \in 1 .. n : above[k] = Up(above[k - 1])
  <2>1. \A k \in 1 .. n : k \in 0 .. n /\ k # 0
    BY <1>1
  <2>2. 0 \in 0 .. n
    BY <1>1
  <2> HIDE DEF n
  <2> QED BY <1>7, <2>1, <2>2 DEF Up
<1>10. \A k \in 0 .. n : above[k] \in PlantBodies
  <2>1. above[0] \in PlantBodies
    BY <1>9
  <2>2. \A k \in 1 .. n : above[k - 1] \in PlantBodies => above[k] \in PlantBodies
    BY <1>9, UpType
  <2> HIDE DEF n
  <2> QED BY <1>1, <2>1, <2>2, KeepsType
<1> QED BY <1>8, <1>9, <1>10 DEF Climbs

(* The climb from a body goes on as the one from its parent.               *)
LEMMA ClimbFromParent ==
    ASSUME plant \in Plants, NEW b \in PlantBodies
    PROVE  \A k \in 1 .. Len(plant.modelOf) : Above(b)[k] = Above(Up(b))[k - 1]
<1> DEFINE n == Len(plant.modelOf)
           f == Above(b)
           g == Above(Up(b))
           K == {k \in Nat : k + 1 <= n => f[k + 1] = g[k]}
<1>1. n \in Nat
  BY PlantFacts
<1>2. /\ f[0] = b /\ \A k \in 1 .. n : f[k] = Up(f[k - 1])
      /\ g[0] = Up(b) /\ \A k \in 1 .. n : g[k] = Up(g[k - 1])
  BY AboveFacts, UpType DEF Climbs
<1> HIDE DEF f, g, n
<1>3. 0 \in K
  <2> SUFFICES ASSUME 1 <= n PROVE f[1] = g[0]
    OBVIOUS
  <2>1. 1 \in 1 .. n /\ 1 - 1 = 0
    BY <1>1
  <2> QED BY <1>2, <2>1
<1>4. ASSUME NEW k \in Nat, k \in K PROVE k + 1 \in K
  <2> SUFFICES ASSUME (k + 1) + 1 <= n PROVE f[(k + 1) + 1] = g[k + 1]
    OBVIOUS
  <2>1. /\ (k + 1) + 1 \in 1 .. n /\ k + 1 \in 1 .. n
        /\ ((k + 1) + 1) - 1 = k + 1 /\ (k + 1) - 1 = k /\ k + 1 <= n
    BY <1>1
  <2>2. f[k + 1] = g[k]
    BY <1>4, <2>1
  <2>3. f[(k + 1) + 1] = Up(f[k + 1]) /\ g[k + 1] = Up(g[k])
    BY <1>2, <2>1
  <2> QED BY <2>2, <2>3
<1> HIDE DEF K
<1>5. Nat \subseteq K
  BY <1>3, <1>4, SetInduction
<1>6. ASSUME NEW k \in 1 .. n PROVE f[k] = g[k - 1]
  <2>1. k - 1 \in Nat /\ (k - 1) + 1 = k /\ k <= n
    BY <1>1
  <2> QED BY <1>5, <2>1 DEF K
<1> QED BY <1>6 DEF f, g, n

(* The bodies that come to the world in at most k steps.                   *)
Near(k) == {b \in PlantBodies : \E i \in 0 .. k : Above(b)[i] = World}

(* As long as a body is missing, the next step reaches another one.        *)
LEMMA NearGrows ==
    ASSUME plant \in Plants, NEW k \in Nat, k + 1 <= Len(plant.modelOf),
           Near(k) # PlantBodies
    PROVE  /\ Near(k) \subseteq Near(k + 1)
           /\ \E c \in PlantBodies : c \notin Near(k) /\ c \in Near(k + 1)
<1> DEFINE S == PlantBodies \ Near(k)
<1>1. Near(k) \subseteq Near(k + 1)
  BY DEF Near
<1>2. S \in SUBSET (PlantBodies \ {World}) /\ S # {}
  <2>1. Above(World)[0] = World /\ 0 \in 0 .. k
    BY PlantTree, AboveFacts DEF Climbs
  <2>2. World \in Near(k)
    BY <2>1, PlantTree DEF Near
  <2> QED BY <2>2 DEF Near
<1>3. PICK i \in DOMAIN plant.joints :
              plant.joints[i].child \in S /\ plant.joints[i].parent \notin S
  BY <1>2, PlantTree
<1> DEFINE c == plant.joints[i].child
           p == plant.joints[i].parent
<1>4. c \in PlantBodies \ {World} /\ p \in PlantBodies
  BY PlantFacts
<1>5. Up(c) = p
  BY <1>4, ParentBodyFacts DEF Up
<1>6. PICK x \in 0 .. k : Above(p)[x] = World
  BY <1>3, <1>4 DEF Near
<1>7. x + 1 \in 1 .. Len(plant.modelOf) /\ x + 1 \in 0 .. (k + 1) /\ (x + 1) - 1 = x
  BY PlantFacts
<1>8. Above(c)[x + 1] = World
  <2> HIDE DEF c, p
  <2>1. Above(c)[x + 1] = Above(Up(c))[(x + 1) - 1]
    BY <1>4, <1>7, ClimbFromParent
  <2> QED BY <1>5, <1>6, <1>7, <2>1
<1>9. c \in Near(k + 1)
  <2> HIDE DEF c
  <2> QED BY <1>4, <1>7, <1>8 DEF Near
<1> QED BY <1>1, <1>3, <1>4, <1>9

(* There are not more steps than bodies.                                   *)
LEMMA NearAll ==
    ASSUME plant \in Plants
    PROVE  Near(Len(plant.modelOf) - 1) = PlantBodies
<1> DEFINE n == Len(plant.modelOf)
           K == {k \in Nat : k + 1 <= n => Near(k) = PlantBodies \/ Cardinality(Near(k)) >= k + 1}
<1>1. n \in Nat /\ PlantBodies = 1 .. n /\ IsFiniteSet(PlantBodies)
      /\ Cardinality(PlantBodies) = n /\ n >= 1
  <2>1. n \in Nat /\ PlantBodies = 1 .. n
    BY PlantFacts
  <2>2. 1 \in 1 .. n
    BY <2>1, PlantTree DEF World
  <2> HIDE DEF n
  <2> QED BY <2>1, <2>2, FS_Interval
<1>2. \A k : Near(k) \in SUBSET PlantBodies
  BY DEF Near
<1>3. \A k : IsFiniteSet(Near(k)) /\ Cardinality(Near(k)) \in Nat
             /\ Cardinality(Near(k)) <= n
             /\ (Cardinality(Near(k)) = n => Near(k) = PlantBodies)
  <2> TAKE k
  <2> DEFINE N == Near(k)
  <2>1. N \in SUBSET PlantBodies
    BY <1>2
  <2> HIDE DEF N, n
  <2>2. IsFiniteSet(N) /\ Cardinality(N) <= n /\ (Cardinality(N) = n => N = PlantBodies)
    BY <1>1, <2>1, FS_Subset
  <2>3. Cardinality(N) \in Nat
    BY <2>2, FS_CardinalityType
  <2> QED BY <2>2, <2>3 DEF N
<1> HIDE DEF n
<1>4. 0 \in K
  <2>1. World \in Near(0)
    <3>1. Above(World)[0] = World /\ 0 \in 0 .. 0
      BY PlantTree, AboveFacts DEF Climbs
    <3> QED BY <3>1, PlantTree DEF Near
  <2>2. Cardinality(Near(0)) # 0
    BY <1>3, <2>1, FS_EmptySet
  <2> QED BY <1>3, <2>2
<1>5. ASSUME NEW k \in Nat, k \in K PROVE k + 1 \in K
  <2> SUFFICES ASSUME (k + 1) + 1 <= n
               PROVE  Near(k + 1) = PlantBodies \/ Cardinality(Near(k + 1)) >= (k + 1) + 1
    OBVIOUS
  <2>1. Near(k) = PlantBodies \/ Cardinality(Near(k)) >= k + 1
    BY <1>1, <1>5
  <2>2. CASE Near(k) = PlantBodies
    <3>1. Near(k) \subseteq Near(k + 1)
      BY DEF Near
    <3> QED BY <1>2, <2>2, <3>1
  <2>3. CASE Near(k) # PlantBodies
    <3>1. k + 1 <= Len(plant.modelOf)
      BY <1>1 DEF n
    <3>2. Near(k) \subseteq Near(k + 1)
          /\ \E c \in PlantBodies : c \notin Near(k) /\ c \in Near(k + 1)
      BY <2>3, <3>1, NearGrows
    <3> DEFINE A == Near(k)
               B == Near(k + 1)
    <3>3. /\ IsFiniteSet(B) /\ A \in SUBSET B /\ A # B /\ Cardinality(A) \in Nat
          /\ Cardinality(B) \in Nat
      BY <1>3, <3>2
    <3> HIDE DEF A, B
    <3>4. Cardinality(A) <= Cardinality(B) /\ Cardinality(A) # Cardinality(B)
      BY <3>3, FS_Subset
    <3>5. Cardinality(A) >= k + 1
      BY <2>1, <2>3 DEF A
    <3>6. Cardinality(B) >= (k + 1) + 1
      BY <3>3, <3>4, <3>5
    <3> QED BY <3>6 DEF B
  <2> QED BY <2>2, <2>3
<1> HIDE DEF K
<1>6. Nat \subseteq K
  BY <1>4, <1>5, SetInduction
<1>7. n - 1 \in Nat /\ (n - 1) + 1 = n
  BY <1>1
<1>8. Near(n - 1) = PlantBodies \/ Cardinality(Near(n - 1)) >= n
  BY <1>6, <1>7 DEF K
<1>9. Near(n - 1) = PlantBodies
  BY <1>1, <1>3, <1>8
<1> QED BY <1>9 DEF n

(* Every climb ends at the world, and stays there.                         *)
LEMMA ClimbEnds ==
    ASSUME plant \in Plants, NEW b \in PlantBodies
    PROVE  /\ Len(plant.modelOf) \in Nat \ {0}
           /\ \E k \in 0 .. (Len(plant.modelOf) - 1) : Above(b)[k] = World
           /\ Above(b)[Len(plant.modelOf)] = World
<1> DEFINE n == Len(plant.modelOf)
           f == Above(b)
<1>1. n \in Nat /\ n >= 1
  <2>1. n \in Nat /\ PlantBodies = 1 .. n
    BY PlantFacts
  <2> QED BY <2>1
<1>2. PICK k \in 0 .. (n - 1) : f[k] = World
  <2>1. b \in Near(n - 1)
    BY NearAll
  <2> QED BY <2>1 DEF Near
<1>3. \A i \in 1 .. n : f[i] = Up(f[i - 1])
  BY AboveFacts DEF Climbs
<1> HIDE DEF f, n
<1> DEFINE K == {i \in Nat : k + i <= n => f[k + i] = World}
<1>4. 0 \in K
  BY <1>2
<1>5. ASSUME NEW i \in Nat, i \in K PROVE i + 1 \in K
  <2> SUFFICES ASSUME k + (i + 1) <= n PROVE f[k + (i + 1)] = World
    OBVIOUS
  <2>1. k + (i + 1) \in 1 .. n /\ (k + (i + 1)) - 1 = k + i /\ k + i <= n
    BY <1>1
  <2>2. f[k + i] = World
    BY <1>5, <2>1
  <2> QED BY <1>3, <2>1, <2>2 DEF Up
<1> HIDE DEF K
<1>6. Nat \subseteq K
  BY <1>4, <1>5, SetInduction
<1>7. n - k \in Nat /\ k + (n - k) = n
  BY <1>1
<1>8. f[n] = World
  BY <1>1, <1>6, <1>7 DEF K
<1>9. Len(plant.modelOf) \in Nat \ {0}
  BY <1>1 DEF n
<1> QED BY <1>2, <1>8, <1>9 DEF f, n

(* The body has collision geometry, or one below it has.                   *)
Carrier(b) ==
    \E c \in plant.collision \ {World} :
       \E k \in 0 .. Len(plant.modelOf) : Above(c)[k] = b

(* What is below a body is below its parent.                               *)
LEMMA CarrierUp ==
    ASSUME plant \in Plants, NEW b \in PlantBodies \ {World}, Carrier(b)
    PROVE  Carrier(ParentBody(b))
<1> DEFINE n == Len(plant.modelOf)
<1>1. PICK c \in plant.collision \ {World} : \E k \in 0 .. n : Above(c)[k] = b
  BY DEF Carrier
<1>2. PICK k \in 0 .. n : Above(c)[k] = b
  BY <1>1
<1>3. c \in PlantBodies
  BY PlantFacts
<1>4. n \in Nat \ {0} /\ Above(c)[n] = World
  BY <1>3, ClimbEnds
<1>5. k # n
  BY <1>2, <1>4
<1>6. k + 1 \in 1 .. n /\ k + 1 \in 0 .. n /\ (k + 1) - 1 = k
  BY <1>4, <1>5
<1>7. Above(c)[k + 1] = Up(Above(c)[k])
  BY <1>3, <1>6, AboveFacts DEF Climbs
<1>8. Above(c)[k + 1] = ParentBody(b)
  BY <1>2, <1>7 DEF Up
<1> HIDE DEF n
<1> QED BY <1>6, <1>8 DEF Carrier, n

(* The plant stays, and what is read of its bodies.                        *)
LEMMA PlantOperatorsKept ==
    ASSUME plant' = plant, NEW b
    PROVE  ParentBody(b)' = ParentBody(b) /\ Above(b)' = Above(b)
           /\ (Carrier(b)' <=> Carrier(b)) /\ PlantBodies' = PlantBodies
<1>1. \A c : ParentBody(c)' = ParentBody(c)
  BY DEF ParentBody
<1>2. \A c : Above(c)' = Above(c)
  BY <1>1 DEF Above
<1>3. Carrier(b)' <=> Carrier(b)
  BY <1>2 DEF Carrier
<1> QED BY <1>1, <1>2, <1>3 DEF PlantBodies

(* The marks while the bodies are gone through: every mark stands for      *)
(* collision geometry, and a marked body behind has its parent marked.     *)
MarksFound ==
    /\ plant \in Plants
    /\ building \in {"chains", "groups", "kinematics", "ready", "thrown"}
    /\ building \in {"kinematics", "ready"} =>
          /\ marked \in SUBSET PlantBodies
          /\ World \in marked /\ plant.collision \subseteq marked
          /\ \A b \in marked \ {World} : Carrier(b)
    /\ building = "kinematics" =>
          /\ nextIndex \in Nat \ {0}
          /\ \A b \in marked \ {World} : b >= nextIndex \/ ParentBody(b) \in marked
    /\ building = "ready" => \A b \in marked \ {World} : ParentBody(b) \in marked

(* What a body marks: the bodies above it, up to one that is marked.       *)
LEMMA MarksUp ==
    ASSUME plant \in Plants, marked \in SUBSET PlantBodies, World \in marked,
           \A b \in marked \ {World} : Carrier(b),
           NEW b \in marked \ {World}
    PROVE  /\ UpToMarked(b) \in SUBSET PlantBodies
           /\ \A c \in UpToMarked(b) : c # World /\ Carrier(c)
           /\ ParentBody(b) \in marked \cup UpToMarked(b)
           /\ \A c \in UpToMarked(b) : ParentBody(c) \in marked \cup UpToMarked(b)
<1> DEFINE n == Len(plant.modelOf)
           f == Above(b)
           T == {k \in DOMAIN f \ {0} : f[k] \in marked}
           stop == SetOps!Min(T)
<1>1. /\ b \in PlantBodies /\ b # World /\ n \in Nat \ {0} /\ DOMAIN f = 0 .. n /\ f[0] = b
      /\ f[n] = World
      /\ \A k \in 0 .. n : f[k] \in PlantBodies
      /\ \A k \in 1 .. n : f[k] = Up(f[k - 1])
  BY AboveFacts, ClimbEnds DEF Climbs
<1>2. UpToMarked(b) = {f[k] : k \in 1 .. (stop - 1)}
  BY DEF UpToMarked
<1> HIDE DEF n, f
<1>3. T \in SUBSET Nat /\ n \in T /\ T \subseteq 1 .. n
  BY <1>1
<1>4. \A k \in 1 .. n : f[k] \in marked => k \in T
  BY <1>1
<1>5. \A k \in T : f[k] \in marked
  OBVIOUS
<1> HIDE DEF T
<1>6. stop \in T /\ \A x \in T : stop <= x
  BY <1>3, MinFacts
<1> HIDE DEF stop
<1>7. stop \in 1 .. n /\ f[stop] \in marked
  BY <1>3, <1>5, <1>6
<1>8. \A k \in 1 .. (stop - 1) : k \in 1 .. n /\ k \in 0 .. n /\ f[k] \notin marked
  <2> SUFFICES ASSUME NEW k \in 1 .. (stop - 1)
               PROVE  k \in 1 .. n /\ k \in 0 .. n /\ f[k] \notin marked
    OBVIOUS
  <2>1. k \in 1 .. n /\ k \in 0 .. n /\ ~(stop <= k)
    BY <1>1, <1>7
  <2> QED BY <1>4, <1>6, <2>1
<1>9. \A k \in 0 .. (stop - 1) : f[k] # World
  <2> SUFFICES ASSUME NEW k \in 0 .. (stop - 1) PROVE f[k] # World
    OBVIOUS
  <2>1. k = 0 \/ k \in 1 .. (stop - 1)
    BY <1>7
  <2> QED BY <1>1, <1>8, <2>1
<1>10. ASSUME NEW k \in 0 .. (stop - 1)
       PROVE  /\ f[k + 1] = ParentBody(f[k])
              /\ f[k + 1] \in marked \cup UpToMarked(b)
  <2>1. k + 1 \in 1 .. n /\ (k + 1) - 1 = k /\ (k + 1 = stop \/ k + 1 \in 1 .. (stop - 1))
    BY <1>1, <1>7
  <2>2. f[k + 1] = Up(f[k])
    BY <1>1, <2>1
  <2>3. f[k + 1] = ParentBody(f[k])
    BY <1>9, <2>2 DEF Up
  <2>4. f[k + 1] \in marked \cup UpToMarked(b)
    BY <1>2, <1>7, <2>1
  <2> QED BY <2>3, <2>4
<1>11. \A k \in 1 .. (stop - 1) : k \in 0 .. (stop - 1)
  OBVIOUS
<1>12. ParentBody(b) \in marked \cup UpToMarked(b)
  <2>1. 0 \in 0 .. (stop - 1)
    BY <1>7
  <2> QED BY <1>1, <1>10, <2>1
<1>13. \A k \in 0 .. n : k <= stop - 1 => Carrier(f[k])
  <2> DEFINE K == {k \in Nat : k <= stop - 1 => Carrier(f[k])}
  <2>1. 0 \in K
    BY <1>1
  <2>2. ASSUME NEW k \in Nat, k \in K PROVE k + 1 \in K
    <3> SUFFICES ASSUME k + 1 <= stop - 1 PROVE Carrier(f[k + 1])
      OBVIOUS
    <3>1. k \in 0 .. (stop - 1) /\ k <= stop - 1 /\ k \in 0 .. n
      BY <1>1, <1>7
    <3>2. Carrier(f[k]) /\ f[k] \in PlantBodies \ {World}
      BY <1>1, <1>9, <2>2, <3>1
    <3>3. Carrier(ParentBody(f[k]))
      BY <3>2, CarrierUp
    <3> QED BY <1>10, <3>1, <3>3
  <2> HIDE DEF K
  <2>3. Nat \subseteq K
    BY <2>1, <2>2, SetInduction
  <2> QED BY <1>1, <2>3 DEF K
<1>14. ASSUME NEW c \in UpToMarked(b)
       PROVE  /\ c \in PlantBodies /\ c # World /\ Carrier(c)
              /\ ParentBody(c) \in marked \cup UpToMarked(b)
  <2>1. PICK k \in 1 .. (stop - 1) : c = f[k]
    BY <1>2
  <2>2. k \in 0 .. (stop - 1) /\ k \in 0 .. n /\ k <= stop - 1
    BY <1>8, <1>11
  <2> QED BY <1>1, <1>9, <1>10, <1>13, <2>1, <2>2
<1> QED BY <1>12, <1>14

LEMMA MarksFoundInit == ModelInit => MarksFound
BY DEF ModelInit, MarksFound

(* The bodies are gone through in order: only Propagate changes the marks. *)
LEMMA MarksFoundStep ==
    ASSUME MarksFound, [ModelNext]_modelVars
    PROVE  MarksFound'
<1>0. plant \in Plants
      /\ building \in {"chains", "groups", "kinematics", "ready", "thrown"}
  BY DEF MarksFound
<1>1. plant' = plant
  BY ModelSteps DEF modelVars
<1>2. /\ \A b : ParentBody(b)' = ParentBody(b) /\ (Carrier(b)' <=> Carrier(b))
      /\ PlantBodies' = PlantBodies
  BY <1>1, PlantOperatorsKept
<1>3. CASE building' = building /\ marked' = marked /\ nextIndex' = nextIndex
  BY <1>1, <1>2, <1>3 DEF MarksFound
<1>4. CASE building' \notin {"kinematics", "ready"}
           /\ building' \in {"chains", "groups", "kinematics", "ready", "thrown"}
  BY <1>0, <1>1, <1>4 DEF MarksFound
<1>5. CASE FindMapping /\ building' = "kinematics"
  <2>1. marked' = plant.collision \cup {World} /\ nextIndex' = 1
    BY <1>5 DEF FindMapping
  <2>2. plant.collision \subseteq PlantBodies /\ World \in PlantBodies
    BY <1>0, PlantFacts, PlantTree
  <2>3. \A b \in marked' \ {World} : b >= 1
    BY <1>0, <2>1, <2>2, PlantFacts
  <2>4. ASSUME NEW b \in marked' \ {World} PROVE Carrier(b)
    <3>1. b \in plant.collision \ {World} /\ b \in PlantBodies
      BY <2>1, <2>2
    <3>2. Above(b)[0] = b /\ 0 \in 0 .. Len(plant.modelOf)
      BY <1>0, <3>1, AboveFacts, PlantFacts DEF Climbs
    <3> QED BY <3>1, <3>2 DEF Carrier
  <2>5. marked' \in SUBSET PlantBodies /\ World \in marked' /\ plant.collision \subseteq marked'
    BY <2>1, <2>2
  <2> QED BY <1>0, <1>1, <1>2, <1>5, <2>1, <2>3, <2>4, <2>5 DEF MarksFound
<1>6. CASE Propagate
  <2>1. /\ building = "kinematics" /\ building' = building /\ nextIndex' = nextIndex + 1
        /\ marked \in SUBSET PlantBodies /\ World \in marked
        /\ plant.collision \subseteq marked
        /\ \A b \in marked \ {World} : Carrier(b)
        /\ nextIndex \in Nat \ {0}
        /\ \A b \in marked \ {World} : b >= nextIndex \/ ParentBody(b) \in marked
    BY <1>6 DEF Propagate, MarksFound
  <2>2. \A b \in marked : b \in Nat
    BY <1>0, <2>1, PlantFacts
  <2>3. CASE nextIndex \in marked \ {World}
    <3> DEFINE U == UpToMarked(nextIndex)
    <3>1. /\ U \in SUBSET PlantBodies
          /\ \A c \in U : c # World /\ Carrier(c)
          /\ ParentBody(nextIndex) \in marked \cup U
          /\ \A c \in U : ParentBody(c) \in marked \cup U
      BY <1>0, <2>1, <2>3, MarksUp
    <3>2. marked' = marked \cup U
      BY <1>6, <2>3 DEF Propagate
    <3> HIDE DEF U
    <3>3. ASSUME NEW b \in marked' \ {World}
          PROVE  Carrier(b) /\ (b >= nextIndex + 1 \/ ParentBody(b) \in marked')
      <4>1. CASE b \in U
        BY <3>1, <3>2, <4>1
      <4>2. CASE b = nextIndex
        BY <2>1, <3>1, <3>2, <3>3, <4>2, <2>3
      <4>3. CASE b \in marked /\ b # nextIndex
        <5>1. Carrier(b) /\ (b >= nextIndex \/ ParentBody(b) \in marked) /\ b \in Nat
          BY <2>1, <2>2, <3>3, <4>3
        <5>2. b >= nextIndex => b >= nextIndex + 1
          BY <2>1, <4>3, <5>1
        <5> QED BY <3>2, <5>1, <5>2
      <4> QED BY <3>2, <3>3, <4>1, <4>2, <4>3
    <3>4. /\ marked' \in SUBSET PlantBodies /\ World \in marked'
          /\ plant.collision \subseteq marked' /\ nextIndex' \in Nat \ {0}
      BY <2>1, <3>1, <3>2
    <3> QED BY <1>0, <1>1, <1>2, <2>1, <3>3, <3>4 DEF MarksFound
  <2>4. CASE nextIndex \notin marked \ {World}
    <3>1. marked' = marked
      BY <1>6, <2>4 DEF Propagate
    <3>2. ASSUME NEW b \in marked \ {World}
          PROVE  b >= nextIndex + 1 \/ ParentBody(b) \in marked
      <4>1. b # nextIndex /\ b \in Nat
        BY <2>2, <2>4
      <4>2. b >= nextIndex => b >= nextIndex + 1
        BY <2>1, <4>1
      <4> QED BY <2>1, <4>2
    <3>3. nextIndex' \in Nat \ {0}
      BY <2>1
    <3> QED BY <1>0, <1>1, <1>2, <2>1, <3>1, <3>2, <3>3 DEF MarksFound
  <2> QED BY <2>3, <2>4
<1>7. CASE ModelReady
  <2>1. /\ building = "kinematics" /\ building' = "ready" /\ marked' = marked
        /\ nextIndex \notin PlantBodies
        /\ nextIndex \in Nat \ {0}
        /\ \A b \in marked \ {World} : b >= nextIndex \/ ParentBody(b) \in marked
        /\ marked \in SUBSET PlantBodies
    BY <1>7 DEF ModelReady, MarksFound
  <2>2. ASSUME NEW b \in marked \ {World} PROVE ParentBody(b) \in marked
    <3>1. PlantBodies = 1 .. Len(plant.modelOf) /\ Len(plant.modelOf) \in Nat
      BY <1>0, PlantFacts
    <3>2. b \in 1 .. Len(plant.modelOf)
      BY <2>1, <3>1
    <3>3. ~(b >= nextIndex)
      BY <2>1, <3>1, <3>2
    <3> QED BY <2>1, <3>3
  <2> QED BY <1>0, <1>1, <1>2, <2>1, <2>2 DEF MarksFound
<1> QED BY <1>0, <1>3, <1>4, <1>5, <1>6, <1>7, ModelSteps
        DEF modelVars, GroupModel, ChainsFound, AddJoint, FindMapping, ModelCallStep

(* The marks end where the climbs from the collision geometry end.         *)
LEMMA MarksAreCarriers ==
    ASSUME MarksFound, building = "ready"
    PROVE  marked = {World} \cup {b \in PlantBodies \ {World} :
                              \E c \in plant.collision \ {World} :
                                \E k \in DOMAIN Above(c) : Above(c)[k] = b}
<1> DEFINE n == Len(plant.modelOf)
<1>1. /\ plant \in Plants /\ marked \in SUBSET PlantBodies /\ World \in marked
      /\ plant.collision \subseteq marked
      /\ \A b \in marked \ {World} : Carrier(b)
      /\ \A b \in marked \ {World} : ParentBody(b) \in marked
  BY DEF MarksFound
<1>2. \A c \in plant.collision : DOMAIN Above(c) = 0 .. n
  BY <1>1, AboveFacts DEF Climbs
<1>3. ASSUME NEW c \in plant.collision PROVE \A k \in 0 .. n : Above(c)[k] \in marked
  <2> DEFINE f == Above(c)
  <2>1. /\ f[0] = c /\ \A k \in 1 .. n : f[k] = Up(f[k - 1])
        /\ n \in Nat
    BY <1>1, AboveFacts, PlantFacts DEF Climbs
  <2> HIDE DEF f, n
  <2>2. \A k \in 1 .. n : f[k - 1] \in marked => f[k] \in marked
    BY <1>1, <2>1 DEF Up
  <2>3. f[0] \in marked
    BY <1>1, <1>3, <2>1
  <2>4. \A k \in 0 .. n : f[k] \in marked
    BY <2>1, <2>2, <2>3, KeepsType
  <2> QED BY <2>4 DEF f
<1>4. ASSUME NEW b \in PlantBodies \ {World}
      PROVE  b \in marked <=> \E c \in plant.collision \ {World} :
                                \E k \in DOMAIN Above(c) : Above(c)[k] = b
  BY <1>1, <1>2, <1>3, <1>4 DEF Carrier
<1> HIDE DEF n
<1> QED BY <1>1, <1>4

(* The ascending enumeration of a set of positions exists.                 *)
Rising(s) == \A i, k \in DOMAIN s : i < k => s[i] < s[k]

(* Every set of places can be put in order, by adding its greatest last.   *)
LEMMA AscendingExists ==
    ASSUME NEW N \in Nat
    PROVE  \A S \in SUBSET (1 .. N) :
              \E s \in [1 .. Cardinality(S) -> S] : Rising(s)
<1> DEFINE K == {n \in Nat : \A S \in SUBSET (1 .. n) :
                    \E s \in [1 .. Cardinality(S) -> S] : Rising(s)}
<1>1. 0 \in K
  <2> SUFFICES ASSUME NEW S \in SUBSET (1 .. 0)
               PROVE  \E s \in [1 .. Cardinality(S) -> S] : Rising(s)
    OBVIOUS
  <2>1. S = {} /\ Cardinality({}) = 0
    BY FS_EmptySet
  <2>2. 1 .. 0 = {}
    OBVIOUS
  <2> DEFINE s == [i \in {} |-> 0]
  <2>3. s \in [{} -> {}] /\ Rising(s)
    BY DEF Rising
  <2> HIDE DEF s
  <2> QED BY <2>1, <2>2, <2>3
<1>2. ASSUME NEW n \in Nat, n \in K PROVE n + 1 \in K
  <2> SUFFICES ASSUME NEW S \in SUBSET (1 .. (n + 1))
               PROVE  \E s \in [1 .. Cardinality(S) -> S] : Rising(s)
    OBVIOUS
  <2>1. CASE n + 1 \notin S
    <3>1. S \in SUBSET (1 .. n)
      BY <2>1
    <3> QED BY <1>2, <3>1
  <2>2. CASE n + 1 \in S
    <3> DEFINE R == S \ {n + 1}
               c == Cardinality(R)
    <3>1. R \in SUBSET (1 .. n)
      OBVIOUS
    <3>2. IsFiniteSet(1 .. n)
      BY FS_Interval
    <3>3. IsFiniteSet(R) /\ c \in Nat
      <4> HIDE DEF R
      <4> QED BY <3>1, <3>2, FS_Subset, FS_CardinalityType
    <3>4. Cardinality(S) = c + 1
      <4>1. R \cup {n + 1} = S /\ n + 1 \notin R
        BY <2>2
      <4> HIDE DEF R
      <4> QED BY <3>3, <4>1, FS_AddElement
    <3>5. PICK r \in [1 .. c -> R] : Rising(r)
      BY <1>2, <3>1
    <3> DEFINE s == [i \in 1 .. (c + 1) |-> IF i = c + 1 THEN n + 1 ELSE r[i]]
    <3>6. \A i \in 1 .. (c + 1) : i # c + 1 => i \in 1 .. c
      BY <3>3
    <3>7. \A i \in 1 .. c : r[i] \in S /\ r[i] \in 1 .. n
      BY <3>1, <3>5
    <3> HIDE DEF R, c
    <3>8. s \in [1 .. (c + 1) -> S]
      BY <2>2, <3>6, <3>7
    <3>9. Rising(s)
      <4> SUFFICES ASSUME NEW i \in 1 .. (c + 1), NEW k \in 1 .. (c + 1), i < k
                   PROVE  s[i] < s[k]
        BY DEF Rising
      <4>1. i \in 1 .. c
        BY <3>3
      <4>2. s[i] = r[i] /\ r[i] \in 1 .. n
        BY <3>3, <3>7, <4>1
      <4>3. CASE k = c + 1
        <5>1. s[k] = n + 1
          BY <4>3
        <5> HIDE DEF s
        <5> QED BY <4>2, <5>1
      <4>4. CASE k # c + 1
        <5>1. k \in 1 .. c /\ s[k] = r[k]
          BY <3>6, <4>4
        <5> HIDE DEF s
        <5> QED BY <3>5, <4>1, <4>2, <5>1 DEF Rising
      <4> QED BY <4>3, <4>4
    <3> HIDE DEF s
    <3> QED BY <3>4, <3>8, <3>9
  <2> QED BY <2>1, <2>2
<1> HIDE DEF K
<1>3. Nat \subseteq K
  BY <1>1, <1>2, SetInduction
<1> QED BY <1>3 DEF K

(* The positions in ascending order: each of them, once.                   *)
LEMMA AscendingFacts ==
    ASSUME NEW N \in Nat, NEW S \in SUBSET (1 .. N)
    PROVE  /\ IsFiniteSet(S) /\ Cardinality(S) \in Nat
           /\ Ascending(S) \in [1 .. Cardinality(S) -> S] /\ Rising(Ascending(S))
           /\ \A x \in S : \E i \in 1 .. Cardinality(S) : Ascending(S)[i] = x
           /\ \A i, k \in 1 .. Cardinality(S) : Ascending(S)[i] = Ascending(S)[k] => i = k
<1> DEFINE n == Cardinality(S)
           s == Ascending(S)
<1>1. IsFiniteSet(S) /\ n \in Nat
  <2>1. IsFiniteSet(1 .. N)
    BY FS_Interval
  <2> QED BY <2>1, FS_Subset, FS_CardinalityType
<1>2. s \in [1 .. n -> S] /\ Rising(s)
  <2>1. \E r \in [1 .. n -> S] : Rising(r)
    BY AscendingExists
  <2>2. s = CHOOSE r \in [1 .. n -> S] : Rising(r)
    BY DEF Ascending, Rising
  <2> HIDE DEF s, n
  <2> QED BY <2>1, <2>2
<1> HIDE DEF s, n
<1>3. \A i, k \in 1 .. n : s[i] = s[k] => i = k
  <2> SUFFICES ASSUME NEW i \in 1 .. n, NEW k \in 1 .. n, s[i] = s[k], i # k
               PROVE  FALSE
    OBVIOUS
  <2>1. i < k \/ k < i
    OBVIOUS
  <2>2. s[i] \in Int /\ s[k] \in Int
    <3>1. s[i] \in S /\ s[k] \in S
      BY <1>2
    <3>2. \A x \in S : x \in Int
      OBVIOUS
    <3> QED BY <3>1, <3>2
  <2>3. s[i] < s[k] \/ s[k] < s[i]
    BY <1>2, <2>1 DEF Rising
  <2> QED BY <2>2, <2>3
<1>4. \A x \in S : \E i \in 1 .. n : s[i] = x
  <2> DEFINE T == {s[i] : i \in 1 .. n}
  <2>1. T \in SUBSET S
    BY <1>2
  <2>2. s \in Bijection(1 .. n, T)
    <3>1. s \in [1 .. n -> T]
      BY <1>2
    <3> QED BY <1>3, <3>1 DEF Bijection, Injection, Surjection, IsInjective
  <2>3. IsFiniteSet(1 .. n) /\ Cardinality(1 .. n) = n
    BY <1>1, FS_Interval
  <2> HIDE DEF T
  <2>4. Cardinality(T) = n
    BY <2>2, <2>3, FS_Bijection DEF ExistsBijection
  <2>5. T = S
    BY <1>1, <2>1, <2>4, FS_Subset DEF n
  <2> QED BY <2>5 DEF T
<1> QED BY <1>1, <1>2, <1>3, <1>4 DEF s, n

(* In ascending order, consecutive positions stay consecutive.             *)
LEMMA AscendingRun ==
    ASSUME NEW a \in Nat \ {0}, NEW b \in Nat, a <= b
    PROVE  /\ Cardinality(a .. b) = b - a + 1
           /\ \A i \in 1 .. (b - a + 1) : Ascending(a .. b)[i] = a + i - 1
<1> DEFINE n == b - a + 1
           S == a .. b
           s == Ascending(S)
<1>1. Cardinality(S) = n /\ n \in Nat
  BY FS_Interval
<1>2. S \in SUBSET (1 .. b)
  OBVIOUS
<1> HIDE DEF S
<1>3. s \in [1 .. n -> S] /\ Rising(s)
  BY <1>1, <1>2, AscendingFacts
<1> HIDE DEF s
<1>4. \A i \in 1 .. n : s[i] \in Nat /\ a <= s[i] /\ s[i] <= b
  BY <1>3 DEF S
<1>5. \A i \in Nat : i + 1 <= n => s[i + 1] >= a + i
  <2> DEFINE K == {i \in Nat : i + 1 <= n => s[i + 1] >= a + i}
  <2>1. 0 \in K
    BY <1>4
  <2>2. ASSUME NEW i \in Nat, i \in K PROVE i + 1 \in K
    <3> SUFFICES ASSUME (i + 1) + 1 <= n PROVE s[(i + 1) + 1] >= a + (i + 1)
      OBVIOUS
    <3>1. i + 1 \in 1 .. n /\ (i + 1) + 1 \in 1 .. n /\ i + 1 < (i + 1) + 1
      BY <1>1
    <3>2. s[i + 1] >= a + i
      BY <2>2, <3>1
    <3>3. s[i + 1] < s[(i + 1) + 1]
      BY <1>3, <3>1 DEF Rising
    <3>4. s[i + 1] \in Nat /\ s[(i + 1) + 1] \in Nat
      BY <1>4, <3>1
    <3> HIDE DEF n
    <3> QED BY <3>2, <3>3, <3>4
  <2> HIDE DEF K
  <2>3. Nat \subseteq K
    BY <2>1, <2>2, SetInduction
  <2> QED BY <2>3 DEF K
<1>6. \A i \in Nat : i < n => s[n - i] <= b - i
  <2> DEFINE K == {i \in Nat : i < n => s[n - i] <= b - i}
  <2>1. 0 \in K
    BY <1>4
  <2>2. ASSUME NEW i \in Nat, i \in K PROVE i + 1 \in K
    <3> SUFFICES ASSUME i + 1 < n PROVE s[n - (i + 1)] <= b - (i + 1)
      OBVIOUS
    <3>1. n - i \in 1 .. n /\ n - (i + 1) \in 1 .. n /\ n - (i + 1) < n - i /\ i < n
      BY <1>1
    <3>2. s[n - i] <= b - i
      BY <2>2, <3>1
    <3>3. s[n - (i + 1)] < s[n - i]
      BY <1>3, <3>1 DEF Rising
    <3>4. s[n - i] \in Nat /\ s[n - (i + 1)] \in Nat
      BY <1>4, <3>1
    <3> HIDE DEF n
    <3> QED BY <3>2, <3>3, <3>4
  <2> HIDE DEF K
  <2>3. Nat \subseteq K
    BY <2>1, <2>2, SetInduction
  <2> QED BY <2>3 DEF K
<1>7. ASSUME NEW i \in 1 .. n PROVE s[i] = a + i - 1
  <2>1. i - 1 \in Nat /\ (i - 1) + 1 = i /\ n - i \in Nat /\ n - i < n /\ n - (n - i) = i
    BY <1>1
  <2>2. s[i] >= a + (i - 1)
    BY <1>5, <2>1
  <2>3. s[i] <= b - (n - i)
    BY <1>6, <2>1
  <2>4. s[i] \in Nat
    BY <1>4
  <2> QED BY <2>2, <2>3, <2>4
<1> QED BY <1>1, <1>7 DEF s, S

(* What FindMapping leaves of the positions.                               *)
Mapped ==
    /\ masks = [m \in {m \in DOMAIN plant.models : PositionsOf(m) # {}} |-> PositionsOf(m)]
    /\ minimal = Ascending((UNION {PositionsOf(m) :
                     m \in {m \in DOMAIN plant.models : PositionsOf(m) # {}}}) \ Mimicking)

(* The positions of a plant, model by model.                               *)
LEMMA PlantPositions ==
    ASSUME plant \in Plants
    PROVE  /\ \A m \in DOMAIN plant.models :
                 \E a, b \in 0 .. (Len(plant.joints) + 1) : PositionsOf(m) = a .. b
           /\ \A m \in DOMAIN plant.models : PositionsOf(m) \in SUBSET (1 .. Len(plant.joints))
           /\ \A m, l : \A p : p \in PositionsOf(m) /\ p \in PositionsOf(l) => m = l
           /\ \A i \in Moving(plant) :
                 /\ plant.modelOf[plant.joints[i].child] \in DOMAIN plant.models
                 /\ plant.joints[i].position \in PositionsOf(plant.modelOf[plant.joints[i].child])
<1>1. IsPlant(plant)
  BY PlantsAssumption
<1>2. /\ \A i, k \in Moving(plant) :
            plant.joints[i].position = plant.joints[k].position => i = k
      /\ \A i \in Moving(plant) : plant.joints[i].position # 0
      /\ \A m \in DOMAIN plant.models : \E a, b \in 0 .. (Len(plant.joints) + 1) :
            PositionsIn(plant, m) = a .. b
  BY <1>1 DEF IsPlant
<1>3. \A i \in Moving(plant) : i \in DOMAIN plant.joints
  BY DEF Moving
<1>4. \A i \in Moving(plant) :
         /\ plant.joints[i].position \in 1 .. Len(plant.joints)
         /\ plant.modelOf[plant.joints[i].child] \in DOMAIN plant.models
  <2> SUFFICES ASSUME NEW i \in Moving(plant)
               PROVE  /\ plant.joints[i].position \in 1 .. Len(plant.joints)
                      /\ plant.modelOf[plant.joints[i].child] \in DOMAIN plant.models
    OBVIOUS
  <2>1. /\ plant.joints[i].position \in 0 .. Len(plant.joints)
        /\ plant.joints[i].child \in PlantBodies /\ Len(plant.joints) \in Nat
        /\ plant.joints[i].position # 0
    BY <1>2, <1>3, PlantFacts
  <2>2. plant.modelOf[plant.joints[i].child] \in DOMAIN plant.models
    BY <2>1, PlantFacts
  <2> QED BY <2>1, <2>2
<1>5. \A m : \A p \in PositionsOf(m) : \E i \in Moving(plant) :
         plant.modelOf[plant.joints[i].child] = m /\ plant.joints[i].position = p
  BY DEF PositionsOf, PositionsIn
<1>6. \A m \in DOMAIN plant.models : PositionsOf(m) \in SUBSET (1 .. Len(plant.joints))
  BY <1>4, <1>5
<1>7. \A m, l : \A p : p \in PositionsOf(m) /\ p \in PositionsOf(l) => m = l
  BY <1>2, <1>5
<1>8. \A i \in Moving(plant) :
         plant.joints[i].position \in PositionsOf(plant.modelOf[plant.joints[i].child])
  BY DEF PositionsOf, PositionsIn
<1> QED BY <1>2, <1>4, <1>6, <1>7, <1>8 DEF PositionsOf

(* A coupler relates positions of moving joints.                           *)
LEMMA CouplerFacts ==
    ASSUME plant \in Plants, NEW p \in Mimicking
    PROVE  /\ \E i \in Moving(plant) : plant.joints[i].position = p
           /\ \E i \in Moving(plant) : plant.joints[i].position = Coupler(p).of
           /\ Coupler(p).ratio \in Int /\ Coupler(p).offset \in Int
<1> DEFINE positions == {plant.joints[i].position : i \in Moving(plant)}
           R == [mimic : positions, of : positions, ratio : Int, offset : Int]
           cs == plant.couplers
<1>1. cs \in Seq(R)
  <2>1. IsPlant(plant)
    BY PlantsAssumption
  <2> QED BY <2>1 DEF IsPlant
<1>2. PICK i \in DOMAIN cs : cs[i].mimic = p
  BY DEF Mimicking
<1>3. \A r \in R : r.mimic \in positions /\ r.of \in positions /\ r.ratio \in Int
                   /\ r.offset \in Int
  OBVIOUS
<1> DEFINE k == CHOOSE k \in DOMAIN cs : cs[k].mimic = p
<1>4. k \in DOMAIN cs /\ cs[k].mimic = p /\ Coupler(p) = cs[k]
  BY <1>2 DEF Coupler
<1> HIDE DEF R, cs, k
<1>5. cs[k] \in R
  BY <1>1, <1>4
<1>6. p \in positions /\ Coupler(p).of \in positions /\ Coupler(p).ratio \in Int
      /\ Coupler(p).offset \in Int
  BY <1>3, <1>4, <1>5
<1> QED BY <1>6

(* The masks cut the positions into intervals, one for each movable model. *)
MaskFacts ==
    /\ MovableModels = {m \in DOMAIN plant.models : PositionsOf(m) # {}}
    /\ Dofs \in SUBSET (1 .. Len(plant.joints))
    /\ \A m \in MovableModels :
          /\ masks[m] = PositionsOf(m)
          /\ \E a \in Nat \ {0}, b \in Nat : a <= b /\ masks[m] = a .. b
          /\ \A p \in masks[m] : p \in Dofs /\ ModelOfPosition(p) = m
    /\ \A p \in Dofs : ModelOfPosition(p) \in MovableModels
                       /\ p \in masks[ModelOfPosition(p)]
    /\ \A p \in Mimicking : /\ p \in Dofs /\ Coupler(p).of \in Dofs
                            /\ Coupler(p).ratio \in Int /\ Coupler(p).offset \in Int

(* Drake numbers the positions model by model, so masks are intervals.     *)
LEMMA MasksMapped ==
    ASSUME plant \in Plants, Mapped
    PROVE  MaskFacts
<1> DEFINE M == {m \in DOMAIN plant.models : PositionsOf(m) # {}}
<1>1. MovableModels = M /\ \A m \in M : masks[m] = PositionsOf(m)
  BY DEF Mapped, MovableModels
<1>2. \A m \in M : masks[m] \in SUBSET (1 .. Len(plant.joints))
  BY <1>1, PlantPositions
<1>3. Dofs \in SUBSET (1 .. Len(plant.joints))
  BY <1>1, <1>2 DEF Dofs
<1>4. ASSUME NEW m \in M
      PROVE  /\ \E a \in Nat \ {0}, b \in Nat : a <= b /\ masks[m] = a .. b
             /\ \A p \in masks[m] : p \in Dofs /\ ModelOfPosition(p) = m
  <2>1. PICK a \in 0 .. (Len(plant.joints) + 1), b \in 0 .. (Len(plant.joints) + 1) :
                PositionsOf(m) = a .. b
    BY <1>4, PlantPositions
  <2>2. PICK p : p \in PositionsOf(m)
    BY <1>4
  <2>3. a \in Nat /\ b \in Nat /\ a <= b
    BY <2>1, <2>2, PlantFacts
  <2>4. a \in masks[m]
    BY <1>1, <2>1, <2>3
  <2>5. a # 0
    <3>1. 0 \notin 1 .. Len(plant.joints)
      OBVIOUS
    <3> QED BY <1>2, <2>4, <3>1
  <2>6. ASSUME NEW x \in masks[m] PROVE x \in Dofs /\ ModelOfPosition(x) = m
    <3>1. x \in Dofs
      BY <1>1 DEF Dofs
    <3>2. \A l \in MovableModels : x \in masks[l] <=> l = m
      BY <1>1, <2>6, PlantPositions
    <3> HIDE DEF M
    <3>3. ModelOfPosition(x) = m
      BY <1>1, <1>4, <3>2 DEF ModelOfPosition
    <3> QED BY <3>1, <3>3
  <2> QED BY <1>1, <2>1, <2>3, <2>5, <2>6
<1>5. \A p \in Dofs : ModelOfPosition(p) \in MovableModels /\ p \in masks[ModelOfPosition(p)]
  BY DEF Dofs, ModelOfPosition
<1>6. \A i \in Moving(plant) : plant.joints[i].position \in Dofs
  <2> SUFFICES ASSUME NEW i \in Moving(plant) PROVE plant.joints[i].position \in Dofs
    OBVIOUS
  <2> DEFINE m == plant.modelOf[plant.joints[i].child]
  <2>1. m \in DOMAIN plant.models /\ plant.joints[i].position \in PositionsOf(m)
    BY PlantPositions
  <2> HIDE DEF m
  <2> QED BY <1>1, <2>1 DEF Dofs
<1>7. \A p \in Mimicking : /\ p \in Dofs /\ Coupler(p).of \in Dofs
                           /\ Coupler(p).ratio \in Int /\ Coupler(p).offset \in Int
  BY <1>6, CouplerFacts
<1> QED BY <1>1, <1>3, <1>4, <1>5, <1>7 DEF MaskFacts

(* minimal and ReducedIndex are inverse to each other.                     *)
ReducedFacts ==
    /\ \A i \in DOMAIN minimal : /\ minimal[i] \in Dofs \ Mimicking
                                 /\ ReducedIndex(minimal[i]) = i
    /\ \A p \in Dofs \ Mimicking : /\ ReducedIndex(p) \in DOMAIN minimal
                                   /\ minimal[ReducedIndex(p)] = p

LEMMA ReducedMapped ==
    ASSUME plant \in Plants, Mapped
    PROVE  ReducedFacts
<1> DEFINE S == Dofs \ Mimicking
           N == Len(plant.joints)
<1>1. S \in SUBSET (1 .. N) /\ N \in Nat
  BY MasksMapped, PlantFacts DEF MaskFacts
<1>2. minimal = Ascending(S)
  <2>1. Dofs = UNION {PositionsOf(m) : m \in {m \in DOMAIN plant.models : PositionsOf(m) # {}}}
    BY MasksMapped DEF MaskFacts, Dofs
  <2> QED BY <2>1 DEF Mapped
<1> HIDE DEF S
<1>3. /\ Ascending(S) \in [1 .. Cardinality(S) -> S]
      /\ \A x \in S : \E i \in 1 .. Cardinality(S) : Ascending(S)[i] = x
      /\ \A i, k \in 1 .. Cardinality(S) : Ascending(S)[i] = Ascending(S)[k] => i = k
  <2> HIDE DEF N
  <2> QED BY <1>1, AscendingFacts
<1>4. /\ \A i \in DOMAIN minimal : minimal[i] \in S
      /\ \A x \in S : \E i \in DOMAIN minimal : minimal[i] = x
      /\ \A i, k \in DOMAIN minimal : minimal[i] = minimal[k] => i = k
  BY <1>2, <1>3
<1>5. \A i \in DOMAIN minimal : ReducedIndex(minimal[i]) = i
  BY <1>4 DEF ReducedIndex
<1>6. \A p \in S : ReducedIndex(p) \in DOMAIN minimal /\ minimal[ReducedIndex(p)] = p
  BY <1>4 DEF ReducedIndex
<1> QED BY <1>4, <1>5, <1>6 DEF ReducedFacts, S

(* One step of the loop that fills in the mimicking positions.             *)
Filled(g, k, mimicking, before) ==
    IF k \notin mimicking THEN g
    ELSE [g EXCEPT ![k - before] =
            Coupler(k).ratio * g[Coupler(k).of - before] + Coupler(k).offset]

FillRun(full, mimicking, before, f) ==
    /\ f[0] = full
    /\ \A k \in 1 .. Len(plant.joints) : f[k] = Filled(f[k - 1], k, mimicking, before)
    /\ FillIn(full, mimicking, before) = f[Len(plant.joints)]

LEMMA FilledType ==
    ASSUME NEW D, NEW g \in [D -> Int], NEW k, NEW mimicking, NEW before,
           k \in mimicking => /\ Coupler(k).of - before \in D
                              /\ Coupler(k).ratio \in Int /\ Coupler(k).offset \in Int
    PROVE  Filled(g, k, mimicking, before) \in [D -> Int]
<1>1. CASE k \notin mimicking
  BY <1>1 DEF Filled
<1>2. CASE k \in mimicking
  <2> DEFINE v == Coupler(k).ratio * g[Coupler(k).of - before] + Coupler(k).offset
             at == k - before
  <2>1. g[Coupler(k).of - before] \in Int
    BY <1>2
  <2>2. v \in Int
    BY <1>2, <2>1
  <2>3. Filled(g, k, mimicking, before) = [g EXCEPT ![at] = v]
    BY <1>2 DEF Filled
  <2> HIDE DEF v, at
  <2> QED BY <2>2, <2>3
<1> QED BY <1>1, <1>2

(* FillIn is a run of such steps over all positions.                       *)
LEMMA FillInFacts ==
    ASSUME plant \in Plants, NEW D, NEW full \in [D -> Int], NEW mimicking, NEW before,
           \A k \in mimicking : /\ Coupler(k).of - before \in D
                                /\ Coupler(k).ratio \in Int /\ Coupler(k).offset \in Int
    PROVE  \E f \in [0 .. Len(plant.joints) -> [D -> Int]] :
              FillRun(full, mimicking, before, f)
<1> DEFINE n == Len(plant.joints)
           T == [D -> Int]
           move == [z \in (1 .. n) \X T |-> Filled(z[2], z[1], mimicking, before)]
           Steps(filled) == filled = [k \in 0 .. n |->
                IF k = 0 THEN full ELSE Filled(filled[k - 1], k, mimicking, before)]
           filled == CHOOSE filled : Steps(filled)
<1>1. n \in Nat
  BY PlantFacts
<1>2. \A k \in 1 .. n : \A s \in T : Filled(s, k, mimicking, before) \in T
  BY FilledType
<1>3. full \in T
  OBVIOUS
<1> HIDE DEF T
<1>4. move \in [(1 .. n) \X T -> T]
  <2> SUFFICES ASSUME NEW z \in (1 .. n) \X T
               PROVE  Filled(z[2], z[1], mimicking, before) \in T
    OBVIOUS
  <2> QED BY <1>2
<1>5. \A k \in 1 .. n : \A s \in T : move[<<k, s>>] = Filled(s, k, mimicking, before)
  OBVIOUS
<1> HIDE DEF move
<1>6. PICK f \in [0 .. n -> T] :
              f[0] = full /\ \A k \in 1 .. n : f[k] = move[<<k, f[k - 1]>>]
  <2>1. Results(T, full, n, move) # {}
    BY <1>1, <1>3, <1>4, ResultsExist
  <2> QED BY <2>1 DEF Results
<1>7. \A k \in 1 .. n : f[k] = Filled(f[k - 1], k, mimicking, before)
  <2> SUFFICES ASSUME NEW k \in 1 .. n PROVE f[k] = Filled(f[k - 1], k, mimicking, before)
    OBVIOUS
  <2>1. k - 1 \in 0 .. n
    BY <1>1
  <2> QED BY <1>5, <1>6, <2>1
<1>8. Steps(f)
  <2>1. \A k \in 0 .. n : k # 0 => k \in 1 .. n
    BY <1>1
  <2>2. \A k \in 0 .. n : f[k] = IF k = 0 THEN full
                                 ELSE Filled(f[k - 1], k, mimicking, before)
    BY <1>6, <1>7, <2>1
  <2>3. f = [k \in 0 .. n |-> f[k]]
    BY <1>6
  <2> HIDE DEF n
  <2> QED BY <2>2, <2>3
<1>9. Steps(filled)
  <2> HIDE DEF Steps
  <2> QED BY <1>8
<1>10. FillIn(full, mimicking, before) = filled[n]
  BY DEF FillIn, Filled
<1> HIDE DEF filled
<1>11. /\ DOMAIN filled = 0 .. n /\ filled[0] = full
       /\ \A k \in 1 .. n : filled[k] = Filled(filled[k - 1], k, mimicking, before)
  <2>1. \A k \in 1 .. n : k \in 0 .. n /\ k # 0
    BY <1>1
  <2>2. 0 \in 0 .. n
    BY <1>1
  <2> HIDE DEF n
  <2> QED BY <1>9, <2>1, <2>2
<1> HIDE DEF Steps
<1>12. \A k \in 0 .. n : filled[k] \in T
  <2>1. \A k \in 1 .. n : filled[k - 1] \in T => filled[k] \in T
    BY <1>2, <1>11
  <2> HIDE DEF n
  <2> QED BY <1>1, <1>3, <1>11, <2>1, KeepsType
<1>13. filled \in [0 .. n -> T]
  <2>1. filled = [k \in 0 .. n |-> filled[k]]
    BY <1>9 DEF Steps
  <2> HIDE DEF n
  <2> QED BY <1>12, <2>1
<1> QED BY <1>10, <1>11, <1>13 DEF T, FillRun

(* A lifted configuration before the mimicking positions are filled in.    *)
Base(r) == [p \in Dofs |-> IF p \in Mimicking THEN 0 ELSE r[ReducedIndex(p)]]

(* Each step of a fill changes one position, and that one if it mimics.    *)
LiftRun(r, f) ==
    /\ f[0] = Base(r) /\ f[Len(plant.joints)] = Lift(r)
    /\ \A k \in 1 .. Len(plant.joints) : \A p \in Dofs :
          f[k][p] = IF k \in Mimicking /\ p = k
                    THEN Coupler(k).ratio * f[k - 1][Coupler(k).of] + Coupler(k).offset
                    ELSE f[k - 1][p]

(* Lifting is a run.                                                       *)
LEMMA LiftRuns ==
    ASSUME plant \in Plants, Mapped, NEW r \in [DOMAIN minimal -> Int]
    PROVE  \E f \in [0 .. Len(plant.joints) -> [Dofs -> Int]] : LiftRun(r, f)
<1> DEFINE n == Len(plant.joints)
<1>1. /\ n \in Nat /\ Dofs \in SUBSET (1 .. n)
      /\ \A p \in Mimicking : /\ p \in Dofs /\ Coupler(p).of \in Dofs
                              /\ Coupler(p).ratio \in Int /\ Coupler(p).offset \in Int
  BY MasksMapped, PlantFacts DEF MaskFacts
<1>2. Base(r) \in [Dofs -> Int]
  BY ReducedMapped DEF ReducedFacts, Base
<1>3. \A p \in Dofs : p \in Int /\ p - 0 = p
  BY <1>1
<1>4. PICK f \in [0 .. n -> [Dofs -> Int]] : FillRun(Base(r), Mimicking, 0, f)
  <2>1. \A k \in Mimicking : /\ Coupler(k).of - 0 \in Dofs
                             /\ Coupler(k).ratio \in Int /\ Coupler(k).offset \in Int
    BY <1>1, <1>3
  <2> QED BY <1>2, <2>1, FillInFacts
<1>5. Lift(r) = FillIn(Base(r), Mimicking, 0)
  BY DEF Lift, Base
<1>6. ASSUME NEW k \in 1 .. n, NEW p \in Dofs
      PROVE  f[k][p] = IF k \in Mimicking /\ p = k
                       THEN Coupler(k).ratio * f[k - 1][Coupler(k).of] + Coupler(k).offset
                       ELSE f[k - 1][p]
  <2>1. f[k] = Filled(f[k - 1], k, Mimicking, 0)
    BY <1>4 DEF FillRun
  <2>2. k - 1 \in 0 .. n
    BY <1>1
  <2> DEFINE g == f[k - 1]
  <2>3. g \in [Dofs -> Int]
    BY <2>2
  <2> HIDE DEF g
  <2>4. CASE k \notin Mimicking
    BY <2>1, <2>4 DEF Filled, g
  <2>5. CASE k \in Mimicking
    <3>1. k - 0 = k /\ Coupler(k).of - 0 = Coupler(k).of /\ k \in Dofs
      BY <1>1, <1>3, <2>5
    <3> DEFINE v == Coupler(k).ratio * g[Coupler(k).of] + Coupler(k).offset
    <3>2. f[k] = [g EXCEPT ![k] = v]
      BY <2>1, <2>5, <3>1 DEF Filled, g
    <3> HIDE DEF v
    <3>3. f[k][p] = IF p = k THEN v ELSE g[p]
      BY <2>3, <3>1, <3>2
    <3> QED BY <2>5, <3>3 DEF v, g
  <2> QED BY <2>4, <2>5
<1>7. f[0] = Base(r) /\ f[n] = Lift(r)
  BY <1>4, <1>5 DEF FillRun
<1> QED BY <1>6, <1>7 DEF LiftRun

(* What a lift gives: the given values where nothing is mimicked, and what *)
(* the coupler says of the position it mimics.                             *)
Lifted(r, L) ==
    /\ L \in [Dofs -> Int]
    /\ \A p \in Dofs \ Mimicking : L[p] = r[ReducedIndex(p)]
    /\ \A p \in Mimicking : Ordered(p) =>
          L[p] = Coupler(p).ratio * L[Coupler(p).of] + Coupler(p).offset

(* A value, once filled in, stays: an ordered coupler reads the final one. *)
LEMMA LiftFacts ==
    ASSUME plant \in Plants, Mapped, NEW r \in [DOMAIN minimal -> Int]
    PROVE  Lifted(r, Lift(r))
<1> DEFINE n == Len(plant.joints)
           L == Lift(r)
<1>1. /\ n \in Nat /\ \A p \in Dofs : p \in 1 .. n /\ p \in Nat /\ p <= n /\ p - 1 \in 0 .. n
      /\ \A p \in Mimicking : p \in Dofs /\ Coupler(p).of \in Dofs
  <2>1. /\ n \in Nat /\ Dofs \in SUBSET (1 .. n)
        /\ \A p \in Mimicking : p \in Dofs /\ Coupler(p).of \in Dofs
    BY MasksMapped, PlantFacts DEF MaskFacts
  <2>2. \A p \in 1 .. n : p \in Nat /\ p <= n /\ p - 1 \in 0 .. n
    BY <2>1
  <2> QED BY <2>1, <2>2
<1>2. PICK f \in [0 .. n -> [Dofs -> Int]] : LiftRun(r, f)
  BY LiftRuns
<1>3. /\ f[0] = Base(r) /\ f[n] = L
      /\ \A k \in 1 .. n : \A p \in Dofs :
            f[k][p] = IF k \in Mimicking /\ p = k
                      THEN Coupler(k).ratio * f[k - 1][Coupler(k).of] + Coupler(k).offset
                      ELSE f[k - 1][p]
  BY <1>2 DEF LiftRun
<1>4. L \in [Dofs -> Int]
  <2>1. n \in 0 .. n
    BY <1>1
  <2> QED BY <1>2, <1>3, <2>1
<1> HIDE DEF L, n
<1>5. ASSUME NEW p \in Dofs \ Mimicking PROVE \A k \in 0 .. n : f[k][p] = r[ReducedIndex(p)]
  <2> DEFINE v == r[ReducedIndex(p)]
             K == {k \in Nat : k <= n => f[k][p] = v}
  <2>1. 0 \in K
    BY <1>3 DEF Base
  <2>2. ASSUME NEW k \in Nat, k \in K PROVE k + 1 \in K
    <3> SUFFICES ASSUME k + 1 <= n PROVE f[k + 1][p] = v
      OBVIOUS
    <3>1. k + 1 \in 1 .. n /\ (k + 1) - 1 = k /\ k <= n
      BY <1>1
    <3>2. f[k + 1][p] = f[k][p]
      BY <1>3, <3>1
    <3> QED BY <2>2, <3>1, <3>2
  <2> HIDE DEF K
  <2>3. Nat \subseteq K
    BY <2>1, <2>2, SetInduction
  <2> QED BY <1>1, <2>3 DEF K
<1>6. ASSUME NEW p \in Mimicking PROVE \A k \in 0 .. n : p <= k => f[k][p] = f[p][p]
  <2> DEFINE K == {k \in Nat : k <= n /\ p <= k => f[k][p] = f[p][p]}
  <2>0. p \in 1 .. n /\ p \in Nat /\ p \in Dofs
    BY <1>1
  <2>1. 0 \in K
    BY <2>0
  <2>2. ASSUME NEW k \in Nat, k \in K PROVE k + 1 \in K
    <3> SUFFICES ASSUME k + 1 <= n, p <= k + 1 PROVE f[k + 1][p] = f[p][p]
      OBVIOUS
    <3>1. k + 1 \in 1 .. n /\ (k + 1) - 1 = k /\ k <= n
      BY <1>1
    <3>2. CASE p = k + 1
      BY <3>2
    <3>3. CASE p # k + 1
      <4>1. p <= k
        BY <2>0, <3>3
      <4>2. f[k + 1][p] = f[k][p]
        BY <1>3, <2>0, <3>1, <3>3
      <4> QED BY <2>2, <3>1, <4>1, <4>2
    <3> QED BY <3>2, <3>3
  <2> HIDE DEF K
  <2>3. Nat \subseteq K
    BY <2>1, <2>2, SetInduction
  <2> QED BY <1>1, <2>3 DEF K
<1>7. ASSUME NEW p \in Dofs \ Mimicking PROVE L[p] = r[ReducedIndex(p)]
  <2>1. n \in 0 .. n
    BY <1>1
  <2> QED BY <1>3, <1>5, <2>1
<1>8. ASSUME NEW p \in Mimicking, Ordered(p)
      PROVE  L[p] = Coupler(p).ratio * L[Coupler(p).of] + Coupler(p).offset
  <2> DEFINE of == Coupler(p).of
  <2>1. p \in 1 .. n /\ p \in Nat /\ p \in Dofs /\ of \in Dofs /\ of \in Nat /\ of \in 1 .. n
        /\ n \in 0 .. n /\ p <= n /\ p - 1 \in 0 .. n
    BY <1>1
  <2>2. L[p] = f[p][p]
    BY <1>3, <1>6, <2>1
  <2>3. f[p][p] = Coupler(p).ratio * f[p - 1][of] + Coupler(p).offset
    BY <1>3, <2>1
  <2>4. f[p - 1][of] = L[of]
    <3>1. CASE of \notin Mimicking
      BY <1>5, <1>7, <2>1, <3>1
    <3>2. CASE of \in Mimicking
      <4>1. of < p
        BY <1>8, <3>2 DEF Ordered
      <4>2. of <= p - 1 /\ of <= n
        BY <2>1, <4>1
      <4> HIDE DEF of
      <4>3. f[p - 1][of] = f[of][of]
        BY <1>6, <2>1, <3>2, <4>2
      <4>4. f[n][of] = f[of][of]
        BY <1>6, <2>1, <3>2, <4>2
      <4> QED BY <1>3, <4>3, <4>4
    <3> QED BY <3>1, <3>2
  <2> QED BY <2>2, <2>3, <2>4
<1> QED BY <1>4, <1>7, <1>8 DEF Lifted, L

(* Reducing takes a lifted configuration back.                             *)
LEMMA ReduceLift ==
    ASSUME plant \in Plants, Mapped, NEW r \in [DOMAIN minimal -> Int]
    PROVE  Reduce(Lift(r)) = r
<1> DEFINE L == Lift(r)
<1>1. \A p \in Dofs \ Mimicking : L[p] = r[ReducedIndex(p)]
  BY LiftFacts DEF Lifted
<1> HIDE DEF L
<1>2. \A i \in DOMAIN minimal : L[minimal[i]] = r[i]
  BY <1>1, ReducedMapped DEF ReducedFacts
<1>3. Reduce(L) = r
  BY <1>2 DEF Reduce
<1> QED BY <1>3 DEF L

(* Laying idle models over takes theirs from the reference, entry by entry.*)
LEMMA OverlaidEntries ==
    ASSUME plant \in Plants, Mapped, NEW q \in [DOMAIN minimal -> Int],
           NEW ref \in [DOMAIN minimal -> Int], NEW idle
    PROVE  Overlaid(idle, q, ref) =
              [i \in DOMAIN minimal |-> IF ModelOfPosition(minimal[i]) \in idle
                                        THEN ref[i] ELSE q[i]]
<1> DEFINE A == Lift(q)
           B == Lift(ref)
           full == [p \in Dofs |-> IF ModelOfPosition(p) \in idle THEN B[p] ELSE A[p]]
<1>1. \A p \in Dofs \ Mimicking : A[p] = q[ReducedIndex(p)] /\ B[p] = ref[ReducedIndex(p)]
  BY LiftFacts DEF Lifted
<1>2. Overlaid(idle, q, ref) = Reduce(full)
  BY DEF Overlaid
<1> HIDE DEF A, B
<1>3. \A i \in DOMAIN minimal :
         full[minimal[i]] = IF ModelOfPosition(minimal[i]) \in idle THEN ref[i] ELSE q[i]
  BY <1>1, ReducedMapped DEF ReducedFacts
<1> HIDE DEF full
<1> QED BY <1>2, <1>3 DEF Reduce

(* The positions a..b of a model, and its own configuration.               *)
OfModel(m, a, b) ==
    /\ a \in Nat \ {0} /\ b \in Nat /\ a <= b /\ masks[m] = a .. b
    /\ Start(m) = a /\ Cardinality(masks[m]) = b - a + 1

(* The positions of a model are an interval.                               *)
LEMMA ModelRange ==
    ASSUME plant \in Plants, Mapped, NEW m \in MovableModels
    PROVE  \E a, b : OfModel(m, a, b)
<1>1. PICK a \in Nat \ {0}, b \in Nat : a <= b /\ masks[m] = a .. b
  BY MasksMapped DEF MaskFacts
<1>2. Start(m) = a
  <2>1. a .. b \in SUBSET Nat /\ a .. b # {} /\ a \in a .. b
    BY <1>1
  <2>2. SetOps!Min(a .. b) \in a .. b /\ SetOps!Min(a .. b) <= a
    BY <2>1, MinFacts
  <2>3. SetOps!Min(a .. b) = a
    BY <2>2
  <2> QED BY <1>1, <2>3 DEF Start
<1>3. Cardinality(masks[m]) = b - a + 1
  BY <1>1, AscendingRun
<1> QED BY <1>1, <1>2, <1>3 DEF OfModel

(* Reducing a model's part of a full configuration keeps the entries of    *)
(* the positions that mimic no other.                                      *)
Kept(m, L, q) ==
    /\ DOMAIN q = DOMAIN KeptOf(m)
    /\ \A i \in DOMAIN q : q[i] = L[KeptOf(m)[i]]
    /\ \A p \in masks[m] \ Mimicking : \E i \in DOMAIN q : KeptOf(m)[i] = p
    /\ masks[m] \cap Mimicking = {} => \A p \in masks[m] : q[p - Start(m) + 1] = L[p]

LEMMA InstanceReduced ==
    ASSUME plant \in Plants, Mapped, NEW m \in MovableModels, NEW L
    PROVE  Kept(m, L, ReduceInstance(m, FromModel(m, L)))
<1>1. PICK a, b : OfModel(m, a, b)
  BY ModelRange
<1>2. /\ a \in Nat \ {0} /\ b \in Nat /\ a <= b /\ masks[m] = a .. b
      /\ Start(m) = a /\ Cardinality(masks[m]) = b - a + 1
  BY <1>1 DEF OfModel
<1> DEFINE F == FromModel(m, L)
           kept == KeptOf(m)
           q == ReduceInstance(m, F)
           S == masks[m] \ Mimicking
<1>3. F = [k \in 1 .. (b - a + 1) |-> L[a + k - 1]]
  BY <1>2 DEF FromModel
<1>4. S \in SUBSET (1 .. b)
  BY <1>2
<1>5. kept = Ascending(S)
  BY DEF KeptOf
<1>6. q = [i \in DOMAIN kept |-> F[kept[i] - a + 1]]
  BY <1>2 DEF ReduceInstance
<1> HIDE DEF F, q, kept
<1>7. /\ kept \in [1 .. Cardinality(S) -> S]
      /\ \A x \in S : \E i \in 1 .. Cardinality(S) : kept[i] = x
  <2> HIDE DEF S
  <2>1. /\ Ascending(S) \in [1 .. Cardinality(S) -> S]
        /\ \A x \in S : \E i \in 1 .. Cardinality(S) : Ascending(S)[i] = x
    BY <1>2, <1>4, AscendingFacts
  <2> QED BY <1>5, <2>1
<1>8. \A p \in masks[m] : F[p - a + 1] = L[p]
  <2> SUFFICES ASSUME NEW p \in a .. b PROVE F[p - a + 1] = L[p]
    BY <1>2
  <2>1. p - a + 1 \in 1 .. (b - a + 1) /\ a + (p - a + 1) - 1 = p
    BY <1>2
  <2> DEFINE k == p - a + 1
  <2>2. F[k] = L[a + k - 1]
    BY <1>3, <2>1
  <2> QED BY <2>1, <2>2
<1>9. \A i \in DOMAIN kept : q[i] = L[kept[i]]
  <2> SUFFICES ASSUME NEW i \in DOMAIN kept PROVE q[i] = L[kept[i]]
    OBVIOUS
  <2>1. kept[i] \in masks[m]
    BY <1>7
  <2> QED BY <1>6, <1>8, <2>1
<1>10. ASSUME masks[m] \cap Mimicking = {}, NEW p \in masks[m]
       PROVE  q[p - Start(m) + 1] = L[p]
  <2>1. kept = Ascending(a .. b)
    <3>1. S = a .. b
      BY <1>2, <1>10
    <3> QED BY <1>5, <3>1
  <2>2. p \in a .. b /\ p - a + 1 \in 1 .. (b - a + 1) /\ a + (p - a + 1) - 1 = p
    BY <1>2
  <2> DEFINE k == p - a + 1
  <2>3. kept[k] = a + k - 1
    BY <1>2, <2>1, <2>2, AscendingRun
  <2>4. k \in DOMAIN kept
    <3>1. Cardinality(S) = b - a + 1
      BY <1>2, <1>10
    <3> QED BY <1>7, <2>2, <3>1
  <2>5. q[k] = L[kept[k]]
    BY <1>9, <2>4
  <2> QED BY <1>2, <2>2, <2>3, <2>5
<1>11. DOMAIN q = DOMAIN kept /\ DOMAIN kept = 1 .. Cardinality(S)
  BY <1>6, <1>7
<1> QED BY <1>7, <1>9, <1>10, <1>11 DEF Kept, kept, q, F

(* Lifting a model alone gives its part of what lifting the whole does.    *)
LEMMA InstanceLifted ==
    ASSUME plant \in Plants, Mapped, WithinModels, NEW m \in MovableModels,
           NEW r \in [DOMAIN minimal -> Int], NEW q, Kept(m, Lift(r), q)
    PROVE  \A p \in masks[m] : LiftInstance(m, q)[p - Start(m) + 1] = Lift(r)[p]
<1>1. PICK a, b : OfModel(m, a, b)
  BY ModelRange
<1>2. /\ a \in Nat \ {0} /\ b \in Nat /\ a <= b /\ masks[m] = a .. b
      /\ Start(m) = a /\ Cardinality(masks[m]) = b - a + 1
  BY <1>1 DEF OfModel
<1>3. CASE masks[m] \cap Mimicking = {}
  <2>1. LiftInstance(m, q) = q
    BY <1>3 DEF LiftInstance
  <2> QED BY <1>3, <2>1 DEF Kept
<1>4. CASE masks[m] \cap Mimicking # {}
  <2> DEFINE c == b - a + 1
             n == Len(plant.joints)
             L == Lift(r)
             mim == {p \in Mimicking : Coupler(p).of \in masks[m]}
             full == [k \in 1 .. Cardinality(masks[m]) |->
                        LET p == Start(m) + k - 1
                        IN IF p \in Mimicking THEN 0
                           ELSE q[CHOOSE i \in DOMAIN KeptOf(m) : KeptOf(m)[i] = p]]
  <2>1. LiftInstance(m, q) = FillIn(full, mim, a - 1)
    <3>1. LiftInstance(m, q) = FillIn(full, mim, Start(m) - 1)
      BY <1>4 DEF LiftInstance
    <3> HIDE DEF full, mim
    <3> QED BY <1>2, <3>1
  <2>2. /\ n \in Nat
        /\ \A p \in masks[m] : p \in Dofs /\ ModelOfPosition(p) = m
        /\ \A p \in Dofs : ModelOfPosition(p) = m => p \in masks[m]
        /\ \A p \in Mimicking : /\ p \in Dofs /\ Coupler(p).of \in Dofs
                                /\ Coupler(p).ratio \in Int /\ Coupler(p).offset \in Int
        /\ \A p \in Mimicking : ModelOfPosition(Coupler(p).of) = ModelOfPosition(p)
    BY MasksMapped, PlantFacts DEF MaskFacts, WithinModels
  <2>3. \A p \in Mimicking : p \in mim <=> p \in masks[m]
    BY <2>2
  <2>4. \A p \in a .. b : p - (a - 1) \in 1 .. c /\ a + (p - (a - 1)) - 1 = p
    BY <1>2
  <2>5. \A k \in 1 .. c : a + k - 1 \in a .. b
    BY <1>2
  <2>6. \A p \in a .. b : p \notin Mimicking =>
            q[CHOOSE i \in DOMAIN KeptOf(m) : KeptOf(m)[i] = p] = L[p]
    BY <1>2 DEF Kept
  <2>7. \A p \in a .. b : p \notin Mimicking => L[p] = r[ReducedIndex(p)]
    BY <1>2, <2>2, LiftFacts DEF Lifted
  <2>8. \A p \in a .. b : p \in Dofs /\ Base(r)[p] \in Int
    <3>1. Base(r) \in [Dofs -> Int]
      BY ReducedMapped DEF ReducedFacts, Base
    <3> QED BY <1>2, <2>2, <3>1
  <2> HIDE DEF L
  <2>9. \A k \in 1 .. c : full[k] = Base(r)[a + k - 1]
    <3> SUFFICES ASSUME NEW k \in 1 .. c PROVE full[k] = Base(r)[a + k - 1]
      OBVIOUS
    <3> DEFINE p == a + k - 1
    <3>1. p \in a .. b /\ p \in Dofs
      BY <2>5, <2>8
    <3>2. full[k] = IF p \in Mimicking THEN 0
                    ELSE q[CHOOSE i \in DOMAIN KeptOf(m) : KeptOf(m)[i] = p]
      BY <1>2
    <3>3. Base(r)[p] = IF p \in Mimicking THEN 0 ELSE r[ReducedIndex(p)]
      BY <3>1 DEF Base
    <3> HIDE DEF full, p
    <3>4. full[k] = Base(r)[p]
      BY <2>6, <2>7, <3>1, <3>2, <3>3
    <3> QED BY <3>4 DEF p
  <2>10. full \in [1 .. c -> Int]
    <3>1. \A k \in 1 .. c : full[k] \in Int
      BY <2>5, <2>8, <2>9
    <3>2. full = [k \in 1 .. c |-> full[k]]
      BY <1>2
    <3> HIDE DEF full, c
    <3> QED BY <3>1, <3>2
  <2>11. \A k \in mim : /\ Coupler(k).of - (a - 1) \in 1 .. c
                        /\ Coupler(k).ratio \in Int /\ Coupler(k).offset \in Int
    BY <1>2, <2>2, <2>4
  <2>12. PICK g \in [0 .. n -> [1 .. c -> Int]] : FillRun(full, mim, a - 1, g)
    <3> HIDE DEF full, mim, c
    <3> QED BY <2>10, <2>11, FillInFacts
  <2>13. PICK f \in [0 .. n -> [Dofs -> Int]] : LiftRun(r, f)
    BY LiftRuns
  <2>14. /\ g[0] = full /\ FillIn(full, mim, a - 1) = g[n]
         /\ \A k \in 1 .. n : g[k] = Filled(g[k - 1], k, mim, a - 1)
    BY <2>12 DEF FillRun
  <2>15. /\ f[0] = Base(r) /\ f[n] = L
         /\ \A k \in 1 .. n : \A p \in Dofs :
            f[k][p] = IF k \in Mimicking /\ p = k
                      THEN Coupler(k).ratio * f[k - 1][Coupler(k).of] + Coupler(k).offset
                      ELSE f[k - 1][p]
    BY <2>13 DEF LiftRun, L
  <2> HIDE DEF full, mim, c, n
  <2> DEFINE K == {k \in Nat : k <= n => \A p \in a .. b : g[k][p - (a - 1)] = f[k][p]}
  <2>16. 0 \in K
    <3>1. ASSUME NEW p \in a .. b PROVE full[p - (a - 1)] = Base(r)[p]
      <4> DEFINE k == p - (a - 1)
      <4>1. k \in 1 .. c /\ a + k - 1 = p
        BY <2>4
      <4> HIDE DEF k
      <4>2. full[k] = Base(r)[p]
        BY <2>9, <4>1
      <4> QED BY <4>2 DEF k
    <3> QED BY <2>14, <2>15, <3>1
  <2>17. ASSUME NEW k \in Nat, k \in K PROVE k + 1 \in K
    <3> SUFFICES ASSUME k + 1 <= n, NEW p \in a .. b
                 PROVE  g[k + 1][p - (a - 1)] = f[k + 1][p]
      OBVIOUS
    <3> DEFINE h == g[k]
               j == k + 1
               at == p - (a - 1)
    <3>1. j \in 1 .. n /\ j - 1 = k /\ k \in 0 .. n /\ k <= n /\ j \in Nat
      BY <2>2
    <3>2. h \in [1 .. c -> Int] /\ \A x \in a .. b : h[x - (a - 1)] = f[k][x]
      BY <2>12, <2>17, <3>1
    <3>3. g[j] = Filled(h, j, mim, a - 1)
      BY <2>14, <3>1
    <3>4. f[j][p] = IF j \in Mimicking /\ p = j
                    THEN Coupler(j).ratio * f[k][Coupler(j).of] + Coupler(j).offset
                    ELSE f[k][p]
      BY <2>8, <2>15, <3>1
    <3> HIDE DEF h, j, K
    <3>5. CASE j \notin mim
      <4>1. ~(j \in Mimicking /\ p = j)
        BY <1>2, <2>3, <3>5
      <4>2. g[j] = h
        BY <3>3, <3>5 DEF Filled
      <4> QED BY <3>2, <3>4, <4>1, <4>2 DEF j
    <3>6. CASE j \in mim
      <4> DEFINE v == Coupler(j).ratio * h[Coupler(j).of - (a - 1)] + Coupler(j).offset
                 jat == j - (a - 1)
      <4>1. j \in Mimicking /\ j \in a .. b /\ Coupler(j).of \in a .. b
        BY <1>2, <2>3, <3>6 DEF mim
      <4>2. g[j] = [h EXCEPT ![jat] = v]
        BY <3>3, <3>6 DEF Filled
      <4>3. v = Coupler(j).ratio * f[k][Coupler(j).of] + Coupler(j).offset
        BY <3>2, <4>1
      <4>4. at \in 1 .. c /\ (at = jat <=> p = j)
        <5>1. at \in 1 .. c
          BY <2>4
        <5>2. p \in Int /\ a \in Int /\ j \in Int
          BY <1>2, <3>1
        <5>3. at = jat => p = j
          BY <5>2
        <5>4. p = j => at = jat
          OBVIOUS
        <5> QED BY <5>1, <5>3, <5>4
      <4>5. h[at] = f[k][p]
        BY <3>2
      <4> HIDE DEF v, at, jat
      <4>6. g[j][at] = IF at = jat THEN v ELSE h[at]
        BY <3>2, <4>2, <4>4
      <4>7. g[j][at] = f[j][p]
        BY <3>4, <4>1, <4>3, <4>4, <4>5, <4>6
      <4> QED BY <4>7 DEF at, j
    <3> QED BY <3>5, <3>6
  <2> HIDE DEF K
  <2>18. Nat \subseteq K
    BY <2>16, <2>17, SetInduction
  <2>19. \A p \in a .. b : g[n][p - (a - 1)] = f[n][p]
    BY <2>2, <2>18 DEF K, n
  <2>20. \A p \in a .. b : p - (a - 1) = p - a + 1
    BY <1>2
  <2>21. \A p \in a .. b : LiftInstance(m, q)[p - a + 1] = L[p]
    BY <2>1, <2>14, <2>15, <2>19, <2>20
  <2> QED BY <1>2, <2>21 DEF L
<1> QED BY <1>3, <1>4

(* So the way through the models and back is lifting.                      *)
LEMMA SystemLifted ==
    ASSUME plant \in Plants, Mapped, WithinModels, NEW m \in MovableModels,
           NEW r \in [DOMAIN minimal -> Int]
    PROVE  \A p \in masks[m] :
              LiftInstance(m, ReduceInstance(m, FromModel(m, Lift(r))))[p - Start(m) + 1]
                = Lift(r)[p]
<1> DEFINE q == ReduceInstance(m, FromModel(m, Lift(r)))
<1>1. Kept(m, Lift(r), q)
  BY InstanceReduced
<1> HIDE DEF q
<1>2. \A p \in masks[m] : LiftInstance(m, q)[p - Start(m) + 1] = Lift(r)[p]
  BY <1>1, InstanceLifted
<1> QED BY <1>2 DEF q

(* ConfigurationsCarryOver, of a call.                                     *)
CarriesOver(c) ==
    /\ c.op = "lift" =>
          /\ Reduce(c.to) = c.from
          /\ \A p \in Mimicking : Ordered(p) =>
                c.to[p] = Coupler(p).ratio * c.to[Coupler(p).of] + Coupler(p).offset
    /\ c.op = "idle" =>
          \A i \in DOMAIN minimal :
            c.to.conf[i] = IF ModelOfPosition(minimal[i]) \in c.active
                           THEN c.to.ref[i] ELSE c.from[i]
    /\ (c.op = "system" /\ WithinModels) => c.to = Lift(c.from)

(* Once the model is ready its mapping stays, the configuration has the    *)
(* reduced positions, and the last call did what it should.                *)
ConversionsFound ==
    /\ plant \in Plants
    /\ building \in {"chains", "groups", "kinematics", "ready", "thrown"}
    /\ building \in {"kinematics", "ready"} => Mapped
    /\ building = "ready" => conf \in [DOMAIN minimal -> Values]
    /\ building # "ready" => lastCall = NoCall
    /\ CarriesOver(lastCall)

(* The mapping of a plant that stays is the same.                          *)
LEMMA MappedKept ==
    ASSUME plant' = plant, masks' = masks, minimal' = minimal, Mapped
    PROVE  Mapped'
<1>1. \A m : PositionsOf(m)' = PositionsOf(m)
  BY ModelsOfPlantKept
<1>2. Mimicking' = Mimicking
  BY DEF Mimicking
<1> QED BY <1>1, <1>2 DEF Mapped

(* What was right about a call stays right.                                *)
LEMMA ConversionsKept ==
    ASSUME plant' = plant, masks' = masks, minimal' = minimal, NEW c
    PROVE  CarriesOver(c)' <=> CarriesOver(c)
<1>1. Mimicking' = Mimicking /\ MovableModels' = MovableModels
  BY DEF Mimicking, MovableModels
<1>2. \A p : Coupler(p)' = Coupler(p)
  BY DEF Coupler
<1>3. \A p : Ordered(p)' <=> Ordered(p)
  BY <1>1, <1>2 DEF Ordered
<1>4. Dofs' = Dofs
  BY <1>1 DEF Dofs
<1>5. \A p : ModelOfPosition(p)' = ModelOfPosition(p) /\ ReducedIndex(p)' = ReducedIndex(p)
  BY <1>1 DEF ModelOfPosition, ReducedIndex
<1>6. \A p : ModelOfPosition(Coupler(p).of)' = ModelOfPosition(Coupler(p).of)
  BY <1>1, <1>2 DEF ModelOfPosition
<1>7. WithinModels' <=> WithinModels
  BY <1>1, <1>5, <1>6 DEF WithinModels
<1>8. Reduce(c.to)' = Reduce(c.to)
  BY DEF Reduce
<1>9. Lift(c.from)' = Lift(c.from)
  <2>1. Base(c.from)' = Base(c.from)
    BY <1>1, <1>4, <1>5 DEF Base
  <2>2. FillIn(Base(c.from), Mimicking, 0)' = FillIn(Base(c.from), Mimicking, 0)
    BY <1>1, <1>2, <2>1, ZenonT(60) DEF FillIn
  <2>3. Lift(c.from) = FillIn(Base(c.from), Mimicking, 0)
    BY DEF Lift, Base
  <2>4. Lift(c.from)' = FillIn(Base(c.from), Mimicking, 0)'
    BY DEF Lift, Base
  <2> QED BY <2>2, <2>3, <2>4
<1>10. \A i \in DOMAIN minimal :
          ModelOfPosition(minimal[i])' = ModelOfPosition(minimal[i])
  BY <1>1 DEF ModelOfPosition
<1> QED BY <1>1, <1>2, <1>3, <1>7, <1>8, <1>9, <1>10 DEF CarriesOver

(* Every call carries the configuration over.                              *)
LEMMA CallCarriesOver ==
    ASSUME ConversionsFound, building = "ready",
           \/ LiftConf
           \/ \E active \in SUBSET MovableModels, ref \in [DOMAIN minimal -> Values] :
                \/ SetIdleModelsConfigToRef(active, ref)
                \/ SetIdleArmsConfigToRef(active, ref)
           \/ \E given \in SUBSET MovableModels : ThroughSystemConf(given)
    PROVE  conf' \in [DOMAIN minimal -> Values] /\ CarriesOver(lastCall')
<1>1. /\ plant \in Plants /\ Mapped /\ conf \in [DOMAIN minimal -> Values]
      /\ \A q \in [DOMAIN minimal -> Values] : q \in [DOMAIN minimal -> Int]
      /\ \A i \in DOMAIN minimal : ModelOfPosition(minimal[i]) \in MovableModels
  <2>1. plant \in Plants /\ Mapped /\ conf \in [DOMAIN minimal -> Values]
    BY DEF ConversionsFound
  <2>2. \A i \in DOMAIN minimal : ModelOfPosition(minimal[i]) \in MovableModels
    BY <2>1, MasksMapped, ReducedMapped DEF MaskFacts, ReducedFacts
  <2> QED BY <2>1, <2>2, ValuesAssumption
<1>2. CASE LiftConf
  <2>1. /\ conf' = conf /\ lastCall'.op = "lift" /\ lastCall'.from = conf
        /\ lastCall'.to = Lift(conf)
    BY <1>2 DEF LiftConf, ModelCall
  <2>2. conf \in [DOMAIN minimal -> Int]
    BY <1>1
  <2>3. Reduce(Lift(conf)) = conf
    BY <1>1, <2>2, ReduceLift
  <2>4. \A p \in Mimicking : Ordered(p) =>
           Lift(conf)[p] = Coupler(p).ratio * Lift(conf)[Coupler(p).of] + Coupler(p).offset
    BY <1>1, <2>2, LiftFacts DEF Lifted
  <2> QED BY <1>1, <2>1, <2>3, <2>4 DEF CarriesOver
<1>3. ASSUME NEW idle, NEW q \in [DOMAIN minimal -> Values],
             NEW ref \in [DOMAIN minimal -> Values],
             q = conf \/ \A i \in DOMAIN minimal : ModelOfPosition(minimal[i]) \in idle,
             conf' = Overlaid(idle, q, ref),
             lastCall' = [op |-> "idle", from |-> conf, active |-> idle,
                          to |-> [ref |-> ref, conf |-> conf']]
      PROVE  conf' \in [DOMAIN minimal -> Values] /\ CarriesOver(lastCall')
  <2>1. q \in [DOMAIN minimal -> Int] /\ ref \in [DOMAIN minimal -> Int]
    BY <1>1
  <2>2. conf' = [i \in DOMAIN minimal |-> IF ModelOfPosition(minimal[i]) \in idle
                                          THEN ref[i] ELSE q[i]]
    BY <1>1, <1>3, <2>1, OverlaidEntries
  <2>3. /\ lastCall'.op = "idle" /\ lastCall'.from = conf /\ lastCall'.active = idle
        /\ lastCall'.to.ref = ref /\ lastCall'.to.conf = conf'
    BY <1>3
  <2>4. conf' \in [DOMAIN minimal -> Values]
    BY <2>2
  <2>5. \A i \in DOMAIN minimal :
           conf'[i] = IF ModelOfPosition(minimal[i]) \in idle THEN ref[i] ELSE conf[i]
    BY <1>3, <2>2
  <2> QED BY <2>3, <2>4, <2>5 DEF CarriesOver
<1>4. ASSUME NEW active \in SUBSET MovableModels, NEW ref \in [DOMAIN minimal -> Values],
             SetIdleModelsConfigToRef(active, ref)
      PROVE  conf' \in [DOMAIN minimal -> Values] /\ CarriesOver(lastCall')
  <2> DEFINE idle == MovableModels \ active
             q == IF active = {} THEN ref ELSE conf
  <2>1. /\ conf' = Overlaid(idle, q, ref)
        /\ lastCall' = [op |-> "idle", from |-> conf, active |-> idle,
                        to |-> [ref |-> ref, conf |-> conf']]
    BY <1>4 DEF SetIdleModelsConfigToRef, ModelCall
  <2>2. q \in [DOMAIN minimal -> Values]
    BY <1>1
  <2>3. q = conf \/ \A i \in DOMAIN minimal : ModelOfPosition(minimal[i]) \in idle
    BY <1>1
  <2> HIDE DEF idle, q
  <2> QED BY <1>3, <2>1, <2>2, <2>3
<1>5. ASSUME NEW active, NEW ref \in [DOMAIN minimal -> Values],
             SetIdleArmsConfigToRef(active, ref)
      PROVE  conf' \in [DOMAIN minimal -> Values] /\ CarriesOver(lastCall')
  <2> DEFINE idle == {m \in MovableModels : \A a \in active : ArmOf(a) \cap ArmOf(m) = {}}
  <2>1. /\ conf' = Overlaid(idle, conf, ref)
        /\ lastCall' = [op |-> "idle", from |-> conf, active |-> idle,
                        to |-> [ref |-> ref, conf |-> conf']]
    BY <1>5 DEF SetIdleArmsConfigToRef, ModelCall
  <2> HIDE DEF idle
  <2> QED BY <1>1, <1>3, <2>1
<1>6. ASSUME NEW given \in SUBSET MovableModels, ThroughSystemConf(given)
      PROVE  conf' \in [DOMAIN minimal -> Values] /\ CarriesOver(lastCall')
  <2> DEFINE F(m) == FromModel(m, Lift(conf))
             R(m) == ReduceInstance(m, F(m))
             L(m) == LiftInstance(m, R(m))
             back == [p \in Dofs |-> L(ModelOfPosition(p))
                                       [p - Start(ModelOfPosition(p)) + 1]]
  <2>1. conf' = conf
    BY <1>6 DEF ThroughSystemConf
  <2>2. CASE ~(MovableModels \subseteq given)
    <3>1. lastCall'.op = "partial"
      BY <1>6, <2>2 DEF ThroughSystemConf, ModelCall
    <3> QED BY <1>1, <2>1, <3>1 DEF CarriesOver
  <2>3. CASE MovableModels \subseteq given
    <3>1. given = MovableModels
      BY <2>3
    <3> DEFINE system == [m \in given |-> F(m)]
               reduced == [m \in given |-> ReduceInstance(m, system[m])]
               lifted == [m \in given |-> LiftInstance(m, reduced[m])]
               to == [p \in Dofs |-> LET m == ModelOfPosition(p)
                                     IN lifted[m][p - Start(m) + 1]]
    <3>2. lastCall' = [op |-> "system", from |-> conf, active |-> given, to |-> to]
      BY <1>6, <2>3 DEF ThroughSystemConf, ModelCall
    <3>3. \A m \in given : lifted[m] = L(m)
      <4>1. \A m \in given : system[m] = F(m)
        OBVIOUS
      <4> HIDE DEF system, F
      <4>2. \A m \in given : reduced[m] = R(m)
        BY <4>1
      <4> HIDE DEF reduced, R
      <4> QED BY <4>2
    <3> HIDE DEF lifted, L
    <3>4. /\ lastCall'.op = "system" /\ lastCall'.from = conf /\ lastCall'.to = to
      BY <3>2
    <3>5. ASSUME WithinModels PROVE to = Lift(conf)
      <4>1. conf \in [DOMAIN minimal -> Int]
        BY <1>1
      <4>2. \A m \in MovableModels : \A p \in masks[m] : L(m)[p - Start(m) + 1] = Lift(conf)[p]
        BY <1>1, <3>5, <4>1, SystemLifted DEF L
      <4>3. \A p \in Dofs : ModelOfPosition(p) \in MovableModels
                            /\ p \in masks[ModelOfPosition(p)]
        BY <1>1, MasksMapped DEF MaskFacts
      <4>4. Lift(conf) \in [Dofs -> Int]
        BY <1>1, <4>1, LiftFacts DEF Lifted
      <4> DEFINE whole == Lift(conf)
      <4>5. \A p \in Dofs : to[p] = whole[p]
        <5> SUFFICES ASSUME NEW p \in Dofs PROVE to[p] = whole[p]
          OBVIOUS
        <5> DEFINE m == ModelOfPosition(p)
        <5>1. to[p] = lifted[m][p - Start(m) + 1]
          OBVIOUS
        <5>2. m \in MovableModels /\ m \in given /\ p \in masks[m]
          BY <3>1, <4>3
        <5> HIDE DEF m, to
        <5> QED BY <3>3, <4>2, <5>1, <5>2
      <4> HIDE DEF whole
      <4>6. to = whole
        BY <4>4, <4>5 DEF whole
      <4> QED BY <4>6 DEF whole
    <3> HIDE DEF to
    <3> QED BY <1>1, <2>1, <3>4, <3>5 DEF CarriesOver
  <2> QED BY <2>2, <2>3
<1> QED BY <1>2, <1>4, <1>5, <1>6

LEMMA ConversionsFoundInit == ModelInit => ConversionsFound
BY DEF ModelInit, ConversionsFound, CarriesOver, NoCall

(* The mapping is found once, and every call on it does what it should.    *)
LEMMA ConversionsFoundStep ==
    ASSUME ConversionsFound, [ModelNext]_modelVars
    PROVE  ConversionsFound'
<1>0. /\ plant \in Plants /\ plant' = plant
      /\ building \in {"chains", "groups", "kinematics", "ready", "thrown"}
  BY ModelSteps DEF ConversionsFound, modelVars
<1>1. CASE /\ building' = building /\ masks' = masks /\ minimal' = minimal
           /\ conf' = conf /\ lastCall' = lastCall
  <2>1. Mapped => Mapped'
    BY <1>0, <1>1, MappedKept
  <2>2. PICK c : c = lastCall
    OBVIOUS
  <2>3. CarriesOver(c)' <=> CarriesOver(c)
    BY <1>0, <1>1, ConversionsKept
  <2>4. CarriesOver(lastCall)'
    BY <1>1, <2>2, <2>3 DEF ConversionsFound, CarriesOver
  <2> QED BY <1>0, <1>1, <2>1, <2>4 DEF ConversionsFound
<1>2. CASE lastCall' = NoCall /\ building' \notin {"kinematics", "ready"}
           /\ building' \in {"chains", "groups", "kinematics", "ready", "thrown"}
  BY <1>0, <1>2 DEF ConversionsFound, CarriesOver, NoCall
<1>3. CASE FindMapping /\ building' = "kinematics"
  <2>1. lastCall' = NoCall
    BY <1>3 DEF FindMapping, ConversionsFound
  <2>2. (\A m : PositionsOf(m)' = PositionsOf(m)) /\ Mimicking' = Mimicking
    BY <1>0, ModelsOfPlantKept DEF Mimicking
  <2>3. Mapped'
    BY <1>0, <1>3, <2>2 DEF FindMapping, Mapped
  <2> QED BY <1>0, <1>3, <2>1, <2>3 DEF ConversionsFound, CarriesOver, NoCall
<1>4. CASE ModelReady
  <2>1. /\ building = "kinematics" /\ building' = "ready" /\ lastCall' = lastCall
        /\ masks' = masks /\ minimal' = minimal /\ conf' \in [DOMAIN minimal -> Values]
        /\ lastCall = NoCall /\ Mapped
    BY <1>4 DEF ModelReady, ConversionsFound
  <2>2. Mapped'
    BY <1>0, <2>1, MappedKept
  <2> QED BY <1>0, <2>1, <2>2 DEF ConversionsFound, CarriesOver, NoCall
<1>5. CASE \/ LiftConf
           \/ \E active \in SUBSET MovableModels, ref \in [DOMAIN minimal -> Values] :
                \/ SetIdleModelsConfigToRef(active, ref)
                \/ SetIdleArmsConfigToRef(active, ref)
           \/ \E given \in SUBSET MovableModels : ThroughSystemConf(given)
  <2>1. building = "ready" /\ building' = building /\ masks' = masks /\ minimal' = minimal
    BY <1>5 DEF LiftConf, SetIdleModelsConfigToRef, SetIdleArmsConfigToRef,
                ThroughSystemConf, CanCall, ModelCall
  <2>2. conf' \in [DOMAIN minimal -> Values] /\ CarriesOver(lastCall')
    BY <1>5, <2>1, CallCarriesOver
  <2>3. PICK c : c = lastCall'
    OBVIOUS
  <2>4. CarriesOver(c)
    BY <2>2, <2>3
  <2>5. CarriesOver(c)'
    BY <1>0, <2>1, <2>4, ConversionsKept
  <2>6. CarriesOver(lastCall)'
    BY <2>3, <2>5 DEF CarriesOver
  <2>7. Mapped'
    BY <1>0, <2>1, MappedKept DEF ConversionsFound
  <2> QED BY <1>0, <2>1, <2>2, <2>6, <2>7 DEF ConversionsFound
<1> QED
  <2>1. CASE UNCHANGED modelVars
    BY <1>1, <2>1 DEF modelVars
  <2>2. CASE GroupModel \/ ChainsFound \/ AddJoint
    <3>1. /\ building \in {"chains", "groups"} /\ lastCall' = lastCall
          /\ building' \in {"chains", "groups", "thrown"}
      BY <2>2 DEF GroupModel, ChainsFound, AddJoint
    <3> QED BY <1>2, <3>1 DEF ConversionsFound
  <2>3. CASE FindMapping /\ building' # "kinematics"
    <3>1. building' = "thrown" /\ building = "groups" /\ lastCall' = lastCall
      BY <2>3 DEF FindMapping
    <3> QED BY <1>2, <3>1 DEF ConversionsFound
  <2>4. CASE Propagate
    BY <1>1, <2>4 DEF Propagate
  <2> QED BY <1>3, <1>4, <1>5, <2>1, <2>2, <2>3, <2>4 DEF ModelNext

-----------------------------------------------------------------------------
(* group_kinematic_chains, PartitionMobileBodies, HolonomicMapping and     *)
(* HashKinematics: for any plant, in whatever order its joints come, the   *)
(* mobile groups are what the welds connect, every movable model is in one *)
(* arm with the models it hangs from, and the bodies marked for the hash   *)
(* are those with collision geometry at or below them.                     *)
THEOREM StructureFound == ModelSpec => []PassesFindStructure
<1> DEFINE Found == GroupsFound /\ ArmsFound /\ MarksFound /\ ConversionsFound
<1>1. ModelInit => Found
  BY GroupsFoundInit, ArmsFoundInit, MarksFoundInit, ConversionsFoundInit
<1>2. Found /\ [ModelNext]_modelVars => Found'
  BY GroupsFoundStep, ArmsFoundStep, MarksFoundStep, ConversionsFoundStep
<1>3. Found => PassesFindStructure
  <2> SUFFICES ASSUME Found, building = "ready" PROVE PassesFindStructure
    BY DEF PassesFindStructure
  <2>1. /\ LET closed == {S \in SUBSET PlantBodies : WeldsStayIn(S)}
           IN {groups[k] : k \in DOMAIN groups} =
                {WeldReach(b, closed) : b \in PlantBodies}
        /\ \A a, b \in DOMAIN groups : a # b => groups[a] \cap groups[b] = {}
    BY GroupsAreWelded
  <2>2. \A m \in MovableModels : m \in DOMAIN plant.models /\ PositionsOf(m) # {}
    BY MasksMapped DEF ConversionsFound, MaskFacts
  <2>3. \A m \in MovableModels : /\ Cardinality(ArmOf(m)) = 1
                                /\ \/ ParentModel(m) \in env
                                   \/ ArmOf(ParentModel(m)) = ArmOf(m)
    BY <2>2, ArmsAreSingle
  <2>4. marked = {World} \cup {b \in PlantBodies \ {World} :
                               \E c \in plant.collision \ {World} :
                                 \E k \in DOMAIN Above(c) : Above(c)[k] = b}
    BY MarksAreCarriers
  <2> QED BY <2>1, <2>3, <2>4 DEF PassesFindStructure
<1> QED BY <1>1, <1>2, <1>3, PTL DEF ModelSpec

(* HolonomicMapping and RobotModel: for any plant, couplers, values and    *)
(* calls, reducing undoes lifting, lifted configurations obey their        *)
(* couplers, idle models take the positions of the reference and no others *)
(* do, and the way through system configurations ends where lifting the    *)
(* whole does.                                                             *)
THEOREM ConversionsAgree == ModelSpec => []ConfigurationsCarryOver
<1>1. ConversionsFound => ConfigurationsCarryOver
  BY DEF ConversionsFound, CarriesOver, ConfigurationsCarryOver
<1> QED BY <1>1, ConversionsFoundInit, ConversionsFoundStep, PTL DEF ModelSpec

=============================================================================
