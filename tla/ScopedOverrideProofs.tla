------------------------ MODULE ScopedOverrideProofs ------------------------
(***************************************************************************)
(* Proofs about ScopedOverride, for any number of requests: as long as no  *)
(* owner was stored over another, every setting belongs to the one request *)
(* whose scope manages it, so every destructor finds its setting mutable;  *)
(* a request plans under the options it has set, and what nobody owns has  *)
(* its default value; and no circle of waiting requests closes.            *)
(***************************************************************************)
EXTENDS ScopedOverride, SequenceTheorems, TLAPS

Instructions == [op : {"acquire", "set", "move", "plan"}, on : Targets]

LEMMA EachType ==
    ASSUME NEW op \in {"acquire", "set", "move"}, NEW s \in Seq(Targets)
    PROVE  Each(op, s) \in Seq([op : {"acquire", "set", "move"}, on : Targets])
<1> DEFINE I == [op : {"acquire", "set", "move"}, on : Targets]
<1>1. Each(op, s) \in [1..Len(s) -> I]
  BY DEF Each
<1>2. Len(s) \in Nat
  OBVIOUS
<1> HIDE DEF I
<1>3. Each(op, s) \in UNION {[1..n -> I] : n \in Nat}
  BY <1>1, <1>2
<1>4. Each(op, s) \in Seq(I)
  BY <1>3, SeqDef, Zenon
<1> QED
  BY <1>4 DEF I

(* The calls of a request before it plans. *)
LEMMA CollisionProgramType ==
    ASSUME NEW a \in Asks
    PROVE  CollisionProgram(a) \in Seq([op : {"acquire", "set", "move"}, on : Targets])
<1> DEFINE I == [op : {"acquire", "set", "move"}, on : Targets]
           s == <<"padding", "filter", "shapes">>
           u == <<"shapes", "padding", "filter">>
<1>1. s \in Seq(Targets) /\ u \in Seq(Targets)
  BY DEF Targets, CollisionTargets, LimitTargets
<1>2. /\ Each("acquire", s) \in Seq(I) /\ Each("set", u) \in Seq(I)
      /\ Each("move", s) \in Seq(I) /\ <<>> \in Seq(I)
  <2> HIDE DEF s, u
  <2> QED
    BY <1>1, EachType, EmptySeq
<1> HIDE DEF I, s, u
<1>3. (IF a.collision THEN Each("set", u) ELSE <<>>) \in Seq(I)
  BY <1>2
<1>4. \A x, y, z \in Seq(I) : x \o y \o z \in Seq(I)
  OBVIOUS
<1>5. Each("acquire", s) \o (IF a.collision THEN Each("set", u) ELSE <<>>)
      \o Each("move", s) \in Seq(I)
  BY <1>2, <1>3, <1>4
<1> QED
  BY <1>5 DEF CollisionProgram, I, s, u

LEMMA LimitsProgramType ==
    ASSUME NEW a \in Asks
    PROVE  LimitsProgram(a) \in Seq([op : {"acquire", "set", "move"}, on : Targets])
<1> DEFINE I == [op : {"acquire", "set", "move"}, on : Targets]
           s == <<"cartesian", "spline">>
<1>1. s \in Seq(Targets)
  BY DEF Targets, LimitTargets
<1>2. LimitsSet[a.limits] \in Seq(Targets)
  <2>1. a.limits \in {"none", "factors", "cartesian"}
    BY DEF Asks
  <2>2. <<>> \in Seq(Targets) /\ <<"spline">> \in Seq(Targets)
        /\ <<"spline", "cartesian">> \in Seq(Targets)
    BY DEF Targets, LimitTargets
  <2>3. CASE a.limits = "none"         BY <2>2, <2>3 DEF LimitsSet
  <2>4. CASE a.limits = "factors"      BY <2>2, <2>4 DEF LimitsSet
  <2>5. CASE a.limits = "cartesian"    BY <2>2, <2>5 DEF LimitsSet
  <2> QED
    BY <2>1, <2>3, <2>4, <2>5
<1>3. /\ Each("acquire", s) \in Seq(I)
      /\ Each("set", LimitsSet[a.limits]) \in Seq(I)
      /\ Each("move", s) \in Seq(I)
  <2> HIDE DEF s
  <2> QED
    BY <1>1, <1>2, EachType
<1> HIDE DEF I, s
<1>4. \A x, y, z \in Seq(I) : x \o y \o z \in Seq(I)
  OBVIOUS
<1>5. Each("acquire", s) \o Each("set", LimitsSet[a.limits]) \o Each("move", s)
      \in Seq(I)
  BY <1>3, <1>4
<1> QED
  BY <1>5 DEF LimitsProgram, I, s

(* Every instruction before the plan has a successor, and each is a call on  *)
(* a setting.                                                                *)
LEMMA ProgramShape ==
    ASSUME NEW a \in Asks
    PROVE  /\ Program(a) \in Seq(Instructions)
           /\ 1 \in DOMAIN Program(a)
           /\ \A i \in DOMAIN Program(a) :
                 Program(a)[i].op # "plan" => i + 1 \in DOMAIN Program(a)
<1> DEFINE I == [op : {"acquire", "set", "move"}, on : Targets]
           c == CollisionProgram(a)
           l == IF a.kind = "solve" THEN LimitsProgram(a) ELSE <<>>
           e == [op |-> "plan", on |-> "padding"]
<1>1. c \in Seq(I) /\ l \in Seq(I)
  BY CollisionProgramType, LimitsProgramType, EmptySeq
<1>2. I \subseteq Instructions /\ e \in Instructions /\ e.op = "plan"
  BY DEF Instructions, Targets, CollisionTargets
<1> HIDE DEF I, c, l, e
<1>3. c \o l \in Seq(Instructions)
  BY <1>1, <1>2
<1>4. (c \o l) \o <<e>> \in Seq(Instructions)
  BY <1>2, <1>3
<1>5. \A p \in Seq(Instructions) :
         /\ 1 \in DOMAIN (p \o <<e>>)
         /\ \A i \in DOMAIN (p \o <<e>>) :
               (p \o <<e>>)[i].op # "plan" => i + 1 \in DOMAIN (p \o <<e>>)
  BY <1>2
<1>6. Program(a) = (c \o l) \o <<e>>
  BY DEF Program, c, l, e
<1> QED
  BY <1>3, <1>4, <1>5, <1>6

(* Where a request stands in the middle of a call, its instruction is that  *)
(* call, and a scope that is being destroyed exists.                        *)
InCall == \A r \in Requests :
    /\ point[r] \in {"storing", "waiting"} => Now(r).op \in {"acquire", "move"}
    /\ point[r] = "applying" => Now(r).op = "set"
    /\ point[r] \in {"reapplying", "releasing"} => scopes[r] # {}

(* The owner of a setting is the one request whose scope manages it, and no  *)
(* destructor has thrown, unless an owner was stored over another.           *)
OwnedByItsScope ==
    ~raced => /\ \A r \in Requests, t \in Targets : owner[t] = r <=> t \in scopes[r]
              /\ ~terminated

Inv == TypeOK /\ InCall /\ OwnedByItsScope

LEMMA InitInv == Init => Inv
<1> SUFFICES ASSUME Init PROVE Inv
  OBVIOUS
<1>1. \A r \in Requests : step[r] \in DOMAIN Program(ask[r])
  BY ProgramShape DEF Init
<1>2. TypeOK
  BY <1>1 DEF Init, TypeOK, Points
<1>3. InCall
  BY DEF Init, InCall
<1>4. OwnedByItsScope
  BY ConstantsAssumption DEF Init, OwnedByItsScope
<1> QED
  BY <1>2, <1>3, <1>4 DEF Inv

LEMMA NowType ==
    ASSUME TypeOK, NEW r \in Requests
    PROVE  Now(r) \in Instructions
BY ProgramShape DEF TypeOK, Now

(* A request that is not yet planning may go to its next instruction. *)
LEMMA AdvanceType ==
    ASSUME TypeOK, NEW r \in Requests, Now(r).op # "plan", Advance(r),
           ask' = ask
    PROVE  /\ point' \in [Requests -> Points]
           /\ step' \in [Requests -> Nat]
           /\ \A q \in Requests : step'[q] \in DOMAIN Program(ask'[q])
<1>1. step[r] + 1 \in DOMAIN Program(ask[r])
  BY ProgramShape DEF TypeOK, Now
<1> QED
  BY <1>1 DEF TypeOK, Points, Advance, Go

LEMMA LatestType ==
    ASSUME TypeOK, NEW r \in Requests, scopes[r] # {}
    PROVE  Latest(r) \in scopes[r] /\ Latest(r) \in Targets
<1> DEFINE IsLatest(t) == t \in scopes[r] /\ \A u \in scopes[r] : Position(u) <= Position(t)
<1>1. /\ Position("padding") = 1 /\ Position("filter") = 2 /\ Position("shapes") = 3
      /\ Position("cartesian") = 4 /\ Position("spline") = 5
  BY DEF Position, Order
<1>2. scopes[r] \subseteq {"padding", "filter", "shapes", "cartesian", "spline"}
  BY DEF TypeOK, Targets, CollisionTargets, LimitTargets
<1>3. \E t \in scopes[r] : IsLatest(t)
  <2>1. CASE "spline" \in scopes[r]
    BY <1>1, <1>2, <2>1
  <2>2. CASE "spline" \notin scopes[r] /\ "cartesian" \in scopes[r]
    BY <1>1, <1>2, <2>2
  <2>3. CASE scopes[r] \cap {"spline", "cartesian"} = {} /\ "shapes" \in scopes[r]
    BY <1>1, <1>2, <2>3
  <2>4. CASE /\ scopes[r] \cap {"spline", "cartesian", "shapes"} = {}
             /\ "filter" \in scopes[r]
    BY <1>1, <1>2, <2>4
  <2>5. CASE scopes[r] = {"padding"}
    BY <1>1, <2>5
  <2> QED
    BY <1>2, <2>1, <2>2, <2>3, <2>4, <2>5
<1>4. Latest(r) \in scopes[r]
  BY <1>3 DEF Latest
<1> QED
  BY <1>4 DEF TypeOK

(* Every variable keeps its type, and a request its place in its program. *)
LEMMA TypeStep == TypeOK /\ InCall /\ [Next]_vars => TypeOK'
<1> SUFFICES ASSUME TypeOK, InCall, [Next]_vars PROVE TypeOK'
  OBVIOUS
<1>1. CASE UNCHANGED vars
  BY <1>1 DEF vars, shared, TypeOK
<1>2. ASSUME NEW r \in Requests, ask' = ask,
             (Advance(r) /\ Now(r).op # "plan") \/ (step' = step /\ point' \in [Requests -> Points]),
             owner' \in [Targets -> Requests \cup {None}],
             overridden' \in [Targets -> BOOLEAN],
             value' \in [Targets -> Requests \cup {Default}],
             saved' \in [Targets -> Requests \cup {Default, None}],
             active' \in [Targets -> Requests \cup {Default}],
             scopes' \in [Requests -> SUBSET Targets],
             raced' \in BOOLEAN, terminated' \in BOOLEAN
      PROVE  TypeOK'
  <2>1. /\ point' \in [Requests -> Points]
        /\ step' \in [Requests -> Nat]
        /\ \A q \in Requests : step'[q] \in DOMAIN Program(ask'[q])
    BY <1>2, AdvanceType DEF TypeOK
  <2> QED
    BY <1>2, <2>1 DEF TypeOK, shared
<1>3. /\ owner \in [Targets -> Requests \cup {None}]
      /\ overridden \in [Targets -> BOOLEAN]
      /\ value \in [Targets -> Requests \cup {Default}]
      /\ saved \in [Targets -> Requests \cup {Default, None}]
      /\ active \in [Targets -> Requests \cup {Default}]
      /\ point \in [Requests -> Points]
      /\ scopes \in [Requests -> SUBSET Targets]
      /\ raced \in BOOLEAN /\ terminated \in BOOLEAN
      /\ \A r \in Requests : Now(r) \in Instructions
  BY NowType DEF TypeOK
<1>4. ASSUME NEW r \in Requests,
             Begin(r) \/ Wake(r) \/ TimeOut(r) \/ OptionsThrow(r) \/ Plan(r) \/ Answer(r)
      PROVE  TypeOK'
  BY <1>2, <1>3, <1>4 DEF Begin, Wake, TimeOut, OptionsThrow, Plan, Answer, Go, shared, Points
<1>5. ASSUME NEW r \in Requests, TestOwned(r) PROVE TypeOK'
  <2>1. /\ ask' = ask
        /\ (Advance(r) /\ Now(r).op # "plan") \/ (step' = step /\ point' \in [Requests -> Points])
    <3>1. Now(r).op # "plan"
      BY <1>5 DEF TestOwned, At
    <3>2. CASE Advance(r)
      BY <1>5, <3>1, <3>2 DEF TestOwned
    <3>3. CASE UNCHANGED step /\ (Go(r, "storing") \/ Go(r, "waiting"))
      BY <1>3, <1>5, <3>3 DEF TestOwned, Go, Points
    <3> QED
      BY <1>5, <3>2, <3>3 DEF TestOwned
  <2> QED
    BY <1>2, <1>3, <1>5, <2>1 DEF TestOwned, shared
<1>6. ASSUME NEW r \in Requests, Store(r) PROVE TypeOK'
  <2>1. Advance(r) /\ Now(r).op # "plan"
    BY <1>6 DEF Store, AtPoint, InCall
  <2>2. /\ owner' \in [Targets -> Requests \cup {None}]
        /\ scopes' \in [Requests -> SUBSET Targets]
    BY <1>3, <1>6 DEF Store, Instructions
  <2>3. raced' \in BOOLEAN
    BY <1>6 DEF Store
  <2> QED
    BY <1>2, <1>3, <1>6, <2>1, <2>2, <2>3 DEF Store
<1>7. ASSUME NEW r \in Requests, Set(r) PROVE TypeOK'
  <2>1. point' \in [Requests -> Points]
    BY <1>3, <1>7 DEF Set, Go, Points
  <2>2. /\ overridden' \in [Targets -> BOOLEAN]
        /\ value' \in [Targets -> Requests \cup {Default}]
        /\ saved' \in [Targets -> Requests \cup {Default, None}]
    <3>1. CASE UNCHANGED <<saved, value, overridden>>
      BY <1>3, <3>1
    <3>2. Now(r).on \in Targets
      BY <1>3 DEF Instructions
    <3>3. CASE /\ saved' = [saved EXCEPT ![Now(r).on] = value[Now(r).on]]
               /\ value' = [value EXCEPT ![Now(r).on] = r]
               /\ overridden' = [overridden EXCEPT ![Now(r).on] = TRUE]
      BY <1>3, <3>2, <3>3
    <3> QED
      BY <1>7, <3>1, <3>3 DEF Set
  <2> QED
    BY <1>2, <1>3, <1>7, <2>1, <2>2 DEF Set
<1>8. ASSUME NEW r \in Requests, Apply(r) PROVE TypeOK'
  <2>1. Advance(r) /\ Now(r).op # "plan"
    BY <1>8 DEF Apply, AtPoint, InCall
  <2>2. active' \in [Targets -> Requests \cup {Default}]
    BY <1>3, <1>8 DEF Apply, Instructions
  <2> QED
    BY <1>2, <1>3, <1>8, <2>1, <2>2 DEF Apply
<1>9. ASSUME NEW r \in Requests, ApplyThrows(r) PROVE TypeOK'
  <2>1. point' \in [Requests -> Points]
    BY <1>3, <1>9 DEF ApplyThrows, Go, Points
  <2>2. active' \in [Targets -> Requests \cup {Default}]
    BY <1>3, <1>9 DEF ApplyThrows, Instructions
  <2> QED
    BY <1>2, <1>3, <1>9, <2>1, <2>2 DEF ApplyThrows
<1>10. ASSUME NEW r \in Requests, Restore(r) PROVE TypeOK'
  <2>1. Latest(r) \in Targets
    BY <1>10, LatestType DEF Restore
  <2>2. /\ point' \in [Requests -> Points]
        /\ terminated' \in BOOLEAN
    BY <1>3, <1>10 DEF Restore, Terminate, Go, Points
  <2>3. /\ overridden' \in [Targets -> BOOLEAN]
        /\ value' \in [Targets -> Requests \cup {Default}]
        /\ saved' \in [Targets -> Requests \cup {Default, None}]
    <3>1. CASE UNCHANGED <<value, saved, overridden>>
      BY <1>3, <3>1
    <3>2. CASE RestoreValue(Latest(r))
      <4>1. overridden' \in [Targets -> BOOLEAN]
        BY <1>3, <2>1, <3>2 DEF RestoreValue
      <4>2. saved' \in [Targets -> Requests \cup {Default, None}]
        BY <1>3, <2>1, <3>2 DEF RestoreValue
      <4>3. value' \in [Targets -> Requests \cup {Default}]
        BY <1>3, <2>1, <3>2 DEF RestoreValue
      <4> QED
        BY <4>1, <4>2, <4>3
    <3> QED
      BY <1>10, <3>1, <3>2 DEF Restore
  <2> QED
    BY <1>2, <1>3, <1>10, <2>2, <2>3 DEF Restore
<1>11. ASSUME NEW r \in Requests, Reapply(r) PROVE TypeOK'
  <2>1. Latest(r) \in Targets
    BY <1>11, LatestType DEF Reapply, AtPoint, InCall
  <2>2. /\ point' \in [Requests -> Points]
        /\ active' \in [Targets -> Requests \cup {Default}]
    BY <1>3, <1>11, <2>1 DEF Reapply, Go, Points
  <2> QED
    BY <1>2, <1>3, <1>11, <2>2 DEF Reapply
<1>12. ASSUME NEW r \in Requests, Release(r) PROVE TypeOK'
  <2>1. Latest(r) \in Targets
    BY <1>12, LatestType DEF Release, AtPoint, InCall
  <2>2. /\ point' \in [Requests -> Points]
        /\ owner' \in [Targets -> Requests \cup {None}]
        /\ scopes' \in [Requests -> SUBSET Targets]
    BY <1>3, <1>12, <2>1 DEF Release, Terminate, Go, Points
  <2>3. terminated' \in BOOLEAN
    BY <1>3, <1>12 DEF Release, Terminate
  <2> QED
    BY <1>2, <1>3, <1>12, <2>2, <2>3 DEF Release
<1> QED
  BY <1>1, <1>4, <1>5, <1>6, <1>7, <1>8, <1>9, <1>10, <1>11, <1>12 DEF Next

(* A request that stops in a call stops at the instruction that makes it.    *)
LEMMA InCallStep == TypeOK /\ InCall /\ [Next]_vars => InCall'
<1> SUFFICES ASSUME TypeOK, InCall, [Next]_vars PROVE InCall'
  OBVIOUS
<1> USE DEF TypeOK, Points, InCall, Now, Go, Advance
<1>1. CASE UNCHANGED vars
  BY <1>1 DEF vars, shared
<1>2. ASSUME NEW r \in Requests,
             Begin(r) \/ Wake(r) \/ TimeOut(r) \/ OptionsThrow(r) \/ Plan(r) \/ Answer(r)
      PROVE  InCall'
  BY <1>2 DEF Begin, Wake, TimeOut, OptionsThrow, Plan, Answer, AtPoint, At, shared
<1>3. ASSUME NEW r \in Requests, TestOwned(r) PROVE InCall'
  BY <1>3 DEF TestOwned, At
<1>4. ASSUME NEW r \in Requests, Store(r) PROVE InCall'
  BY <1>4 DEF Store
<1>5. ASSUME NEW r \in Requests, Set(r) PROVE InCall'
  BY <1>5 DEF Set, At
<1>6. ASSUME NEW r \in Requests, Apply(r) \/ ApplyThrows(r) PROVE InCall'
  BY <1>6 DEF Apply, ApplyThrows
<1>7. ASSUME NEW r \in Requests, Restore(r) PROVE InCall'
  BY <1>7 DEF Restore, Terminate
<1>8. ASSUME NEW r \in Requests, Reapply(r) PROVE InCall'
  BY <1>8 DEF Reapply, AtPoint
<1>9. ASSUME NEW r \in Requests, Release(r) PROVE InCall'
  BY <1>9 DEF Release, Terminate
<1> QED
  BY <1>1, <1>2, <1>3, <1>4, <1>5, <1>6, <1>7, <1>8, <1>9 DEF Next

(* Only the store of an owner and a release move ownership; a destructor     *)
(* finds its setting owned by its own request.                               *)
LEMMA OwnedStep == Inv /\ [Next]_vars => OwnedByItsScope'
<1> SUFFICES ASSUME Inv, [Next]_vars PROVE OwnedByItsScope'
  OBVIOUS
<1> USE ConstantsAssumption DEF Inv, OwnedByItsScope
<1>1. CASE UNCHANGED vars
  BY <1>1 DEF vars, shared
<1>2. ASSUME NEW r \in Requests,
             \/ Begin(r) \/ TestOwned(r) \/ Wake(r) \/ TimeOut(r)
             \/ Set(r) \/ OptionsThrow(r) \/ Apply(r) \/ ApplyThrows(r)
             \/ Plan(r) \/ Reapply(r) \/ Answer(r)
      PROVE  OwnedByItsScope'
  BY <1>2 DEF Begin, TestOwned, Wake, TimeOut, Set, OptionsThrow, Apply, ApplyThrows,
     Plan, Reapply, Answer, shared
<1>3. ASSUME NEW r \in Requests, Store(r) PROVE OwnedByItsScope'
  <2>1. Now(r).on \in Targets
    BY NowType DEF Instructions
  <2>2. ~raced' => ~raced /\ owner[Now(r).on] \in {None, r}
    BY <1>3 DEF Store
  <2>3. ~raced => \A q \in Requests, t \in Targets :
                     owner[t] = q <=> t \in scopes[q]
    OBVIOUS
  <2>4. ~raced' => \A q \in Requests, t \in Targets :
                     owner'[t] = q <=> t \in scopes'[q]
    <3>1. /\ owner' = [owner EXCEPT ![Now(r).on] = r]
          /\ scopes' = [scopes EXCEPT ![r] = @ \cup {Now(r).on}]
      BY <1>3 DEF Store
    <3>2. /\ owner \in [Targets -> Requests \cup {None}]
          /\ scopes \in [Requests -> SUBSET Targets]
      BY DEF TypeOK
    <3> HIDE DEF Inv
    <3> QED
      BY <2>1, <2>2, <2>3, <3>1, <3>2
  <2>5. ~raced' => ~terminated'
    BY <1>3, <2>2 DEF Store
  <2> QED
    BY <2>4, <2>5
<1>4. ASSUME NEW r \in Requests, Restore(r) PROVE OwnedByItsScope'
  <2>1. Latest(r) \in scopes[r] /\ Latest(r) \in Targets
    BY <1>4, LatestType DEF Restore
  <2>2. ~raced => Mutable(r, Latest(r))
    BY <2>1 DEF Mutable
  <2> QED
    BY <1>4, <2>2 DEF Restore
<1>5. ASSUME NEW r \in Requests, Release(r) PROVE OwnedByItsScope'
  <2>1. Latest(r) \in scopes[r] /\ Latest(r) \in Targets
    BY <1>5, LatestType DEF Release, AtPoint, InCall
  <2>2. ~raced => Mutable(r, Latest(r))
    BY <2>1 DEF Mutable
  <2> QED
    BY <1>5, <2>1, <2>2 DEF Release, TypeOK
<1> QED
  BY <1>1, <1>2, <1>3, <1>4, <1>5 DEF Next

(* Type correctness: every variable keeps its type, and a request stays      *)
(* inside the sequence of calls that its options ask for.                    *)
THEOREM TypeCorrect == Spec => []TypeOK
<1>1. Inv /\ [Next]_vars => Inv'
  BY TypeStep, InCallStep, OwnedStep DEF Inv
<1>2. Inv => TypeOK
  BY DEF Inv
<1> QED
  BY InitInv, <1>1, <1>2, PTL DEF Spec
-----------------------------------------------------------------------------
(* The values.  A request holds what its program has acquired, a setting is  *)
(* overridden exactly when its owner has set it, and what is applied lags    *)
(* behind only inside the call of a callback.                                *)

Running(r) == point[r] \in {"idle", "step", "waiting", "storing", "applying"}

SetBy(a, n, t) == \E i \in 1 .. n : Program(a)[i] = [op |-> "set", on |-> t]

\* The number of instructions a running request has carried out.
Done(r) == IF point[r] = "applying" THEN step[r] ELSE step[r] - 1

Held(r) == \A i \in 1 .. step[r] - 1 :
    Program(ask[r])[i].op = "acquire" => Program(ask[r])[i].on \in scopes[r]

Lagging(r, t) == \/ point[r] = "applying" /\ t = Now(r).on
                 \/ point[r] = "reapplying" /\ t = Latest(r)

Clean(t) == value[t] = Default /\ active[t] = Default
            /\ saved[t] = None /\ ~overridden[t]

\* What is true of a setting that r manages.
Managed(r, t) ==
    /\ overridden[t] => saved[t] = Default /\ value[t] = r /\ HasCallbacks(r, t)
    /\ ~overridden[t] => saved[t] = None /\ value[t] = Default
    /\ ~overridden[t] /\ ~Lagging(r, t) => active[t] = Default
    /\ point[r] \in {"reapplying", "releasing"} /\ t = Latest(r) => ~overridden[t]
    /\ Running(r) => (overridden[t] <=> SetBy(ask[r], Done(r), t))
    /\ Running(r) /\ overridden[t] /\ ~Lagging(r, t) => active[t] = r

Values ==
    /\ \A t \in Targets : owner[t] = None => Clean(t)
    /\ \A r \in Requests :
          /\ Running(r) => Held(r)
          /\ \A t \in scopes[r] : Managed(r, t)

ValuesInv == Inv /\ (~raced => Values)

\* Where the program sets a setting, it has acquired it and has a callback.
Guarded(a, s) == \A i \in DOMAIN s : s[i].op = "set" =>
    /\ \E j \in 1 .. i - 1 : s[j] = [op |-> "acquire", on |-> s[i].on]
    /\ IF s[i].on \in CollisionTargets THEN a.collision ELSE a.limits # "none"

LEMMA EachIs ==
    ASSUME NEW op, NEW s \in Seq(Targets)
    PROVE  /\ DOMAIN Each(op, s) = DOMAIN s
           /\ \A i \in DOMAIN s : Each(op, s)[i] = [op |-> op, on |-> s[i]]
BY DEF Each

LEMMA GuardedConcat ==
    ASSUME NEW a, NEW s \in Seq(Instructions), NEW u \in Seq(Instructions),
           Guarded(a, s), Guarded(a, u)
    PROVE  Guarded(a, s \o u)
<1> SUFFICES ASSUME NEW i \in DOMAIN (s \o u), (s \o u)[i].op = "set"
             PROVE  /\ \E j \in 1 .. i - 1 :
                          (s \o u)[j] = [op |-> "acquire", on |-> (s \o u)[i].on]
                    /\ IF (s \o u)[i].on \in CollisionTargets
                       THEN a.collision ELSE a.limits # "none"
  BY DEF Guarded
<1>1. CASE i \in DOMAIN s
  <2>1. (s \o u)[i] = s[i]
    BY <1>1
  <2>2. PICK j \in 1 .. i - 1 : s[j] = [op |-> "acquire", on |-> s[i].on]
    BY <1>1, <2>1 DEF Guarded
  <2>3. (s \o u)[j] = s[j]
    BY <1>1, <2>2
  <2> QED
    BY <1>1, <2>1, <2>2, <2>3 DEF Guarded
<1>2. CASE i \notin DOMAIN s
  <2>1. i - Len(s) \in DOMAIN u /\ (s \o u)[i] = u[i - Len(s)]
    BY <1>2
  <2>2. PICK j \in 1 .. i - Len(s) - 1 :
               u[j] = [op |-> "acquire", on |-> u[i - Len(s)].on]
    BY <2>1 DEF Guarded
  <2>3. j + Len(s) \in 1 .. i - 1 /\ (s \o u)[j + Len(s)] = u[j]
    BY <2>1, <2>2
  <2>4. /\ (s \o u)[j + Len(s)] = [op |-> "acquire", on |-> (s \o u)[i].on]
        /\ IF (s \o u)[i].on \in CollisionTargets THEN a.collision ELSE a.limits # "none"
    BY <2>1, <2>2, <2>3 DEF Guarded
  <2> QED
    BY <2>3, <2>4
<1> QED
  BY <1>1, <1>2

(* One half of a program: acquire all, set some of them, move all. *)
LEMMA GuardedHalf ==
    ASSUME NEW a, NEW s \in Seq(Targets), NEW u \in Seq(Targets),
           \A i \in DOMAIN u : \E j \in DOMAIN s : s[j] = u[i],
           \A i \in DOMAIN u : IF u[i] \in CollisionTargets
                               THEN a.collision ELSE a.limits # "none"
    PROVE  Guarded(a, Each("acquire", s) \o Each("set", u) \o Each("move", s))
<1> DEFINE x == Each("acquire", s)
           y == Each("set", u)
           z == Each("move", s)
<1>1. /\ x \in Seq(Instructions) /\ y \in Seq(Instructions) /\ z \in Seq(Instructions)
  <2>1. \A op \in {"acquire", "set", "move"}, v \in Seq(Targets) :
           Each(op, v) \in Seq(Instructions)
    <3>1. [op : {"acquire", "set", "move"}, on : Targets] \subseteq Instructions
      BY DEF Instructions
    <3>2. \A v \in Seq([op : {"acquire", "set", "move"}, on : Targets]) :
             v \in Seq(Instructions)
      <4> DEFINE I == [op : {"acquire", "set", "move"}, on : Targets]
      <4> HIDE DEF I
      <4>1. I \subseteq Instructions
        BY <3>1 DEF I
      <4>2. \A v \in Seq(I) : v \in Seq(Instructions)
        BY <4>1
      <4> QED
        BY <4>2 DEF I
    <3> QED
      BY <3>2, EachType
  <2> QED
    BY <2>1
<1>2. /\ DOMAIN x = DOMAIN s /\ \A i \in DOMAIN s : x[i] = [op |-> "acquire", on |-> s[i]]
      /\ DOMAIN y = DOMAIN u /\ \A i \in DOMAIN u : y[i] = [op |-> "set", on |-> u[i]]
      /\ DOMAIN z = DOMAIN s /\ \A i \in DOMAIN s : z[i] = [op |-> "move", on |-> s[i]]
  BY EachIs
<1> HIDE DEF x, y, z
<1>3. Guarded(a, x \o y)
  <2> SUFFICES ASSUME NEW i \in DOMAIN (x \o y), (x \o y)[i].op = "set"
               PROVE  /\ \E j \in 1 .. i - 1 :
                            (x \o y)[j] = [op |-> "acquire", on |-> (x \o y)[i].on]
                      /\ IF (x \o y)[i].on \in CollisionTargets
                         THEN a.collision ELSE a.limits # "none"
    BY DEF Guarded
  <2>1. i \notin DOMAIN x
    <3>1. i \in DOMAIN x => (x \o y)[i] = x[i]
      BY <1>1
    <3> QED
      BY <1>2, <3>1
  <2>2. i - Len(x) \in DOMAIN u /\ (x \o y)[i] = y[i - Len(x)]
    BY <1>1, <1>2, <2>1
  <2>3. PICK j \in DOMAIN s : s[j] = u[i - Len(x)]
    BY <2>2
  <2>4. j \in 1 .. i - 1 /\ (x \o y)[j] = x[j]
    BY <1>1, <1>2, <2>1, <2>2, <2>3
  <2> QED
    BY <1>2, <2>2, <2>3, <2>4
<1>4. Guarded(a, z)
  BY <1>2 DEF Guarded
<1>5. x \o y \in Seq(Instructions)
  BY <1>1
<1>6. Guarded(a, (x \o y) \o z)
  BY <1>1, <1>3, <1>4, <1>5, GuardedConcat
<1> QED
  BY <1>6 DEF x, y, z

(* No program sets what it has not acquired, or without a callback.          *)
LEMMA ProgramGuarded ==
    ASSUME NEW a \in Asks
    PROVE  Guarded(a, Program(a))
<1> DEFINE c == CollisionProgram(a)
           l == IF a.kind = "solve" THEN LimitsProgram(a) ELSE <<>>
           e == [op |-> "plan", on |-> "padding"]
           s == <<"padding", "filter", "shapes">>
           u == <<"shapes", "padding", "filter">>
           v == <<"cartesian", "spline">>
<1>1. /\ s \in Seq(Targets) /\ u \in Seq(Targets) /\ v \in Seq(Targets)
      /\ <<>> \in Seq(Targets)
  BY DEF Targets, CollisionTargets, LimitTargets
<1>2. Guarded(a, c)
  <2>1. CASE a.collision
    <3>1. \A i \in DOMAIN u : \E j \in DOMAIN s : s[j] = u[i]
      <4>1. /\ DOMAIN u = 1 .. 3 /\ DOMAIN s = 1 .. 3
            /\ s[3] = u[1] /\ s[1] = u[2] /\ s[2] = u[3]
        OBVIOUS
      <4> HIDE DEF s, u
      <4> QED
        BY <4>1
    <3>2. \A i \in DOMAIN u : u[i] \in CollisionTargets
      BY DEF CollisionTargets
    <3>3. Guarded(a, Each("acquire", s) \o Each("set", u) \o Each("move", s))
      <4> HIDE DEF s, u
      <4> QED
        BY <1>1, <2>1, <3>1, <3>2, GuardedHalf
    <3> QED
      BY <2>1, <3>3 DEF CollisionProgram
  <2>2. CASE ~a.collision
    <3>1. Guarded(a, Each("acquire", s) \o Each("set", <<>>) \o Each("move", s))
      <4> DEFINE w == <<>>
      <4>1. w \in Seq(Targets) /\ DOMAIN w = {}
        BY <1>1
      <4> HIDE DEF s, w
      <4>2. Guarded(a, Each("acquire", s) \o Each("set", w) \o Each("move", s))
        BY <1>1, <4>1, GuardedHalf
      <4> QED
        BY <4>2 DEF w
    <3>2. Each("set", <<>>) = <<>>
      BY DEF Each
    <3> QED
      BY <2>2, <3>1, <3>2 DEF CollisionProgram
  <2> QED
    BY <2>1, <2>2
<1>3. Guarded(a, LimitsProgram(a))
  <2>1. a.limits \in {"none", "factors", "cartesian"}
    BY DEF Asks
  <2>2. /\ LimitsSet[a.limits] \in Seq(Targets)
        /\ \A i \in DOMAIN LimitsSet[a.limits] :
              /\ \E j \in DOMAIN v : v[j] = LimitsSet[a.limits][i]
              /\ LimitsSet[a.limits][i] \notin CollisionTargets
              /\ a.limits # "none"
    <3>1. /\ DOMAIN v = 1 .. 2 /\ v[1] = "cartesian" /\ v[2] = "spline"
      OBVIOUS
    <3>2. CASE a.limits = "none"
      BY <1>1, <3>2 DEF LimitsSet
    <3>3. CASE a.limits = "factors"
      <4>1. LimitsSet[a.limits] = <<"spline">>
        BY <3>3 DEF LimitsSet
      <4> QED
        BY <3>1, <3>3, <4>1 DEF CollisionTargets, Targets, LimitTargets
    <3>4. CASE a.limits = "cartesian"
      <4>1. LimitsSet[a.limits] = <<"spline", "cartesian">>
        BY <3>4 DEF LimitsSet
      <4> QED
        BY <3>1, <3>4, <4>1 DEF CollisionTargets, Targets, LimitTargets
    <3> QED
      BY <2>1, <3>2, <3>3, <3>4
  <2>3. Guarded(a, Each("acquire", v) \o Each("set", LimitsSet[a.limits])
                   \o Each("move", v))
    <3> HIDE DEF v
    <3> QED
      BY <1>1, <2>2, GuardedHalf
  <2> QED
    BY <2>3 DEF LimitsProgram
<1>4. Guarded(a, <<>>) /\ Guarded(a, <<e>>)
  BY DEF Guarded
<1>5. c \in Seq(Instructions) /\ l \in Seq(Instructions) /\ <<e>> \in Seq(Instructions)
  <2> DEFINE I == [op : {"acquire", "set", "move"}, on : Targets]
  <2>1. c \in Seq(I) /\ l \in Seq(I)
    BY CollisionProgramType, LimitsProgramType, EmptySeq
  <2>2. I \subseteq Instructions /\ e \in Instructions
    BY DEF Instructions, Targets, CollisionTargets
  <2> HIDE DEF I, c, l, e
  <2> QED
    BY <2>1, <2>2
<1>6. Guarded(a, l)
  BY <1>3, <1>4
<1> HIDE DEF c, l, e
<1>7. Guarded(a, c \o l) /\ c \o l \in Seq(Instructions)
  BY <1>2, <1>5, <1>6, GuardedConcat
<1>8. Guarded(a, (c \o l) \o <<e>>)
  BY <1>4, <1>5, <1>7, GuardedConcat
<1> QED
  BY <1>8 DEF Program, c, l, e

LEMMA SetByNext ==
    ASSUME NEW a \in Asks, NEW n \in Nat \ {0}, NEW t \in Targets,
           n \in DOMAIN Program(a)
    PROVE  SetBy(a, n, t) <=> \/ SetBy(a, n - 1, t)
                              \/ Program(a)[n].op = "set" /\ Program(a)[n].on = t
<1>1. Program(a)[n] \in Instructions
  BY ProgramShape
<1>2. Program(a)[n] = [op |-> "set", on |-> t]
         <=> Program(a)[n].op = "set" /\ Program(a)[n].on = t
  BY <1>1 DEF Instructions
<1>3. SetBy(a, n, t) <=> SetBy(a, n - 1, t) \/ Program(a)[n] = [op |-> "set", on |-> t]
  BY DEF SetBy
<1> QED
  BY <1>2, <1>3

(* A step of q that touches only settings which q owns or nobody does leaves *)
(* every other request, and every other setting, as it was.                  *)
LEMMA Elsewhere ==
    ASSUME ValuesInv, ~raced, NEW q \in Requests, NEW U \in SUBSET Targets,
           \A t \in U : owner[t] \in {None, q},
           ask' = ask,
           \A t \in Targets \ U : /\ owner'[t] = owner[t] /\ value'[t] = value[t]
                                  /\ overridden'[t] = overridden[t]
                                  /\ saved'[t] = saved[t] /\ active'[t] = active[t],
           \A r \in Requests \ {q} : /\ point'[r] = point[r] /\ step'[r] = step[r]
                                     /\ scopes'[r] = scopes[r]
    PROVE  /\ \A t \in Targets \ U : owner'[t] = None => Clean(t)'
           /\ \A r \in Requests \ {q} :
                 /\ (Running(r) => Held(r))'
                 /\ \A t \in scopes'[r] : Managed(r, t)'
<1>1. \A t \in Targets \ U : owner'[t] = None => Clean(t)'
  BY DEF ValuesInv, Values, Clean
<1>2. ASSUME NEW r \in Requests \ {q}
      PROVE  /\ (Running(r) => Held(r))'
             /\ \A t \in scopes'[r] : Managed(r, t)'
  <2>1. Running(r) => Held(r)
    BY DEF ValuesInv, Values
  <2>2. (Running(r) => Held(r))'
    BY <2>1 DEF Running, Held
  <2>3. ASSUME NEW t \in scopes[r] PROVE Managed(r, t)'
    <3>1. t \in Targets /\ t \notin U
      BY ConstantsAssumption DEF ValuesInv, Inv, TypeOK, OwnedByItsScope
    <3>2. Latest(r)' = Latest(r)
      BY DEF Latest
    <3>3. Lagging(r, t)' <=> Lagging(r, t)
      BY <3>2 DEF Lagging, Now
    <3>4. HasCallbacks(r, t)' <=> HasCallbacks(r, t)
      BY DEF HasCallbacks
    <3>5. (Running(r)' <=> Running(r)) /\ Done(r)' = Done(r)
      BY DEF Running, Done
    <3>6. Managed(r, t)
      BY DEF ValuesInv, Values
    <3> QED
      BY <3>1, <3>2, <3>3, <3>4, <3>5, <3>6 DEF Managed
  <2> QED
    BY <2>2, <2>3
<1> QED
  BY <1>1, <1>2

(* A step of q that touches no setting, and stops in no call of a callback.  *)
LEMMA QuietStep ==
    ASSUME ValuesInv, ~raced, NEW q \in Requests,
           UNCHANGED shared, UNCHANGED ask, UNCHANGED scopes,
           \A r \in Requests \ {q} : point'[r] = point[r] /\ step'[r] = step[r],
           point[q] \notin {"applying", "reapplying"},
           point'[q] \notin {"applying", "reapplying", "releasing"},
           Running(q)' => Running(q),
           \/ step'[q] = step[q]
           \/ /\ step'[q] = step[q] + 1 /\ Now(q).op # "set"
              /\ Now(q).op = "acquire" => Now(q).on \in scopes[q]
    PROVE  Values'
<1>0. TypeOK /\ Values
  BY DEF ValuesInv, Inv
<1>1. /\ \A t \in Targets : owner'[t] = None => Clean(t)'
      /\ \A r \in Requests \ {q} :
            /\ (Running(r) => Held(r))'
            /\ \A t \in scopes'[r] : Managed(r, t)'
  <2>1. \A t \in {} : owner[t] \in {None, q}
    OBVIOUS
  <2>2. \A t \in Targets \ {} : /\ owner'[t] = owner[t] /\ value'[t] = value[t]
                                /\ overridden'[t] = overridden[t]
                                /\ saved'[t] = saved[t] /\ active'[t] = active[t]
    BY DEF shared
  <2>3. \A r \in Requests \ {q} : /\ point'[r] = point[r] /\ step'[r] = step[r]
                                  /\ scopes'[r] = scopes[r]
    OBVIOUS
  <2>4. {} \in SUBSET Targets /\ ask' = ask
    OBVIOUS
  <2> DEFINE U == {}
  <2> HIDE DEF U
  <2>5. /\ \A t \in Targets \ U : owner'[t] = None => Clean(t)'
        /\ \A r \in Requests \ {q} :
              /\ (Running(r) => Held(r))'
              /\ \A t \in scopes'[r] : Managed(r, t)'
    BY <2>1, <2>2, <2>3, <2>4, Elsewhere DEF U
  <2> QED
    BY <2>5 DEF U
<1>2. /\ step[q] \in Nat \ {0} /\ step[q] \in DOMAIN Program(ask[q])
      /\ ask[q] \in Asks /\ ask'[q] = ask[q] /\ scopes'[q] = scopes[q]
  <2>1. Program(ask[q]) \in Seq(Instructions)
    BY <1>0, ProgramShape DEF TypeOK
  <2> QED
    BY <1>0, <2>1 DEF TypeOK
<1>3. (Running(q) => Held(q))'
  <2> SUFFICES ASSUME Running(q)', NEW i \in 1 .. step'[q] - 1,
                      Program(ask[q])[i].op = "acquire"
               PROVE  Program(ask[q])[i].on \in scopes[q]
    BY <1>2 DEF Held
  <2>1. Running(q) /\ Held(q)
    BY <1>0 DEF Values
  <2>2. i \in 1 .. step[q] - 1 \/ (i = step[q] /\ step'[q] = step[q] + 1)
    BY <1>2
  <2> QED
    BY <2>1, <2>2 DEF Held, Now
<1>4. ASSUME NEW t \in scopes[q] PROVE Managed(q, t)'
  <2>1. t \in Targets /\ Managed(q, t)
    BY <1>0 DEF Values, TypeOK
  <2>2. ~Lagging(q, t) /\ ~Lagging(q, t)'
    BY DEF Lagging
  <2>3. HasCallbacks(q, t)' <=> HasCallbacks(q, t)
    BY DEF HasCallbacks
  <2>4. Running(q)' => (SetBy(ask[q], Done(q), t) <=> SetBy(ask'[q], Done(q)', t))
    <3>1. Done(q) = step[q] - 1 /\ Done(q)' = step'[q] - 1
      BY DEF Done
    <3>2. CASE step'[q] = step[q]
      BY <1>2, <3>1, <3>2
    <3>3. CASE step'[q] = step[q] + 1 /\ Now(q).op # "set"
      <4>1. Done(q)' = step[q]
        BY <1>2, <3>1, <3>3
      <4> QED
        BY <1>2, <2>1, <3>1, <3>3, <4>1, SetByNext DEF Now
    <3> QED
      BY <3>2, <3>3
  <2>5. /\ overridden'[t] = overridden[t] /\ value'[t] = value[t]
        /\ saved'[t] = saved[t] /\ active'[t] = active[t]
    BY DEF shared
  <2> QED
    BY <2>1, <2>2, <2>3, <2>4, <2>5 DEF Managed
<1> QED
  BY <1>1, <1>2, <1>3, <1>4 DEF Values

(* What a request is about to set or to acquire.                             *)
LEMMA NowHolds ==
    ASSUME ValuesInv, ~raced, NEW r \in Requests, point[r] \in {"step", "storing", "applying"}
    PROVE  /\ Now(r) \in Instructions /\ Now(r).on \in Targets
           /\ step[r] \in Nat \ {0} /\ step[r] \in DOMAIN Program(ask[r])
           /\ ask[r] \in Asks
           /\ Now(r).op = "set" => /\ Now(r).on \in scopes[r]
                                   /\ HasCallbacks(r, Now(r).on)
<1>1. TypeOK /\ Held(r)
  BY DEF ValuesInv, Inv, Values, Running
<1>2. Program(ask[r]) \in Seq(Instructions) /\ ask[r] \in Asks
  BY <1>1, ProgramShape DEF TypeOK
<1>3. step[r] \in Nat \ {0} /\ step[r] \in DOMAIN Program(ask[r])
  BY <1>1, <1>2 DEF TypeOK
<1>4. Now(r) \in Instructions /\ Now(r).on \in Targets
  BY <1>1, NowType DEF Instructions
<1>5. ASSUME Now(r).op = "set"
      PROVE  Now(r).on \in scopes[r] /\ HasCallbacks(r, Now(r).on)
  <2>1. Guarded(ask[r], Program(ask[r]))
    BY <1>2, ProgramGuarded
  <2>2. PICK j \in 1 .. step[r] - 1 :
               Program(ask[r])[j] = [op |-> "acquire", on |-> Now(r).on]
    BY <1>3, <1>5, <2>1 DEF Guarded, Now
  <2>3. Now(r).on \in scopes[r]
    BY <1>1, <2>2 DEF Held
  <2>4. IF Now(r).on \in CollisionTargets THEN ask[r].collision ELSE ask[r].limits # "none"
    BY <1>3, <1>5, <2>1 DEF Guarded, Now
  <2> QED
    BY <2>3, <2>4 DEF HasCallbacks
<1> QED
  BY <1>2, <1>3, <1>4, <1>5

LEMMA StoreValues ==
    ASSUME ValuesInv, NEW r \in Requests, Store(r), ~raced'
    PROVE  Values'
<1> DEFINE t == Now(r).on
<1>0. TypeOK /\ InCall /\ OwnedByItsScope /\ Values /\ ~raced /\ owner[t] \in {None, r}
  BY DEF ValuesInv, Inv, Store
<1>1. /\ point[r] = "storing" /\ Now(r).op \in {"acquire", "move"}
      /\ owner' = [owner EXCEPT ![t] = r]
      /\ scopes' = [scopes EXCEPT ![r] = @ \cup {t}]
      /\ point' = [point EXCEPT ![r] = "step"] /\ step' = [step EXCEPT ![r] = @ + 1]
      /\ ask' = ask /\ UNCHANGED <<overridden, value, saved, active>>
  BY <1>0 DEF Store, AtPoint, Advance, Go, InCall
<1>2. /\ t \in Targets /\ step[r] \in Nat \ {0} /\ step[r] \in DOMAIN Program(ask[r])
      /\ ask[r] \in Asks
  BY <1>0, <1>1, NowHolds
<1>3. /\ owner \in [Targets -> Requests \cup {None}]
      /\ scopes \in [Requests -> SUBSET Targets]
      /\ point \in [Requests -> Points] /\ step \in [Requests -> Nat]
  BY <1>0 DEF TypeOK
<1> HIDE DEF t
<1>4. /\ \A u \in Targets \ {t} : owner'[u] = None => Clean(u)'
      /\ \A q \in Requests \ {r} :
            /\ (Running(q) => Held(q))'
            /\ \A u \in scopes'[q] : Managed(q, u)'
  <2>1. \A u \in {t} : owner[u] \in {None, r}
    BY <1>0
  <2>2. \A u \in Targets \ {t} : /\ owner'[u] = owner[u] /\ value'[u] = value[u]
                                 /\ overridden'[u] = overridden[u]
                                 /\ saved'[u] = saved[u] /\ active'[u] = active[u]
    BY <1>1, <1>3
  <2>3. \A q \in Requests \ {r} : /\ point'[q] = point[q] /\ step'[q] = step[q]
                                  /\ scopes'[q] = scopes[q]
    BY <1>1, <1>3
  <2>4. {t} \in SUBSET Targets
    BY <1>2
  <2> QED
    BY <1>0, <1>1, <2>1, <2>2, <2>3, <2>4, Elsewhere
<1>5. owner'[t] # None
  BY <1>1, <1>2, <1>3, ConstantsAssumption
<1>6. /\ point'[r] = "step" /\ step'[r] = step[r] + 1
      /\ scopes'[r] = scopes[r] \cup {t}
  BY <1>1, <1>3
<1>7. Held(r)'
  <2> SUFFICES ASSUME NEW i \in 1 .. step[r], Program(ask[r])[i].op = "acquire"
               PROVE  Program(ask[r])[i].on \in scopes[r] \cup {t}
    BY <1>1, <1>2, <1>6 DEF Held
  <2>1. Held(r)
    BY <1>0, <1>1 DEF Values, Running
  <2>2. i \in 1 .. step[r] - 1 \/ i = step[r]
    BY <1>2
  <2> QED
    BY <2>1, <2>2 DEF Held, Now, t
<1>8. ASSUME NEW u \in scopes[r] \cup {t} PROVE Managed(r, u)'
  <2>1. u \in Targets
    BY <1>2, <1>3
  <2>2. ~Lagging(r, u)'
    BY <1>6 DEF Lagging
  <2>3. Done(r)' = step[r] /\ Running(r)'
    BY <1>2, <1>6 DEF Done, Running
  <2>4. SetBy(ask'[r], Done(r)', u) <=> SetBy(ask[r], step[r] - 1, u)
    BY <1>1, <1>2, <2>1, <2>3, SetByNext DEF Now
  <2>5. HasCallbacks(r, u)' <=> HasCallbacks(r, u)
    BY <1>1 DEF HasCallbacks
  <2>6. CASE u \in scopes[r]
    <3>1. Managed(r, u) /\ ~Lagging(r, u) /\ Running(r) /\ Done(r) = step[r] - 1
      BY <1>0, <1>1, <2>6 DEF Values, Lagging, Running, Done
    <3> QED
      BY <1>1, <1>6, <2>2, <2>3, <2>4, <2>5, <3>1 DEF Managed
  <2>7. CASE u \notin scopes[r]
    <3>1. u = t /\ owner[u] = None
      BY <1>0, <1>2, <2>7 DEF OwnedByItsScope
    <3>2. Clean(u)
      BY <1>0, <2>1, <3>1 DEF Values
    <3>3. ~SetBy(ask[r], step[r] - 1, u)
      <4> SUFFICES ASSUME NEW i \in 1 .. step[r] - 1,
                          Program(ask[r])[i] = [op |-> "set", on |-> u]
                   PROVE  FALSE
        BY DEF SetBy
      <4>1. i \in DOMAIN Program(ask[r])
        <5>1. Program(ask[r]) \in Seq(Instructions)
          BY <1>2, ProgramShape
        <5> QED
          BY <1>2, <5>1
      <4>2. PICK j \in 1 .. i - 1 : Program(ask[r])[j] = [op |-> "acquire", on |-> u]
        BY <1>2, <4>1, ProgramGuarded DEF Guarded
      <4>3. Held(r)
        BY <1>0, <1>1 DEF Values, Running
      <4>4. j \in 1 .. step[r] - 1
        BY <1>2, <4>2
      <4> QED
        BY <2>7, <4>2, <4>3, <4>4 DEF Held
    <3> QED
      BY <1>1, <1>6, <2>2, <2>3, <2>4, <3>2, <3>3 DEF Managed, Clean
  <2> QED
    BY <2>6, <2>7
<1> QED
  BY <1>4, <1>5, <1>6, <1>7, <1>8 DEF Values

LEMMA SetValues ==
    ASSUME ValuesInv, ~raced, NEW r \in Requests, Set(r)
    PROVE  Values'
<1> DEFINE t == Now(r).on
<1>0. TypeOK /\ OwnedByItsScope /\ Values
  BY DEF ValuesInv, Inv
<1>1. point[r] = "step" /\ Now(r).op = "set"
  BY DEF Set, At
<1>2. /\ t \in Targets /\ step[r] \in Nat \ {0} /\ step[r] \in DOMAIN Program(ask[r])
      /\ ask[r] \in Asks /\ t \in scopes[r] /\ HasCallbacks(r, t)
  BY <1>1, NowHolds
<1>3. Managed(r, t) /\ owner[t] = r
  BY <1>0, <1>2 DEF Values, OwnedByItsScope
<1>4. /\ value \in [Targets -> Requests \cup {Default}]
      /\ saved \in [Targets -> Requests \cup {Default, None}]
      /\ overridden \in [Targets -> BOOLEAN]
      /\ point \in [Requests -> Points] /\ scopes \in [Requests -> SUBSET Targets]
  BY <1>0 DEF TypeOK
<1> HIDE DEF t
<1>5. CASE Go(r, "unwinding") /\ UNCHANGED <<saved, value, overridden>>
  <2>1. UNCHANGED shared /\ UNCHANGED ask /\ UNCHANGED scopes /\ step' = step
    BY <1>5 DEF Set, shared
  <2>2. \A q \in Requests \ {r} : point'[q] = point[q] /\ step'[q] = step[q]
    BY <1>4, <1>5, <2>1 DEF Go
  <2>3. point'[r] = "unwinding"
    BY <1>4, <1>5 DEF Go
  <2> QED
    BY <1>1, <2>1, <2>2, <2>3, QuietStep DEF Running
<1>6. CASE /\ ~overridden[t]
           /\ saved' = [saved EXCEPT ![t] = value[t]]
           /\ value' = [value EXCEPT ![t] = r]
           /\ overridden' = [overridden EXCEPT ![t] = TRUE]
           /\ Go(r, "applying")
  <2>1. UNCHANGED <<owner, active, ask, step, scopes>>
    BY DEF Set
  <2>2. /\ point'[r] = "applying" /\ step'[r] = step[r] /\ scopes'[r] = scopes[r]
        /\ ask'[r] = ask[r] /\ Now(r)' = Now(r)
    BY <1>4, <1>6, <2>1 DEF Go, Now
  <2>3. \A u \in Targets \ {t} : /\ owner'[u] = owner[u] /\ value'[u] = value[u]
                                 /\ overridden'[u] = overridden[u]
                                 /\ saved'[u] = saved[u] /\ active'[u] = active[u]
    BY <1>4, <1>6, <2>1
  <2>4. \A q \in Requests \ {r} : /\ point'[q] = point[q] /\ step'[q] = step[q]
                                  /\ scopes'[q] = scopes[q]
    BY <1>4, <1>6, <2>1 DEF Go
  <2>5. /\ \A u \in Targets \ {t} : owner'[u] = None => Clean(u)'
        /\ \A q \in Requests \ {r} :
              /\ (Running(q) => Held(q))'
              /\ \A u \in scopes'[q] : Managed(q, u)'
    <3>1. {t} \in SUBSET Targets /\ \A u \in {t} : owner[u] \in {None, r}
      BY <1>2, <1>3
    <3> QED
      BY <2>1, <2>3, <2>4, <3>1, Elsewhere
  <2>6. owner'[t] # None
    BY <1>3, <2>1, ConstantsAssumption
  <2>7. Held(r)'
    <3>1. Held(r)
      BY <1>0, <1>1 DEF Values, Running
    <3> QED
      BY <2>2, <3>1 DEF Held
  <2>8. ASSUME NEW u \in scopes[r] PROVE Managed(r, u)'
    <3>1. u \in Targets /\ Managed(r, u)
      BY <1>0, <1>4 DEF Values
    <3>2. HasCallbacks(r, u)' <=> HasCallbacks(r, u)
      BY <2>1 DEF HasCallbacks
    <3>3. Running(r) /\ Done(r) = step[r] - 1 /\ Running(r)' /\ Done(r)' = step[r]
      BY <1>1, <2>2 DEF Running, Done
    <3>4. SetBy(ask'[r], Done(r)', u) <=> SetBy(ask[r], Done(r), u) \/ u = t
      BY <1>1, <1>2, <2>2, <3>1, <3>3, SetByNext DEF Now, t
    <3>5. Lagging(r, u)' <=> u = t
      BY <2>2 DEF Lagging, t
    <3>6. ~Lagging(r, u)
      BY <1>1 DEF Lagging
    <3>7. CASE u = t
      <4>1. /\ overridden'[u] /\ saved'[u] = value[u] /\ value'[u] = r
            /\ value[u] = Default
        BY <1>3, <1>4, <1>6, <3>1, <3>7 DEF Managed
      <4> QED
        BY <1>2, <2>2, <3>2, <3>3, <3>4, <3>5, <3>7, <4>1 DEF Managed
    <3>8. CASE u # t
      <4>1. /\ overridden'[u] = overridden[u] /\ saved'[u] = saved[u]
            /\ value'[u] = value[u] /\ active'[u] = active[u]
        BY <2>3, <3>1, <3>8
      <4> QED
        BY <2>2, <3>1, <3>2, <3>3, <3>4, <3>5, <3>6, <3>8, <4>1 DEF Managed
    <3> QED
      BY <3>7, <3>8
  <2> QED
    BY <2>2, <2>5, <2>6, <2>7, <2>8 DEF Values
<1> QED
  BY <1>5, <1>6 DEF Set, t

(* The callback of a set: it is applied, or it throws.                       *)
LEMMA ApplyValues ==
    ASSUME ValuesInv, ~raced, NEW r \in Requests, Apply(r) \/ ApplyThrows(r)
    PROVE  Values'
<1> DEFINE t == Now(r).on
<1>0. TypeOK /\ InCall /\ OwnedByItsScope /\ Values
  BY DEF ValuesInv, Inv
<1>1. point[r] = "applying" /\ Now(r).op = "set"
  BY <1>0 DEF Apply, ApplyThrows, AtPoint, InCall
<1>2. /\ t \in Targets /\ step[r] \in Nat \ {0} /\ step[r] \in DOMAIN Program(ask[r])
      /\ ask[r] \in Asks /\ t \in scopes[r]
  BY <1>1, NowHolds
<1>3. Managed(r, t) /\ owner[t] = r
  BY <1>0, <1>2 DEF Values, OwnedByItsScope
<1>4. /\ active \in [Targets -> Requests \cup {Default}]
      /\ point \in [Requests -> Points] /\ step \in [Requests -> Nat]
      /\ scopes \in [Requests -> SUBSET Targets]
  BY <1>0 DEF TypeOK
<1> HIDE DEF t
<1>5. UNCHANGED <<owner, overridden, value, saved, ask, scopes>>
  BY DEF Apply, ApplyThrows
<1>6. \/ /\ point'[r] = "step" /\ step'[r] = step[r] + 1 /\ active'[t] = value[t]
      \/ /\ point'[r] = "unwinding" /\ step'[r] = step[r]
  BY <1>2, <1>4 DEF Apply, ApplyThrows, Advance, Go, t
<1>7. \A u \in Targets \ {t} : active'[u] = active[u]
  BY <1>4 DEF Apply, ApplyThrows, t
<1>8. \A q \in Requests \ {r} : point'[q] = point[q] /\ step'[q] = step[q]
  BY <1>4 DEF Apply, ApplyThrows, Advance, Go
<1>9. /\ \A u \in Targets \ {t} : owner'[u] = None => Clean(u)'
      /\ \A q \in Requests \ {r} :
            /\ (Running(q) => Held(q))'
            /\ \A u \in scopes'[q] : Managed(q, u)'
  <2>1. {t} \in SUBSET Targets /\ \A u \in {t} : owner[u] \in {None, r}
    BY <1>2, <1>3
  <2>2. \A u \in Targets \ {t} : /\ owner'[u] = owner[u] /\ value'[u] = value[u]
                                 /\ overridden'[u] = overridden[u]
                                 /\ saved'[u] = saved[u] /\ active'[u] = active[u]
    BY <1>5, <1>7
  <2>3. \A q \in Requests \ {r} : /\ point'[q] = point[q] /\ step'[q] = step[q]
                                  /\ scopes'[q] = scopes[q]
    BY <1>5, <1>8
  <2> QED
    BY <1>5, <2>1, <2>2, <2>3, Elsewhere
<1>10. owner'[t] # None
  BY <1>3, <1>5, ConstantsAssumption
<1>11. (Running(r) => Held(r))'
  <2> SUFFICES ASSUME Running(r)', NEW i \in 1 .. step[r],
                      Program(ask[r])[i].op = "acquire"
               PROVE  Program(ask[r])[i].on \in scopes[r]
    BY <1>2, <1>5, <1>6 DEF Held, Running
  <2>1. Held(r)
    BY <1>0, <1>1 DEF Values, Running
  <2>2. i # step[r]
    BY <1>1 DEF Now
  <2> QED
    BY <1>2, <2>1, <2>2 DEF Held
<1>12. ASSUME NEW u \in scopes[r] PROVE Managed(r, u)'
  <2>1. u \in Targets /\ Managed(r, u)
    BY <1>0, <1>4 DEF Values
  <2>2. HasCallbacks(r, u)' <=> HasCallbacks(r, u)
    BY <1>5 DEF HasCallbacks
  <2>3. Running(r) /\ Done(r) = step[r] /\ (Running(r)' => Done(r)' = step[r])
    BY <1>1, <1>2, <1>6 DEF Running, Done
  <2>4. SetBy(ask[r], step[r], t)
    BY <1>1, <1>2, SetByNext DEF Now, t
  <2>5. overridden[t] /\ value[t] = r
    BY <1>3, <2>3, <2>4 DEF Managed
  <2>6. (Lagging(r, u) <=> u = t) /\ ~Lagging(r, u)'
    BY <1>1, <1>6 DEF Lagging, t
  <2>7. Running(r)' => (u = t => active'[u] = r)
    BY <1>6, <2>5 DEF Running
  <2>8. point'[r] \notin {"reapplying", "releasing"}
    BY <1>6
  <2> QED
    BY <1>5, <1>7, <2>1, <2>2, <2>3, <2>5, <2>6, <2>7, <2>8 DEF Managed
<1> QED
  BY <1>5, <1>9, <1>10, <1>11, <1>12 DEF Values

(* The destructor of the latest scope: restore, reapply, release.            *)
LEMMA UnwindValues ==
    ASSUME ValuesInv, ~raced, NEW r \in Requests, Restore(r) \/ Reapply(r) \/ Release(r)
    PROVE  Values'
<1>0. TypeOK /\ InCall /\ OwnedByItsScope /\ Values
  BY DEF ValuesInv, Inv
<1>1. scopes[r] # {} /\ point[r] \in {"unwinding", "reapplying", "releasing"}
  BY <1>0 DEF Restore, Reapply, Release, AtPoint, InCall
<1>2. PICK t \in Targets : t = Latest(r) /\ t \in scopes[r]
  BY <1>0, <1>1, LatestType
<1>3. Managed(r, t) /\ owner[t] = r /\ Mutable(r, t)
  BY <1>0, <1>2 DEF Values, OwnedByItsScope, Mutable
<1>4. /\ owner \in [Targets -> Requests \cup {None}]
      /\ value \in [Targets -> Requests \cup {Default}]
      /\ saved \in [Targets -> Requests \cup {Default, None}]
      /\ overridden \in [Targets -> BOOLEAN]
      /\ active \in [Targets -> Requests \cup {Default}]
      /\ point \in [Requests -> Points] /\ scopes \in [Requests -> SUBSET Targets]
  BY <1>0 DEF TypeOK
<1>5. UNCHANGED <<ask, step>>
  BY DEF Restore, Reapply, Release
<1> DEFINE Others ==
             /\ \A u \in Targets \ {t} : /\ owner'[u] = owner[u] /\ value'[u] = value[u]
                                         /\ overridden'[u] = overridden[u]
                                         /\ saved'[u] = saved[u] /\ active'[u] = active[u]
             /\ \A q \in Requests \ {r} : /\ point'[q] = point[q] /\ step'[q] = step[q]
                                          /\ scopes'[q] = scopes[q]
           Kept == /\ \A u \in Targets \ {t} : owner'[u] = None => Clean(u)'
                   /\ \A q \in Requests \ {r} :
                         /\ (Running(q) => Held(q))'
                         /\ \A u \in scopes'[q] : Managed(q, u)'
<1>6. Others => Kept
  <2>1. {t} \in SUBSET Targets /\ \A u \in {t} : owner[u] \in {None, r}
    BY <1>2, <1>3
  <2> QED
    BY <1>5, <2>1, Elsewhere
<1>7. \A u \in scopes[r] \ {t} : ~Lagging(r, u)
  BY <1>1, <1>2 DEF Lagging
\* What the other settings of r need.
<1>8. ASSUME Others, scopes'[r] \subseteq scopes[r],
             point'[r] \in {"unwinding", "reapplying", "releasing"},
             point'[r] = "unwinding" \/ scopes'[r] = scopes[r],
             NEW u \in scopes'[r] \ {t}
      PROVE  Managed(r, u)'
  <2>1. u \in Targets \ {t} /\ Managed(r, u) /\ ~Lagging(r, u)
    BY <1>0, <1>4, <1>7, <1>8 DEF Values
  <2>2. HasCallbacks(r, u)' <=> HasCallbacks(r, u)
    BY <1>5 DEF HasCallbacks
  <2>3. ~Running(r)'
    BY <1>8 DEF Running
  <2>4. scopes'[r] = scopes[r] => Latest(r)' = Latest(r)
    BY DEF Latest
  <2>5. point'[r] \in {"reapplying", "releasing"} => u # Latest(r)'
    BY <1>2, <1>8, <2>4
  <2>6. ~Lagging(r, u)'
    BY <1>8, <2>5 DEF Lagging
  <2>7. /\ overridden'[u] = overridden[u] /\ saved'[u] = saved[u]
        /\ value'[u] = value[u] /\ active'[u] = active[u]
    BY <1>8, <2>1
  <2> HIDE DEF Others, Kept
  <2> QED
    BY <2>1, <2>2, <2>3, <2>5, <2>6, <2>7 DEF Managed
<1>9. CASE Restore(r)
  <2>1. UNCHANGED <<owner, active, scopes>> /\ point[r] = "unwinding"
    BY <1>9 DEF Restore, AtPoint
  <2>2. ~Lagging(r, t)
    BY <2>1 DEF Lagging
  <2>3. \/ /\ ~overridden[t] /\ Go(r, "releasing") /\ UNCHANGED <<value, saved, overridden>>
        \/ /\ overridden[t] /\ RestoreValue(t)
           /\ Go(r, IF HasCallbacks(r, t) THEN "reapplying" ELSE "releasing")
    BY <1>2, <1>3, <1>9 DEF Restore
  <2>4. /\ ~overridden'[t] /\ saved'[t] = None /\ value'[t] = Default
        /\ \/ point'[r] = "reapplying"
           \/ point'[r] = "releasing" /\ active'[t] = Default
    <3>1. CASE ~overridden[t] /\ Go(r, "releasing") /\ UNCHANGED <<value, saved, overridden>>
      <4>1. saved[t] = None /\ value[t] = Default /\ active[t] = Default
        BY <1>3, <2>2, <3>1 DEF Managed
      <4>2. point'[r] = "releasing"
        BY <1>4, <3>1 DEF Go
      <4> QED
        BY <2>1, <3>1, <4>1, <4>2
    <3>2. CASE /\ overridden[t] /\ RestoreValue(t)
               /\ Go(r, IF HasCallbacks(r, t) THEN "reapplying" ELSE "releasing")
      <4>1. saved[t] = Default /\ HasCallbacks(r, t)
        BY <1>3, <3>2 DEF Managed
      <4>2. point'[r] = "reapplying"
        BY <1>4, <3>2, <4>1 DEF Go
      <4>3. ~overridden'[t] /\ saved'[t] = None /\ value'[t] = Default
        BY <1>2, <1>4, <3>2, <4>1, ConstantsAssumption DEF RestoreValue
      <4> QED
        BY <4>2, <4>3
    <3> QED
      BY <2>3, <3>1, <3>2
  <2>5. Others
    <3>1. \A q \in Requests \ {r} : point'[q] = point[q]
      BY <1>4, <2>3 DEF Go
    <3>2. \A u \in Targets \ {t} : /\ value'[u] = value[u]
                                   /\ overridden'[u] = overridden[u]
                                   /\ saved'[u] = saved[u]
      BY <1>4, <2>3 DEF RestoreValue
    <3> QED
      BY <1>5, <2>1, <3>1, <3>2
  <2>6. ~Running(r)' /\ Latest(r)' = Latest(r) /\ scopes'[r] = scopes[r]
    BY <2>1, <2>4 DEF Running, Latest
  <2>7. Managed(r, t)'
    <3>1. point'[r] = "reapplying" => Lagging(r, t)'
      BY <1>2, <2>6 DEF Lagging
    <3> QED
      BY <2>4, <2>6, <3>1 DEF Managed
  <2>8. owner'[t] # None
    BY <1>3, <2>1, ConstantsAssumption
  <2>9. \A u \in scopes'[r] : Managed(r, u)'
    BY <1>8, <2>4, <2>5, <2>6, <2>7
  <2> HIDE DEF Others
  <2> QED
    BY <1>6, <2>5, <2>6, <2>8, <2>9 DEF Values
<1>10. CASE Reapply(r)
  <2>1. /\ UNCHANGED <<owner, overridden, value, saved, scopes>>
        /\ active' = [active EXCEPT ![t] = value[t]]
        /\ point[r] = "reapplying" /\ Go(r, "releasing")
    BY <1>2, <1>10 DEF Reapply, AtPoint
  <2>2. ~overridden[t] /\ saved[t] = None /\ value[t] = Default
    BY <1>2, <1>3, <2>1 DEF Managed
  <2>3. point'[r] = "releasing" /\ \A q \in Requests \ {r} : point'[q] = point[q]
    BY <1>4, <2>1 DEF Go
  <2>4. Others
    BY <1>4, <1>5, <2>1, <2>3
  <2>5. active'[t] = Default
    BY <1>2, <1>4, <2>1, <2>2
  <2>6. ~Running(r)' /\ scopes'[r] = scopes[r]
    BY <2>1, <2>3 DEF Running
  <2>7. Managed(r, t)'
    BY <2>1, <2>2, <2>3, <2>5, <2>6 DEF Managed
  <2>8. owner'[t] # None
    BY <1>3, <2>1, ConstantsAssumption
  <2>9. \A u \in scopes'[r] : Managed(r, u)'
    BY <1>8, <2>3, <2>4, <2>6, <2>7
  <2> HIDE DEF Others
  <2> QED
    BY <1>6, <2>4, <2>6, <2>8, <2>9 DEF Values
<1>11. CASE Release(r)
  <2>1. /\ UNCHANGED <<overridden, value, saved, active>>
        /\ owner' = [owner EXCEPT ![t] = None]
        /\ scopes' = [scopes EXCEPT ![r] = @ \ {t}]
        /\ point[r] = "releasing" /\ Go(r, "unwinding")
    BY <1>2, <1>3, <1>11 DEF Release, AtPoint
  <2>2. point'[r] = "unwinding" /\ \A q \in Requests \ {r} : point'[q] = point[q]
    BY <1>4, <2>1 DEF Go
  <2>3. Clean(t)'
    <3>1. ~overridden[t] /\ ~Lagging(r, t)
      BY <1>2, <1>3, <2>1 DEF Managed, Lagging
    <3>2. saved[t] = None /\ value[t] = Default /\ active[t] = Default
      BY <1>3, <3>1 DEF Managed
    <3> QED
      BY <2>1, <3>1, <3>2 DEF Clean
  <2>4. scopes'[r] = scopes[r] \ {t}
    BY <1>4, <2>1
  <2>5. Others
    BY <1>4, <1>5, <2>1, <2>2
  <2>6. ~Running(r)'
    BY <2>2 DEF Running
  <2>7. \A u \in scopes'[r] : Managed(r, u)'
    BY <1>8, <2>2, <2>4, <2>5
  <2>8. \A u \in Targets : owner'[u] = None => Clean(u)'
    <3>1. Kept
      BY <1>6, <2>5
    <3> HIDE DEF Others
    <3> QED
      BY <2>3, <3>1
  <2> HIDE DEF Others
  <2> QED
    BY <1>6, <2>5, <2>6, <2>7, <2>8 DEF Values
<1> QED
  BY <1>9, <1>10, <1>11

LEMMA InitValues == Init => ValuesInv
<1> SUFFICES ASSUME Init PROVE ValuesInv
  OBVIOUS
<1>1. \A t \in Targets : Clean(t)
  BY DEF Init, Clean
<1>2. ASSUME NEW r \in Requests PROVE Held(r) /\ scopes[r] = {}
  <2>1. step[r] = 1 /\ scopes[r] = {}
    BY DEF Init
  <2>2. 1 .. step[r] - 1 = {}
    BY <2>1
  <2> QED
    BY <2>1, <2>2 DEF Held
<1> QED
  BY <1>1, <1>2, InitInv DEF ValuesInv, Values

LEMMA ValuesStep == ValuesInv /\ [Next]_vars => ValuesInv'
<1> SUFFICES ASSUME ValuesInv, [Next]_vars PROVE ValuesInv'
  OBVIOUS
<1>1. Inv'
  BY TypeStep, InCallStep, OwnedStep DEF ValuesInv, Inv
<1>2. ASSUME ~raced' PROVE ~raced
  <2>1. \A r \in Requests : Store(r) => ~raced
    BY <1>2 DEF Store
  <2>2. ASSUME NEW r \in Requests,
               \/ Begin(r) \/ TestOwned(r) \/ Wake(r) \/ TimeOut(r) \/ Set(r)
               \/ OptionsThrow(r) \/ Apply(r) \/ ApplyThrows(r) \/ Plan(r)
               \/ Restore(r) \/ Reapply(r) \/ Release(r) \/ Answer(r)
        PROVE  raced' = raced
    BY <2>2 DEF Begin, TestOwned, Wake, TimeOut, Set, OptionsThrow, Apply, ApplyThrows,
       Plan, Restore, Reapply, Release, Answer
  <2>3. UNCHANGED vars => raced' = raced
    BY DEF vars
  <2> QED
    BY <1>2, <2>1, <2>2, <2>3 DEF Next
<1>3. ASSUME ~raced' PROVE Values'
  <2>0. ~raced /\ TypeOK /\ InCall /\ OwnedByItsScope /\ Values
    BY <1>2, <1>3 DEF ValuesInv, Inv
  <2>1. CASE UNCHANGED vars
    BY <2>0, <2>1 DEF vars, shared, Values, Clean, Held, Managed, Running, Lagging,
       Done, HasCallbacks, Now, Latest
  <2>2. ASSUME NEW r \in Requests,
               Begin(r) \/ Wake(r) \/ TimeOut(r) \/ OptionsThrow(r) \/ Plan(r) \/ Answer(r)
        PROVE  Values'
    <3>1. /\ UNCHANGED shared /\ UNCHANGED ask /\ UNCHANGED scopes /\ step' = step
      BY <2>2 DEF Begin, Wake, TimeOut, OptionsThrow, Plan, Answer
    <3>2. /\ point[r] \in {"idle", "waiting", "step", "unwinding"}
          /\ \/ Running(r) /\ point' = [point EXCEPT ![r] = "step"]
             \/ Running(r) /\ point' = [point EXCEPT ![r] = "storing"]
             \/ point' = [point EXCEPT ![r] = "unwinding"]
             \/ point' = [point EXCEPT ![r] = "answered"]
      BY <2>2 DEF Begin, Wake, TimeOut, OptionsThrow, Plan, Answer, At, AtPoint, Go, Running
    <3>3. /\ \A q \in Requests \ {r} : point'[q] = point[q] /\ step'[q] = step[q]
          /\ point[r] \notin {"applying", "reapplying"}
          /\ point'[r] \notin {"applying", "reapplying", "releasing"}
          /\ Running(r)' => Running(r)
      BY <2>0, <3>1, <3>2 DEF TypeOK, Running
    <3> QED
      BY <2>0, <3>1, <3>3, QuietStep
  <2>3. ASSUME NEW r \in Requests, TestOwned(r) PROVE Values'
    <3>1. /\ UNCHANGED shared /\ UNCHANGED ask /\ UNCHANGED scopes
          /\ point[r] = "step" /\ Now(r).op \in {"acquire", "move"}
      BY <2>3 DEF TestOwned, At
    <3>2. /\ \A q \in Requests \ {r} : point'[q] = point[q] /\ step'[q] = step[q]
          /\ point'[r] \in {"step", "storing", "waiting"}
          /\ \/ step'[r] = step[r]
             \/ step'[r] = step[r] + 1 /\ owner[Now(r).on] = r
      BY <2>0, <2>3 DEF TestOwned, Advance, Go, TypeOK
    <3>3. owner[Now(r).on] = r => Now(r).on \in scopes[r]
      BY <2>0, <3>1, NowHolds DEF OwnedByItsScope
    <3> QED
      BY <2>0, <3>1, <3>2, <3>3, QuietStep DEF Running
  <2>4. ASSUME NEW r \in Requests, Store(r) PROVE Values'
    BY <1>3, <2>4, StoreValues
  <2>5. ASSUME NEW r \in Requests, Set(r) PROVE Values'
    BY <2>0, <2>5, SetValues
  <2>6. ASSUME NEW r \in Requests, Apply(r) \/ ApplyThrows(r) PROVE Values'
    BY <2>0, <2>6, ApplyValues
  <2>7. ASSUME NEW r \in Requests, Restore(r) \/ Reapply(r) \/ Release(r) PROVE Values'
    BY <2>0, <2>7, UnwindValues
  <2> QED
    BY <2>1, <2>2, <2>3, <2>4, <2>5, <2>6, <2>7 DEF Next
<1> QED
  BY <1>1, <1>3 DEF ValuesInv

(* What nobody owns has its default value, and the collision checker and the *)
(* spliner know it (override.h 103-126, 280-293), however the requests       *)
(* before ended, unless an owner was stored over another.                    *)
THEOREM DefaultsRestored == Spec => []DefaultsWhenUnowned
<1>1. ValuesInv => DefaultsWhenUnowned
  BY DEF ValuesInv, Values, Clean, DefaultsWhenUnowned
<1> QED
  BY InitValues, ValuesStep, <1>1, PTL DEF Spec

(* A request that has come to plan plans under the options it has set and    *)
(* under the defaults otherwise (draco.cc 51-145, draco_planner.cc 110-163), *)
(* unless an owner was stored over another.                                  *)
THEOREM OwnOptionsInEffect == Spec => []PlansUnderOwnOptions
<1>1. ValuesInv => PlansUnderOwnOptions
  <2> SUFFICES ASSUME ValuesInv, ~raced, NEW r \in Requests, At(r, "plan"),
                      NEW t \in scopes[r]
               PROVE  active[t] = IF SetBy(ask[r], step[r], t) THEN r ELSE Default
    BY DEF PlansUnderOwnOptions, SetBy
  <2>1. point[r] = "step" /\ Now(r).op = "plan"
    BY DEF At
  <2>2. Managed(r, t) /\ t \in Targets
    BY DEF ValuesInv, Values, Inv, TypeOK
  <2>3. SetBy(ask[r], step[r], t) <=> SetBy(ask[r], step[r] - 1, t)
    BY <2>1, <2>2, NowHolds, SetByNext DEF Now
  <2>4. Running(r) /\ Done(r) = step[r] - 1 /\ ~Lagging(r, t)
    BY <2>1 DEF Running, Done, Lagging
  <2> QED
    BY <2>2, <2>3, <2>4 DEF Managed
<1> QED
  BY InitValues, ValuesStep, <1>1, PTL DEF Spec
-----------------------------------------------------------------------------
(* Waiting.  Each half of a program acquires its settings in their order and *)
(* moves only what it has acquired; the halves follow each other.            *)

Calls(s, i) == s[i].op \in {"acquire", "move"}

\* The calls of s concern settings from the lo-th to the hi-th.
Spans(s, lo, hi) ==
    /\ \A i \in DOMAIN s : lo <= Position(s[i].on) /\ Position(s[i].on) <= hi
    /\ \A i, j \in DOMAIN s : i < j /\ Calls(s, i) /\ s[j].op = "acquire"
                              => Position(s[i].on) < Position(s[j].on)
    /\ \A j \in DOMAIN s : s[j].op = "move" =>
          \E i \in 1 .. j - 1 : s[i] = [op |-> "acquire", on |-> s[j].on]

LEMMA PositionType ==
    /\ Position("padding") = 1 /\ Position("filter") = 2 /\ Position("shapes") = 3
    /\ Position("cartesian") = 4 /\ Position("spline") = 5
    /\ \A t \in Targets : Position(t) \in 1 .. 5
<1>1. /\ Position("padding") = 1 /\ Position("filter") = 2 /\ Position("shapes") = 3
      /\ Position("cartesian") = 4 /\ Position("spline") = 5
  BY DEF Position, Order
<1> QED
  BY <1>1 DEF Targets, CollisionTargets, LimitTargets

LEMMA SpansConcat ==
    ASSUME NEW s \in Seq(Instructions), NEW u \in Seq(Instructions),
           NEW a \in Nat, NEW b \in Nat, NEW c \in Nat, NEW d \in Nat,
           a <= c, b < c, b <= d, Spans(s, a, b), Spans(u, c, d)
    PROVE  Spans(s \o u, a, d)
<1> DEFINE w == s \o u
<1>0. /\ \A i \in DOMAIN s : s[i].on \in Targets
      /\ \A i \in DOMAIN u : u[i].on \in Targets
  <2>1. /\ \A i \in DOMAIN s : s[i] \in Instructions
        /\ \A i \in DOMAIN u : u[i] \in Instructions
    OBVIOUS
  <2> QED
    BY <2>1 DEF Instructions
<1>1. \A i \in DOMAIN w : \/ i \in DOMAIN s /\ w[i] = s[i]
                          \/ i \notin DOMAIN s /\ i - Len(s) \in DOMAIN u
                             /\ w[i] = u[i - Len(s)]
  OBVIOUS
<1>2. /\ \A i, j \in DOMAIN w : j \in DOMAIN s /\ i < j => i \in DOMAIN s
      /\ \A i \in DOMAIN s : i \in Nat
      /\ \A i \in DOMAIN w : i \in Nat
      /\ Len(s) \in Nat
      /\ \A i \in DOMAIN s : i <= Len(s)
      /\ DOMAIN s = 1 .. Len(s) /\ DOMAIN u = 1 .. Len(u)
      /\ DOMAIN w = 1 .. Len(s) + Len(u)
  OBVIOUS
<1> HIDE DEF w
<1>3. \A i \in DOMAIN w : a <= Position(w[i].on) /\ Position(w[i].on) <= d
  <2> SUFFICES ASSUME NEW i \in DOMAIN w
               PROVE  a <= Position(w[i].on) /\ Position(w[i].on) <= d
    OBVIOUS
  <2>1. CASE i \in DOMAIN s /\ w[i] = s[i]
    <3>1. a <= Position(s[i].on) /\ Position(s[i].on) <= b /\ Position(s[i].on) \in 1 .. 5
      BY <1>0, <2>1, PositionType DEF Spans
    <3> QED
      BY <2>1, <3>1
  <2>2. CASE i - Len(s) \in DOMAIN u /\ w[i] = u[i - Len(s)]
    <3>1. /\ c <= Position(w[i].on) /\ Position(w[i].on) <= d
          /\ Position(w[i].on) \in 1 .. 5
      BY <1>0, <2>2, PositionType DEF Spans
    <3> QED
      BY <3>1
  <2> QED
    BY <1>1, <2>1, <2>2
<1>4. ASSUME NEW i \in DOMAIN w, NEW j \in DOMAIN w, i < j, Calls(w, i),
             w[j].op = "acquire"
      PROVE  Position(w[i].on) < Position(w[j].on)
  <2>1. CASE j \in DOMAIN s
    <3>1. i \in DOMAIN s /\ w[i] = s[i] /\ w[j] = s[j]
      BY <1>1, <1>2, <1>4, <2>1
    <3> QED
      BY <1>4, <2>1, <3>1 DEF Spans, Calls
  <2>2. CASE i \in DOMAIN s /\ j \notin DOMAIN s
    <3>1. w[i] = s[i] /\ j - Len(s) \in DOMAIN u /\ w[j] = u[j - Len(s)]
      BY <1>1, <2>2
    <3>2. Position(w[i].on) <= b /\ Position(w[i].on) \in 1 .. 5
      BY <1>0, <2>2, <3>1, PositionType DEF Spans
    <3>3. c <= Position(w[j].on) /\ Position(w[j].on) \in 1 .. 5
      BY <1>0, <3>1, PositionType DEF Spans
    <3> QED
      BY <3>2, <3>3
  <2>3. CASE i \notin DOMAIN s /\ j \notin DOMAIN s
    <3>1. /\ i - Len(s) \in DOMAIN u /\ w[i] = u[i - Len(s)]
          /\ j - Len(s) \in DOMAIN u /\ w[j] = u[j - Len(s)]
      BY <1>1, <2>3
    <3>2. i - Len(s) < j - Len(s)
      BY <1>2, <1>4
    <3> QED
      BY <1>4, <3>1, <3>2 DEF Spans, Calls
  <2> QED
    BY <2>1, <2>2, <2>3
<1>5. ASSUME NEW j \in DOMAIN w, w[j].op = "move"
      PROVE  \E i \in 1 .. j - 1 : w[i] = [op |-> "acquire", on |-> w[j].on]
  <2>1. CASE j \in DOMAIN s
    <3>1. w[j] = s[j]
      BY <1>1, <2>1
    <3>2. PICK i \in 1 .. j - 1 : s[i] = [op |-> "acquire", on |-> s[j].on]
      BY <1>5, <2>1, <3>1 DEF Spans
    <3>3. i \in DOMAIN s /\ i \in DOMAIN w
      BY <1>2, <2>1, <3>2
    <3>4. w[i] = s[i]
      BY <1>1, <3>3
    <3> QED
      BY <3>1, <3>2, <3>4
  <2>2. CASE j \notin DOMAIN s
    <3>1. j - Len(s) \in DOMAIN u /\ w[j] = u[j - Len(s)]
      BY <1>1, <2>2
    <3>2. PICK i \in 1 .. j - Len(s) - 1 :
                 u[i] = [op |-> "acquire", on |-> u[j - Len(s)].on]
      BY <1>5, <3>1 DEF Spans
    <3>3. i + Len(s) \in DOMAIN w /\ i + Len(s) \notin DOMAIN s /\ i + Len(s) \in 1 .. j - 1
      BY <1>2, <2>2, <3>1, <3>2
    <3>4. w[i + Len(s)] = u[i]
      <4>1. i + Len(s) - Len(s) = i
        BY <1>2, <3>2
      <4> QED
        BY <1>1, <3>3, <4>1
    <3> QED
      BY <3>1, <3>2, <3>3, <3>4
  <2> QED
    BY <2>1, <2>2
<1>6. Spans(w, a, d)
  BY <1>3, <1>4, <1>5 DEF Spans
<1> QED
  BY <1>6 DEF w

LEMMA EachInstructions ==
    ASSUME NEW op \in {"acquire", "set", "move"}, NEW s \in Seq(Targets)
    PROVE  Each(op, s) \in Seq(Instructions)
<1> DEFINE I == [op : {"acquire", "set", "move"}, on : Targets]
<1>1. I \subseteq Instructions
  BY DEF Instructions
<1>2. Each(op, s) \in Seq(I)
  BY EachType
<1> HIDE DEF I
<1> QED
  BY <1>1, <1>2

(* One half of a program: its calls are in order if it acquires in order.    *)
LEMMA SpansHalf ==
    ASSUME NEW s \in Seq(Targets), NEW u \in Seq(Targets),
           NEW lo \in Nat, NEW hi \in Nat,
           \A i \in DOMAIN s : lo <= Position(s[i]) /\ Position(s[i]) <= hi,
           \A i \in DOMAIN u : lo <= Position(u[i]) /\ Position(u[i]) <= hi,
           \A i, j \in DOMAIN s : i < j => Position(s[i]) < Position(s[j])
    PROVE  Spans(Each("acquire", s) \o Each("set", u) \o Each("move", s), lo, hi)
<1> DEFINE x == Each("acquire", s)
           y == Each("set", u)
           z == Each("move", s)
           w == x \o y \o z
<1>1. /\ x \in Seq(Instructions) /\ y \in Seq(Instructions) /\ z \in Seq(Instructions)
  BY EachInstructions
<1>2. /\ DOMAIN x = DOMAIN s /\ \A i \in DOMAIN s : x[i] = [op |-> "acquire", on |-> s[i]]
      /\ DOMAIN y = DOMAIN u /\ \A i \in DOMAIN u : y[i] = [op |-> "set", on |-> u[i]]
      /\ DOMAIN z = DOMAIN s /\ \A i \in DOMAIN s : z[i] = [op |-> "move", on |-> s[i]]
  BY EachIs
<1> HIDE DEF x, y, z
<1>3. /\ Len(x) = Len(s) /\ Len(y) = Len(u) /\ Len(z) = Len(s)
      /\ DOMAIN s = 1 .. Len(s) /\ DOMAIN u = 1 .. Len(u)
      /\ Len(s) \in Nat /\ Len(u) \in Nat
  BY <1>1, <1>2
<1>4. /\ DOMAIN w = 1 .. Len(s) + Len(u) + Len(s)
      /\ \A i \in DOMAIN w :
            \/ i \in DOMAIN s /\ w[i] = x[i]
            \/ i > Len(s) /\ i - Len(s) \in DOMAIN u /\ w[i] = y[i - Len(s)]
            \/ /\ i > Len(s) + Len(u) /\ i - Len(s) - Len(u) \in DOMAIN s
               /\ w[i] = z[i - Len(s) - Len(u)]
  <2> DEFINE xy == x \o y
  <2>1. /\ xy \in Seq(Instructions) /\ Len(xy) = Len(s) + Len(u)
        /\ \A i \in 1 .. Len(xy) : \/ i \in DOMAIN s /\ xy[i] = x[i]
                                  \/ /\ i > Len(s) /\ i - Len(s) \in DOMAIN u
                                     /\ xy[i] = y[i - Len(s)]
    <3>1. /\ xy \in Seq(Instructions) /\ Len(xy) = Len(x) + Len(y)
          /\ \A i \in 1 .. Len(x) + Len(y) :
                xy[i] = IF i <= Len(x) THEN x[i] ELSE y[i - Len(x)]
      BY <1>1, ConcatProperties
    <3> HIDE DEF xy
    <3> QED
      BY <1>3, <3>1
  <2>2. w = xy \o z
    BY DEF w
  <2> HIDE DEF xy
  <2>3. /\ DOMAIN w = 1 .. Len(xy) + Len(z)
        /\ \A i \in 1 .. Len(xy) + Len(z) :
              w[i] = IF i <= Len(xy) THEN xy[i] ELSE z[i - Len(xy)]
    <3>1. /\ xy \o z \in Seq(Instructions) /\ Len(xy \o z) = Len(xy) + Len(z)
          /\ \A i \in 1 .. Len(xy) + Len(z) :
                (xy \o z)[i] = IF i <= Len(xy) THEN xy[i] ELSE z[i - Len(xy)]
      BY <1>1, <2>1, ConcatProperties
    <3> QED
      BY <2>2, <3>1
  <2>4. \A i \in DOMAIN w : i > Len(xy) => /\ i - Len(xy) = i - Len(s) - Len(u)
                                          /\ i - Len(s) - Len(u) \in DOMAIN s
    BY <1>3, <2>1, <2>3
  <2> QED
    BY <1>3, <2>1, <2>3, <2>4
<1> HIDE DEF w
<1>5. \A i \in DOMAIN w :
         \/ i \in DOMAIN s /\ w[i] = [op |-> "acquire", on |-> s[i]]
         \/ i > Len(s) /\ i - Len(s) \in DOMAIN u
            /\ w[i] = [op |-> "set", on |-> u[i - Len(s)]]
         \/ /\ i > Len(s) + Len(u) /\ i - Len(s) - Len(u) \in DOMAIN s
            /\ w[i] = [op |-> "move", on |-> s[i - Len(s) - Len(u)]]
  BY <1>2, <1>4
<1>6. \A i \in DOMAIN w : lo <= Position(w[i].on) /\ Position(w[i].on) <= hi
  BY <1>5
<1>7. ASSUME NEW i \in DOMAIN w, NEW j \in DOMAIN w, i < j, w[j].op = "acquire"
      PROVE  Position(w[i].on) < Position(w[j].on)
  <2>1. j \in DOMAIN s /\ w[j].on = s[j]
    BY <1>5, <1>7
  <2>2. i \in DOMAIN s
    BY <1>3, <1>4, <1>7, <2>1
  <2>3. w[i].on = s[i]
    BY <1>3, <1>5, <2>2
  <2> QED
    BY <1>7, <2>1, <2>2, <2>3
<1>8. ASSUME NEW j \in DOMAIN w, w[j].op = "move"
      PROVE  \E i \in 1 .. j - 1 : w[i] = [op |-> "acquire", on |-> w[j].on]
  <2>1. /\ j > Len(s) + Len(u) /\ j - Len(s) - Len(u) \in DOMAIN s
        /\ w[j] = [op |-> "move", on |-> s[j - Len(s) - Len(u)]]
    BY <1>5, <1>8
  <2> DEFINE i == j - Len(s) - Len(u)
  <2>2. i \in DOMAIN s /\ i \in DOMAIN w /\ i \in 1 .. j - 1 /\ w[j].on = s[i]
    BY <1>3, <1>4, <2>1
  <2>3. w[i] = [op |-> "acquire", on |-> s[i]]
    <3>1. ~(i > Len(s))
      BY <1>3, <2>2
    <3> HIDE DEF i
    <3> QED
      BY <1>3, <1>5, <2>2, <3>1
  <2> QED
    BY <2>2, <2>3
<1>9. Spans(w, lo, hi)
  BY <1>6, <1>7, <1>8 DEF Spans
<1> QED
  BY <1>9 DEF w, x, y, z

(* What a program acquires comes after all that it has acquired or moved     *)
(* before, and it moves only what it has acquired.                           *)
LEMMA ProgramOrdered ==
    ASSUME NEW a \in Asks
    PROVE  /\ \A i, j \in DOMAIN Program(a) :
                 i < j /\ Calls(Program(a), i) /\ Program(a)[j].op = "acquire"
                 => Position(Program(a)[i].on) < Position(Program(a)[j].on)
           /\ \A j \in DOMAIN Program(a) : Program(a)[j].op = "move" =>
                 \E i \in 1 .. j - 1 :
                    Program(a)[i] = [op |-> "acquire", on |-> Program(a)[j].on]
<1> DEFINE c == CollisionProgram(a)
           l == IF a.kind = "solve" THEN LimitsProgram(a) ELSE <<>>
           e == [op |-> "plan", on |-> "padding"]
           s == <<"padding", "filter", "shapes">>
           u == <<"shapes", "padding", "filter">>
           v == <<"cartesian", "spline">>
           n == <<>>
<1>1. /\ s \in Seq(Targets) /\ u \in Seq(Targets) /\ v \in Seq(Targets)
      /\ n \in Seq(Targets) /\ DOMAIN n = {}
  BY DEF Targets, CollisionTargets, LimitTargets
<1>2. Spans(c, 1, 3)
  <2>1. /\ DOMAIN s = 1 .. 3 /\ s[1] = "padding" /\ s[2] = "filter" /\ s[3] = "shapes"
        /\ DOMAIN u = 1 .. 3 /\ u[1] = "shapes" /\ u[2] = "padding" /\ u[3] = "filter"
    OBVIOUS
  <2> HIDE DEF s, u, n
  <2>2. /\ \A i \in DOMAIN s : 1 <= Position(s[i]) /\ Position(s[i]) <= 3
        /\ \A i \in DOMAIN u : 1 <= Position(u[i]) /\ Position(u[i]) <= 3
        /\ \A i, j \in DOMAIN s : i < j => Position(s[i]) < Position(s[j])
    BY <2>1, PositionType
  <2>3. /\ Spans(Each("acquire", s) \o Each("set", u) \o Each("move", s), 1, 3)
        /\ Spans(Each("acquire", s) \o Each("set", n) \o Each("move", s), 1, 3)
    BY <1>1, <2>2, SpansHalf
  <2>4. Each("set", n) = <<>>
    BY DEF Each, n
  <2>5. c = Each("acquire", s)
            \o (IF a.collision THEN Each("set", u) ELSE <<>>)
            \o Each("move", s)
    BY DEF CollisionProgram, s, u
  <2> HIDE DEF c
  <2> QED
    BY <2>3, <2>4, <2>5
<1>3. Spans(l, 4, 5)
  <2>1. a.limits \in {"none", "factors", "cartesian"}
    BY DEF Asks
  <2>2. DOMAIN v = 1 .. 2 /\ v[1] = "cartesian" /\ v[2] = "spline"
    OBVIOUS
  <2> DEFINE set == LimitsSet[a.limits]
  <2>3. /\ set \in Seq(Targets)
        /\ \A i \in DOMAIN set : set[i] \in LimitTargets
    <3>1. CASE a.limits = "none"
      BY <1>1, <3>1 DEF LimitsSet
    <3>2. CASE a.limits = "factors"
      <4>1. LimitsSet[a.limits] = <<"spline">>
        BY <3>2 DEF LimitsSet
      <4> QED
        BY <4>1 DEF Targets, LimitTargets
    <3>3. CASE a.limits = "cartesian"
      <4>1. LimitsSet[a.limits] = <<"spline", "cartesian">>
        BY <3>3 DEF LimitsSet
      <4> QED
        BY <4>1 DEF Targets, LimitTargets
    <3> QED
      BY <2>1, <3>1, <3>2, <3>3
  <2> HIDE DEF v, set
  <2>4. /\ \A i \in DOMAIN v : 4 <= Position(v[i]) /\ Position(v[i]) <= 5
        /\ \A i \in DOMAIN set : 4 <= Position(set[i]) /\ Position(set[i]) <= 5
        /\ \A i, j \in DOMAIN v : i < j => Position(v[i]) < Position(v[j])
    BY <2>2, <2>3, PositionType DEF LimitTargets
  <2>5. Spans(Each("acquire", v) \o Each("set", set) \o Each("move", v), 4, 5)
    BY <1>1, <2>3, <2>4, SpansHalf
  <2>6. LimitsProgram(a) = Each("acquire", v) \o Each("set", set) \o Each("move", v)
    BY DEF LimitsProgram, v, set
  <2>7. Spans(<<>>, 4, 5)
    BY DEF Spans
  <2> QED
    BY <2>5, <2>6, <2>7
<1>4. c \in Seq(Instructions) /\ l \in Seq(Instructions) /\ e \in Instructions
  <2> DEFINE I == [op : {"acquire", "set", "move"}, on : Targets]
  <2>1. c \in Seq(I) /\ l \in Seq(I)
    BY CollisionProgramType, LimitsProgramType, EmptySeq
  <2>2. I \subseteq Instructions /\ e \in Instructions
    BY DEF Instructions, Targets, CollisionTargets
  <2> HIDE DEF I, c, l, e
  <2> QED
    BY <2>1, <2>2
<1>5. e.op = "plan"
  OBVIOUS
<1> DEFINE p == c \o l
<1>6. Program(a) = p \o <<e>>
  BY DEF Program
<1> HIDE DEF c, l, e
<1>7. p \in Seq(Instructions) /\ Spans(p, 1, 5)
  BY <1>2, <1>3, <1>4, SpansConcat
<1> HIDE DEF p
<1>8. /\ \A i \in DOMAIN p : Program(a)[i] = p[i]
      /\ \A i \in DOMAIN Program(a) : i \in DOMAIN p \/ Program(a)[i] = e
      /\ \A j \in DOMAIN p : \A i \in 1 .. j - 1 : i \in DOMAIN p
      /\ \A j \in DOMAIN p, i \in DOMAIN Program(a) : i < j => i \in DOMAIN p
  BY <1>4, <1>6, <1>7
<1>9. ASSUME NEW i \in DOMAIN Program(a), NEW j \in DOMAIN Program(a),
             i < j, Calls(Program(a), i), Program(a)[j].op = "acquire"
      PROVE  Position(Program(a)[i].on) < Position(Program(a)[j].on)
  <2>1. j \in DOMAIN p /\ i \in DOMAIN p
    BY <1>5, <1>8, <1>9
  <2> QED
    BY <1>7, <1>8, <1>9, <2>1 DEF Spans, Calls
<1>10. ASSUME NEW j \in DOMAIN Program(a), Program(a)[j].op = "move"
       PROVE  \E i \in 1 .. j - 1 :
                 Program(a)[i] = [op |-> "acquire", on |-> Program(a)[j].on]
  <2>1. j \in DOMAIN p
    BY <1>5, <1>8, <1>10
  <2>2. PICK i \in 1 .. j - 1 : p[i] = [op |-> "acquire", on |-> p[j].on]
    BY <1>7, <1>8, <1>10, <2>1 DEF Spans
  <2> QED
    BY <1>8, <2>1, <2>2
<1> QED
  BY <1>9, <1>10

(* A running request manages only what it has acquired, or acquired again on *)
(* a move; one that waits, waits for another.                                *)
Taken == \A r \in Requests : Running(r) => \A t \in scopes[r] :
    \E i \in 1 .. step[r] - 1 :
        Calls(Program(ask[r]), i) /\ Program(ask[r])[i].on = t

WaitsForAnother == \A r \in Requests : point[r] = "waiting" => owner[Now(r).on] # r

WaitingInv == ValuesInv /\ Taken /\ WaitsForAnother

LEMMA TakenStep == Inv /\ Taken /\ [Next]_vars => Taken'
<1> SUFFICES ASSUME Inv, Taken, [Next]_vars PROVE Taken'
  OBVIOUS
<1>0. /\ \A r \in Requests : step[r] \in Nat /\ scopes[r] \subseteq Targets
      /\ point \in [Requests -> Points] /\ step \in [Requests -> Nat]
      /\ scopes \in [Requests -> SUBSET Targets]
  BY DEF Inv, TypeOK
<1>1. CASE UNCHANGED vars
  BY <1>1 DEF vars, shared, Taken, Running
\* No other action adds a scope or takes a request back to its program.
<1>2. ASSUME ask' = ask,
             \A q \in Requests : /\ Running(q)' => Running(q)
                                 /\ scopes'[q] \subseteq scopes[q]
                                 /\ step'[q] \in {step[q], step[q] + 1}
      PROVE  Taken'
  <2> SUFFICES ASSUME NEW q \in Requests, Running(q)', NEW t \in scopes'[q]
               PROVE  \E i \in 1 .. step'[q] - 1 :
                         Calls(Program(ask'[q]), i) /\ Program(ask'[q])[i].on = t
    BY DEF Taken
  <2>1. Running(q) /\ t \in scopes[q]
    BY <1>2
  <2>2. PICK i \in 1 .. step[q] - 1 :
               Calls(Program(ask[q]), i) /\ Program(ask[q])[i].on = t
    BY <2>1 DEF Taken
  <2>3. i \in 1 .. step'[q] - 1
    BY <1>0, <1>2, <2>2
  <2> QED
    BY <1>2, <2>2, <2>3
<1>3. ASSUME NEW r \in Requests,
             \/ Begin(r) \/ TestOwned(r) \/ Wake(r) \/ TimeOut(r) \/ Set(r)
             \/ OptionsThrow(r) \/ Apply(r) \/ ApplyThrows(r) \/ Plan(r) \/ Answer(r)
      PROVE  Taken'
  <2>1. ask' = ask /\ scopes' = scopes
    BY <1>3 DEF Begin, TestOwned, Wake, TimeOut, Set, OptionsThrow, Apply, ApplyThrows,
       Plan, Answer
  <2>2. \A q \in Requests : step'[q] \in {step[q], step[q] + 1}
    BY <1>0, <1>3 DEF Begin, TestOwned, Wake, TimeOut, Set, OptionsThrow, Apply,
       ApplyThrows, Plan, Answer, Advance, shared
  <2>3. \A q \in Requests \ {r} : point'[q] = point[q]
    BY <1>0, <1>3 DEF Begin, TestOwned, Wake, TimeOut, Set, OptionsThrow, Apply,
       ApplyThrows, Plan, Answer, Advance, Go
  <2>4. Running(r)' => Running(r)
    BY <1>0, <1>3 DEF Begin, TestOwned, Wake, TimeOut, Set, OptionsThrow, Apply,
       ApplyThrows, Plan, Answer, Advance, Go, Running, At, AtPoint
  <2> QED
    BY <1>2, <2>1, <2>2, <2>3, <2>4 DEF Running
<1>4. ASSUME NEW r \in Requests, Restore(r) \/ Reapply(r) \/ Release(r)
      PROVE  Taken'
  <2>1. ask' = ask /\ step' = step
    BY <1>4 DEF Restore, Reapply, Release
  <2>2. \A q \in Requests : scopes'[q] \subseteq scopes[q]
    BY <1>0, <1>4 DEF Restore, Reapply, Release
  <2>3. \A q \in Requests \ {r} : point'[q] = point[q]
    BY <1>0, <1>4 DEF Restore, Reapply, Release, Go, Terminate
  <2>4. ~Running(r)'
    BY <1>0, <1>4 DEF Restore, Reapply, Release, Go, Terminate, AtPoint, Running
  <2> QED
    BY <1>2, <2>1, <2>2, <2>3, <2>4 DEF Running
<1>5. ASSUME NEW r \in Requests, Store(r) PROVE Taken'
  <2>1. /\ ask' = ask /\ step' = [step EXCEPT ![r] = @ + 1]
        /\ scopes' = [scopes EXCEPT ![r] = @ \cup {Now(r).on}]
        /\ point[r] = "storing" /\ Now(r).op \in {"acquire", "move"}
        /\ \A q \in Requests \ {r} : point'[q] = point[q]
    BY <1>0, <1>5 DEF Store, Advance, Go, AtPoint, Inv, InCall
  <2>2. Running(r) /\ step[r] \in DOMAIN Program(ask[r]) /\ ask[r] \in Asks
    BY <2>1 DEF Running, Inv, TypeOK
  <2>3. step[r] \in 1 .. step[r]
    BY <2>2, ProgramShape
  <2> SUFFICES ASSUME NEW q \in Requests, Running(q)', NEW t \in scopes'[q]
               PROVE  \E i \in 1 .. step'[q] - 1 :
                         Calls(Program(ask'[q]), i) /\ Program(ask'[q])[i].on = t
    BY DEF Taken
  <2>4. CASE q # r
    <3>1. Running(q) /\ t \in scopes[q] /\ step'[q] = step[q]
      BY <1>0, <2>1, <2>4 DEF Running
    <3> QED
      BY <2>1, <3>1 DEF Taken
  <2>5. CASE q = r /\ t = Now(r).on
    <3>1. step[r] \in 1 .. step'[r] - 1
      BY <1>0, <2>1, <2>3
    <3> QED
      BY <2>1, <2>5, <3>1 DEF Calls, Now
  <2>6. CASE q = r /\ t \in scopes[r]
    <3>1. PICK i \in 1 .. step[r] - 1 :
                 Calls(Program(ask[r]), i) /\ Program(ask[r])[i].on = t
      BY <2>2, <2>6 DEF Taken
    <3>2. i \in 1 .. step'[r] - 1
      BY <1>0, <2>1, <3>1
    <3> QED
      BY <2>1, <2>6, <3>1, <3>2
  <2> QED
    BY <1>0, <2>1, <2>4, <2>5, <2>6
<1> QED
  BY <1>1, <1>3, <1>4, <1>5 DEF Next

LEMMA WaitsStep == Inv /\ WaitsForAnother /\ [Next]_vars => WaitsForAnother'
<1> SUFFICES ASSUME Inv, WaitsForAnother, [Next]_vars PROVE WaitsForAnother'
  OBVIOUS
<1>0. /\ point \in [Requests -> Points] /\ step \in [Requests -> Nat]
      /\ owner \in [Targets -> Requests \cup {None}]
      /\ \A q \in Requests : Now(q).on \in Targets
  BY NowType DEF Inv, TypeOK, Instructions
<1>1. CASE UNCHANGED vars
  BY <1>1 DEF vars, shared, WaitsForAnother, Now
\* Another request waits for what it waited for.
<1>2. ASSUME NEW r \in Requests, ask' = ask,
             \A q \in Requests \ {r} : point'[q] = point[q] /\ step'[q] = step[q],
             \A t \in Targets : owner'[t] \in {owner[t], r, None},
             point'[r] = "waiting" => owner'[Now(r)'.on] # r
      PROVE  WaitsForAnother'
  <2> SUFFICES ASSUME NEW q \in Requests \ {r}, point'[q] = "waiting"
               PROVE  owner'[Now(q)'.on] # q
    BY <1>2 DEF WaitsForAnother
  <2>1. Now(q)' = Now(q) /\ owner[Now(q).on] # q
    BY <1>2 DEF WaitsForAnother, Now
  <2> QED
    BY <1>0, <1>2, <2>1, ConstantsAssumption
<1>3. ASSUME NEW r \in Requests,
             \/ Begin(r) \/ Wake(r) \/ TimeOut(r) \/ Set(r)
             \/ OptionsThrow(r) \/ Apply(r) \/ ApplyThrows(r) \/ Plan(r) \/ Answer(r)
             \/ Restore(r) \/ Reapply(r) \/ Release(r) \/ Store(r)
      PROVE  WaitsForAnother'
  <2>1. ask' = ask
    BY <1>3 DEF Begin, Wake, TimeOut, Set, OptionsThrow, Apply, ApplyThrows,
       Plan, Answer, Restore, Reapply, Release, Store
  <2>2. \A q \in Requests \ {r} : point'[q] = point[q] /\ step'[q] = step[q]
    BY <1>0, <1>3 DEF Begin, Wake, TimeOut, Set, OptionsThrow, Apply, ApplyThrows,
       Plan, Answer, Restore, Reapply, Release, Store, Advance, Go, Terminate
  <2>3. \A t \in Targets : owner'[t] \in {owner[t], r, None}
    <3>1. CASE Store(r)
      BY <1>0, <3>1 DEF Store
    <3>2. CASE Release(r)
      BY <1>0, <3>2 DEF Release
    <3>3. CASE owner' = owner
      BY <3>3
    <3> QED
      BY <1>3, <3>1, <3>2, <3>3 DEF Begin, Wake, TimeOut, Set, OptionsThrow, Apply,
         ApplyThrows, Plan, Answer, Restore, Reapply, shared
  <2>4. point'[r] # "waiting"
    BY <1>0, <1>3 DEF Begin, Wake, TimeOut, Set, OptionsThrow, Apply, ApplyThrows,
       Plan, Answer, Restore, Reapply, Release, Store, Advance, Go, Terminate, AtPoint
  <2> QED
    BY <1>2, <2>1, <2>2, <2>3, <2>4
<1>4. ASSUME NEW r \in Requests, TestOwned(r) PROVE WaitsForAnother'
  <2>1. /\ ask' = ask /\ owner' = owner
        /\ \A q \in Requests \ {r} : point'[q] = point[q] /\ step'[q] = step[q]
    BY <1>0, <1>4 DEF TestOwned, Advance, Go, shared
  <2>2. point'[r] = "waiting" => step' = step /\ owner[Now(r).on] # r
    BY <1>0, <1>4 DEF TestOwned, Advance, Go
  <2>3. point'[r] = "waiting" => owner'[Now(r)'.on] # r
    BY <2>1, <2>2 DEF Now
  <2> QED
    BY <1>2, <2>1, <2>3
<1> QED
  BY <1>1, <1>3, <1>4 DEF Next

(* Freedom from deadlock for any number of requests: the holder of what a    *)
(* request waits for waits for nothing that comes before it, so that no      *)
(* circle of waiting requests closes, unless an owner was stored over        *)
(* another (draco.cc 51-65, draco_planner.cc 110-120, 215-219).              *)
THEOREM WaitsInOrder == Spec => []NoCircularWait
<1>1. Init => WaitingInv
  BY InitValues DEF WaitingInv, Init, Taken, WaitsForAnother
<1>2. WaitingInv /\ [Next]_vars => WaitingInv'
  BY ValuesStep, TakenStep, WaitsStep DEF WaitingInv, ValuesInv
<1>3. WaitingInv => NoCircularWait
  <2> SUFFICES ASSUME WaitingInv, ~raced, NEW r \in Requests, NEW s \in Requests,
                      point[r] = "waiting", point[s] = "waiting",
                      owner[Now(r).on] = s
               PROVE  Position(Now(r).on) < Position(Now(s).on)
    BY DEF NoCircularWait
  <2>0. /\ TypeOK /\ InCall /\ OwnedByItsScope /\ Values
        /\ ValuesInv /\ Taken /\ WaitsForAnother
    BY DEF WaitingInv, ValuesInv, Inv
  <2>1. Running(s) /\ Now(s).op \in {"acquire", "move"} /\ Now(r).on \in Targets
        /\ Now(s).on \in Targets /\ Held(s)
    BY <2>0, NowType DEF Running, InCall, Instructions, Values
  <2>2. step[s] \in DOMAIN Program(ask[s]) /\ ask[s] \in Asks /\ step[s] \in Nat
        /\ Program(ask[s]) \in Seq(Instructions)
    BY <2>0, ProgramShape DEF TypeOK
  <2>3. Now(s).op = "acquire"
    <3> SUFFICES ASSUME Now(s).op = "move" PROVE FALSE
      BY <2>1
    <3>1. PICK i \in 1 .. step[s] - 1 :
                 Program(ask[s])[i] = [op |-> "acquire", on |-> Now(s).on]
      BY <2>2, ProgramOrdered DEF Now
    <3>2. Now(s).on \in scopes[s]
      BY <2>1, <3>1 DEF Held
    <3>3. owner[Now(s).on] = s
      BY <2>0, <2>1, <3>2 DEF OwnedByItsScope
    <3> QED
      BY <2>0, <3>3 DEF WaitsForAnother
  <2>4. Now(r).on \in scopes[s]
    BY <2>0, <2>1 DEF OwnedByItsScope
  <2>5. PICK i \in 1 .. step[s] - 1 :
               Calls(Program(ask[s]), i) /\ Program(ask[s])[i].on = Now(r).on
    BY <2>0, <2>1, <2>4 DEF Taken
  <2>6. i \in DOMAIN Program(ask[s]) /\ i < step[s]
    BY <2>2, <2>5
  <2> QED
    BY <2>2, <2>3, <2>5, <2>6, ProgramOrdered DEF Now
<1> QED
  BY <1>1, <1>2, <1>3, PTL DEF Spec
=============================================================================
