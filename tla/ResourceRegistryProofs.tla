----------------------- MODULE ResourceRegistryProofs -----------------------
(***************************************************************************)
(* Proofs that the registry stays consistent, for any number of contexts   *)
(* and requests: while the requests that write come one at a time, list,   *)
(* planners and directories agree between two of them, a listed context    *)
(* has its planner at every moment, and a restart loses no served context. *)
(***************************************************************************)
EXTENDS ResourceRegistry, TLAPS

USE RegistryAssumption, OpsAssumption

Reading == {"lookup", "solve", "pick", "get"}

Last(o) == Len(Accesses[o])

(* Access i of request o is this one, and one of next comes after it.        *)
Then(o, i, access, next) ==
    Accesses[o][i] = access /\ i < Last(o) /\ Accesses[o][i + 1] \in next

(* What comes before and after each kind of access.                          *)
Leads(o, i) ==
    /\ Accesses[o][i] = "save" => o = "register" /\ Then(o, i, "save", {"served?"})
    /\ Accesses[o][i] = "read" => o \in Writers \ {"remove"} /\ Then(o, i, "read", {"served?", "make"})
    /\ Accesses[o][i] = "served?" => o \in {"register", "load"} /\ Then(o, i, "served?", {"make"})
    /\ Accesses[o][i] = "served!" => o = "remove" /\ i = 1 /\ Then(o, i, "served!", {"erase"})
    /\ Accesses[o][i] = "erase" => o = "remove" /\ i = 2 /\ Then(o, i, "erase", {"count"})
    /\ Accesses[o][i] = "count" =>
          (o = "migrate" \/ (o = "remove" /\ i = 3)) /\ Then(o, i, "count", {"unlist"})
    /\ Accesses[o][i] = "unlist" =>
          \/ (o = "migrate" \/ (o = "remove" /\ i = 4)) /\ Then(o, i, "unlist", {"drop"})
          \/ o = "remove" /\ i = 6 /\ i = Last(o)
    /\ Accesses[o][i] = "drop" =>
          \/ o = "migrate" /\ Then(o, i, "drop", {"read"})
          \/ o = "remove" /\ i = 5 /\ Then(o, i, "drop", {"unlist"})
    /\ Accesses[o][i] = "sources" => o = "migrate" /\ Then(o, i, "sources", {"loaded?"})
    /\ Accesses[o][i] = "loaded?" =>
          /\ o = "migrate" /\ Then(o, i, "loaded?", {"count"})
          /\ i + 4 <= Last(o) /\ Accesses[o][i + 4] = "read"
    /\ Accesses[o][i] = "files" => o = "migrate" /\ Then(o, i, "files", {"count"})
    /\ Accesses[o][i] = "make" => o \in Writers \ {"remove"} /\ Then(o, i, "make", {"insert"})
    /\ Accesses[o][i] = "insert" => o \in Writers \ {"remove"} /\ Then(o, i, "insert", {"list"})
    /\ Accesses[o][i] = "list" =>
          \/ o \in {"register", "load"} /\ i = Last(o)
          \/ o = "migrate" /\ Then(o, i, "list", {"files", "stop page"})
    /\ Accesses[o][i] = "stop page" => o = "migrate" /\ Then(o, i, "stop page", {"join page"})
    /\ Accesses[o][i] = "join page" => o = "migrate" /\ Then(o, i, "join page", {"launch page"})
    /\ Accesses[o][i] = "launch page" => o = "migrate" /\ i = Last(o)
    /\ Accesses[o][i] = "pick" => Then(o, i, "pick", {"get"})
    /\ Accesses[o][i] \in Reading => o \notin Writers

LEMMA Flow ==
    ASSUME NEW o \in Ops
    PROVE  /\ Last(o) \in 2 .. 20 /\ DOMAIN Accesses[o] = 1 .. Last(o)
           /\ Accesses[o][1] \notin {"make", "insert", "drop", "list", "served?"}
           /\ \A i \in DOMAIN Accesses[o] : Leads(o, i)
<1>1. CASE o = "register"
  <2>1. Accesses[o] = <<"save", "served?", "make", "insert", "list">>
    BY <1>1 DEF Accesses
  <2>3. Last(o) = 5 /\ DOMAIN Accesses[o] = 1 .. 5
    BY <2>1 DEF Last
  <2>4. Leads(o, 1)
    <3>1. Accesses[o][1] = "save" /\ Accesses[o][2] = "served?"
      BY <2>1
    <3>2. 1 + 1 = 2 /\ 1 < Last(o)
      BY <2>3
    <3> QED
      BY <1>1, <2>1, <3>1, <3>2 DEF Leads, Then, Reading, Writers
  <2>5. Leads(o, 2)
    <3>1. Accesses[o][2] = "served?" /\ Accesses[o][3] = "make"
      BY <2>1
    <3>2. 2 + 1 = 3 /\ 2 < Last(o)
      BY <2>3
    <3> QED
      BY <1>1, <2>1, <3>1, <3>2 DEF Leads, Then, Reading, Writers
  <2>6. Leads(o, 3)
    <3>1. Accesses[o][3] = "make" /\ Accesses[o][4] = "insert"
      BY <2>1
    <3>2. 3 + 1 = 4 /\ 3 < Last(o)
      BY <2>3
    <3> QED
      BY <1>1, <2>1, <3>1, <3>2 DEF Leads, Then, Reading, Writers
  <2>7. Leads(o, 4)
    <3>1. Accesses[o][4] = "insert" /\ Accesses[o][5] = "list"
      BY <2>1
    <3>2. 4 + 1 = 5 /\ 4 < Last(o)
      BY <2>3
    <3> QED
      BY <1>1, <2>1, <3>1, <3>2 DEF Leads, Then, Reading, Writers
  <2>8. Leads(o, 5)
    <3>1. Accesses[o][5] = "list"
      BY <2>1
    <3>2. 5 = Last(o)
      BY <2>3
    <3> QED
      BY <1>1, <2>1, <3>1, <3>2 DEF Leads, Then, Reading, Writers
  <2>9. Accesses[o][1] = "save"
    BY <2>1
  <2>10. DOMAIN Accesses[o] = {1, 2, 3, 4, 5}
    BY <2>3
  <2>11. \A i \in DOMAIN Accesses[o] : Leads(o, i)
    BY <2>4, <2>5, <2>6, <2>7, <2>8, <2>10
  <2> QED
    BY <2>3, <2>9, <2>11
<1>2. CASE o = "load"
  <2>1. Accesses[o] = <<"read", "served?", "make", "insert", "list">>
    BY <1>2 DEF Accesses
  <2>3. Last(o) = 5 /\ DOMAIN Accesses[o] = 1 .. 5
    BY <2>1 DEF Last
  <2>4. Leads(o, 1)
    <3>1. Accesses[o][1] = "read" /\ Accesses[o][2] = "served?"
      BY <2>1
    <3>2. 1 + 1 = 2 /\ 1 < Last(o)
      BY <2>3
    <3> QED
      BY <1>2, <2>1, <3>1, <3>2 DEF Leads, Then, Reading, Writers
  <2>5. Leads(o, 2)
    <3>1. Accesses[o][2] = "served?" /\ Accesses[o][3] = "make"
      BY <2>1
    <3>2. 2 + 1 = 3 /\ 2 < Last(o)
      BY <2>3
    <3> QED
      BY <1>2, <2>1, <3>1, <3>2 DEF Leads, Then, Reading, Writers
  <2>6. Leads(o, 3)
    <3>1. Accesses[o][3] = "make" /\ Accesses[o][4] = "insert"
      BY <2>1
    <3>2. 3 + 1 = 4 /\ 3 < Last(o)
      BY <2>3
    <3> QED
      BY <1>2, <2>1, <3>1, <3>2 DEF Leads, Then, Reading, Writers
  <2>7. Leads(o, 4)
    <3>1. Accesses[o][4] = "insert" /\ Accesses[o][5] = "list"
      BY <2>1
    <3>2. 4 + 1 = 5 /\ 4 < Last(o)
      BY <2>3
    <3> QED
      BY <1>2, <2>1, <3>1, <3>2 DEF Leads, Then, Reading, Writers
  <2>8. Leads(o, 5)
    <3>1. Accesses[o][5] = "list"
      BY <2>1
    <3>2. 5 = Last(o)
      BY <2>3
    <3> QED
      BY <1>2, <2>1, <3>1, <3>2 DEF Leads, Then, Reading, Writers
  <2>9. Accesses[o][1] = "read"
    BY <2>1
  <2>10. DOMAIN Accesses[o] = {1, 2, 3, 4, 5}
    BY <2>3
  <2>11. \A i \in DOMAIN Accesses[o] : Leads(o, i)
    BY <2>4, <2>5, <2>6, <2>7, <2>8, <2>10
  <2> QED
    BY <2>3, <2>9, <2>11
<1>3. CASE o = "remove"
  <2>1. Accesses[o] = <<"served!", "erase", "count", "unlist", "drop", "unlist">>
    BY <1>3 DEF Accesses
  <2>3. Last(o) = 6 /\ DOMAIN Accesses[o] = 1 .. 6
    BY <2>1 DEF Last
  <2>4. Leads(o, 1)
    <3>1. Accesses[o][1] = "served!" /\ Accesses[o][2] = "erase"
      BY <2>1
    <3>2. 1 + 1 = 2 /\ 1 < Last(o)
      BY <2>3
    <3> QED
      BY <1>3, <2>1, <3>1, <3>2 DEF Leads, Then, Reading, Writers
  <2>5. Leads(o, 2)
    <3>1. Accesses[o][2] = "erase" /\ Accesses[o][3] = "count"
      BY <2>1
    <3>2. 2 + 1 = 3 /\ 2 < Last(o)
      BY <2>3
    <3> QED
      BY <1>3, <2>1, <3>1, <3>2 DEF Leads, Then, Reading, Writers
  <2>6. Leads(o, 3)
    <3>1. Accesses[o][3] = "count" /\ Accesses[o][4] = "unlist"
      BY <2>1
    <3>2. 3 + 1 = 4 /\ 3 < Last(o)
      BY <2>3
    <3> QED
      BY <1>3, <2>1, <3>1, <3>2 DEF Leads, Then, Reading, Writers
  <2>7. Leads(o, 4)
    <3>1. Accesses[o][4] = "unlist" /\ Accesses[o][5] = "drop"
      BY <2>1
    <3>2. 4 + 1 = 5 /\ 4 < Last(o)
      BY <2>3
    <3> QED
      BY <1>3, <2>1, <3>1, <3>2 DEF Leads, Then, Reading, Writers
  <2>8. Leads(o, 5)
    <3>1. Accesses[o][5] = "drop" /\ Accesses[o][6] = "unlist"
      BY <2>1
    <3>2. 5 + 1 = 6 /\ 5 < Last(o)
      BY <2>3
    <3> QED
      BY <1>3, <2>1, <3>1, <3>2 DEF Leads, Then, Reading, Writers
  <2>9. Leads(o, 6)
    <3>1. Accesses[o][6] = "unlist"
      BY <2>1
    <3>2. 6 = Last(o)
      BY <2>3
    <3> QED
      BY <1>3, <2>1, <3>1, <3>2 DEF Leads, Then, Reading, Writers
  <2>10. Accesses[o][1] = "served!"
    BY <2>1
  <2>11. DOMAIN Accesses[o] = {1, 2, 3, 4, 5, 6}
    BY <2>3
  <2>12. \A i \in DOMAIN Accesses[o] : Leads(o, i)
    BY <2>4, <2>5, <2>6, <2>7, <2>8, <2>9, <2>11
  <2> QED
    BY <2>3, <2>10, <2>12
<1>4. CASE o = "migrate"
  <2>1. Accesses[o] = Migration
    BY <1>4 DEF Accesses
  <2>2. Len(Migration) = 20 /\ DOMAIN Migration = 1 .. 20
    BY DEF Migration
  <2>3. Last(o) = 20 /\ DOMAIN Accesses[o] = 1 .. 20
    BY <2>1, <2>2 DEF Last
  <2>4. Leads(o, 1)
    <3>1. Migration[1] = "sources" /\ Migration[2] = "loaded?"
      BY DEF Migration
    <3>2. 1 + 1 = 2 /\ 1 < Last(o)
      BY <2>3
    <3> QED
      BY <1>4, <2>1, <3>1, <3>2 DEF Leads, Then, Reading, Writers
  <2>5. Leads(o, 2)
    <3>1. Migration[2] = "loaded?" /\ Migration[3] = "count" /\ Migration[6] = "read"
      BY DEF Migration
    <3>2. 2 + 1 = 3 /\ 2 < Last(o) /\ 2 + 4 = 6 /\ 6 <= Last(o)
      BY <2>3
    <3> QED
      BY <1>4, <2>1, <3>1, <3>2 DEF Leads, Then, Reading, Writers
  <2>6. Leads(o, 3)
    <3>1. Migration[3] = "count" /\ Migration[4] = "unlist"
      BY DEF Migration
    <3>2. 3 + 1 = 4 /\ 3 < Last(o)
      BY <2>3
    <3> QED
      BY <1>4, <2>1, <3>1, <3>2 DEF Leads, Then, Reading, Writers
  <2>7. Leads(o, 4)
    <3>1. Migration[4] = "unlist" /\ Migration[5] = "drop"
      BY DEF Migration
    <3>2. 4 + 1 = 5 /\ 4 < Last(o)
      BY <2>3
    <3> QED
      BY <1>4, <2>1, <3>1, <3>2 DEF Leads, Then, Reading, Writers
  <2>8. Leads(o, 5)
    <3>1. Migration[5] = "drop" /\ Migration[6] = "read"
      BY DEF Migration
    <3>2. 5 + 1 = 6 /\ 5 < Last(o)
      BY <2>3
    <3> QED
      BY <1>4, <2>1, <3>1, <3>2 DEF Leads, Then, Reading, Writers
  <2>9. Leads(o, 6)
    <3>1. Migration[6] = "read" /\ Migration[7] = "make"
      BY DEF Migration
    <3>2. 6 + 1 = 7 /\ 6 < Last(o)
      BY <2>3
    <3> QED
      BY <1>4, <2>1, <3>1, <3>2 DEF Leads, Then, Reading, Writers
  <2>10. Leads(o, 7)
    <3>1. Migration[7] = "make" /\ Migration[8] = "insert"
      BY DEF Migration
    <3>2. 7 + 1 = 8 /\ 7 < Last(o)
      BY <2>3
    <3> QED
      BY <1>4, <2>1, <3>1, <3>2 DEF Leads, Then, Reading, Writers
  <2>11. Leads(o, 8)
    <3>1. Migration[8] = "insert" /\ Migration[9] = "list"
      BY DEF Migration
    <3>2. 8 + 1 = 9 /\ 8 < Last(o)
      BY <2>3
    <3> QED
      BY <1>4, <2>1, <3>1, <3>2 DEF Leads, Then, Reading, Writers
  <2>12. Leads(o, 9)
    <3>1. Migration[9] = "list" /\ Migration[10] = "files"
      BY DEF Migration
    <3>2. 9 + 1 = 10 /\ 9 < Last(o)
      BY <2>3
    <3> QED
      BY <1>4, <2>1, <3>1, <3>2 DEF Leads, Then, Reading, Writers
  <2>13. Leads(o, 10)
    <3>1. Migration[10] = "files" /\ Migration[11] = "count"
      BY DEF Migration
    <3>2. 10 + 1 = 11 /\ 10 < Last(o)
      BY <2>3
    <3> QED
      BY <1>4, <2>1, <3>1, <3>2 DEF Leads, Then, Reading, Writers
  <2>14. Leads(o, 11)
    <3>1. Migration[11] = "count" /\ Migration[12] = "unlist"
      BY DEF Migration
    <3>2. 11 + 1 = 12 /\ 11 < Last(o)
      BY <2>3
    <3> QED
      BY <1>4, <2>1, <3>1, <3>2 DEF Leads, Then, Reading, Writers
  <2>15. Leads(o, 12)
    <3>1. Migration[12] = "unlist" /\ Migration[13] = "drop"
      BY DEF Migration
    <3>2. 12 + 1 = 13 /\ 12 < Last(o)
      BY <2>3
    <3> QED
      BY <1>4, <2>1, <3>1, <3>2 DEF Leads, Then, Reading, Writers
  <2>16. Leads(o, 13)
    <3>1. Migration[13] = "drop" /\ Migration[14] = "read"
      BY DEF Migration
    <3>2. 13 + 1 = 14 /\ 13 < Last(o)
      BY <2>3
    <3> QED
      BY <1>4, <2>1, <3>1, <3>2 DEF Leads, Then, Reading, Writers
  <2>17. Leads(o, 14)
    <3>1. Migration[14] = "read" /\ Migration[15] = "make"
      BY DEF Migration
    <3>2. 14 + 1 = 15 /\ 14 < Last(o)
      BY <2>3
    <3> QED
      BY <1>4, <2>1, <3>1, <3>2 DEF Leads, Then, Reading, Writers
  <2>18. Leads(o, 15)
    <3>1. Migration[15] = "make" /\ Migration[16] = "insert"
      BY DEF Migration
    <3>2. 15 + 1 = 16 /\ 15 < Last(o)
      BY <2>3
    <3> QED
      BY <1>4, <2>1, <3>1, <3>2 DEF Leads, Then, Reading, Writers
  <2>19. Leads(o, 16)
    <3>1. Migration[16] = "insert" /\ Migration[17] = "list"
      BY DEF Migration
    <3>2. 16 + 1 = 17 /\ 16 < Last(o)
      BY <2>3
    <3> QED
      BY <1>4, <2>1, <3>1, <3>2 DEF Leads, Then, Reading, Writers
  <2>20. Leads(o, 17)
    <3>1. Migration[17] = "list" /\ Migration[18] = "stop page"
      BY DEF Migration
    <3>2. 17 + 1 = 18 /\ 17 < Last(o)
      BY <2>3
    <3> QED
      BY <1>4, <2>1, <3>1, <3>2 DEF Leads, Then, Reading, Writers
  <2>21. Leads(o, 18)
    <3>1. Migration[18] = "stop page" /\ Migration[19] = "join page"
      BY DEF Migration
    <3>2. 18 + 1 = 19 /\ 18 < Last(o)
      BY <2>3
    <3> QED
      BY <1>4, <2>1, <3>1, <3>2 DEF Leads, Then, Reading, Writers
  <2>22. Leads(o, 19)
    <3>1. Migration[19] = "join page" /\ Migration[20] = "launch page"
      BY DEF Migration
    <3>2. 19 + 1 = 20 /\ 19 < Last(o)
      BY <2>3
    <3> QED
      BY <1>4, <2>1, <3>1, <3>2 DEF Leads, Then, Reading, Writers
  <2>23. Leads(o, 20)
    <3>1. Migration[20] = "launch page"
      BY DEF Migration
    <3>2. 20 = Last(o)
      BY <2>3
    <3> QED
      BY <1>4, <2>1, <3>1, <3>2 DEF Leads, Then, Reading, Writers
  <2>24. Accesses[o][1] = "sources"
    <3>1. Migration[1] = "sources"
      BY DEF Migration
    <3> QED
      BY <2>1, <3>1
  <2>25. DOMAIN Accesses[o] = {1, 2, 3, 4, 5, 6, 7, 8, 9, 10, 11, 12, 13, 14, 15, 16, 17, 18, 19, 20}
    BY <2>3
  <2>26. \A i \in DOMAIN Accesses[o] : Leads(o, i)
    BY <2>4, <2>5, <2>6, <2>7, <2>8, <2>9, <2>10, <2>11, <2>12, <2>13, <2>14, <2>15, <2>16, <2>17, <2>18, <2>19, <2>20, <2>21, <2>22, <2>23, <2>25
  <2> QED
    BY <2>3, <2>24, <2>26
<1>5. CASE o = "plan"
  <2>1. Accesses[o] = <<"lookup", "solve">>
    BY <1>5 DEF Accesses
  <2>3. Last(o) = 2 /\ DOMAIN Accesses[o] = 1 .. 2
    BY <2>1 DEF Last
  <2>4. Leads(o, 1)
    <3>1. Accesses[o][1] = "lookup" /\ Accesses[o][2] = "solve"
      BY <2>1
    <3>2. 1 + 1 = 2 /\ 1 < Last(o)
      BY <2>3
    <3> QED
      BY <1>5, <2>1, <3>1, <3>2 DEF Leads, Then, Reading, Writers
  <2>5. Leads(o, 2)
    <3>1. Accesses[o][2] = "solve"
      BY <2>1
    <3>2. 2 = Last(o)
      BY <2>3
    <3> QED
      BY <1>5, <2>1, <3>1, <3>2 DEF Leads, Then, Reading, Writers
  <2>6. Accesses[o][1] = "lookup"
    BY <2>1
  <2>7. DOMAIN Accesses[o] = {1, 2}
    BY <2>3
  <2>8. \A i \in DOMAIN Accesses[o] : Leads(o, i)
    BY <2>4, <2>5, <2>7
  <2> QED
    BY <2>3, <2>6, <2>8
<1>6. CASE o = "summary"
  <2>1. Accesses[o] = <<"pick", "get">>
    BY <1>6 DEF Accesses
  <2>3. Last(o) = 2 /\ DOMAIN Accesses[o] = 1 .. 2
    BY <2>1 DEF Last
  <2>4. Leads(o, 1)
    <3>1. Accesses[o][1] = "pick" /\ Accesses[o][2] = "get"
      BY <2>1
    <3>2. 1 + 1 = 2 /\ 1 < Last(o)
      BY <2>3
    <3> QED
      BY <1>6, <2>1, <3>1, <3>2 DEF Leads, Then, Reading, Writers
  <2>5. Leads(o, 2)
    <3>1. Accesses[o][2] = "get"
      BY <2>1
    <3>2. 2 = Last(o)
      BY <2>3
    <3> QED
      BY <1>6, <2>1, <3>1, <3>2 DEF Leads, Then, Reading, Writers
  <2>6. Accesses[o][1] = "pick"
    BY <2>1
  <2>7. DOMAIN Accesses[o] = {1, 2}
    BY <2>3
  <2>8. \A i \in DOMAIN Accesses[o] : Leads(o, i)
    BY <2>4, <2>5, <2>7
  <2> QED
    BY <2>3, <2>6, <2>8
<1>7. o \in {"register", "load", "remove", "migrate", "plan", "summary"}
  BY DEF Accesses
<1> QED
  BY <1>1, <1>2, <1>3, <1>4, <1>5, <1>6, <1>7

-----------------------------------------------------------------------------
(* Type correctness.                                                         *)
CallOK ==
    /\ op \in [Threads -> Ops \cup {"idle"}]
    /\ ctx \in [Threads -> Contexts] /\ from \in [Threads -> Contexts]
    /\ pc \in [Threads -> 1 .. 20]
    /\ \A r \in Threads :
          pc[r] \in IF op[r] = "idle" THEN {1} ELSE DOMAIN Accesses[op[r]]

MapsOK ==
    /\ disk \subseteq Contexts /\ draco \subseteq Contexts /\ listed \subseteq Contexts
    /\ mutex \in Threads \cup {Free}

HtmlOK == page \in Pages /\ stop \in BOOLEAN /\ down \in BOOLEAN

HistOK == restarts \in 0 .. MaxRestarts /\ overlapped \in BOOLEAN

LEMMA TypeParts ==
    /\ RegistryTypeOK <=> CallOK /\ MapsOK /\ HtmlOK /\ HistOK
    /\ RegistryTypeOK' <=> CallOK' /\ MapsOK' /\ HtmlOK' /\ HistOK'
  BY DEF RegistryTypeOK, CallOK, MapsOK, HtmlOK, HistOK

LEMMA IdleIsNone == "idle" \notin Ops
<1>1. DOMAIN Accesses = {"register", "load", "remove", "migrate", "plan", "summary"}
  BY DEF Accesses
<1> QED
  BY <1>1

(* A request that is worked on stands at one of its accesses.                *)
LEMMA Located ==
    ASSUME CallOK, NEW r \in Threads, op[r] # "idle"
    PROVE  /\ op[r] \in Ops
           /\ Last(op[r]) \in 2 .. 20 /\ pc[r] \in 1 .. Last(op[r])
           /\ Leads(op[r], pc[r])
<1>1. op[r] \in Ops /\ pc[r] \in DOMAIN Accesses[op[r]]
  BY DEF CallOK
<1> QED
  BY <1>1, Flow

(* It moves on within its program, or it is answered.                        *)
Advances(r, n) ==
    /\ pc' = [pc EXCEPT ![r] = @ + n]
    /\ pc[r] + n <= Last(op[r])
    /\ UNCHANGED <<op, ctx, from>>

LEMMA IdleTyped ==
    ASSUME CallOK, NEW r \in Threads, Idle(r)
    PROVE  CallOK'
<1>1. /\ op' \in [Threads -> Ops \cup {"idle"}] /\ pc' \in [Threads -> 1 .. 20]
      /\ ctx' = ctx /\ from' = from
  BY DEF CallOK, Idle
<1>2. ASSUME NEW q \in Threads
      PROVE  pc'[q] \in IF op'[q] = "idle" THEN {1} ELSE DOMAIN Accesses[op'[q]]
  BY IdleIsNone DEF CallOK, Idle
<1> QED
  BY <1>1, <1>2 DEF CallOK

LEMMA AdvanceTyped ==
    ASSUME CallOK, NEW r \in Threads, op[r] # "idle", NEW n \in Nat, Advances(r, n)
    PROVE  CallOK'
<1>1. /\ Last(op[r]) \in 2 .. 20 /\ pc[r] \in 1 .. Last(op[r])
      /\ DOMAIN Accesses[op[r]] = 1 .. Last(op[r])
  BY Located, Flow
<1>2. pc[r] + n <= Last(op[r])
  BY DEF Advances
<1>3. pc[r] + n \in 1 .. 20 /\ pc[r] + n \in DOMAIN Accesses[op[r]]
  <2>1. pc[r] + n \in Nat /\ 1 <= pc[r] + n /\ pc[r] + n <= 20
    BY <1>2, <1>1
  <2>2. pc[r] + n \in 1 .. 20
    BY <2>1
  <2>3. pc[r] + n \in 1 .. Last(op[r])
    BY <1>2, <1>1, <2>1
  <2> QED
    BY <1>1, <2>2, <2>3
<1>4. pc' \in [Threads -> 1 .. 20] /\ op' = op /\ ctx' = ctx /\ from' = from
  BY <1>3 DEF Advances, CallOK
<1>5. ASSUME NEW q \in Threads
      PROVE  pc'[q] \in IF op'[q] = "idle" THEN {1} ELSE DOMAIN Accesses[op'[q]]
  BY <1>3, <1>4 DEF CallOK, Advances
<1> QED
  BY <1>4, <1>5 DEF CallOK

LEMMA Moves ==
    ASSUME CallOK, NEW r \in Threads, op[r] # "idle", NEW n \in Nat, Skip(r, n)
    PROVE  Idle(r) \/ Advances(r, n)
<1>1. /\ Last(op[r]) \in 2 .. 20 /\ pc[r] \in 1 .. Last(op[r])
  BY Located
<1> QED
  BY <1>1 DEF Skip, Advances, Last

LEMMA MoveTyped ==
    ASSUME CallOK, NEW r \in Threads, op[r] # "idle",
           Idle(r) \/ Continue(r) \/ Skip(r, 4)
    PROVE  CallOK'
  BY IdleTyped, AdvanceTyped, Moves DEF Continue

LEMMA AskMoves ==
    ASSUME NEW r \in Threads, Ask(r)
    PROVE  /\ op[r] # "idle" /\ (Idle(r) \/ Continue(r) \/ Skip(r, 4))
           /\ UNCHANGED <<maps, html, down, hist>>
  BY DEF Ask, AtAccess, Fail

LEMMA InitTyped == RegistryInit => RegistryTypeOK
<1> SUFFICES ASSUME RegistryInit
             PROVE  RegistryTypeOK
  OBVIOUS
<1>1. (CHOOSE c \in Contexts : TRUE) \in Contexts
  OBVIOUS
<1>2. CallOK
  BY <1>1, IdleIsNone DEF RegistryInit, CallOK
<1>3. MapsOK
  BY DEF RegistryInit, MapsOK, Loadable
<1>4. HtmlOK
  BY DEF RegistryInit, HtmlOK, Pages
<1>5. HistOK
  <2>1. 0 \in 0 .. MaxRestarts
    BY MaxRestarts \in Nat
  <2> QED
    BY <2>1 DEF RegistryInit, HistOK
<1> QED
  BY <1>2, <1>3, <1>4, <1>5, TypeParts

LEMMA TypeStep ==
    ASSUME RegistryTypeOK, [RegistryNext]_registryVars
    PROVE  RegistryTypeOK'
<1> USE TypeParts
<1>1. ASSUME NEW r \in Threads, Receive(r)
      PROVE  RegistryTypeOK'
  <2>1. PICK o \in Ops, c \in Contexts, f \in Contexts :
           /\ op' = [op EXCEPT ![r] = o]
           /\ ctx' = [ctx EXCEPT ![r] = c]
           /\ from' = [from EXCEPT ![r] = IF o = "migrate" THEN f ELSE c]
    BY <1>1 DEF Receive
  <2>2. op[r] = "idle" /\ pc' = pc /\ overlapped' \in BOOLEAN
    BY <1>1 DEF Receive, HistOK
  <2>3. pc[r] = 1
    BY <2>2 DEF CallOK
  <2>4. RegistryTypeOK'
    <3>1. 1 \in DOMAIN Accesses[o]
      BY Flow
    <3>2. ASSUME NEW q \in Threads
          PROVE  pc'[q] \in IF op'[q] = "idle" THEN {1} ELSE DOMAIN Accesses[op'[q]]
      BY <2>1, <2>2, <2>3, <3>1, IdleIsNone DEF CallOK
    <3>3. op' \in [Threads -> Ops \cup {"idle"}]
      BY <2>1 DEF CallOK
    <3>4. ctx' \in [Threads -> Contexts] /\ from' \in [Threads -> Contexts]
      BY <2>1 DEF CallOK
    <3>5. CallOK'
      BY <2>2, <3>2, <3>3, <3>4 DEF CallOK
    <3> QED
      BY <1>1, <2>2, <3>5 DEF Receive, maps, html, MapsOK, HtmlOK, HistOK
  <2> QED
    BY <2>4
<1>2. ASSUME NEW r \in Threads, Step(r)
      PROVE  RegistryTypeOK'
  <2>1. CASE Ask(r)
    <3>1. CallOK'
      BY <2>1, AskMoves, MoveTyped
    <3> QED
      BY <2>1, <3>1, AskMoves DEF maps, html, hist, MapsOK, HtmlOK, HistOK
  <2>2. ASSUME Save(r) \/ Erase(r) \/ Make(r) \/ Insert(r) \/ List(r) \/ Unlist(r) \/ Drop(r)
        PROVE  RegistryTypeOK'
    <3>1. op[r] # "idle" /\ (Idle(r) \/ Continue(r))
      BY <2>2 DEF Save, Erase, Make, Insert, List, Unlist, Drop, AtAccess
    <3>2. CallOK' /\ ctx[r] \in Contexts
      BY <3>1, MoveTyped DEF CallOK
    <3>3. MapsOK'
      BY <2>2, <3>2 DEF Save, Erase, Make, Insert, List, Unlist, Drop, MapsOK
    <3> QED
      BY <2>2, <3>2, <3>3 DEF Save, Erase, Make, Insert, List, Unlist, Drop, html, hist, HtmlOK, HistOK
  <2>3. CASE Lookup(r) \/ Solve(r) \/ Get(r)
    <3>1. op[r] # "idle" /\ (Idle(r) \/ Continue(r)) /\ UNCHANGED <<maps, html, down, hist>>
      BY <2>3 DEF Lookup, Solve, Get, AtAccess
    <3>2. CallOK'
      BY <3>1, MoveTyped
    <3> QED
      BY <3>1, <3>2 DEF maps, html, hist, MapsOK, HtmlOK, HistOK
  <2>4. CASE Pick(r)
    <3>1. op[r] # "idle" /\ UNCHANGED <<maps, html, down, hist>>
      BY <2>4 DEF Pick, AtAccess
    <3>2. CASE Idle(r)
      BY <3>1, <3>2, IdleTyped DEF maps, html, hist, MapsOK, HtmlOK, HistOK
    <3>3. CASE ~Idle(r)
      <4>1. PICK c \in listed : /\ ctx' = [ctx EXCEPT ![r] = c]
                                /\ pc' = [pc EXCEPT ![r] = @ + 1]
                                /\ op' = op /\ from' = from
        BY <2>4, <3>3 DEF Pick
      <4>2. Accesses[op[r]][pc[r]] = "pick"
        BY <2>4 DEF Pick, AtAccess, NextAccess
      <4>3. Last(op[r]) \in 2 .. 20 /\ pc[r] \in 1 .. Last(op[r])
            /\ Leads(op[r], pc[r]) /\ op[r] \in Ops
        BY <3>1, Located
      <4>4. pc[r] < Last(op[r])
        BY <4>2, <4>3 DEF Leads, Then
      <4>5. pc[r] + 1 \in 1 .. 20 /\ pc[r] + 1 \in DOMAIN Accesses[op[r]]
        <5>1. pc[r] + 1 \in Nat /\ 1 <= pc[r] + 1 /\ pc[r] + 1 <= 20
              /\ pc[r] + 1 <= Last(op[r])
          BY <4>3, <4>4
        <5>2. DOMAIN Accesses[op[r]] = 1 .. Last(op[r])
          BY <4>3, Flow
        <5>3. pc[r] + 1 \in 1 .. 20
          BY <5>1
        <5>4. pc[r] + 1 \in 1 .. Last(op[r])
          BY <4>3, <5>1
        <5> QED
          BY <5>2, <5>3, <5>4
      <4>6. ctx' \in [Threads -> Contexts] /\ pc' \in [Threads -> 1 .. 20]
        BY <4>1, <4>5 DEF CallOK, MapsOK
      <4>7. ASSUME NEW q \in Threads
            PROVE  pc'[q] \in IF op'[q] = "idle" THEN {1} ELSE DOMAIN Accesses[op'[q]]
        BY <3>1, <4>1, <4>5 DEF CallOK
      <4>8. CallOK'
        BY <4>1, <4>6, <4>7 DEF CallOK
      <4> QED
        BY <3>1, <4>8 DEF maps, html, hist, MapsOK, HtmlOK, HistOK
    <3> QED
      BY <3>2, <3>3
  <2>5. CASE StopPage(r) \/ JoinPage(r) \/ LaunchPage(r)
    <3>1. op[r] # "idle" /\ Continue(r) /\ UNCHANGED maps /\ UNCHANGED hist
      BY <2>5 DEF StopPage, JoinPage, LaunchPage, AtAccess
    <3>2. CallOK'
      BY <3>1, MoveTyped
    <3>3. HtmlOK'
      BY <2>5 DEF StopPage, JoinPage, LaunchPage, HtmlOK, Pages
    <3> QED
      BY <3>1, <3>2, <3>3 DEF maps, hist, MapsOK, HistOK
  <2> QED
    BY <1>2, <2>1, <2>2, <2>3, <2>4, <2>5 DEF Step
<1>3. CASE PageStep
  <2>1. HtmlOK' /\ UNCHANGED <<maps, call, hist>>
    BY <1>3 DEF PageStep, PageStarts, PageTests, PageWaits, HtmlOK, Pages
  <2> QED
    BY <2>1 DEF maps, call, hist, CallOK, MapsOK, HistOK
<1>4. CASE Restart
  <2>1. CallOK'
    BY <1>4, IdleIsNone DEF Restart, CallOK
  <2>2. MapsOK'
    BY <1>4 DEF Restart, MapsOK, Loadable
  <2>3. HtmlOK'
    BY <1>4 DEF Restart, HtmlOK, LoadFails, Pages
  <2>4. HistOK'
    BY <1>4 DEF Restart, HistOK
  <2> QED
    BY <2>1, <2>2, <2>3, <2>4
<1>5. CASE UNCHANGED registryVars
  BY <1>5 DEF registryVars, maps, call, html, hist, CallOK, MapsOK, HtmlOK, HistOK
<1> QED
  BY <1>1, <1>2, <1>3, <1>4, <1>5 DEF RegistryNext

-----------------------------------------------------------------------------
(* The only request that writes: how far the list, the planners and the      *)
(* directories are apart where it stands.                                    *)
Listed(r) ==
    /\ NextAccess(r) = "drop" => listed = draco \ {ctx[r]}
    /\ NextAccess(r) = "list" => draco = listed \cup {ctx[r]}
    /\ NextAccess(r) \notin {"drop", "list"} => listed = draco

Erasing(r) == op[r] = "remove" /\ pc[r] \in 3 .. 5

Saved(r) ==
    /\ draco \subseteq disk \cup {c \in {ctx[r]} : Erasing(r)}
    /\ NextAccess(r) \in {"served?", "make", "insert", "list"} => ctx[r] \in disk
    /\ NextAccess(r) \in {"insert", "list"} => ctx[r] \notin Faulty
    /\ op[r] = "remove" /\ pc[r] \in 2 .. 5 => ctx[r] \in draco
    /\ op[r] = "remove" /\ pc[r] = 6 => ctx[r] \notin draco

Consistent ==
    /\ draco \cap Faulty = {}
    /\ \A r, q \in Threads : Writing(r) /\ Writing(q) => r = q
    /\ \A r \in Threads : Writing(r) => Listed(r) /\ Saved(r)
    /\ (\A r \in Threads : ~Writing(r)) => listed = draco /\ draco \subseteq disk

Inv == RegistryTypeOK /\ (~overlapped /\ ~down => Consistent)

-----------------------------------------------------------------------------
(* A step of the request that writes: the others do not write, so it alone   *)
(* has to leave list, planners and directories where it says they are.       *)
Settled == listed = draco /\ draco \subseteq disk

LEMMA WriterStep ==
    ASSUME RegistryTypeOK, Consistent, NEW r \in Threads, Writing(r),
           \A q \in Threads \ {r} : op'[q] = op[q],
           draco' \cap Faulty = {},
           \/ ~Writing(r)' /\ Settled'
           \/ Writing(r)' /\ Listed(r)' /\ Saved(r)'
    PROVE  Consistent'
<1>1. ASSUME NEW q \in Threads, Writing(q)'
      PROVE  q = r
  <2>1. CASE q # r
    <3>1. Writing(q)
      BY <1>1, <2>1 DEF Writing
    <3> QED
      BY <3>1 DEF Consistent
  <2> QED
    BY <2>1
<1>2. (\A q \in Threads : ~Writing(q)') => Settled'
  OBVIOUS
<1>3. \A q, p \in Threads : Writing(q)' /\ Writing(p)' => q = p
  BY <1>1
<1>4. \A q \in Threads : Writing(q)' => Listed(q)' /\ Saved(q)'
  BY <1>1
<1> QED
  BY <1>2, <1>3, <1>4 DEF Consistent, Settled

(* A step that leaves the maps and the directories alone, of a request that  *)
(* does not write.                                                           *)
LEMMA ReaderStep ==
    ASSUME RegistryTypeOK, Consistent, NEW r \in Threads, ~Writing(r), ~Writing(r)',
           \A q \in Threads \ {r} : op'[q] = op[q] /\ ctx'[q] = ctx[q] /\ pc'[q] = pc[q],
           UNCHANGED <<disk, draco, listed>>
    PROVE  Consistent'
<1>1. ASSUME NEW q \in Threads, Writing(q)'
      PROVE  Writing(q) /\ Listed(q)' /\ Saved(q)'
  <2>1. q # r
    BY <1>1
  <2>2. op'[q] = op[q] /\ ctx'[q] = ctx[q] /\ pc'[q] = pc[q]
    BY <2>1
  <2>3. Writing(q)
    BY <1>1, <2>2 DEF Writing
  <2>4. Listed(q) /\ Saved(q)
    BY <2>3 DEF Consistent
  <2> QED
    BY <2>2, <2>3, <2>4 DEF Listed, Saved, Erasing, NextAccess
<1>2. \A q \in Threads : Writing(q) => Writing(q)'
  BY DEF Writing
<1>3. \A q, p \in Threads : Writing(q)' /\ Writing(p)' => q = p
  BY <1>1 DEF Consistent
<1>4. (\A q \in Threads : ~Writing(q)') => listed' = draco' /\ draco' \subseteq disk'
  BY <1>2 DEF Consistent
<1>5. draco' \cap Faulty = {}
  BY DEF Consistent
<1> QED
  BY <1>1, <1>3, <1>4, <1>5 DEF Consistent

(* Where a request stands after it has gone on.                              *)
LEMMA Arrives ==
    ASSUME RegistryTypeOK, NEW r \in Threads, op[r] # "idle", NEW n \in 1 .. 4, Advances(r, n)
    PROVE  /\ op'[r] = op[r] /\ ctx'[r] = ctx[r] /\ pc'[r] = pc[r] + n
           /\ NextAccess(r)' = Accesses[op[r]][pc[r] + n]
           /\ \A q \in Threads \ {r} : op'[q] = op[q] /\ ctx'[q] = ctx[q] /\ pc'[q] = pc[q]
           /\ pc[r] \in Nat
<1>1. pc \in [Threads -> 1 .. 20]
  BY DEF RegistryTypeOK
<1> QED
  BY <1>1 DEF Advances, NextAccess

LEMMA Leaves ==
    ASSUME RegistryTypeOK, NEW r \in Threads, Idle(r)
    PROVE  /\ op'[r] = "idle" /\ ~Writing(r)'
           /\ \A q \in Threads \ {r} : op'[q] = op[q] /\ ctx'[q] = ctx[q] /\ pc'[q] = pc[q]
<1>1. op \in [Threads -> Ops \cup {"idle"}] /\ pc \in [Threads -> 1 .. 20]
  BY DEF RegistryTypeOK
<1>2. op'[r] = "idle" /\ ctx' = ctx
      /\ \A q \in Threads \ {r} : op'[q] = op[q] /\ pc'[q] = pc[q]
  BY <1>1 DEF Idle
<1> QED
  BY <1>2 DEF Writing, Writers

(* A request that goes on goes to one of the accesses that may follow, and   *)
(* is answered only at its last one.                                         *)
LEMMA GoesOn ==
    ASSUME RegistryTypeOK, NEW r \in Threads, op[r] # "idle", Continue(r),
           NEW access, NEW next, Then(op[r], pc[r], access, next)
    PROVE  /\ op'[r] = op[r] /\ ctx'[r] = ctx[r] /\ pc'[r] = pc[r] + 1
           /\ NextAccess(r)' \in next /\ (Writing(r) => Writing(r)')
           /\ \A q \in Threads \ {r} : op'[q] = op[q] /\ ctx'[q] = ctx[q] /\ pc'[q] = pc[q]
<1>1. CallOK
  BY TypeParts
<1>2. Last(op[r]) \in 2 .. 20 /\ pc[r] \in 1 .. Last(op[r]) /\ pc[r] < Last(op[r])
  BY <1>1, Located DEF Then
<1>3. Advances(r, 1)
  BY <1>1, <1>2 DEF Continue, Skip, Advances, Last
<1>4. /\ op'[r] = op[r] /\ ctx'[r] = ctx[r] /\ pc'[r] = pc[r] + 1
      /\ NextAccess(r)' = Accesses[op[r]][pc[r] + 1]
      /\ \A q \in Threads \ {r} : op'[q] = op[q] /\ ctx'[q] = ctx[q] /\ pc'[q] = pc[q]
  BY <1>3, Arrives
<1> QED
  BY <1>4 DEF Then, Writing

LEMMA Ends ==
    ASSUME RegistryTypeOK, NEW r \in Threads, op[r] # "idle", Continue(r), pc[r] = Last(op[r])
    PROVE  Idle(r)
<1>1. CallOK
  BY TypeParts
<1>2. Last(op[r]) \in 2 .. 20 /\ pc[r] \in 1 .. Last(op[r])
  BY <1>1, Located
<1> QED
  BY <1>2 DEF Continue, Skip, Last

LEMMA Standing ==
    ASSUME RegistryTypeOK, NEW r \in Threads, op[r] # "idle"
    PROVE  /\ op[r] \in Ops /\ Leads(op[r], pc[r])
           /\ NextAccess(r) = Accesses[op[r]][pc[r]]
           /\ Consistent /\ Writing(r) => Listed(r) /\ Saved(r) /\ draco \cap Faulty = {}
  BY TypeParts, Located DEF Consistent, NextAccess

-----------------------------------------------------------------------------
(* One lemma for each access.                                                *)
LEMMA SaveStep ==
    ASSUME RegistryTypeOK, Consistent, NEW r \in Threads, Save(r)
    PROVE  Consistent'
<1>1. AtAccess(r, "save") /\ op[r] # "idle" /\ NextAccess(r) = "save"
  BY DEF AtAccess, Save
<1>2. Writing(r) /\ op[r] = "register" /\ Then(op[r], pc[r], "save", {"served?"})
  BY <1>1, Standing DEF Leads, Writing, Writers
<1>3. Listed(r) /\ Saved(r) /\ draco \cap Faulty = {}
  BY <1>1, <1>2, Standing
<1>4. UNCHANGED <<draco, listed>>
  BY DEF Save
<1>5. CASE Continue(r) /\ disk' = disk \cup {ctx[r]}
  <2>1. /\ op'[r] = op[r] /\ ctx'[r] = ctx[r] /\ pc'[r] = pc[r] + 1
        /\ NextAccess(r)' \in {"served?"} /\ Writing(r)'
        /\ \A q \in Threads \ {r} : op'[q] = op[q]
    BY <1>1, <1>2, <1>5, GoesOn
  <2>2. Listed(r)'
    BY <1>1, <1>2, <1>3, <1>4, <1>5, <2>1 DEF Listed
  <2>3. Saved(r)' /\ draco' \cap Faulty = {}
    BY <1>1, <1>2, <1>3, <1>4, <1>5, <2>1 DEF Saved, Erasing
  <2> QED
    BY <1>2, <2>1, <2>2, <2>3, WriterStep
<1>6. CASE Idle(r) /\ disk' = disk
  <2>1. Settled' /\ draco' \cap Faulty = {}
    BY <1>1, <1>2, <1>3, <1>6, <1>4 DEF Listed, Saved, Erasing, Settled
  <2> QED
    BY <1>2, <1>6, <2>1, Leaves, WriterStep
<1> QED
  BY <1>5, <1>6 DEF Save

LEMMA EraseStep ==
    ASSUME RegistryTypeOK, Consistent, NEW r \in Threads, Erase(r)
    PROVE  Consistent'
<1>1. AtAccess(r, "erase") /\ op[r] # "idle" /\ NextAccess(r) = "erase"
  BY DEF AtAccess, Erase
<1>2. Writing(r) /\ op[r] = "remove" /\ pc[r] = 2 /\ Then(op[r], pc[r], "erase", {"count"})
  BY <1>1, Standing DEF Leads, Writing, Writers
<1>3. Listed(r) /\ Saved(r) /\ draco \cap Faulty = {}
  BY <1>1, <1>2, Standing
<1>4. UNCHANGED <<draco, listed>>
  BY DEF Erase
<1>5. CASE Continue(r) /\ disk' \in {disk, disk \ {ctx[r]}}
  <2>1. /\ op'[r] = op[r] /\ ctx'[r] = ctx[r] /\ pc'[r] = pc[r] + 1
        /\ NextAccess(r)' \in {"count"} /\ Writing(r)'
        /\ \A q \in Threads \ {r} : op'[q] = op[q]
    BY <1>1, <1>2, <1>5, GoesOn
  <2>2. Listed(r)'
    BY <1>1, <1>2, <1>3, <1>4, <1>5, <2>1 DEF Listed
  <2>3. Saved(r)' /\ draco' \cap Faulty = {}
    BY <1>1, <1>2, <1>3, <1>4, <1>5, <2>1 DEF Saved, Erasing
  <2> QED
    BY <1>2, <2>1, <2>2, <2>3, WriterStep
<1>6. CASE Idle(r) /\ disk' = disk
  <2>1. Settled' /\ draco' \cap Faulty = {}
    BY <1>1, <1>2, <1>3, <1>6, <1>4 DEF Listed, Saved, Erasing, Settled
  <2> QED
    BY <1>2, <1>6, <2>1, Leaves, WriterStep
<1> QED
  BY <1>5, <1>6 DEF Erase

LEMMA MakeStep ==
    ASSUME RegistryTypeOK, Consistent, NEW r \in Threads, Make(r)
    PROVE  Consistent'
<1>1. AtAccess(r, "make") /\ op[r] # "idle" /\ NextAccess(r) = "make"
  BY DEF AtAccess, Make
<1>2. Writing(r) /\ op[r] # "remove" /\ Then(op[r], pc[r], "make", {"insert"})
  BY <1>1, Standing DEF Leads, Writing, Writers
<1>3. Listed(r) /\ Saved(r) /\ draco \cap Faulty = {}
  BY <1>1, <1>2, Standing
<1>4. UNCHANGED <<disk, draco, listed>>
  BY DEF Make
<1>5. CASE Continue(r) /\ ctx[r] \notin Faulty
  <2>1. /\ op'[r] = op[r] /\ ctx'[r] = ctx[r] /\ pc'[r] = pc[r] + 1
        /\ NextAccess(r)' \in {"insert"} /\ Writing(r)'
        /\ \A q \in Threads \ {r} : op'[q] = op[q]
    BY <1>1, <1>2, <1>5, GoesOn
  <2>2. Listed(r)'
    BY <1>1, <1>2, <1>3, <1>4, <1>5, <2>1 DEF Listed
  <2>3. Saved(r)' /\ draco' \cap Faulty = {}
    BY <1>1, <1>2, <1>3, <1>4, <1>5, <2>1 DEF Saved, Erasing
  <2> QED
    BY <1>2, <2>1, <2>2, <2>3, WriterStep
<1>6. CASE Idle(r)
  <2>1. Settled' /\ draco' \cap Faulty = {}
    BY <1>1, <1>2, <1>3, <1>6, <1>4 DEF Listed, Saved, Erasing, Settled
  <2> QED
    BY <1>2, <1>6, <2>1, Leaves, WriterStep
<1> QED
  BY <1>5, <1>6 DEF Make

LEMMA InsertStep ==
    ASSUME RegistryTypeOK, Consistent, NEW r \in Threads, Insert(r)
    PROVE  Consistent'
<1>1. AtAccess(r, "insert") /\ op[r] # "idle" /\ NextAccess(r) = "insert"
  BY DEF AtAccess, Insert
<1>2. Writing(r) /\ op[r] # "remove" /\ Then(op[r], pc[r], "insert", {"list"})
  BY <1>1, Standing DEF Leads, Writing, Writers
<1>3. Listed(r) /\ Saved(r) /\ draco \cap Faulty = {}
  BY <1>1, <1>2, Standing
<1>4. disk' = disk /\ listed' = listed /\ draco' = draco \cup {ctx[r]}
  BY DEF Insert
<1>5. CASE Continue(r)
  <2>1. /\ op'[r] = op[r] /\ ctx'[r] = ctx[r] /\ pc'[r] = pc[r] + 1
        /\ NextAccess(r)' \in {"list"} /\ Writing(r)'
        /\ \A q \in Threads \ {r} : op'[q] = op[q]
    BY <1>1, <1>2, <1>5, GoesOn
  <2>2. Listed(r)'
    BY <1>1, <1>2, <1>3, <1>4, <1>5, <2>1 DEF Listed
  <2>3. Saved(r)' /\ draco' \cap Faulty = {}
    BY <1>1, <1>2, <1>3, <1>4, <1>5, <2>1 DEF Saved, Erasing
  <2> QED
    BY <1>2, <2>1, <2>2, <2>3, WriterStep
<1> QED
  BY <1>5 DEF Insert

LEMMA ListStep ==
    ASSUME RegistryTypeOK, Consistent, NEW r \in Threads, List(r)
    PROVE  Consistent'
<1>1. AtAccess(r, "list") /\ op[r] # "idle" /\ NextAccess(r) = "list"
  BY DEF AtAccess, List
<1>2. /\ Writing(r) /\ op[r] # "remove"
      /\ \/ pc[r] = Last(op[r])
         \/ Then(op[r], pc[r], "list", {"files", "stop page"})
  BY <1>1, Standing DEF Leads, Writing, Writers
<1>3. Listed(r) /\ Saved(r) /\ draco \cap Faulty = {}
  BY <1>1, <1>2, Standing
<1>4. disk' = disk /\ listed' = listed \cup {ctx[r]} /\ draco' = draco
  BY DEF List
<1>5. CASE Continue(r) /\ Then(op[r], pc[r], "list", {"files", "stop page"})
  <2>1. /\ op'[r] = op[r] /\ ctx'[r] = ctx[r] /\ pc'[r] = pc[r] + 1
        /\ NextAccess(r)' \in {"files", "stop page"} /\ Writing(r)'
        /\ \A q \in Threads \ {r} : op'[q] = op[q]
    BY <1>1, <1>2, <1>5, GoesOn
  <2>2. Listed(r)'
    BY <1>1, <1>2, <1>3, <1>4, <1>5, <2>1 DEF Listed
  <2>3. Saved(r)' /\ draco' \cap Faulty = {}
    BY <1>1, <1>2, <1>3, <1>4, <1>5, <2>1 DEF Saved, Erasing
  <2> QED
    BY <1>2, <2>1, <2>2, <2>3, WriterStep
<1>6. CASE Idle(r)
  <2>1. Settled' /\ draco' \cap Faulty = {}
    BY <1>1, <1>2, <1>3, <1>6, <1>4 DEF Listed, Saved, Erasing, Settled
  <2> QED
    BY <1>2, <1>6, <2>1, Leaves, WriterStep
<1> QED
  BY <1>1, <1>2, <1>5, <1>6, Ends DEF List

LEMMA UnlistStep ==
    ASSUME RegistryTypeOK, Consistent, NEW r \in Threads, Unlist(r)
    PROVE  Consistent'
<1>1. AtAccess(r, "unlist") /\ op[r] # "idle" /\ NextAccess(r) = "unlist"
  BY DEF AtAccess, Unlist
<1>2. /\ Writing(r)
      /\ \/ /\ op[r] = "migrate" \/ (op[r] = "remove" /\ pc[r] = 4)
            /\ Then(op[r], pc[r], "unlist", {"drop"})
         \/ op[r] = "remove" /\ pc[r] = 6 /\ pc[r] = Last(op[r])
  BY <1>1, Standing DEF Leads, Writing, Writers
<1>3. Listed(r) /\ Saved(r) /\ draco \cap Faulty = {}
  BY <1>1, <1>2, Standing
<1>4. disk' = disk /\ listed' = listed \ {ctx[r]} /\ draco' = draco
  BY DEF Unlist
<1>5. CASE /\ Continue(r) /\ Then(op[r], pc[r], "unlist", {"drop"})
           /\ op[r] = "migrate" \/ (op[r] = "remove" /\ pc[r] = 4)
  <2>1. /\ op'[r] = op[r] /\ ctx'[r] = ctx[r] /\ pc'[r] = pc[r] + 1
        /\ NextAccess(r)' \in {"drop"} /\ Writing(r)'
        /\ \A q \in Threads \ {r} : op'[q] = op[q]
    BY <1>1, <1>2, <1>5, GoesOn
  <2>2. Listed(r)'
    BY <1>1, <1>2, <1>3, <1>4, <1>5, <2>1 DEF Listed
  <2>3. Saved(r)' /\ draco' \cap Faulty = {}
    BY <1>1, <1>2, <1>3, <1>4, <1>5, <2>1 DEF Saved, Erasing
  <2> QED
    BY <1>2, <2>1, <2>2, <2>3, WriterStep
<1>6. CASE Idle(r) /\ op[r] = "remove" /\ pc[r] = 6
  <2>1. Settled' /\ draco' \cap Faulty = {}
    BY <1>1, <1>2, <1>3, <1>6, <1>4 DEF Listed, Saved, Erasing, Settled
  <2> QED
    BY <1>2, <1>6, <2>1, Leaves, WriterStep
<1> QED
  BY <1>1, <1>2, <1>5, <1>6, Ends DEF Unlist

LEMMA DropStep ==
    ASSUME RegistryTypeOK, Consistent, NEW r \in Threads, Drop(r)
    PROVE  Consistent'
<1>1. AtAccess(r, "drop") /\ op[r] # "idle" /\ NextAccess(r) = "drop"
  BY DEF AtAccess, Drop
<1>2. /\ Writing(r)
      /\ \/ op[r] = "migrate" /\ Then(op[r], pc[r], "drop", {"read"})
         \/ op[r] = "remove" /\ pc[r] = 5 /\ Then(op[r], pc[r], "drop", {"unlist"})
  BY <1>1, Standing DEF Leads, Writing, Writers
<1>3. Listed(r) /\ Saved(r) /\ draco \cap Faulty = {}
  BY <1>1, <1>2, Standing
<1>4. disk' = disk /\ listed' = listed /\ draco' = draco \ {ctx[r]}
  BY DEF Drop
<1>5. CASE Continue(r) /\ op[r] = "migrate" /\ Then(op[r], pc[r], "drop", {"read"})
  <2>1. /\ op'[r] = op[r] /\ ctx'[r] = ctx[r] /\ pc'[r] = pc[r] + 1
        /\ NextAccess(r)' \in {"read"} /\ Writing(r)'
        /\ \A q \in Threads \ {r} : op'[q] = op[q]
    BY <1>1, <1>2, <1>5, GoesOn
  <2>2. Listed(r)'
    BY <1>1, <1>2, <1>3, <1>4, <1>5, <2>1 DEF Listed
  <2>3. Saved(r)' /\ draco' \cap Faulty = {}
    BY <1>1, <1>2, <1>3, <1>4, <1>5, <2>1 DEF Saved, Erasing
  <2> QED
    BY <1>2, <2>1, <2>2, <2>3, WriterStep
<1>6. CASE /\ Continue(r) /\ op[r] = "remove" /\ pc[r] = 5
           /\ Then(op[r], pc[r], "drop", {"unlist"})
  <2>1. /\ op'[r] = op[r] /\ ctx'[r] = ctx[r] /\ pc'[r] = pc[r] + 1
        /\ NextAccess(r)' \in {"unlist"} /\ Writing(r)'
        /\ \A q \in Threads \ {r} : op'[q] = op[q]
    BY <1>1, <1>2, <1>6, GoesOn
  <2>2. Listed(r)'
    BY <1>1, <1>2, <1>3, <1>4, <1>6, <2>1 DEF Listed
  <2>3. Saved(r)' /\ draco' \cap Faulty = {}
    BY <1>1, <1>2, <1>3, <1>4, <1>6, <2>1 DEF Saved, Erasing
  <2> QED
    BY <1>2, <2>1, <2>2, <2>3, WriterStep
<1> QED
  BY <1>2, <1>5, <1>6 DEF Drop

LEMMA AskStep ==
    ASSUME RegistryTypeOK, Consistent, NEW r \in Threads, Ask(r)
    PROVE  Consistent'
<1>1. op[r] # "idle" /\ UNCHANGED <<disk, draco, listed>> /\ ~down
  BY DEF Ask, AtAccess, Fail, maps
<1>2. NextAccess(r) \in {"read", "served?", "served!", "count", "loaded?", "sources", "files"}
  BY DEF Ask, AtAccess
<1>3. /\ Writing(r) /\ (op[r] = "remove" => NextAccess(r) \in {"served!", "count"})
      /\ NextAccess(r) = "served!" => pc[r] = 1
      /\ NextAccess(r) = "count" /\ op[r] = "remove" => pc[r] = 3
  BY <1>1, <1>2, Standing DEF Leads, Writing, Writers
<1>4. Listed(r) /\ Saved(r) /\ draco \cap Faulty = {}
  BY <1>1, <1>3, Standing
<1>5. ASSUME Idle(r), ~(NextAccess(r) = "count" /\ op[r] = "remove")
      PROVE  Consistent'
  <2>1. Settled' /\ draco' \cap Faulty = {}
    BY <1>1, <1>2, <1>3, <1>4, <1>5 DEF Listed, Saved, Erasing, Settled
  <2> QED
    BY <1>3, <1>5, <2>1, Leaves, WriterStep
<1>6. ASSUME Idle(r), ctx[r] \notin draco, NextAccess(r) = "count", op[r] = "remove"
      PROVE  FALSE
  BY <1>3, <1>4, <1>6 DEF Saved
<1>7. ASSUME NEW next, Then(op[r], pc[r], NextAccess(r), next), Continue(r),
             next \cap {"drop", "insert", "list"} = {},
             NextAccess(r) \in {"served!", "count"} => ctx[r] \in draco,
             ~(NextAccess(r) \in {"read", "served?"}) => next \cap {"served?", "make"} = {},
             NextAccess(r) = "read" => ctx[r] \in disk
      PROVE  Consistent'
  <2>1. /\ op'[r] = op[r] /\ ctx'[r] = ctx[r] /\ pc'[r] = pc[r] + 1
        /\ NextAccess(r)' \in next /\ Writing(r)'
        /\ \A q \in Threads \ {r} : op'[q] = op[q]
    BY <1>1, <1>3, <1>7, GoesOn
  <2>2. Listed(r)'
    BY <1>1, <1>2, <1>4, <1>7, <2>1 DEF Listed
  <2>3. Saved(r)' /\ draco' \cap Faulty = {}
    <3>1. draco' \cap Faulty = {} /\ NextAccess(r)' \notin {"insert", "list"}
      BY <1>1, <1>4, <1>7, <2>1
    <3>2. NextAccess(r)' \in {"served?", "make"} => ctx'[r] \in disk'
      BY <1>1, <1>4, <1>7, <2>1 DEF Saved
    <3>3. /\ draco' \subseteq disk' \cup {c \in {ctx'[r]} : Erasing(r)'}
          /\ op'[r] = "remove" /\ pc'[r] \in 2 .. 5 => ctx'[r] \in draco'
          /\ op'[r] = "remove" /\ pc'[r] = 6 => ctx'[r] \notin draco'
      BY <1>1, <1>3, <1>4, <1>7, <2>1 DEF Saved, Erasing
    <3> QED
      BY <3>1, <3>2, <3>3 DEF Saved
  <2> QED
    BY <1>3, <2>1, <2>2, <2>3, WriterStep
<1>8. ASSUME Skip(r, 4), NextAccess(r) = "loaded?"
      PROVE  Consistent'
  <2>1. /\ op[r] = "migrate" /\ pc[r] + 4 <= Last(op[r])
        /\ Accesses[op[r]][pc[r] + 4] = "read"
    BY <1>1, <1>8, Standing DEF Leads
  <2>2. Last(op[r]) \in 2 .. 20 /\ pc[r] \in 1 .. Last(op[r])
    BY <1>1, TypeParts, Located
  <2>3. Advances(r, 4)
    BY <1>8, <2>1, <2>2 DEF Skip, Advances, Last
  <2>4. /\ op'[r] = "migrate" /\ ctx'[r] = ctx[r] /\ NextAccess(r)' = "read"
        /\ \A q \in Threads \ {r} : op'[q] = op[q]
    BY <1>1, <2>1, <2>3, Arrives
  <2>5. Listed(r)' /\ Saved(r)' /\ draco' \cap Faulty = {} /\ Writing(r)'
    BY <1>1, <1>4, <1>8, <2>1, <2>4 DEF Listed, Saved, Erasing, Writing, Writers
  <2> QED
    BY <1>3, <2>4, <2>5, WriterStep
<1>9. CASE NextAccess(r) = "read"
  <2>1. Then(op[r], pc[r], NextAccess(r), {"served?", "make"})
    BY <1>1, <1>9, Standing DEF Leads
  <2> QED
    BY <1>5, <1>7, <1>9, <2>1 DEF Ask, AtAccess, Fail
<1>10. CASE NextAccess(r) = "served?"
  <2>1. Then(op[r], pc[r], NextAccess(r), {"make"})
    BY <1>1, <1>10, Standing DEF Leads
  <2> QED
    BY <1>5, <1>7, <1>10, <2>1 DEF Ask, AtAccess, Fail
<1>11. CASE NextAccess(r) = "served!"
  <2>1. Then(op[r], pc[r], NextAccess(r), {"erase"})
    BY <1>1, <1>11, Standing DEF Leads
  <2> QED
    BY <1>5, <1>7, <1>11, <2>1 DEF Ask, AtAccess, Fail
<1>12. CASE NextAccess(r) = "count"
  <2>1. Then(op[r], pc[r], NextAccess(r), {"unlist"})
    BY <1>1, <1>12, Standing DEF Leads
  <2>2. (ctx[r] \in draco /\ Continue(r)) \/ (ctx[r] \notin draco /\ Idle(r))
    BY <1>12 DEF Ask, AtAccess, Fail
  <2> QED
    BY <1>5, <1>6, <1>7, <1>12, <2>1, <2>2
<1>13. CASE NextAccess(r) = "loaded?"
  <2>1. Then(op[r], pc[r], NextAccess(r), {"count"})
    BY <1>1, <1>13, Standing DEF Leads
  <2> QED
    BY <1>5, <1>7, <1>8, <1>13, <2>1 DEF Ask, AtAccess, Fail
<1>14. CASE NextAccess(r) = "sources"
  <2>1. Then(op[r], pc[r], NextAccess(r), {"loaded?"})
    BY <1>1, <1>14, Standing DEF Leads
  <2> QED
    BY <1>5, <1>7, <1>14, <2>1 DEF Ask, AtAccess, Fail
<1>15. CASE NextAccess(r) = "files"
  <2>1. Then(op[r], pc[r], NextAccess(r), {"count"})
    BY <1>1, <1>15, Standing DEF Leads
  <2> QED
    BY <1>5, <1>7, <1>15, <2>1 DEF Ask, AtAccess, Fail
<1> QED
  BY <1>2, <1>9, <1>10, <1>11, <1>12, <1>13, <1>14, <1>15

LEMMA PageRequestStep ==
    ASSUME RegistryTypeOK, Consistent, NEW r \in Threads,
           StopPage(r) \/ JoinPage(r) \/ LaunchPage(r)
    PROVE  Consistent'
<1>1. /\ op[r] # "idle" /\ Continue(r) /\ UNCHANGED <<disk, draco, listed>>
      /\ NextAccess(r) \in {"stop page", "join page", "launch page"}
  BY DEF StopPage, JoinPage, LaunchPage, AtAccess, maps
<1>2. Writing(r) /\ op[r] = "migrate"
  BY <1>1, Standing DEF Leads, Writing, Writers
<1>3. Listed(r) /\ Saved(r) /\ draco \cap Faulty = {}
  BY <1>1, <1>2, Standing
<1>4. CASE NextAccess(r) = "launch page"
  <2>1. Idle(r)
    BY <1>1, <1>4, Standing, Ends DEF Leads
  <2>2. Settled' /\ draco' \cap Faulty = {}
    BY <1>1, <1>2, <1>3, <1>4 DEF Listed, Saved, Erasing, Settled
  <2> QED
    BY <1>2, <2>1, <2>2, Leaves, WriterStep
<1>5. CASE NextAccess(r) # "launch page"
  <2>1. PICK next \in {{"join page"}, {"launch page"}} : Then(op[r], pc[r], NextAccess(r), next)
    BY <1>1, <1>5, Standing DEF Leads
  <2>2. /\ op'[r] = op[r] /\ ctx'[r] = ctx[r]
        /\ NextAccess(r)' \in {"join page", "launch page"} /\ Writing(r)'
        /\ \A q \in Threads \ {r} : op'[q] = op[q]
    BY <1>1, <1>2, <2>1, GoesOn
  <2>3. Listed(r)' /\ Saved(r)' /\ draco' \cap Faulty = {}
    BY <1>1, <1>2, <1>3, <2>2 DEF Listed, Saved, Erasing
  <2> QED
    BY <1>2, <2>2, <2>3, WriterStep
<1> QED
  BY <1>4, <1>5

LEMMA ReadRequestStep ==
    ASSUME RegistryTypeOK, Consistent, NEW r \in Threads,
           Lookup(r) \/ Solve(r) \/ Pick(r) \/ Get(r)
    PROVE  Consistent'
<1>1. /\ op[r] # "idle" /\ UNCHANGED <<disk, draco, listed>> /\ NextAccess(r) \in Reading
  BY DEF Lookup, Solve, Pick, Get, AtAccess, maps, Reading
<1>2. ~Writing(r)
  BY <1>1, Standing DEF Leads, Writing
<1>3. CASE Idle(r)
  BY <1>1, <1>2, <1>3, Leaves, ReaderStep
<1>4. CASE Lookup(r) /\ Continue(r)
  <2>1. Idle(r) \/ Advances(r, 1)
    BY <1>1, <1>4, TypeParts, Moves DEF Continue
  <2>2. ASSUME Advances(r, 1)
        PROVE  Consistent'
    <3>1. /\ op'[r] = op[r]
          /\ \A q \in Threads \ {r} : op'[q] = op[q] /\ ctx'[q] = ctx[q] /\ pc'[q] = pc[q]
      BY <1>1, <2>2, Arrives
    <3> QED
      BY <1>1, <1>2, <3>1, ReaderStep DEF Writing
  <2> QED
    BY <1>3, <2>1, <2>2
<1>5. CASE Pick(r) /\ ~Idle(r)
  <2>1. PICK c \in listed : /\ ctx' = [ctx EXCEPT ![r] = c]
                            /\ pc' = [pc EXCEPT ![r] = @ + 1]
                            /\ op' = op /\ from' = from
    BY <1>5 DEF Pick
  <2>2. \A q \in Threads \ {r} : op'[q] = op[q] /\ ctx'[q] = ctx[q] /\ pc'[q] = pc[q]
    BY <2>1 DEF RegistryTypeOK
  <2> QED
    BY <1>1, <1>2, <2>1, <2>2, ReaderStep DEF Writing
<1> QED
  BY <1>3, <1>4, <1>5 DEF Lookup, Solve, Pick, Get

LEMMA StepConsistent ==
    ASSUME RegistryTypeOK, Consistent, NEW r \in Threads, Step(r)
    PROVE  Consistent'
  BY SaveStep, EraseStep, MakeStep, InsertStep, ListStep, UnlistStep, DropStep,
     AskStep, PageRequestStep, ReadRequestStep DEF Step

LEMMA ReceiveConsistent ==
    ASSUME RegistryTypeOK, Consistent, NEW r \in Threads, Receive(r), ~overlapped'
    PROVE  Consistent'
<1>1. PICK o \in Ops, c \in Contexts :
         /\ op' = [op EXCEPT ![r] = o]
         /\ ctx' = [ctx EXCEPT ![r] = c]
         /\ overlapped' = (overlapped \/ (o \in Writers /\ \E q \in Threads : Writing(q)))
  BY DEF Receive
<1>2. /\ op[r] = "idle" /\ pc' = pc /\ ~Writing(r)
      /\ UNCHANGED <<disk, draco, listed>>
  BY DEF Receive, maps, Writing, Writers
<1>3. /\ op'[r] = o /\ ctx'[r] = c /\ pc'[r] = 1
      /\ \A q \in Threads \ {r} : op'[q] = op[q] /\ ctx'[q] = ctx[q] /\ pc'[q] = pc[q]
  BY <1>1, <1>2 DEF RegistryTypeOK
<1>4. CASE o \notin Writers
  BY <1>2, <1>3, <1>4, ReaderStep DEF Writing
<1>5. CASE o \in Writers
  <2>1. \A q \in Threads : ~Writing(q)
    BY <1>1, <1>5
  <2>2. Settled /\ draco \cap Faulty = {}
    BY <2>1 DEF Consistent, Settled
  <2>3. ASSUME NEW q \in Threads, Writing(q)'
        PROVE  q = r
    BY <1>3, <2>1, <2>3 DEF Writing
  <2>4. Writing(r)'
    BY <1>3, <1>5 DEF Writing
  <2>5. NextAccess(r)' = Accesses[o][1] /\ NextAccess(r)' \notin {"make", "insert", "drop", "list", "served?"}
    BY <1>3, Flow DEF NextAccess
  <2>6. Listed(r)' /\ Saved(r)'
    BY <1>2, <1>3, <2>2, <2>5 DEF Settled, Listed, Saved, Erasing
  <2> QED
    BY <1>2, <2>2, <2>3, <2>4, <2>6 DEF Consistent
<1> QED
  BY <1>4, <1>5

LEMMA RestartConsistent ==
    ASSUME RegistryTypeOK, Restart, ~down'
    PROVE  Consistent'
<1>1. \A r \in Threads : ~Writing(r)'
  BY DEF Restart, Writing, Writers
<1>2. listed' = draco' /\ draco' \subseteq disk' /\ draco' \cap Faulty = {}
  BY DEF Restart, Loadable
<1> QED
  BY <1>1, <1>2 DEF Consistent

LEMMA UnchangedConsistent ==
    ASSUME Consistent, UNCHANGED <<disk, draco, listed, op, ctx, pc>>
    PROVE  Consistent'
  BY DEF Consistent, Listed, Saved, Erasing, Writing, NextAccess

LEMMA InvStep ==
    ASSUME Inv, [RegistryNext]_registryVars
    PROVE  Inv'
<1>1. RegistryTypeOK /\ RegistryTypeOK'
  BY TypeStep DEF Inv
<1>2. SUFFICES ASSUME ~overlapped', ~down'
               PROVE  Consistent'
  BY <1>1 DEF Inv
<1>3. ASSUME NEW r \in Threads, Receive(r)
      PROVE  Consistent'
  <2>1. ~overlapped /\ ~down
    BY <1>2, <1>3 DEF Receive
  <2> QED
    BY <1>1, <1>2, <1>3, <2>1, ReceiveConsistent DEF Inv
<1>4. ASSUME NEW r \in Threads, Step(r)
      PROVE  Consistent'
  <2>1. overlapped' = overlapped
    <3>1. CASE Ask(r)
      BY <3>1, AskMoves DEF hist
    <3> QED
      BY <1>4, <3>1 DEF Step, Save, Erase, Make, Insert, List, Unlist, Drop, Lookup,
                        Solve, Pick, Get, StopPage, JoinPage, LaunchPage, hist
  <2>2. ~down
    BY <1>4 DEF Step, Ask, Save, Erase, Make, Insert, List, Unlist, Drop, Lookup,
                Solve, Pick, Get, StopPage, JoinPage, LaunchPage, AtAccess
  <2> QED
    BY <1>1, <1>2, <1>4, <2>1, <2>2, StepConsistent DEF Inv
<1>5. CASE PageStep \/ UNCHANGED registryVars
  <2>1. UNCHANGED <<disk, draco, listed, op, ctx, pc, down, overlapped>>
    BY <1>5 DEF PageStep, PageStarts, PageTests, PageWaits, registryVars, maps, call, html, hist
  <2> QED
    BY <1>2, <2>1, UnchangedConsistent DEF Inv
<1>6. CASE Restart
  BY <1>1, <1>2, <1>6, RestartConsistent
<1> QED
  BY <1>3, <1>4, <1>5, <1>6 DEF RegistryNext

LEMMA InvInit == RegistryInit => Inv
<1> SUFFICES ASSUME RegistryInit
             PROVE  Inv
  OBVIOUS
<1>1. RegistryTypeOK
  BY InitTyped
<1>2. \A r \in Threads : ~Writing(r)
  BY DEF RegistryInit, Writing, Writers
<1>3. listed = draco /\ draco \subseteq disk /\ draco \cap Faulty = {}
  BY DEF RegistryInit, Loadable
<1> QED
  BY <1>1, <1>2, <1>3 DEF Inv, Consistent

LEMMA AlwaysInv == RegistrySpec => []Inv
<1> QED
  BY InvInit, InvStep, PTL DEF RegistrySpec

-----------------------------------------------------------------------------
(* Every variable keeps its type, and a request stands at an access of its   *)
(* program or is idle at its start.                                          *)
THEOREM TypeCorrect == RegistrySpec => []RegistryTypeOK
<1>1. Inv => RegistryTypeOK
  BY DEF Inv
<1> QED
  BY <1>1, AlwaysInv, PTL

(* While writers come one at a time, a listed context has a planner at every *)
(* moment, and between two writers list, planners and directories agree,     *)
(* whatever fails and whenever the process is started again                  *)
(* (resource_registry.cc 89-136, 192-233, 282-314).                          *)
THEOREM RegistryStaysConsistent == RegistrySpec => []RegistryConsistent
<1>1. ASSUME Inv
      PROVE  RegistryConsistent
  <2>1. SUFFICES ASSUME ~overlapped, ~down
                 PROVE  /\ listed \subseteq draco
                        /\ (\A r \in Threads : ~Writing(r)) => listed = draco /\ draco \subseteq disk
    BY DEF RegistryConsistent
  <2>2. Consistent
    BY <1>1, <2>1 DEF Inv
  <2>3. ASSUME NEW r \in Threads, Writing(r)
        PROVE  listed \subseteq draco
    BY <2>2, <2>3 DEF Consistent, Listed
  <2> QED
    BY <2>2, <2>3 DEF Consistent
<1> QED
  BY <1>1, AlwaysInv, PTL

(* A restart that comes up has lost no served context but one that was just  *)
(* being removed, at whatever access the crash came                          *)
(* (resource_registry.cc 142-183, 213-230).                                  *)
THEOREM NothingServedIsLost == RegistrySpec => ServedSurvivesRestart
<1>1. ASSUME Inv, [RegistryNext]_registryVars, restarts' # restarts, ~overlapped, ~down, ~down'
      PROVE  draco \subseteq draco' \cup {ctx[r] : r \in {q \in Threads : op[q] = "remove"}}
  <2>1. Restart
    <3>1. \A r \in Threads : Ask(r) => restarts' = restarts
      BY AskMoves DEF hist
    <3> QED
      BY <1>1, <3>1 DEF RegistryNext, Receive, Step, Save, Erase, Make, Insert, List, Unlist, Drop,
                  Lookup, Solve, Pick, Get, StopPage, JoinPage, LaunchPage,
                  PageStep, PageStarts, PageTests, PageWaits, registryVars, hist
  <2>2. draco' = disk \ Faulty
    BY <1>1, <2>1 DEF Restart, Loadable
  <2>3. Consistent
    BY <1>1 DEF Inv
  <2>4. CASE \A r \in Threads : ~Writing(r)
    BY <2>2, <2>3, <2>4 DEF Consistent
  <2>5. ASSUME NEW r \in Threads, Writing(r)
        PROVE  draco \subseteq draco' \cup {ctx[q] : q \in {p \in Threads : op[p] = "remove"}}
    <3>1. Saved(r) /\ draco \cap Faulty = {}
      BY <2>3, <2>5 DEF Consistent
    <3>2. ASSUME NEW c \in draco, c \notin draco'
          PROVE  c = ctx[r] /\ op[r] = "remove"
      BY <2>2, <3>1, <3>2 DEF Saved, Erasing
    <3> QED
      BY <3>2
  <2> QED
    BY <2>4, <2>5
<1>2. ASSUME Inv, [RegistryNext]_registryVars
      PROVE  [restarts' # restarts /\ ~overlapped /\ ~down /\ ~down' =>
                 draco \subseteq draco' \cup {ctx[r] : r \in {q \in Threads : op[q] = "remove"}}]_registryVars
  BY <1>1, <1>2
<1> QED
  BY <1>2, AlwaysInv, PTL DEF RegistrySpec, ServedSurvivesRestart
=============================================================================
