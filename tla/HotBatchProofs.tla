--------------------------- MODULE HotBatchProofs ---------------------------
(***************************************************************************)
(* Theorems about HotBatch, for every set of claims and requests and every *)
(* threshold.                                                              *)
(***************************************************************************)
EXTENDS HotBatch, FiniteSetTheorems, TLAPS

USE DEF ReqOnly

(* The incidents stay finitely many, so counting them gives a number.      *)
MineFinite(s) == s.pc # "idle" => IsFiniteSet(s.mine)
TypeInv ==
  /\ TypeOK
  /\ IsFiniteSet(incidents)
  /\ \A r \in Requests : MineFinite(req[r])

LEMMA ActiveSave ==
  ASSUME TypeOK, NEW r \in Requests, Active(r)
  PROVE  req[r] \in Saves
BY DEF TypeOK, Active, Idle

LEMMA IdleTyped == MineFinite(Idle)
BY DEF Idle, MineFinite

(* Moving one request on to a typed record keeps everything typed.         *)
LEMMA StepTyped ==
  ASSUME TypeInv, ReqOnly, NEW r \in Requests,
         NEW s \in {Idle} \cup Saves, MineFinite(s),
         req' = [req EXCEPT ![r] = s]
  PROVE  TypeInv'
BY DEF TypeInv, TypeOK, history

LEMMA CountTyped ==
  ASSUME TypeOK, NEW c \in Claims
  PROVE  /\ IsFiniteSet(filed) /\ IsFiniteSet(filed \cup {c})
         /\ Cardinality(filed) \in Nat
         /\ Cardinality(filed \cup {c}) \in Nat
         /\ Cardinality(filed) <= Cardinality(filed \cup {c})
<1>1. filed \in SUBSET Claims BY DEF TypeOK
<1>2. IsFiniteSet(filed) BY <1>1, ClaimsAssumption, FS_Subset
<1>3. IsFiniteSet(filed \cup {c}) BY <1>2, FS_AddElement
<1>4. filed \in SUBSET (filed \cup {c}) OBVIOUS
<1> QED BY <1>2, <1>3, <1>4, FS_Subset, FS_CardinalityType
-----------------------------------------------------------------------------
LEMMA BeginTyped ==
  ASSUME TypeInv, NEW r \in Requests, NEW c \in Claims,
         Submit(r, c) \/ Resave(r, c)
  PROVE  TypeInv'
<1>1. PICK seen \in Seen : Begin(r, c, seen)
  BY DEF Submit, Resave, Seen, AsSeen
<1> DEFINE s == [pc |-> "save", claim |-> c, seen |-> seen, count |-> 0,
                 wroteFlag |-> FALSE, mine |-> {}]
<1>2. s \in Saves BY DEF Saves
<1>3. MineFinite(s) BY FS_EmptySet DEF MineFinite
<1>4. req' = [req EXCEPT ![r] = s] /\ ReqOnly BY <1>1 DEF Begin
<1> QED BY <1>2, <1>3, <1>4, StepTyped

(* The incident a save opens.                                              *)
NewIncident(r) ==
  [public_id |-> <<r, Cardinality(incidents)>>,
   claim_count_at_open |-> req[r].count, status |-> "open"]

LEMMA SaveStepTyped ==
  ASSUME TypeInv, NEW r \in Requests, SaveStep(r)
  PROVE  TypeInv'
<1>1. Active(r) /\ req[r] \in Saves /\ IsFiniteSet(req[r].mine)
  BY ActiveSave DEF TypeInv, MineFinite, Active, SaveStep, SaveClaim, CountClaims,
     ReadFlag, SetHotFlag, IncidentAlreadyOpen, OpenIncident, Commit
<1>2. CASE SaveClaim(r)
  <2> DEFINE s == [req[r] EXCEPT !.pc = "count"]
  <2>1. s \in Saves /\ s.mine = req[r].mine BY <1>1 DEF Saves
  <2>2. ReqOnly /\ req' = [req EXCEPT ![r] = s] BY <1>2 DEF SaveClaim
  <2> QED BY <1>1, <2>1, <2>2, StepTyped DEF MineFinite
<1>3. CASE CountClaims(r)
  <2>1. Counted(r) \in Nat BY <1>1, CountTyped DEF TypeInv, Counted, Saves
  <2>2. PICK pc \in {"flag", "commit"} :
          req' = [req EXCEPT ![r] = [req[r] EXCEPT !.pc = pc, !.count = Counted(r)]]
    BY <1>3 DEF CountClaims
  <2> DEFINE s == [req[r] EXCEPT !.pc = pc, !.count = Counted(r)]
  <2>3. s \in Saves /\ s.mine = req[r].mine BY <1>1, <2>1 DEF Saves
  <2>4. ReqOnly BY <1>3 DEF CountClaims
  <2> QED BY <1>1, <2>2, <2>3, <2>4, StepTyped DEF MineFinite
<1>4. CASE ReadFlag(r)
  <2>1. PICK pc \in {"commit", "lock"}, seen \in Seen :
          req' = [req EXCEPT ![r] = [req[r] EXCEPT !.pc = pc, !.seen = seen]]
    BY <1>1, <1>4 DEF ReadFlag, Saves, Seen, AsSeen
  <2> DEFINE s == [req[r] EXCEPT !.pc = pc, !.seen = seen]
  <2>2. s \in Saves /\ s.mine = req[r].mine BY <1>1 DEF Saves
  <2>3. ReqOnly BY <1>4 DEF ReadFlag
  <2> QED BY <1>1, <2>1, <2>2, <2>3, StepTyped DEF MineFinite
<1>5. CASE SetHotFlag(r)
  <2> DEFINE s == [req[r] EXCEPT !.pc = "exists", !.wroteFlag = TRUE]
  <2>1. s \in Saves /\ s.mine = req[r].mine BY <1>1 DEF Saves
  <2>2. ReqOnly /\ req' = [req EXCEPT ![r] = s] BY <1>5 DEF SetHotFlag
  <2> QED BY <1>1, <2>1, <2>2, StepTyped DEF MineFinite
<1>6. CASE IncidentAlreadyOpen(r)
  <2> DEFINE s == [req[r] EXCEPT !.pc = "commit"]
  <2>1. s \in Saves /\ s.mine = req[r].mine BY <1>1 DEF Saves
  <2>2. ReqOnly /\ req' = [req EXCEPT ![r] = s] BY <1>6 DEF IncidentAlreadyOpen
  <2> QED BY <1>1, <2>1, <2>2, StepTyped DEF MineFinite
<1>7. CASE OpenIncident(r)
  <2> DEFINE i == NewIncident(r)
             s == [req[r] EXCEPT !.pc = "commit", !.mine = {i}]
  <2>1. i \in Incidents
    BY <1>1, FS_CardinalityType DEF TypeInv, NewIncident, Incidents, Saves
  <2>2. s \in Saves /\ s.mine = {i} BY <1>1, <2>1 DEF Saves
  <2>3. ReqOnly /\ req' = [req EXCEPT ![r] = s]
    BY <1>7 DEF OpenIncident, NewIncident
  <2>4. MineFinite(s) BY <2>2, FS_Singleton DEF MineFinite
  <2> QED BY <2>2, <2>3, <2>4, StepTyped
<1>8. CASE Commit(r)
  <2>2. req' = [req EXCEPT ![r] = Idle] BY <1>8 DEF Commit
  <2>3. /\ req' \in [Requests -> {Idle} \cup Saves]
        /\ \A q \in Requests : MineFinite(req'[q])
    BY <2>2, IdleTyped DEF TypeInv, TypeOK
  <2>4. incidents' \subseteq Incidents /\ IsFiniteSet(incidents')
    BY <1>1, <1>8, FS_Union DEF TypeInv, TypeOK, Commit, Saves
  <2>5. filed' \subseteq Claims /\ hotFlag' \in BOOLEAN /\ forms' = forms
    BY <1>1, <1>8 DEF TypeInv, TypeOK, Commit, Saves
  <2>6. ticked' \in BOOLEAN /\ excused' \subseteq Claims
    BY <1>1, <1>8 DEF TypeInv, TypeOK, Commit, Saves
  <2> QED BY <2>3, <2>4, <2>5, <2>6 DEF TypeInv, TypeOK, MineFinite
<1> QED BY <1>2, <1>3, <1>4, <1>5, <1>6, <1>7, <1>8 DEF SaveStep

LEMMA OthersTyped ==
  ASSUME TypeInv,
         \/ \E r \in Requests : Abort(r)
         \/ \E i \in incidents : CloseIncident(i)
         \/ \E flag \in BOOLEAN : SaveBatchForm(flag)
  PROVE  TypeInv'
<1>1. ASSUME NEW r \in Requests, Abort(r) PROVE TypeInv'
  <2>1. ReqOnly /\ req' = [req EXCEPT ![r] = Idle]
    BY <1>1 DEF Abort, FlagAfterAbort
  <2> QED BY <2>1, IdleTyped, StepTyped
<1>2. ASSUME NEW i \in incidents, CloseIncident(i) PROVE TypeInv'
  <2> DEFINE j == [i EXCEPT !.status = "closed"]
  <2>1. j \in Incidents BY DEF TypeInv, TypeOK, Incidents
  <2>2. incidents' = (incidents \ {i}) \cup {j} BY <1>2 DEF CloseIncident
  <2>3. incidents' \subseteq Incidents BY <2>1, <2>2 DEF TypeInv, TypeOK
  <2>4. IsFiniteSet(incidents')
    BY <2>2, FS_RemoveElement, FS_AddElement DEF TypeInv
  <2> QED
    BY <1>2, <2>3, <2>4
    DEF CloseIncident, TypeInv, TypeOK, MineFinite, history
<1>3. ASSUME NEW flag \in BOOLEAN, SaveBatchForm(flag) PROVE TypeInv'
  <2>1. forms' \in 0 .. MaxForms
    BY <1>3, MaxFormsAssumption DEF SaveBatchForm, TypeInv, TypeOK
  <2>2. /\ hotFlag' \in BOOLEAN /\ ticked' \in BOOLEAN
        /\ UNCHANGED <<filed, incidents, req, excused>>
    BY <1>3 DEF SaveBatchForm
  <2> QED BY <2>1, <2>2 DEF TypeInv, TypeOK, MineFinite
<1> QED BY <1>1, <1>2, <1>3

LEMMA TypeInvariance == Spec => []TypeInv
<1>1. Init => TypeInv
  <2> SUFFICES ASSUME Init PROVE TypeInv OBVIOUS
  <2>1. \A r \in Requests : MineFinite(req[r])
    BY IdleTyped DEF Init
  <2>2. req \in [Requests -> {Idle} \cup Saves]
    BY DEF Init
  <2>3. forms \in 0 .. MaxForms BY MaxFormsAssumption DEF Init
  <2> QED BY <2>1, <2>2, <2>3, FS_EmptySet DEF Init, TypeInv, TypeOK
<1>2. TypeInv /\ [Next]_vars => TypeInv'
  <2> SUFFICES ASSUME TypeInv, [Next]_vars PROVE TypeInv' OBVIOUS
  <2>1. CASE UNCHANGED vars
    BY <2>1 DEF vars, history, TypeInv, TypeOK, MineFinite
  <2> QED BY <2>1, BeginTyped, SaveStepTyped, OthersTyped DEF Next
<1> QED BY <1>1, <1>2, PTL DEF Spec

(* Tables and requests hold values of their types, for any number of       *)
(* claims and requests.                                                    *)
THEOREM TypeCorrect == Spec => []TypeOK
BY TypeInvariance, PTL DEF TypeInv
-----------------------------------------------------------------------------
(* What a step leaves of the saving request's record.                      *)
Kept(r, fields) == \A f \in fields : req'[r][f] = req[r][f]

LEMMA SaveStepFields ==
  ASSUME TypeInv, NEW r \in Requests, SaveStep(r)
  PROVE  /\ Active(r) /\ req[r] \in Saves
         /\ \A o \in Requests \ {r} : req'[o] = req[o]
         /\ SaveClaim(r) =>
              /\ req'[r].pc = "count"
              /\ Kept(r, {"claim", "seen", "count", "wroteFlag", "mine"})
         /\ CountClaims(r) =>
              /\ req'[r].pc = IF Counted(r) >= Threshold THEN "flag" ELSE "commit"
              /\ req'[r].count = Counted(r)
              /\ Kept(r, {"claim", "seen", "wroteFlag", "mine"})
         /\ ReadFlag(r) =>
              /\ req'[r].seen = IF req[r].seen = "unread" THEN AsSeen(hotFlag)
                                ELSE req[r].seen
              /\ req'[r].pc = IF IsHot(req'[r].seen) THEN "commit" ELSE "lock"
              /\ Kept(r, {"claim", "count", "wroteFlag", "mine"})
         /\ SetHotFlag(r) =>
              /\ req'[r].pc = "exists" /\ req'[r].wroteFlag
              /\ Kept(r, {"claim", "seen", "count", "mine"})
         /\ IncidentAlreadyOpen(r) =>
              /\ req'[r].pc = "commit"
              /\ Kept(r, {"claim", "seen", "count", "wroteFlag", "mine"})
         /\ OpenIncident(r) =>
              /\ req'[r].pc = "commit" /\ req'[r].mine = {NewIncident(r)}
              /\ Kept(r, {"claim", "seen", "count", "wroteFlag"})
         /\ Commit(r) => req'[r] = Idle
<1>1. Active(r) /\ req[r] \in Saves
  BY ActiveSave DEF TypeInv, Active, SaveStep, SaveClaim, CountClaims,
     ReadFlag, SetHotFlag, IncidentAlreadyOpen, OpenIncident, Commit
<1>2. \A o \in Requests \ {r} : req'[o] = req[o]
  BY DEF TypeInv, TypeOK, SaveStep, SaveClaim, CountClaims,
     ReadFlag, SetHotFlag, IncidentAlreadyOpen, OpenIncident, Commit
<1> USE <1>1 DEF TypeInv, TypeOK, Saves, Kept
<1>3. SaveClaim(r) =>
        /\ req'[r].pc = "count"
        /\ Kept(r, {"claim", "seen", "count", "wroteFlag", "mine"})
  BY DEF SaveClaim
<1>4. CountClaims(r) =>
        /\ req'[r].pc = IF Counted(r) >= Threshold THEN "flag" ELSE "commit"
        /\ req'[r].count = Counted(r)
        /\ Kept(r, {"claim", "seen", "wroteFlag", "mine"})
  BY DEF CountClaims, ReachesThreshold
<1>5. ReadFlag(r) =>
        /\ req'[r].seen = IF req[r].seen = "unread" THEN AsSeen(hotFlag)
                          ELSE req[r].seen
        /\ req'[r].pc = IF IsHot(req'[r].seen) THEN "commit" ELSE "lock"
        /\ Kept(r, {"claim", "count", "wroteFlag", "mine"})
  BY DEF ReadFlag
<1>6. SetHotFlag(r) =>
        /\ req'[r].pc = "exists" /\ req'[r].wroteFlag
        /\ Kept(r, {"claim", "seen", "count", "mine"})
  BY DEF SetHotFlag
<1>7. IncidentAlreadyOpen(r) =>
        /\ req'[r].pc = "commit"
        /\ Kept(r, {"claim", "seen", "count", "wroteFlag", "mine"})
  BY DEF IncidentAlreadyOpen
<1>8. OpenIncident(r) =>
        /\ req'[r].pc = "commit" /\ req'[r].mine = {NewIncident(r)}
        /\ Kept(r, {"claim", "seen", "count", "wroteFlag"})
  <2> SUFFICES ASSUME OpenIncident(r)
               PROVE  /\ req'[r].pc = "commit" /\ req'[r].mine = {NewIncident(r)}
                      /\ Kept(r, {"claim", "seen", "count", "wroteFlag"})
    OBVIOUS
  <2>1. req' = [req EXCEPT ![r] = [req[r] EXCEPT !.pc = "commit",
                                                 !.mine = {NewIncident(r)}]]
    BY DEF OpenIncident, NewIncident
  <2> QED BY <2>1
<1>9. Commit(r) => req'[r] = Idle
  BY DEF Commit
<1> QED BY <1>1, <1>2, <1>3, <1>4, <1>5, <1>6, <1>7, <1>8, <1>9
-----------------------------------------------------------------------------
HoldsBatch(r) == Active(r) /\ req[r].wroteFlag

(* At most one open transaction has updated the batch row.                 *)
RowLock == \A r, o \in Requests : HoldsBatch(r) /\ HoldsBatch(o) => r = o

(* A save opens an incident only after it took the row, and while it waits *)
(* for its commit no other incident is open.                               *)
Orderly(r) ==
  Active(r) =>
    /\ req[r].wroteFlag => req[r].pc \in {"exists", "commit"}
    /\ req[r].pc = "exists" => req[r].wroteFlag
    /\ req[r].mine # {} =>
         /\ req[r].pc = "commit" /\ req[r].wroteFlag
         /\ OpenIncidents = {}
         /\ \A i, j \in req[r].mine : i = j

IncidentInv ==
  /\ RowLock
  /\ \A r \in Requests : Orderly(r)
  /\ OneOpenIncident

LEMMA IncidentStep ==
  ASSUME TypeInv, IncidentInv, [Next]_vars
  PROVE  IncidentInv'
<1> USE DEF IncidentInv, RowLock, HoldsBatch, Orderly, OneOpenIncident,
            OpenIncidents, Active
<1>1. ASSUME NEW r \in Requests, NEW c \in Claims,
             Submit(r, c) \/ Resave(r, c)
      PROVE  IncidentInv'
  <2>1. PICK seen \in Seen : Begin(r, c, seen)
    BY <1>1 DEF Submit, Resave, Seen, AsSeen
  <2>2. /\ req'[r].wroteFlag = FALSE /\ req'[r].mine = {}
        /\ req'[r].pc = "save"
        /\ \A o \in Requests \ {r} : req'[o] = req[o]
        /\ incidents' = incidents
    BY <2>1 DEF Begin, TypeInv, TypeOK
  <2> QED BY <2>2
<1>2. ASSUME NEW r \in Requests, SaveStep(r) PROVE IncidentInv'
  <2>1. CASE SaveClaim(r)
    <3>1. incidents' = incidents /\ req[r].pc = "save" BY <2>1 DEF SaveClaim
    <3> QED BY <1>2, <2>1, <3>1, SaveStepFields DEF Kept
  <2>2. CASE CountClaims(r)
    <3>1. incidents' = incidents /\ req[r].pc = "count" BY <2>2 DEF CountClaims
    <3> QED BY <1>2, <2>2, <3>1, SaveStepFields DEF Kept
  <2>3. CASE ReadFlag(r)
    <3>1. incidents' = incidents /\ req[r].pc = "flag" BY <2>3 DEF ReadFlag
    <3> QED BY <1>2, <2>3, <3>1, SaveStepFields DEF Kept
  <2>4. CASE SetHotFlag(r)
    <3>1. /\ incidents' = incidents /\ req[r].pc = "lock"
          /\ \A o \in Requests \ {r} : ~HoldsBatch(o)
      BY <2>4 DEF SetHotFlag, OtherHoldsBatch
    <3> QED BY <1>2, <2>4, <3>1, SaveStepFields DEF Kept
  <2>5. CASE IncidentAlreadyOpen(r)
    <3>1. incidents' = incidents /\ req[r].pc = "exists"
      BY <2>5 DEF IncidentAlreadyOpen
    <3> QED BY <1>2, <2>5, <3>1, SaveStepFields DEF Kept
  <2>6. CASE OpenIncident(r)
    <3>1. /\ incidents' = incidents /\ req[r].pc = "exists"
          /\ OpenIncidents = {}
      BY <2>6 DEF OpenIncident
    <3> QED BY <1>2, <2>6, <3>1, SaveStepFields DEF Kept
  <2>7. CASE Commit(r)
    <3>1. incidents' = incidents \cup req[r].mine /\ req[r].pc = "commit"
      BY <2>7 DEF Commit
    <3>2. /\ req'[r].pc = "idle" /\ Active(r)
          /\ \A o \in Requests \ {r} : req'[o] = req[o]
      <4>1. Idle.pc = "idle" BY DEF Idle
      <4> QED BY <1>2, <2>7, <4>1, SaveStepFields
    <3>3. CASE req[r].mine = {}
      BY <3>1, <3>2, <3>3
    <3>4. CASE req[r].mine # {}
      <4>1. \A o \in Requests \ {r} : ~HoldsBatch(o)
        BY <3>2, <3>4
      <4>2. (\A i, j \in req[r].mine : i = j) /\ OpenIncidents = {}
        BY <3>2, <3>4
      <4>3. OpenIncidents' \subseteq req[r].mine BY <3>1, <4>2
      <4>4. RowLock' /\ OneOpenIncident' BY <3>2, <4>2, <4>3
      <4>5. \A o \in Requests : Orderly(o)' BY <3>2, <4>1
      <4> QED BY <4>4, <4>5
    <3> QED BY <3>3, <3>4
  <2> QED BY <1>2, <2>1, <2>2, <2>3, <2>4, <2>5, <2>6, <2>7 DEF SaveStep
<1>3. ASSUME NEW r \in Requests, Abort(r) PROVE IncidentInv'
  <2>1. /\ incidents' = incidents /\ req'[r].pc = "idle"
        /\ \A o \in Requests \ {r} : req'[o] = req[o]
    BY <1>3 DEF Abort, Idle, TypeInv, TypeOK
  <2> QED BY <2>1
<1>4. ASSUME NEW i \in incidents, CloseIncident(i) PROVE IncidentInv'
  <2>1. UNCHANGED req /\ OpenIncidents' \subseteq OpenIncidents
    BY <1>4 DEF CloseIncident, TypeInv, TypeOK, Incidents
  <2> QED BY <2>1
<1>5. CASE (\E flag \in BOOLEAN : SaveBatchForm(flag)) \/ UNCHANGED vars
  BY <1>5 DEF SaveBatchForm, vars
<1> QED BY <1>1, <1>2, <1>3, <1>4, <1>5 DEF Next

LEMMA IncidentInvariance == Spec => []IncidentInv
<1>1. Init => IncidentInv
  BY DEF Init, Idle, IncidentInv, RowLock, HoldsBatch, Orderly, Active,
     OneOpenIncident, OpenIncidents
<1>2. TypeInv /\ IncidentInv /\ [Next]_vars => IncidentInv'
  BY IncidentStep
<1> QED BY <1>1, <1>2, TypeInvariance, PTL DEF Spec

(* The row lock that saving the flag takes keeps two saves from opening an *)
(* incident each, for any number of claims and requests.                   *)
THEOREM OneIncident == Spec => []OneOpenIncident
BY IncidentInvariance, PTL DEF IncidentInv
-----------------------------------------------------------------------------
(* What a save counted is at least the threshold where it goes on, and     *)
(* never more than the claims that will be filed once it commits.          *)
Counting(r) ==
  Active(r) =>
    /\ req[r].pc \in {"flag", "lock", "exists"} => req[r].count >= Threshold
    /\ req[r].pc # "save" /\ req[r].pc # "count" =>
         req[r].count <= Cardinality(filed \cup {req[r].claim})
    /\ \A i \in req[r].mine :
         /\ req[r].pc = "commit"
         /\ i.claim_count_at_open \in
              Threshold .. Cardinality(filed \cup {req[r].claim})

CountInv == CountsAreFiled /\ \A r \in Requests : Counting(r)

(* Filing a claim only adds to what any save may have counted.             *)
LEMMA FiledGrows ==
  ASSUME TypeOK, NEW c \in Claims, filed' \in {filed, filed \cup {c}}
  PROVE  /\ Cardinality(filed) <= Cardinality(filed')
         /\ \A d \in Claims : Cardinality(filed \cup {d})
                               <= Cardinality(filed' \cup {d})
         /\ Cardinality(filed') \in Nat /\ Cardinality(filed) \in Nat
         /\ \A d \in Claims : /\ Cardinality(filed \cup {d}) \in Nat
                               /\ Cardinality(filed' \cup {d}) \in Nat
<1>1. filed' \in SUBSET Claims BY DEF TypeOK
<1>2. IsFiniteSet(filed') BY <1>1, ClaimsAssumption, FS_Subset
<1>3. filed \in SUBSET filed' OBVIOUS
<1>4. Cardinality(filed) <= Cardinality(filed') BY <1>2, <1>3, FS_Subset
<1>5. Cardinality(filed') \in Nat /\ Cardinality(filed) \in Nat
  BY <1>2, <1>3, FS_Subset, FS_CardinalityType
<1>6. ASSUME NEW d \in Claims
      PROVE  /\ Cardinality(filed \cup {d}) <= Cardinality(filed' \cup {d})
             /\ Cardinality(filed \cup {d}) \in Nat
             /\ Cardinality(filed' \cup {d}) \in Nat
  <2>1. IsFiniteSet(filed' \cup {d}) BY <1>2, FS_AddElement
  <2>2. (filed \cup {d}) \in SUBSET (filed' \cup {d}) BY <1>3
  <2> QED BY <2>1, <2>2, FS_Subset, FS_CardinalityType
<1> QED BY <1>4, <1>5, <1>6

LEMMA CountStep ==
  ASSUME TypeInv, CountInv, [Next]_vars
  PROVE  CountInv'
<1> USE DEF CountInv, Counting, Active
<1>1. ASSUME NEW r \in Requests, NEW c \in Claims,
             Submit(r, c) \/ Resave(r, c)
      PROVE  CountInv'
  <2>1. PICK seen \in Seen : Begin(r, c, seen)
    BY <1>1 DEF Submit, Resave, Seen, AsSeen
  <2>2. /\ req'[r].mine = {} /\ req'[r].pc = "save"
        /\ \A o \in Requests \ {r} : req'[o] = req[o]
        /\ UNCHANGED <<filed, incidents>>
    BY <2>1 DEF Begin, TypeInv, TypeOK
  <2> QED BY <2>2 DEF CountsAreFiled
<1>2. ASSUME NEW r \in Requests, SaveStep(r), ~Commit(r), ~CountClaims(r),
             ~OpenIncident(r)
      PROVE  CountInv'
  <2>1. UNCHANGED <<filed, incidents>>
    BY <1>2 DEF SaveStep, SaveClaim, ReadFlag, SetHotFlag, IncidentAlreadyOpen
  <2>2. /\ Active(r) /\ req'[r].claim = req[r].claim
        /\ req'[r].count = req[r].count /\ req'[r].mine = req[r].mine
        /\ \A o \in Requests \ {r} : req'[o] = req[o]
    BY <1>2, SaveStepFields DEF SaveStep, Kept
  <2>3. \/ req[r].pc = "save" /\ req'[r].pc = "count"
        \/ req[r].pc = "flag" /\ req'[r].pc \in {"lock", "commit"}
        \/ req[r].pc = "lock" /\ req'[r].pc = "exists"
        \/ req[r].pc = "exists" /\ req'[r].pc = "commit"
    BY <1>2, SaveStepFields DEF SaveStep, SaveClaim, ReadFlag, SetHotFlag,
       IncidentAlreadyOpen
  <2>4. CountsAreFiled' BY <2>1 DEF CountsAreFiled
  <2>5. Counting(r)' BY <2>1, <2>2, <2>3
  <2>6. \A o \in Requests \ {r} : Counting(o)' BY <2>1, <2>2
  <2> QED BY <2>4, <2>5, <2>6
<1>3. ASSUME NEW r \in Requests, CountClaims(r) PROVE CountInv'
  <2>1. UNCHANGED <<filed, incidents>> /\ req[r].pc = "count"
    BY <1>3 DEF CountClaims
  <2>2. /\ req[r] \in Saves /\ Active(r)
        /\ \A o \in Requests \ {r} : req'[o] = req[o]
        /\ req'[r].pc = IF Counted(r) >= Threshold THEN "flag" ELSE "commit"
        /\ req'[r].count = Cardinality(filed \cup {req[r].claim})
        /\ req'[r].claim = req[r].claim /\ req'[r].mine = req[r].mine
    BY <1>3, SaveStepFields DEF SaveStep, Kept, Counted
  <2>3. Cardinality(filed \cup {req[r].claim}) \in Nat
    BY <2>2, CountTyped DEF Saves, TypeInv
  <2>7. req'[r].mine = {} BY <2>1, <2>2
  <2>8. Cardinality(filed \cup {req[r].claim})'
          = Cardinality(filed \cup {req[r].claim})
    BY <2>1, <2>2
  <2>4. Counting(r)'
    BY <2>2, <2>3, <2>7, <2>8, ThresholdAssumption DEF Counted
  <2>5. CountsAreFiled' BY <2>1 DEF CountsAreFiled
  <2>6. \A o \in Requests \ {r} : Counting(o)' BY <2>1, <2>2
  <2> QED BY <2>4, <2>5, <2>6
<1>4. ASSUME NEW r \in Requests, OpenIncident(r) PROVE CountInv'
  <2>1. UNCHANGED <<filed, incidents>> /\ req[r].pc = "exists"
    BY <1>4 DEF OpenIncident
  <2>2. /\ req[r] \in Saves /\ Active(r)
        /\ \A o \in Requests \ {r} : req'[o] = req[o]
        /\ req'[r].pc = "commit" /\ req'[r].mine = {NewIncident(r)}
        /\ req'[r].count = req[r].count /\ req'[r].claim = req[r].claim
    BY <1>4, SaveStepFields DEF SaveStep, Kept
  <2>3. /\ Cardinality(filed \cup {req[r].claim}) \in Nat
        /\ req[r].count \in Nat
    BY <2>2, CountTyped DEF Saves, TypeInv
  <2>4. NewIncident(r).claim_count_at_open
          \in Threshold .. Cardinality(filed \cup {req[r].claim})
    BY <2>1, <2>2, <2>3, ThresholdAssumption DEF NewIncident
  <2>5. Counting(r)' BY <2>1, <2>2, <2>4
  <2>6. CountsAreFiled' BY <2>1 DEF CountsAreFiled
  <2>7. \A o \in Requests \ {r} : Counting(o)' BY <2>1, <2>2
  <2> QED BY <2>5, <2>6, <2>7
<1>5. ASSUME NEW r \in Requests, Commit(r) PROVE CountInv'
  <2>1. /\ filed' = filed \cup {req[r].claim}
        /\ incidents' = incidents \cup req[r].mine
    BY <1>5 DEF Commit
  <2>2. /\ req[r] \in Saves /\ Active(r) /\ req'[r].pc = "idle"
        /\ \A o \in Requests \ {r} : req'[o] = req[o]
    <3>1. SaveStep(r) BY <1>5 DEF SaveStep
    <3>2. Idle.pc = "idle" BY DEF Idle
    <3> QED BY <1>5, <3>1, <3>2, SaveStepFields
  <2>3. /\ Cardinality(filed) <= Cardinality(filed')
        /\ Cardinality(filed') \in Nat /\ Cardinality(filed) \in Nat
        /\ \A d \in Claims : /\ Cardinality(filed \cup {d}) \in Nat
                              /\ Cardinality(filed' \cup {d}) \in Nat
                              /\ Cardinality(filed \cup {d})
                                   <= Cardinality(filed' \cup {d})
    BY <2>1, <2>2, FiledGrows DEF Saves, TypeInv
  <2>4. CountsAreFiled'
    <3>1. ASSUME NEW i \in incidents'
          PROVE  i.claim_count_at_open \in Threshold .. Cardinality(filed')
      <4>1. CASE i \in incidents
        BY <2>3, <4>1, ThresholdAssumption DEF CountsAreFiled
      <4>2. CASE i \in req[r].mine
        BY <2>1, <2>2, <4>2
      <4> QED BY <2>1, <4>1, <4>2
    <3> QED BY <3>1 DEF CountsAreFiled
  <2>5. ASSUME NEW o \in Requests PROVE Counting(o)'
    <3>1. CASE o = r BY <2>2, <3>1
    <3>2. CASE o # r /\ Active(o)
      <4>1. req[o] \in Saves /\ req'[o] = req[o]
        BY <2>2, <3>2, ActiveSave DEF TypeInv
      <4>2. req[o].claim \in Claims /\ req[o].count \in Nat
        BY <4>1 DEF Saves
      <4> DEFINE n == Cardinality(filed \cup {req[o].claim})
                 m == Cardinality(filed' \cup {req[o].claim})
      <4>3. n \in Nat /\ m \in Nat /\ n <= m BY <2>3, <4>2
      <4>4. m = Cardinality(filed \cup {req[o].claim})' BY <4>1
      <4>5. Counting(o) OBVIOUS
      <4> HIDE DEF n, m
      <4>6. req[o].count <= n => req[o].count <= m BY <4>2, <4>3
      <4>7. \A i : i \in Threshold .. n => i \in Threshold .. m
        BY <4>3, ThresholdAssumption
      <4> QED BY <4>1, <4>4, <4>5, <4>6, <4>7, <3>2 DEF n
    <3>3. CASE o # r /\ ~Active(o) BY <2>2, <3>3
    <3> QED BY <3>1, <3>2, <3>3
  <2> QED BY <2>4, <2>5
<1>6. ASSUME NEW r \in Requests, Abort(r) PROVE CountInv'
  <2>1. /\ UNCHANGED <<filed, incidents>> /\ req'[r].pc = "idle"
        /\ \A o \in Requests \ {r} : req'[o] = req[o]
    BY <1>6 DEF Abort, Idle, TypeInv, TypeOK
  <2> QED BY <2>1 DEF CountsAreFiled
<1>7. ASSUME NEW i \in incidents, CloseIncident(i) PROVE CountInv'
  <2>1. /\ UNCHANGED <<filed, req>>
        /\ incidents' = (incidents \ {i}) \cup {[i EXCEPT !.status = "closed"]}
        /\ i \in Incidents
    BY <1>7 DEF CloseIncident, TypeInv, TypeOK
  <2>2. [i EXCEPT !.status = "closed"].claim_count_at_open
          = i.claim_count_at_open
    BY <2>1 DEF Incidents
  <2> QED BY <2>1, <2>2 DEF CountsAreFiled
<1>8. CASE (\E flag \in BOOLEAN : SaveBatchForm(flag)) \/ UNCHANGED vars
  BY <1>8 DEF SaveBatchForm, vars, CountsAreFiled
<1> QED BY <1>1, <1>2, <1>3, <1>4, <1>5, <1>6, <1>7, <1>8 DEF Next, SaveStep

LEMMA CountInvariance == Spec => []CountInv
<1>1. Init => CountInv
  BY DEF Init, Idle, CountInv, Counting, Active, CountsAreFiled
<1>2. TypeInv /\ CountInv /\ [Next]_vars => CountInv'
  BY CountStep
<1> QED BY <1>1, <1>2, TypeInvariance, PTL DEF Spec

(* claim_count_at_open reached the threshold and counts only filed claims, *)
(* for any number of claims and requests.                                  *)
THEOREM HonestCounts == Spec => []CountsAreFiled
BY CountInvariance, PTL DEF CountInv
-----------------------------------------------------------------------------
(* Whoever found the threshold reached, or wrote or saw the flag, knows an *)
(* incident, has one to commit, or saw a flag ticked by hand.              *)
Noticing(r) ==
  Active(r) =>
    /\ req[r].seen = "hot" => incidents # {}
    /\ req[r].pc = "commit" /\ req[r].wroteFlag
         => incidents # {} \/ req[r].mine # {}
    /\ req[r].pc = "commit" /\ req[r].count >= Threshold
         => incidents # {} \/ req[r].mine # {} \/ req[r].seen = "ticked"

NoticeInv ==
  /\ hotFlag => incidents # {} \/ ticked
  /\ \A r \in Requests : Noticing(r)

LEMMA IncidentsStay ==
  ASSUME [Next]_vars
  PROVE  incidents # {} => incidents' # {}
BY DEF Next, vars, Submit, Resave, Begin, SaveStep, SaveClaim, CountClaims,
   ReadFlag, SetHotFlag, IncidentAlreadyOpen, OpenIncident, Commit, Abort,
   CloseIncident, SaveBatchForm

LEMMA NoticeStep ==
  ASSUME TypeInv, IncidentInv, NoticeInv, [Next]_vars
  PROVE  NoticeInv'
<1> USE DEF NoticeInv, Noticing, Active
<1>0. incidents # {} => incidents' # {} BY IncidentsStay
<1>1. ASSUME NEW r \in Requests, NEW c \in Claims,
             Submit(r, c) \/ Resave(r, c)
      PROVE  NoticeInv'
  <2>1. PICK seen \in {AsSeen(hotFlag), "unread"} : Begin(r, c, seen)
    BY <1>1 DEF Submit, Resave
  <2>2. /\ req'[r].pc = "save" /\ req'[r].seen = seen
        /\ \A o \in Requests \ {r} : req'[o] = req[o]
        /\ UNCHANGED <<hotFlag, incidents, ticked>>
    BY <2>1 DEF Begin, TypeInv, TypeOK, history
  <2>3. seen = "hot" => hotFlag /\ ~ticked BY DEF AsSeen
  <2> QED BY <2>2, <2>3
<1>2. ASSUME NEW r \in Requests, SaveStep(r) PROVE NoticeInv'
  <2>1. /\ Active(r) /\ req[r] \in Saves
        /\ \A o \in Requests \ {r} : req'[o] = req[o]
    BY <1>2, SaveStepFields
  <2>2. \A o \in Requests \ {r} : Noticing(o)' BY <1>0, <2>1
  <2>3. ~Commit(r) => UNCHANGED <<hotFlag, incidents, ticked>>
    BY <1>2 DEF SaveStep, SaveClaim, CountClaims, ReadFlag, SetHotFlag,
       IncidentAlreadyOpen, OpenIncident, history
  <2>4. hotFlag' => incidents' # {} \/ ticked'
    <3>1. CASE Commit(r)
      <4>1. req[r].wroteFlag => incidents' # {}
        BY <2>1, <3>1 DEF Commit
      <4>2. ~req[r].wroteFlag => hotFlag' = hotFlag /\ ticked' = ticked
        BY <3>1 DEF Commit, TypeInv, TypeOK
      <4> QED BY <1>0, <4>1, <4>2
    <3> QED BY <2>3, <3>1
  <2>5. Noticing(r)'
    <3>1. CASE SaveClaim(r)
      BY <1>0, <1>2, <3>1, SaveStepFields DEF Kept
    <3>2. CASE CountClaims(r)
      <4>1. req[r].pc = "count" /\ Orderly(r)
        BY <3>2 DEF CountClaims, IncidentInv
      <4>2. /\ req'[r].seen = req[r].seen /\ ~req'[r].wroteFlag
            /\ req'[r].pc = "commit" => ~(req'[r].count >= Threshold)
            /\ req'[r].pc \in {"flag", "commit"}
        BY <1>2, <2>1, <3>2, <4>1, SaveStepFields DEF Kept, Orderly
      <4> QED BY <1>0, <2>1, <4>2
    <3>3. CASE ReadFlag(r)
      <4>1. req[r].pc = "flag" /\ Orderly(r)
        BY <3>3 DEF ReadFlag, IncidentInv
      <4>2. /\ req'[r].pc = "commit" => req'[r].seen \in {"hot", "ticked"}
            /\ req'[r].seen = "hot" => req[r].seen = "hot" \/ (hotFlag /\ ~ticked)
            /\ req'[r].pc \in {"lock", "commit"}
        BY <1>2, <3>3, SaveStepFields DEF AsSeen, IsHot
      <4>3. ~req'[r].wroteFlag
        BY <1>2, <2>1, <3>3, <4>1, SaveStepFields DEF Kept, Orderly
      <4> QED BY <1>0, <2>1, <4>2, <4>3
    <3>4. CASE SetHotFlag(r)
      BY <1>0, <1>2, <3>4, SaveStepFields DEF Kept
    <3>5. CASE IncidentAlreadyOpen(r)
      <4>1. incidents # {}
        BY <3>5 DEF IncidentAlreadyOpen, OpenIncidents
      <4> QED BY <1>0, <4>1
    <3>6. CASE OpenIncident(r)
      <4>1. /\ req'[r].mine # {} /\ req'[r].pc = "commit"
            /\ req'[r].seen = req[r].seen
        BY <1>2, <3>6, SaveStepFields DEF Kept
      <4> QED BY <1>0, <2>1, <4>1
    <3>7. CASE Commit(r)
      <4>1. Idle.pc = "idle" BY DEF Idle
      <4> QED BY <1>2, <3>7, <4>1, SaveStepFields
    <3> QED BY <1>2, <3>1, <3>2, <3>3, <3>4, <3>5, <3>6, <3>7 DEF SaveStep
  <2> QED BY <2>2, <2>4, <2>5
<1>3. ASSUME NEW r \in Requests, Abort(r) PROVE NoticeInv'
  <2>1. /\ UNCHANGED <<hotFlag, incidents, ticked>>
        /\ req'[r].pc = "idle"
        /\ \A o \in Requests \ {r} : req'[o] = req[o]
    BY <1>3 DEF Abort, FlagAfterAbort, Idle, TypeInv, TypeOK, history
  <2> QED BY <2>1
<1>4. CASE \/ \E i \in incidents : CloseIncident(i)
           \/ \E flag \in BOOLEAN : SaveBatchForm(flag)
           \/ UNCHANGED vars
  BY <1>0, <1>4 DEF CloseIncident, SaveBatchForm, vars, history
<1> QED BY <1>1, <1>2, <1>3, <1>4 DEF Next

LEMMA NoticeInit == Init => NoticeInv
BY DEF Init, Idle, NoticeInv, Noticing, Active

LEMMA NoticeInvariance == Spec => []NoticeInv
<1>1. TypeInv /\ IncidentInv /\ NoticeInv /\ [Next]_vars => NoticeInv'
  BY NoticeStep
<1> QED
  BY <1>1, NoticeInit, TypeInvariance, IncidentInvariance, PTL DEF Spec

(* A committed save that counted the threshold leaves an incident behind,  *)
(* whatever flag it trusted, unless that flag was ticked by hand; for any  *)
(* number of claims and requests.                                          *)
THEOREM NoticedAtCommit == Spec => CommitNotices
<1>1. ASSUME TypeInv, NoticeInv, NEW r \in Requests, Commit(r),
             req[r].count >= Threshold
      PROVE  incidents' # {} \/ WentByTick(r)
  <2>1. Active(r) /\ req[r].pc = "commit" /\ incidents' = incidents \cup req[r].mine
    BY <1>1 DEF Commit, Active
  <2>2. incidents # {} \/ req[r].mine # {} \/ req[r].seen = "ticked"
    BY <1>1, <2>1 DEF NoticeInv, Noticing
  <2> QED BY <1>1, <2>1, <2>2 DEF WentByTick
<1>2. TypeInv /\ NoticeInv /\ [Next]_vars
        => [\A r \in Requests :
              Commit(r) /\ req[r].count >= Threshold =>
                incidents' # {} \/ WentByTick(r)]_vars
  BY <1>1
<1> QED BY <1>2, NoticeInvariance, TypeInvariance, PTL DEF Spec, CommitNotices
-----------------------------------------------------------------------------
(* Claims about to be filed by saves that stayed below the threshold.      *)
Missing(r) == req[r].pc = "commit" /\ req[r].count < Threshold
MissedClaims == {req[r].claim : r \in {r \in Requests : Missing(r)}}

Watched == filed \ excused

(* Only saves that overlap with the last count can add to it, so what is   *)
(* filed, or about to be, without an incident and without a flag ticked by *)
(* hand is one claim fewer than the threshold and one for each other       *)
(* request.                                                                *)
MissInv ==
  incidents = {} =>
    Cardinality(Watched \cup MissedClaims)
      <= Threshold + Cardinality(Requests) - 2

LEMMA RequestsCount ==
  /\ Cardinality(Requests) \in Nat
  /\ Cardinality(Requests) >= 1
  /\ \A r \in Requests : Cardinality(Requests \ {r}) = Cardinality(Requests) - 1
<1>1. Cardinality(Requests) \in Nat /\ Cardinality(Requests) # 0
  BY RequestsAssumption, FS_CardinalityType, FS_EmptySet
<1>2. \A r \in Requests : Cardinality(Requests \ {r}) = Cardinality(Requests) - 1
  BY RequestsAssumption, FS_RemoveElement
<1> QED BY <1>1, <1>2

(* A set of requests saves no more claims than it has members.             *)
LEMMA ClaimsOf ==
  ASSUME NEW R \in SUBSET Requests
  PROVE  LET C == {req[o].claim : o \in R}
         IN  IsFiniteSet(C) /\ Cardinality(C) <= Cardinality(R)
<1> DEFINE C == {req[o].claim : o \in R}
           f == [o \in R |-> req[o].claim]
<1>1. f \in Surjection(R, C) BY DEF Surjection
<1>2. IsFiniteSet(R) BY RequestsAssumption, FS_Subset
<1> QED BY <1>1, <1>2, FS_Surjection

LEMMA MissedFinite ==
  ASSUME TypeInv
  PROVE  IsFiniteSet(Watched \cup MissedClaims)
<1>1. IsFiniteSet(MissedClaims) BY ClaimsOf DEF MissedClaims
<1>2. Watched \in SUBSET Claims BY DEF TypeInv, TypeOK, Watched
<1>3. IsFiniteSet(Watched) BY <1>2, ClaimsAssumption, FS_Subset
<1> QED BY <1>1, <1>3, FS_Union

LEMMA MissedShrinks ==
  ASSUME TypeInv, MissInv, incidents = {} \/ incidents' # {},
         incidents' = {} =>
           Watched' \cup MissedClaims' \subseteq Watched \cup MissedClaims
  PROVE  MissInv'
<1> SUFFICES ASSUME incidents' = {} PROVE MissInv' BY DEF MissInv
<1> DEFINE S == Watched \cup MissedClaims
           T == Watched' \cup MissedClaims'
<1>1. IsFiniteSet(S) /\ T \in SUBSET S BY MissedFinite
<1>2. /\ Cardinality(T) <= Cardinality(S)
      /\ Cardinality(T) \in Nat /\ Cardinality(S) \in Nat
  BY <1>1, FS_Subset, FS_CardinalityType
<1>3. Cardinality(S) <= Threshold + Cardinality(Requests) - 2 BY DEF MissInv
<1> HIDE DEF S, T
<1>4. Cardinality(T) <= Threshold + Cardinality(Requests) - 2
  BY <1>2, <1>3, RequestsCount, ThresholdAssumption
<1> QED BY <1>4 DEF T, MissInv

(* The count of a save bounds all that can be missed from then on.         *)
LEMMA MissedCount ==
  ASSUME TypeInv, NEW r \in Requests, CountClaims(r), Counted(r) < Threshold
  PROVE  MissInv'
<1> DEFINE own == filed \cup {req[r].claim}
           R == Requests \ {r}
           C == {req[o].claim : o \in R}
           T == Watched' \cup MissedClaims'
<1>1. /\ Active(r) /\ req[r] \in Saves
      /\ req'[r].claim = req[r].claim
      /\ \A o \in R : req'[o] = req[o]
      /\ filed' = filed
  BY SaveStepFields DEF SaveStep, Kept, CountClaims
<1>2. T \in SUBSET (own \cup C)
  BY <1>1 DEF MissedClaims, Watched
<1>3. IsFiniteSet(own) /\ Cardinality(own) \in Nat /\ Cardinality(own) < Threshold
  BY <1>1, CountTyped DEF Counted, Saves, TypeInv
<1>4. IsFiniteSet(C) /\ Cardinality(C) <= Cardinality(Requests) - 1
  BY ClaimsOf, RequestsCount
<1>5. /\ IsFiniteSet(own \cup C) /\ IsFiniteSet(own \cap C)
      /\ Cardinality(own \cup C)
           = Cardinality(own) + Cardinality(C) - Cardinality(own \cap C)
  BY <1>3, <1>4, FS_Union, FS_Intersection
<1>6. /\ Cardinality(C) \in Nat /\ Cardinality(own \cap C) \in Nat
      /\ Cardinality(own \cup C) \in Nat
  BY <1>4, <1>5, FS_CardinalityType
<1>7. Cardinality(T) <= Cardinality(own \cup C) /\ Cardinality(T) \in Nat
  BY <1>2, <1>5, FS_Subset, FS_CardinalityType
<1> HIDE DEF own, C, T
<1>8. Cardinality(T) <= Threshold + Cardinality(Requests) - 2
  BY <1>3, <1>4, <1>5, <1>6, <1>7, RequestsCount, ThresholdAssumption
<1> QED BY <1>8 DEF T, MissInv

LEMMA MissStep ==
  ASSUME TypeInv, CountInv, NoticeInv, MissInv, [Next]_vars
  PROVE  MissInv'
<1>0. incidents = {} \/ incidents' # {} BY IncidentsStay
<1>1. ASSUME NEW r \in Requests, NEW c \in Claims,
             Submit(r, c) \/ Resave(r, c)
      PROVE  MissInv'
  <2>1. PICK seen \in Seen : Begin(r, c, seen)
    BY <1>1 DEF Submit, Resave, Seen, AsSeen
  <2>2. /\ req'[r].pc = "save" /\ Watched' = Watched
        /\ \A o \in Requests \ {r} : req'[o] = req[o]
    BY <2>1 DEF Begin, TypeInv, TypeOK, Watched, history
  <2>3. MissedClaims' \subseteq MissedClaims
    BY <2>2 DEF MissedClaims, Missing
  <2> QED BY <1>0, <2>2, <2>3, MissedShrinks
<1>2. ASSUME NEW r \in Requests, SaveStep(r) PROVE MissInv'
  <2>1. /\ Active(r) /\ req[r] \in Saves
        /\ \A o \in Requests \ {r} : req'[o] = req[o]
    BY <1>2, SaveStepFields
  <2>2. ASSUME ReqOnly, ~Missing(r)' PROVE MissInv'
    <3>1. MissedClaims' \subseteq MissedClaims
      BY <2>1, <2>2 DEF MissedClaims, Missing
    <3>2. Watched' = Watched BY <2>2 DEF Watched, history
    <3> QED BY <1>0, <3>1, <3>2, MissedShrinks
  <2>3. CASE SaveClaim(r)
    BY <1>2, <2>2, <2>3, SaveStepFields DEF Missing, SaveClaim
  <2>4. CASE CountClaims(r)
    <3>1. Counted(r) \in Nat
      BY <2>1, CountTyped DEF TypeInv, Counted, Saves
    <3>2. CASE Counted(r) < Threshold BY <2>4, <3>2, MissedCount
    <3>3. CASE Counted(r) >= Threshold
      <4>1. ReqOnly BY <2>4 DEF CountClaims
      <4>2. req'[r].pc = "flag" BY <1>2, <2>4, <3>3, SaveStepFields
      <4> QED BY <2>2, <4>1, <4>2 DEF Missing
    <3> QED BY <3>1, <3>2, <3>3, ThresholdAssumption
  <2>5. ASSUME ReadFlag(r) \/ IncidentAlreadyOpen(r) \/ OpenIncident(r)
        PROVE  MissInv'
    <3>1. ReqOnly /\ req[r].pc \in {"flag", "exists"}
      BY <2>5 DEF ReadFlag, IncidentAlreadyOpen, OpenIncident
    <3>2. req'[r].count = req[r].count
      BY <1>2, <2>5, SaveStepFields DEF Kept
    <3>3. req[r].count >= Threshold /\ req[r].count \in Nat
      BY <2>1, <3>1 DEF CountInv, Counting, Saves
    <3>4. ~(req'[r].count < Threshold)
      BY <3>2, <3>3, ThresholdAssumption
    <3> QED BY <2>2, <3>1, <3>4 DEF Missing
  <2>6. CASE SetHotFlag(r)
    BY <1>2, <2>2, <2>6, SaveStepFields DEF Missing, SetHotFlag
  <2>7. CASE Commit(r)
    <3>1. /\ req[r].pc = "commit" /\ filed' = filed \cup {req[r].claim}
          /\ incidents' = incidents \cup req[r].mine
      BY <2>7 DEF Commit
    <3>2. req'[r].pc = "idle"
      <4>1. Idle.pc = "idle" BY DEF Idle
      <4> QED BY <1>2, <2>7, <4>1, SaveStepFields
    <3>3. incidents' = {} => Missing(r) \/ WentByTick(r)
      BY <2>1, <3>1, ThresholdAssumption
      DEF NoticeInv, Noticing, Missing, Saves, WentByTick
    <3>4. incidents' = {} => \/ req[r].claim \in MissedClaims
                            \/ req[r].claim \in excused'
      BY <2>7, <3>3 DEF MissedClaims, Commit
    <3>5. MissedClaims' \subseteq MissedClaims
      BY <2>1, <3>2 DEF MissedClaims, Missing
    <3>6. excused \subseteq excused' BY <2>7 DEF Commit
    <3>7. incidents' = {} => Watched' \subseteq Watched \cup MissedClaims
      BY <3>1, <3>4, <3>6 DEF Watched
    <3> QED BY <1>0, <3>5, <3>7, MissedShrinks
  <2> QED BY <1>2, <2>3, <2>4, <2>5, <2>6, <2>7 DEF SaveStep
<1>3. ASSUME NEW r \in Requests, Abort(r) PROVE MissInv'
  <2>1. /\ Watched' = Watched /\ req'[r].pc = "idle"
        /\ \A o \in Requests \ {r} : req'[o] = req[o]
    BY <1>3 DEF Abort, Idle, TypeInv, TypeOK, Watched, history
  <2>2. MissedClaims' \subseteq MissedClaims
    BY <2>1 DEF MissedClaims, Missing
  <2> QED BY <1>0, <2>1, <2>2, MissedShrinks
<1>4. CASE \/ \E i \in incidents : CloseIncident(i)
           \/ \E flag \in BOOLEAN : SaveBatchForm(flag)
           \/ UNCHANGED vars
  <2>1. Watched' = Watched /\ req' = req
    BY <1>4 DEF CloseIncident, SaveBatchForm, vars, history, Watched
  <2>2. MissedClaims' = MissedClaims BY <2>1 DEF MissedClaims, Missing
  <2> QED BY <1>0, <2>1, <2>2, MissedShrinks
<1> QED BY <1>1, <1>2, <1>3, <1>4 DEF Next

(* However many saves overlap, no more claims are filed without an         *)
(* incident than one below the threshold and one for each other request,   *)
(* those that went by a flag ticked by hand set aside.                     *)
THEOREM NoticedInTime == Spec => []ThresholdNoticed
<1>1. Init => MissInv
  <2> SUFFICES ASSUME Init PROVE MissInv OBVIOUS
  <2>1. Watched = {} /\ MissedClaims = {}
    BY DEF Init, Idle, MissedClaims, Missing, Watched
  <2>2. Watched \cup MissedClaims = {} BY <2>1
  <2>3. 0 <= Threshold + Cardinality(Requests) - 2
    BY RequestsCount, ThresholdAssumption
  <2> QED BY <2>2, <2>3, FS_EmptySet DEF MissInv
<1>2. TypeInv /\ CountInv /\ NoticeInv /\ MissInv /\ [Next]_vars => MissInv'
  BY MissStep
<1>3. TypeInv /\ MissInv => ThresholdNoticed
  <2> SUFFICES ASSUME TypeInv, MissInv, incidents = {}
               PROVE  ~(Cardinality(Watched)
                          >= Threshold + Cardinality(Requests) - 1)
    BY DEF ThresholdNoticed, Watched
  <2> DEFINE S == Watched \cup MissedClaims
  <2>1. IsFiniteSet(S) /\ Watched \in SUBSET S BY MissedFinite
  <2>2. /\ Cardinality(Watched) <= Cardinality(S)
        /\ Cardinality(Watched) \in Nat /\ Cardinality(S) \in Nat
    BY <2>1, FS_Subset, FS_CardinalityType
  <2>3. Cardinality(S) <= Threshold + Cardinality(Requests) - 2 BY DEF MissInv
  <2> HIDE DEF S
  <2> QED BY <2>2, <2>3, RequestsCount, ThresholdAssumption
<1> QED
  BY <1>1, <1>2, <1>3, TypeInvariance, CountInvariance, NoticeInvariance, PTL
  DEF Spec
=============================================================================
