------------------------------ MODULE HotBatch ------------------------------
(***************************************************************************)
(* The hot batch watch: every save of a claim on a production batch counts *)
(* the batch's claims inside the saving transaction and, at the threshold, *)
(* flags the batch and opens a quality incident.  Portal submissions and   *)
(* later saves of a claim (a push or its undo, the admin site) run         *)
(* concurrently, at READ COMMITTED, with the staff closing incidents and   *)
(* ticking or unticking the flag.  Batches share no row, so the module     *)
(* follows one.                                                            *)
(*                                                                         *)
(* filed, hotFlag and incidents are the committed rows; what a transaction *)
(* wrote and did not commit is in its request's record.                    *)
(***************************************************************************)
EXTENDS Naturals, FiniteSets

CONSTANTS
  Claims,     \* claims that are, or may be, submitted on the batch
  Requests,   \* requests that submit or save a claim
  Threshold,  \* settings.HOT_BATCH_CLAIM_THRESHOLD
  MaxForms    \* bound on how often the admin site saves the batch

ASSUME ThresholdAssumption == Threshold \in Nat \ {0}
ASSUME ClaimsAssumption == IsFiniteSet(Claims)
ASSUME RequestsAssumption == IsFiniteSet(Requests) /\ Requests # {}
ASSUME MaxFormsAssumption == MaxForms \in Nat

VARIABLES
  filed,      \* committed claims on the batch
  hotFlag,    \* Batch.hot_flag
  incidents,  \* committed QualityIncident rows of the batch
  forms,      \* times the admin site saved the batch
  req,        \* what each request is doing
  ticked,     \* history: was the flag last set by hand, in the admin site,
              \* on a batch without an incident?
  excused     \* history: the claims filed by saves that went by such a flag

history == <<ticked, excused>>
vars == <<filed, hotFlag, incidents, forms, req, history>>

(* public_id is a fresh token: the request and how many went before.       *)
Incidents == [public_id : Requests \X Nat, claim_count_at_open : Nat,
              status : {"open", "closed"}]

(* The batch flag in the request's memory; to the code "ticked" is "hot".  *)
(* Mutant: the raw flag is kept.                                           *)
Seen == {"unread", "cold", "hot", "ticked"}
RawFlag(flag) == IF flag THEN "True" ELSE "False"
AsSeen(flag) == IF ~flag THEN "cold" ELSE IF ticked THEN "ticked" ELSE "hot"
IsHot(seen) == seen \in {"hot", "ticked"}

Idle == [pc |-> "idle"]
Saves ==
  [pc : {"save", "count", "flag", "lock", "exists", "commit"}, claim : Claims,
   seen : Seen, count : Nat, wroteFlag : BOOLEAN, mine : SUBSET Incidents]

(* Tables and requests hold values of their types.                         *)
TypeOK ==
  /\ filed \subseteq Claims
  /\ hotFlag \in BOOLEAN
  /\ incidents \subseteq Incidents
  /\ forms \in 0 .. MaxForms
  /\ req \in [Requests -> {Idle} \cup Saves]
  /\ ticked \in BOOLEAN
  /\ excused \subseteq Claims

Init ==
  /\ filed = {} /\ hotFlag = FALSE /\ incidents = {}
  /\ forms = 0
  /\ req = [r \in Requests |-> Idle]
  /\ ticked = FALSE /\ excused = {}
-----------------------------------------------------------------------------
Active(r) == req[r].pc # "idle"
Saving(r, c) == Active(r) /\ req[r].claim = c

(* The claim row is written and not committed.                             *)
Wrote(r) == req[r].pc \notin {"idle", "save"}

ReqOnly == UNCHANGED <<filed, hotFlag, incidents, forms, history>>

Begin(r, c, seen) ==
  /\ ~Active(r)
  /\ req' = [req EXCEPT ![r] =
       [pc |-> "save", claim |-> c, seen |-> seen, count |-> 0,
        wroteFlag |-> FALSE, mine |-> {}]]
  /\ ReqOnly

(* The portal form resolves the batch row while it is validated, before    *)
(* the transaction that creates the claim begins.                          *)
Submit(r, c) ==
  /\ c \notin filed
  /\ \A o \in Requests : ~Saving(o, c)
  /\ Begin(r, c, AsSeen(hotFlag))

(* The ticket workspace and the admin form load the claim's batch with the *)
(* claim; the API and the retry task load it when the watch needs it.      *)
Resave(r, c) ==
  /\ c \in filed
  /\ \E seen \in {AsSeen(hotFlag), "unread"} : Begin(r, c, seen)

(* claim.save; the row stays locked to the end of the transaction.         *)
SaveClaim(r) ==
  /\ req[r].pc = "save"
  /\ \A o \in Requests \ {r} : ~(Wrote(o) /\ Saving(o, req[r].claim))
  /\ req' = [req EXCEPT ![r].pc = "count"]
  /\ ReqOnly

(* Mutant: the count also sees what others have not committed.             *)
CountUncommitted(r) ==
  Cardinality(filed \cup {req[o].claim : o \in {o \in Requests : Wrote(o)}})

(* The claims a statement of this transaction sees: the committed ones and *)
(* its own.                                                                *)
Counted(r) == Cardinality(filed \cup {req[r].claim})

(* Mutant: the threshold itself is not enough.                             *)
MoreThanThreshold(n) == n > Threshold

ReachesThreshold(n) == n >= Threshold

CountClaims(r) ==
  LET n == Counted(r) IN
  /\ req[r].pc = "count"
  /\ req' = [req EXCEPT
       ![r].pc = IF ReachesThreshold(n) THEN "flag" ELSE "commit",
       ![r].count = n]
  /\ ReqOnly

(* instance.batch is what the request loaded before, or is loaded now.     *)
ReadFlag(r) ==
  LET seen == IF req[r].seen = "unread" THEN AsSeen(hotFlag)
              ELSE req[r].seen IN
  /\ req[r].pc = "flag"
  /\ req' = [req EXCEPT ![r].pc = IF IsHot(seen) THEN "commit" ELSE "lock",
                        ![r].seen = seen]
  /\ ReqOnly

(* Mutants: the flag is saved after the incident, so nobody waits for it;  *)
(* the row is locked over a second connection, and waits for itself.       *)
NobodyHoldsBatch(r) == FALSE
AnyoneHoldsBatch(r) == \E o \in Requests : req[o].pc = "lock"

(* Another open transaction updated the batch row.                         *)
OtherHoldsBatch(r) == \E o \in Requests \ {r} : Active(o) /\ req[o].wroteFlag

SetHotFlag(r) ==
  /\ req[r].pc = "lock"
  /\ ~OtherHoldsBatch(r)
  /\ req' = [req EXCEPT ![r].pc = "exists", ![r].wroteFlag = TRUE]
  /\ ReqOnly

OpenIncidents == {i \in incidents : i.status = "open"}

IncidentAlreadyOpen(r) ==
  /\ req[r].pc = "exists"
  /\ OpenIncidents # {}
  /\ req' = [req EXCEPT ![r].pc = "commit"]
  /\ ReqOnly

OpenIncident(r) ==
  /\ req[r].pc = "exists"
  /\ OpenIncidents = {}
  /\ req' = [req EXCEPT ![r].pc = "commit",
       ![r].mine = {[public_id |-> <<r, Cardinality(incidents)>>,
                     claim_count_at_open |-> req[r].count,
                     status |-> "open"]}]
  /\ ReqOnly

(* A flag ticked by hand ended the watch in this save, and nobody opened   *)
(* an incident meanwhile.                                                  *)
WentByTick(r) ==
  req[r].count >= Threshold /\ req[r].seen = "ticked" /\ incidents = {}

Commit(r) ==
  /\ req[r].pc = "commit"
  /\ filed' = filed \cup {req[r].claim}
  /\ hotFlag' = (hotFlag \/ req[r].wroteFlag)
  /\ incidents' = incidents \cup req[r].mine
  /\ req' = [req EXCEPT ![r] = Idle]
  /\ ticked' = (ticked /\ ~req[r].wroteFlag)
  /\ excused' = excused \cup {c \in {req[r].claim} : WentByTick(r)}
  /\ UNCHANGED forms

(* Mutant: the watch's save of the flag is not part of the transaction.    *)
FlagKept(r) == hotFlag \/ req[r].wroteFlag

(* What a transaction that does not commit leaves of the flag.             *)
FlagAfterAbort(r) == hotFlag

(* A later statement of the transaction fails, or the process dies.        *)
Abort(r) ==
  /\ Active(r)
  /\ hotFlag' = FlagAfterAbort(r)
  /\ req' = [req EXCEPT ![r] = Idle]
  /\ UNCHANGED <<filed, incidents, forms, history>>

(* Quality closes an incident in the admin site; the flag is not touched.  *)
CloseIncident(i) ==
  /\ i \in OpenIncidents
  /\ incidents' = (incidents \ {i}) \cup {[i EXCEPT !.status = "closed"]}
  /\ UNCHANGED <<filed, hotFlag, forms, req, history>>

(* The admin site saves the whole batch: the flag as somebody set it, or   *)
(* as it was when the form was opened.                                     *)
SaveBatchForm(flag) ==
  /\ forms < MaxForms
  /\ \A r \in Requests : ~(Active(r) /\ req[r].wroteFlag)
  /\ hotFlag' = flag
  /\ ticked' = (flag /\ incidents = {})
  /\ forms' = forms + 1
  /\ UNCHANGED <<filed, incidents, req, excused>>

SaveStep(r) ==
  \/ SaveClaim(r) \/ CountClaims(r) \/ ReadFlag(r) \/ SetHotFlag(r)
  \/ IncidentAlreadyOpen(r) \/ OpenIncident(r) \/ Commit(r)

Next ==
  \/ \E r \in Requests, c \in Claims : Submit(r, c) \/ Resave(r, c)
  \/ \E r \in Requests : SaveStep(r) \/ Abort(r)
  \/ \E i \in incidents : CloseIncident(i)
  \/ \E flag \in BOOLEAN : SaveBatchForm(flag)

Spec == Init /\ [][Next]_vars

(* A worker goes on with its request, and PostgreSQL queues those waiting  *)
(* for a row, so none waits for ever while others take it in turn.  Nobody *)
(* owes a submission or a click.                                           *)
FairSpec == Spec /\ \A r \in Requests : SF_vars(SaveStep(r))
-----------------------------------------------------------------------------
(* The batch row's lock, taken by saving the flag before looking for an    *)
(* open incident, keeps concurrent saves from opening two.                 *)
OneOpenIncident ==
  \A i, j \in OpenIncidents : i = j

(* claim_count_at_open reached the threshold and counts only claims that   *)
(* were filed, whatever was rolled back around it.                         *)
CountsAreFiled ==
  \A i \in incidents :
    i.claim_count_at_open \in Threshold .. Cardinality(filed)

(* A transaction that counted the threshold and commits leaves the batch   *)
(* with an incident, though it may have trusted a flag it read long ago:   *)
(* a transaction that opened no incident leaves no flag behind either.     *)
(* Only a flag ticked by hand in the admin site silences the watch, and    *)
(* only in the saves that loaded it while it was so.                       *)
CommitNotices ==
  [][\A r \in Requests :
       Commit(r) /\ req[r].count >= Threshold =>
         incidents' # {} \/ WentByTick(r)]_vars

(* Two submissions that overlap each count without the other, so both may  *)
(* stay below the threshold; but with so many requests at work, no more    *)
(* than one claim fewer than that can be missed, those filed by saves that *)
(* went by a flag ticked by hand set aside.                                *)
ThresholdNoticed ==
  Cardinality(filed \ excused) >= Threshold + Cardinality(Requests) - 1
    => incidents # {}

(* Every save ends, though the claim row and the batch row are locked by   *)
(* others on the way.                                                      *)
SaveEnds == \A r \in Requests : Active(r) ~> ~Active(r)
=============================================================================
