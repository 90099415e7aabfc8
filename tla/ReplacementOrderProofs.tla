----------------------- MODULE ReplacementOrderProofs -----------------------
(***************************************************************************)
(* Theorems about ReplacementOrder, for every set of claims, requests and  *)
(* users, all amounts and every threshold.                                 *)
(***************************************************************************)
EXTENDS ReplacementOrder, FiniteSetTheorems, TLAPS

USE DEF PushOnly, DelOnly

(* A request between begin and answer has every field of an active push.   *)
LEMMA ActivePush ==
  ASSUME TypeOK, NEW p \in Pushers, push[p].pc # "idle"
  PROVE  /\ push[p] \in ActivePushes
         /\ push[p].pc = "apply" => push[p] \in ApplyingPushes
         /\ push[p].pc # "apply" => push[p] \in EarlyPushes
BY DEF TypeOK, Pushes, IdlePushes, EndedPushes, ActivePushes, EarlyPushes,
       ApplyingPushes

(* Moving an active push on leaves the table of pushes typed.              *)
LEMMA GotoTyped ==
  ASSUME TypeOK, NEW p \in Pushers, push[p].pc \notin {"idle", "apply"},
         NEW pc \in {"dedupe", "gate", "insert", "calling", "accepted"},
         Goto(p, pc)
  PROVE  push' \in [Pushers -> Pushes]
<1>1. push[p] \in EarlyPushes BY ActivePush
<1>2. [push[p] EXCEPT !.pc = pc] \in EarlyPushes
  BY <1>1 DEF EarlyPushes
<1> QED BY <1>2 DEF Goto, TypeOK, Pushes, ActivePushes

LEMMA AnswerTyped ==
  ASSUME TypeOK, NEW p \in Pushers, push[p].pc # "idle",
         NEW a \in Answers, Answer(p, a)
  PROVE  push' \in [Pushers -> Pushes]
<1>1. push[p] \in ActivePushes BY ActivePush
<1>2. [pc |-> "idle", answer |-> a, claim |-> push[p].claim,
       attempt |-> push[p].attempt] \in EndedPushes
  BY <1>1 DEF ActivePushes, EarlyPushes, ApplyingPushes, EndedPushes
<1> QED BY <1>2 DEF Answer, TypeOK, Pushes

LEMMA AuthorityTyped ==
  ASSUME TypeOK, NoteAuthority, push' \in [Pushers -> Pushes]
  PROVE  authorised' \subseteq Attempt
<1>1. ASSUME NEW p \in Pushers, MayOrder(p)' PROVE push'[p].attempt \in Attempt
  <2>1. push'[p].pc # "idle" BY <1>1 DEF MayOrder
  <2>2. push'[p] \in ActivePushes
    BY <2>1 DEF Pushes, IdlePushes, EndedPushes
  <2> QED BY <2>2 DEF ActivePushes, EarlyPushes, ApplyingPushes
<1>2. AuthorisedNow' \subseteq Attempt
  BY <1>1 DEF AuthorisedNow
<1> QED BY <1>2 DEF TypeOK, NoteAuthority

LEMMA BeginPushTyped ==
  ASSUME TypeOK, NEW p \in Pushers, NEW c \in Claims, NEW a \in Actors,
         BeginPush(p, c, a)
  PROVE  TypeOK'
<1>1. attempts + 1 \in Attempt /\ attempts' \in 0 .. MaxAttempts
  <2>1. attempts \in 0 .. MaxAttempts BY DEF TypeOK
  <2>2. attempts < MaxAttempts /\ attempts' = attempts + 1 BY DEF BeginPush
  <2> QED BY <2>1, <2>2, BoundsAssumption DEF Attempt
<1>2. [pc |-> "dedupe", claim |-> c, qty |-> quantity[c],
       exposure |-> exposure[c], actor |-> a, attempt |-> attempts + 1,
       so |-> ""] \in EarlyPushes
  BY <1>1 DEF TypeOK, EarlyPushes
<1>3. push' \in [Pushers -> Pushes]
  BY <1>2 DEF BeginPush, TypeOK, Pushes, ActivePushes
<1>4. UNCHANGED <<database, placed, configured, del, form, edits, typed>>
  BY DEF BeginPush
<1>5. authorised' \subseteq Attempt
  BY <1>3, AuthorityTyped DEF BeginPush
<1> QED BY <1>1, <1>3, <1>4, <1>5 DEF TypeOK, database

LEMMA NumberedTyped ==
  ASSUME TypeOK, NEW p \in Pushers, push[p].pc \notin {"idle", "apply"},
         NEW so \in {"sim", "real"},
         push' = [push EXCEPT ![p].pc = "apply", ![p].so = so]
  PROVE  push' \in [Pushers -> Pushes]
<1>1. push[p] \in EarlyPushes BY ActivePush
<1>2. [push[p] EXCEPT !.pc = "apply", !.so = so] \in ApplyingPushes
  BY <1>1 DEF EarlyPushes, ApplyingPushes
<1> QED BY <1>2 DEF TypeOK, Pushes, ActivePushes

LEMMA ZohoAcceptsTyped ==
  ASSUME TypeOK, NEW p \in Pushers, ZohoAccepts(p)
  PROVE  TypeOK'
<1>1. push[p] \in ActivePushes /\ push[p].pc # "idle"
  BY ActivePush DEF ZohoAccepts
<1>2. [attempt |-> push[p].attempt, key |-> Key(p), actor |-> push[p].actor]
        \in Orders
  BY <1>1 DEF ActivePushes, EarlyPushes, ApplyingPushes, Orders, Key, _fingerprint, Fingerprints
<1>3. push' \in [Pushers -> Pushes]
  BY <1>1, GotoTyped DEF ZohoAccepts
<1> QED BY <1>2, <1>3 DEF TypeOK, ZohoAccepts, database, history

(* The rows a push writes have their tables' types; a push that reached    *)
(* its commit has a number.                                                *)
LEMMA RowsTyped ==
  ASSUME TypeOK, NEW p \in Pushers, push[p].pc # "idle"
  PROVE  /\ Key(p) \in Fingerprints
         /\ LogRow(p, "success") \in SyncLogs
         /\ LogRow(p, "failed") \in SyncLogs
         /\ push[p].claim \in Claims
         /\ push[p].pc = "apply" => /\ PushNote(p) \in Notes
                                   /\ push[p].so \in Numbers
<1>1. /\ push[p] \in ActivePushes
      /\ push[p].pc = "apply" => push[p] \in ApplyingPushes
  BY ActivePush
<1> QED
  BY <1>1 DEF ActivePushes, EarlyPushes, ApplyingPushes, Key, _fingerprint,
     Fingerprints, LogRow, SyncLogs, PushNote, Notes, Numbers
-----------------------------------------------------------------------------
LEMMA PushActionTyped ==
  ASSUME TypeOK, NEW p \in Pushers, PushAction(p)
  PROVE  TypeOK'
<1>1. ASSUME NEW c \in Claims, NEW a \in Actors, BeginPush(p, c, a)
      PROVE  TypeOK'
  BY <1>1, BeginPushTyped
<1>2. ASSUME PushOnly, push' \in [Pushers -> Pushes]
      PROVE  TypeOK'
  BY <1>2 DEF TypeOK, database, history
<1>3. CASE RefuseDuplicate(p)
  <2>1. push' \in [Pushers -> Pushes]
    BY <1>3, AnswerTyped DEF RefuseDuplicate, Answers
  <2> QED BY <1>2, <1>3, <2>1 DEF RefuseDuplicate
<1>4. CASE PassDedupe(p)
  <2>1. push' \in [Pushers -> Pushes]
    BY <1>4, GotoTyped DEF PassDedupe
  <2> QED BY <1>2, <1>4, <2>1 DEF PassDedupe
<1>5. CASE RefuseUnapproved(p)
  <2>1. push' \in [Pushers -> Pushes]
    BY <1>5, AnswerTyped DEF RefuseUnapproved, Answers
  <2>2. approvals' = approvals
    BY <1>5 DEF RefuseUnapproved, AfterRollback
  <2>3. UNCHANGED <<quantity, exposure, soNumber, ticketStatus, dedupe,
                    syncLogs, notes, audit, placed, configured, attempts, del,
                    form, history>>
    BY <1>5 DEF RefuseUnapproved
  <2> QED BY <2>1, <2>2, <2>3 DEF TypeOK, history
<1>6. CASE PassGate(p)
  <2>1. push' \in [Pushers -> Pushes]
    BY <1>6, GotoTyped DEF PassGate
  <2> QED BY <1>2, <1>6, <2>1 DEF PassGate
<1>7. CASE InsertLog(p)
  <2>1. push' \in [Pushers -> Pushes]
    BY <1>7, GotoTyped DEF InsertLog
  <2> QED BY <1>2, <1>7, <2>1 DEF InsertLog
<1>8. CASE LogConflict(p)
  <2>1. push' \in [Pushers -> Pushes]
    BY <1>8, AnswerTyped DEF LogConflict, Answers
  <2> QED BY <1>2, <1>8, <2>1 DEF LogConflict
<1>9. CASE Simulate(p)
  <2>1. push' \in [Pushers -> Pushes]
    BY <1>9, NumberedTyped DEF Simulate, Numbers
  <2> QED BY <1>2, <1>9, <2>1 DEF Simulate
<1>10. CASE ZohoReplies(p)
  <2>1. push' \in [Pushers -> Pushes]
    BY <1>10, NumberedTyped DEF ZohoReplies, Numbers
  <2> QED BY <1>2, <1>10, <2>1 DEF ZohoReplies
<1>11. CASE RequestTimesOut(p)
  <2>1. push' \in [Pushers -> Pushes]
    BY <1>11, AnswerTyped DEF RequestTimesOut, Waiting, Answers
  <2> QED BY <1>2, <1>11, <2>1 DEF RequestTimesOut
<1>12. CASE Apply(p)
  <2> DEFINE c == push[p].claim
  <2>1. push' \in [Pushers -> Pushes]
    BY <1>12, AnswerTyped DEF Apply, Answers
  <2>2. push[p].pc = "apply" BY <1>12 DEF Apply
  <2>3. /\ Key(p) \in Fingerprints /\ LogRow(p, "success") \in SyncLogs
        /\ PushNote(p) \in Notes /\ c \in Claims /\ push[p].so \in Numbers
    BY <2>2, RowsTyped
  <2>4. /\ soNumber' = [soNumber EXCEPT ![c] = push[p].so]
        /\ ticketStatus' = [ticketStatus EXCEPT ![c] = "resolved_replacement"]
        /\ notes' = notes \cup {PushNote(p)}
        /\ audit' = audit \cup {PushNote(p)}
        /\ dedupe' = dedupe \cup {Key(p)}
        /\ syncLogs' = syncLogs \cup {LogRow(p, "success")}
        /\ UNCHANGED <<quantity, exposure, approvals, placed, configured,
                       attempts, del, form, history>>
    BY <1>12 DEF Apply, AuditRows
  <2>5. /\ soNumber' \in [Claims -> Numbers]
        /\ ticketStatus' \in [Claims -> TicketStatus]
    BY <2>3, <2>4 DEF TypeOK, TicketStatus
  <2>6. /\ notes' \subseteq Notes /\ audit' \subseteq Notes
        /\ dedupe' \subseteq Fingerprints /\ syncLogs' \subseteq SyncLogs
    BY <2>3, <2>4 DEF TypeOK
  <2> QED BY <2>1, <2>4, <2>5, <2>6 DEF TypeOK, history
<1>13. CASE ApplyConflict(p)
  <2>1. push' \in [Pushers -> Pushes]
    BY <1>13, AnswerTyped DEF ApplyConflict, Answers
  <2> QED BY <1>2, <1>13, <2>1 DEF ApplyConflict
<1>14. CASE ZohoAccepts(p)
  BY <1>14, ZohoAcceptsTyped
<1>15. CASE ZohoFails(p)
  <2>1. push' \in [Pushers -> Pushes]
    BY <1>15, AnswerTyped DEF ZohoFails, Answers
  <2>2. syncLogs' = syncLogs
    BY <1>15 DEF ZohoFails, AfterRollback
  <2>3. UNCHANGED <<quantity, exposure, soNumber, ticketStatus, approvals,
                    dedupe, notes, audit, placed, configured, attempts, del,
                    form, history>>
    BY <1>15 DEF ZohoFails
  <2> QED BY <2>1, <2>2, <2>3 DEF TypeOK, history
<1>16. CASE CrashPush(p)
  <2>1. push' \in [Pushers -> Pushes]
    BY <1>16, AnswerTyped DEF CrashPush, Answers
  <2> QED BY <1>2, <1>16, <2>1 DEF CrashPush
<1> QED
  BY <1>1, <1>3, <1>4, <1>5, <1>6, <1>7, <1>8, <1>9, <1>10, <1>11, <1>12,
     <1>13, <1>14, <1>15, <1>16 DEF PushAction, PushStep
-----------------------------------------------------------------------------
ClearPhases == {"find", "dedupe", "logs", "commit", "note"}
Clearing ==
  [pc : ClearPhases, claim : Claims, status : TicketStatus, note : Notes,
   so : Numbers, qty : Quantities, goneDedupe : SUBSET Fingerprints,
   goneLogs : SUBSET SyncLogs]
Loading ==
  [pc : {"load"}, claim : Claims, status : TicketStatus, note : Notes]

LEMMA ActiveDelete ==
  ASSUME TypeOK, NEW d \in Deleters
  PROVE  /\ del[d].pc = "load" => del[d] \in Loading
         /\ del[d].pc \in ClearPhases => del[d] \in Clearing
         /\ del[d].pc \in {"idle", "load"} \cup ClearPhases
BY DEF TypeOK, Deletes, ClearPhases, Clearing, Loading

LEMMA DeleteActionTyped ==
  ASSUME TypeOK, NEW d \in Deleters, DeleteAction(d)
  PROVE  TypeOK'
<1>1. ASSUME DelOnly, NEW r \in Deletes, del' = [del EXCEPT ![d] = r]
      PROVE  TypeOK'
  BY <1>1 DEF TypeOK, database, history
<1>2. ASSUME NEW r \in Clearing PROVE r \in Deletes
  BY <1>2 DEF Clearing, ClearPhases, Deletes
<1>3. NotDeleting \in Deletes
  BY DEF NotDeleting, Deletes
<1>4. ASSUME NEW n \in audit, BeginDelete(d, n)
      PROVE  TypeOK'
  <2>1. n \in Notes /\ n.claim \in Claims BY <1>4 DEF TypeOK, Notes
  <2>2. [pc |-> "load", claim |-> n.claim, status |-> ticketStatus[n.claim],
         note |-> n] \in Deletes
    BY <2>1 DEF TypeOK, Deletes
  <2> QED BY <1>1, <1>4, <2>2 DEF BeginDelete
<1>5. CASE LoadClaim(d)
  <2> DEFINE r ==
        [pc |-> "find", claim |-> del[d].claim, status |-> del[d].status,
         note |-> del[d].note, so |-> soNumber[del[d].claim],
         qty |-> quantity[del[d].claim], goneDedupe |-> {}, goneLogs |-> {}]
  <2>1. del[d] \in Loading BY <1>5, ActiveDelete DEF LoadClaim
  <2>2. r \in Clearing
    BY <2>1 DEF Loading, Clearing, ClearPhases, TypeOK
  <2>3. del' = [del EXCEPT ![d] = r]
    BY <1>5 DEF LoadClaim
  <2> QED BY <1>1, <1>2, <1>5, <2>2, <2>3 DEF LoadClaim
<1>11. CASE NoteMissing(d)
  BY <1>1, <1>3, <1>11 DEF NoteMissing
<1>12. CASE FindNote(d)
  <2>1. del[d] \in Clearing
    BY <1>12, ActiveDelete DEF FindNote, ClearPhases
  <2>2. PICK pc \in {"dedupe", "note"} :
          del' = [del EXCEPT ![d] = [del[d] EXCEPT !.pc = pc]]
    BY <1>12 DEF FindNote
  <2>3. [del[d] EXCEPT !.pc = pc] \in Clearing
    BY <2>1 DEF Clearing, ClearPhases
  <2> QED BY <1>1, <1>2, <1>12, <2>2, <2>3 DEF FindNote
<1>6. CASE DeleteDedupe(d)
  <2> DEFINE k == _fingerprint(del[d].claim, del[d].qty)
             r == [del[d] EXCEPT !.pc = "logs", !.goneDedupe = dedupe \cap {k}]
  <2>1. del[d] \in Clearing
    BY <1>6, ActiveDelete DEF DeleteDedupe, ClearPhases
  <2>2. dedupe \cap {k} \in SUBSET Fingerprints BY DEF TypeOK
  <2>3. r \in Clearing BY <2>1, <2>2 DEF Clearing, ClearPhases
  <2>4. del' = [del EXCEPT ![d] = r] BY <1>6 DEF DeleteDedupe
  <2> QED BY <1>1, <1>2, <1>6, <2>3, <2>4 DEF DeleteDedupe
<1>7. CASE DeleteLogs(d)
  <2> DEFINE r == [del[d] EXCEPT !.pc = "commit",
                                 !.goneLogs = LogsOf(del[d].claim)]
  <2>1. del[d] \in Clearing
    BY <1>7, ActiveDelete DEF DeleteLogs, ClearPhases
  <2>2. LogsOf(del[d].claim) \in SUBSET SyncLogs BY DEF TypeOK, LogsOf
  <2>3. r \in Clearing BY <2>1, <2>2 DEF Clearing, ClearPhases
  <2>4. del' = [del EXCEPT ![d] = r] BY <1>7 DEF DeleteLogs
  <2> QED BY <1>1, <1>2, <1>7, <2>3, <2>4 DEF DeleteLogs
<1>8. CASE CommitClear(d)
  <2> DEFINE c == del[d].claim
             r == [del[d] EXCEPT !.pc = "note", !.goneDedupe = {},
                                 !.goneLogs = {}]
  <2>1. del[d] \in Clearing
    BY <1>8, ActiveDelete DEF CommitClear, ClearPhases
  <2>2. r \in Deletes BY <1>2, <2>1 DEF Clearing, ClearPhases
  <2>3. c \in Claims BY <2>1 DEF Clearing
  <2>4. /\ dedupe' = dedupe \ del[d].goneDedupe
        /\ syncLogs' = syncLogs \ del[d].goneLogs
        /\ soNumber' = [soNumber EXCEPT ![c] = ""]
        /\ \/ ticketStatus' = ticketStatus
           \/ ticketStatus' = [ticketStatus EXCEPT ![c] = "open"]
        /\ del' = [del EXCEPT ![d] = r]
        /\ UNCHANGED <<quantity, exposure, approvals, notes, audit, placed,
                       configured, attempts, push, form, history>>
    <3>1. [ticketStatus EXCEPT ![c] = @] = ticketStatus
      BY DEF TypeOK
    <3> QED
      BY <1>8, <3>1 DEF CommitClear, DedupeAfterClear, LogsAfterClear,
         ReopenedStatus
  <2>5. /\ soNumber' \in [Claims -> Numbers]
        /\ ticketStatus' \in [Claims -> TicketStatus]
    BY <2>3, <2>4 DEF TypeOK, TicketStatus, Numbers
  <2>6. dedupe' \subseteq Fingerprints /\ syncLogs' \subseteq SyncLogs
    BY <2>4 DEF TypeOK
  <2>7. del' \in [Deleters -> Deletes] BY <2>2, <2>4 DEF TypeOK
  <2> QED BY <2>4, <2>5, <2>6, <2>7 DEF TypeOK, history
<1>9. CASE RemoveNote(d)
  BY <1>3, <1>9 DEF TypeOK, RemoveNote, history
<1>10. CASE CrashDelete(d)
  BY <1>1, <1>3, <1>10 DEF CrashDelete
<1> QED
  BY <1>4, <1>5, <1>6, <1>7, <1>8, <1>9, <1>10, <1>11, <1>12
  DEF DeleteAction, DeleteStep
-----------------------------------------------------------------------------
LEMMA EditCounted ==
  ASSUME TypeOK, CountEdit
  PROVE  edits' \in 0 .. MaxActs
<1>1. attempts \in Nat /\ edits \in Nat BY DEF TypeOK
<1>2. attempts + edits < MaxActs /\ edits' = edits + 1 BY DEF CountEdit
<1> QED BY <1>1, <1>2, BoundsAssumption

LEMMA StaffActionTyped ==
  ASSUME TypeOK, StaffAction
  PROVE  TypeOK'
<1>1. ASSUME NEW c \in Claims, NEW s \in StaffStatuses, SetStatus(c, s)
      PROVE  TypeOK'
  BY <1>1, StaffStatusesAssumption DEF TypeOK, SetStatus, history
<1>2. ASSUME NEW c \in Claims, NEW old \in ApprovalState,
             NEW new \in ApprovalState, DecideApproval(c, old, new)
      PROVE  TypeOK'
  <2>1. edits' \in 0 .. MaxActs
    BY <1>2, EditCounted DEF DecideApproval
  <2>2. push' = push BY <1>2 DEF DecideApproval
  <2>3. authorised' \subseteq Attempt
    BY <1>2, <2>2, AuthorityTyped DEF DecideApproval, TypeOK
  <2>4. approvals' \in [Claims -> SUBSET ApprovalState]
    BY <1>2 DEF TypeOK, DecideApproval
  <2>5. UNCHANGED <<quantity, exposure, soNumber, ticketStatus, dedupe, syncLogs,
                    notes, audit, placed, configured, attempts, push, del, form,
                    typed>>
    BY <1>2 DEF DecideApproval
  <2> QED BY <2>1, <2>3, <2>4, <2>5 DEF TypeOK
<1>3. ASSUME NEW e \in Editors, NEW c \in Claims, OpenForm(e, c)
      PROVE  TypeOK'
  <2>1. [pc |-> "open", claim |-> c, so |-> soNumber[c]] \in Forms
    BY DEF TypeOK, Forms
  <2> QED BY <1>3, <2>1 DEF TypeOK, OpenForm, database, history
<1>4. ASSUME NEW e \in Editors, NEW q \in Quantities, NEW amount \in Exposures,
             NEW so \in Numbers, SaveForm(e, q, amount, so)
      PROVE  TypeOK'
  <2>1. form[e].claim \in Claims
    BY <1>4 DEF TypeOK, SaveForm, Forms
  <2>2. Closed \in Forms BY DEF Closed, Forms
  <2>3. edits' \in 0 .. MaxActs
    BY <1>4, EditCounted DEF SaveForm
  <2>4. UNCHANGED <<ticketStatus, approvals, dedupe, syncLogs, notes, audit,
                    placed, configured, attempts, push, del>>
    BY <1>4 DEF SaveForm
  <2>5. authorised' \subseteq Attempt
    BY <1>4, <2>4, AuthorityTyped DEF SaveForm, TypeOK
  <2>6. /\ quantity' \in [Claims -> Quantities]
        /\ exposure' \in [Claims -> Exposures]
        /\ soNumber' \in [Claims -> Numbers]
        /\ form' \in [Editors -> Forms]
    BY <1>4, <2>2 DEF SaveForm, TypeOK
  <2>7. typed' \subseteq Claims \X Numbers
    <3> DEFINE n == IF so = form[e].so THEN "" ELSE so
    <3>1. n \in Numbers BY DEF Numbers
    <3>2. typed' = typed \cup {<<form[e].claim, n>>} BY <1>4 DEF SaveForm
    <3>3. typed \subseteq Claims \X Numbers BY DEF TypeOK
    <3> HIDE DEF n
    <3> QED BY <2>1, <3>1, <3>2, <3>3
  <2> QED BY <2>3, <2>4, <2>5, <2>6, <2>7 DEF TypeOK
<1>5. CASE Configure
  <2>1. ASSUME NEW p \in Pushers, push[p].pc # "idle"
        PROVE  [pc |-> "idle", answer |-> "killed", claim |-> push[p].claim,
                attempt |-> push[p].attempt] \in Pushes
    BY <2>1, ActivePush
    DEF ActivePushes, EarlyPushes, ApplyingPushes, EndedPushes, Answers, Pushes
  <2>2. push' \in [Pushers -> Pushes]
    BY <1>5, <2>1 DEF Configure, TypeOK
  <2>3. del' \in [Deleters -> Deletes]
    BY <1>5 DEF Configure, NotDeleting, Deletes
  <2>4. /\ configured' \in BOOLEAN
        /\ UNCHANGED <<database, placed, attempts, form, history>>
    BY <1>5 DEF Configure
  <2> QED BY <2>2, <2>3, <2>4 DEF TypeOK, database, history
<1> QED BY <1>1, <1>2, <1>3, <1>4, <1>5 DEF StaffAction

LEMMA TypeStep ==
  ASSUME TypeOK, [Next]_vars
  PROVE  TypeOK'
<1>1. ASSUME UNCHANGED vars PROVE TypeOK'
  BY <1>1 DEF TypeOK, vars, database, history
<1> QED
  BY <1>1, PushActionTyped, DeleteActionTyped, StaffActionTyped DEF Next

(* Every reachable table and request record is well formed.                *)
THEOREM TypeCorrect == Spec => []TypeOK
<1>1. Init => TypeOK
  <2>1. /\ Idle \in Pushes /\ NotDeleting \in Deletes /\ Closed \in Forms
        /\ 0 \in 0 .. MaxAttempts /\ 0 \in 0 .. MaxActs
    BY BoundsAssumption
    DEF Idle, Pushes, IdlePushes, Answers, NotDeleting, Deletes, Closed, Forms
  <2> SUFFICES ASSUME Init PROVE TypeOK
    OBVIOUS
  <2>2. /\ soNumber \in [Claims -> Numbers]
        /\ ticketStatus \in [Claims -> TicketStatus]
        /\ approvals \in [Claims -> SUBSET ApprovalState]
    BY DEF Init, Numbers, TicketStatus
  <2>3. /\ push \in [Pushers -> Pushes] /\ del \in [Deleters -> Deletes]
        /\ form \in [Editors -> Forms] /\ attempts \in 0 .. MaxAttempts
        /\ edits \in 0 .. MaxActs
    BY <2>1 DEF Init
  <2> QED BY <2>2, <2>3 DEF Init, TypeOK
<1>2. TypeOK /\ [Next]_vars => TypeOK'
  BY TypeStep
<1> QED BY <1>1, <1>2, PTL DEF Spec
-----------------------------------------------------------------------------
(* Steps that start no open transaction and move none to another key.      *)
Quiet ==
  \A o \in Pushers : Uncommitted(o)' => Uncommitted(o) /\ Key(o)' = Key(o)

LEMMA UnchangedPushQuiet == UNCHANGED push => Quiet
BY DEF Quiet, Uncommitted, Key, _fingerprint

LEMMA GotoFields ==
  ASSUME TypeOK, NEW p \in Pushers, push[p].pc \notin {"idle", "apply"},
         NEW pc \in {"dedupe", "gate", "insert", "calling", "accepted"},
         Goto(p, pc)
  PROVE  /\ push'[p].pc = pc /\ Key(p)' = Key(p)
         /\ \A o \in Pushers \ {p} : push'[o] = push[o]
<1>1. push[p] \in EarlyPushes BY ActivePush
<1>2. push'[p] = [push[p] EXCEPT !.pc = pc]
  BY DEF Goto, TypeOK
<1>3. push'[p].pc = pc /\ push'[p].claim = push[p].claim
        /\ push'[p].qty = push[p].qty
  BY <1>1, <1>2 DEF EarlyPushes
<1> QED BY <1>3 DEF Goto, TypeOK, Key, _fingerprint

LEMMA GotoQuiet ==
  ASSUME TypeOK, NEW p \in Pushers, push[p].pc \notin {"idle", "apply"},
         NEW pc \in {"dedupe", "gate", "insert", "calling", "accepted"},
         Goto(p, pc), pc \in {"calling", "accepted"} => Uncommitted(p)
  PROVE  Quiet
<1>1. /\ push'[p].pc = pc /\ Key(p)' = Key(p)
      /\ \A o \in Pushers \ {p} : push'[o] = push[o]
  BY GotoFields
<1> QED BY <1>1 DEF Quiet, Uncommitted, Key, _fingerprint

LEMMA NumberedQuiet ==
  ASSUME TypeOK, NEW p \in Pushers, push[p].pc \in {"calling", "accepted"},
         NEW so \in {"sim", "real"},
         push' = [push EXCEPT ![p].pc = "apply", ![p].so = so]
  PROVE  Quiet
<1>1. push[p] \in EarlyPushes BY ActivePush
<1>2. push'[p] = [push[p] EXCEPT !.pc = "apply", !.so = so]
  BY DEF TypeOK
<1>3. push'[p].claim = push[p].claim /\ push'[p].qty = push[p].qty
  <2> DEFINE r == push[p]
  <2>1. r \in [pc : {"dedupe", "gate", "insert", "calling", "accepted"},
               claim : Claims, qty : Quantities, exposure : Exposures,
               actor : Actors, attempt : Attempt, so : {""}]
    BY <1>1 DEF EarlyPushes
  <2> HIDE DEF r
  <2>2. /\ [r EXCEPT !.pc = "apply", !.so = so].claim = r.claim
        /\ [r EXCEPT !.pc = "apply", !.so = so].qty = r.qty
    BY <2>1
  <2> QED BY <1>2, <2>2 DEF r
<1>4. \A o \in Pushers \ {p} : push'[o] = push[o]
  BY DEF TypeOK
<1> QED BY <1>3, <1>4 DEF Quiet, Uncommitted, Key, _fingerprint

LEMMA AnswerFields ==
  ASSUME TypeOK, NEW p \in Pushers, NEW a, Answer(p, a)
  PROVE  /\ push'[p].pc = "idle"
         /\ \A o \in Pushers \ {p} : push'[o] = push[o]
BY DEF Answer, TypeOK

LEMMA AnswerQuiet ==
  ASSUME TypeOK, NEW p \in Pushers, NEW a, Answer(p, a)
  PROVE  Quiet
<1>1. /\ push'[p].pc = "idle"
      /\ \A o \in Pushers \ {p} : push'[o] = push[o]
  BY AnswerFields
<1> QED BY <1>1 DEF Quiet, Uncommitted, Key, _fingerprint

LEMMA BeginPushQuiet ==
  ASSUME TypeOK, NEW p \in Pushers, NEW c, NEW a, BeginPush(p, c, a)
  PROVE  Quiet
<1>1. push'[p].pc = "dedupe" /\ \A o \in Pushers \ {p} : push'[o] = push[o]
  BY DEF BeginPush, TypeOK
<1> QED BY <1>1 DEF Quiet, Uncommitted, Key, _fingerprint

LEMMA ConfigureQuiet ==
  ASSUME TypeOK, Configure
  PROVE  Quiet
<1>1. \A o \in Pushers : push'[o].pc = "idle"
  BY DEF Configure
<1> QED BY <1>1 DEF Quiet, Uncommitted

(* Every step of the system is quiet, except the insert of a sync log.     *)
LEMMA QuietSteps ==
  ASSUME TypeOK, [Next]_vars
  PROVE  Quiet \/ \E p \in Pushers : InsertLog(p)
<1>1. ASSUME NEW p \in Pushers, PushAction(p), ~InsertLog(p)
      PROVE  Quiet
  <2>1. ASSUME NEW c \in Claims, NEW a \in Actors, BeginPush(p, c, a)
        PROVE  Quiet
    BY <2>1, BeginPushQuiet
  <2>2. CASE \/ RefuseDuplicate(p) \/ RefuseUnapproved(p) \/ LogConflict(p)
             \/ RequestTimesOut(p) \/ Apply(p) \/ ApplyConflict(p)
             \/ ZohoFails(p) \/ CrashPush(p)
    BY <2>2, AnswerQuiet
    DEF RefuseDuplicate, RefuseUnapproved, LogConflict, RequestTimesOut,
        Apply, ApplyConflict, ZohoFails, CrashPush
  <2>3. CASE PassDedupe(p) \/ PassGate(p) \/ ZohoAccepts(p)
    BY <2>3, GotoQuiet DEF PassDedupe, PassGate, ZohoAccepts, Uncommitted
  <2>4. CASE Simulate(p) \/ ZohoReplies(p)
    BY <2>4, NumberedQuiet DEF Simulate, ZohoReplies
  <2> QED BY <1>1, <2>1, <2>2, <2>3, <2>4 DEF PushAction, PushStep
<1>2. ASSUME NEW d \in Deleters, DeleteAction(d)
      PROVE  UNCHANGED push
  BY <1>2
  DEF DeleteAction, DeleteStep, BeginDelete, LoadClaim, NoteMissing, FindNote, DeleteDedupe,
      DeleteLogs, CommitClear, RemoveNote, CrashDelete
<1>3. ASSUME StaffAction
      PROVE  UNCHANGED push \/ Configure
  BY <1>3 DEF StaffAction, SetStatus, DecideApproval, OpenForm, SaveForm
<1>4. ASSUME UNCHANGED vars PROVE UNCHANGED push
  BY <1>4 DEF vars
<1> QED
  BY <1>1, <1>2, <1>3, <1>4, UnchangedPushQuiet, ConfigureQuiet DEF Next

(* Sync logs appear at the commit of a push only.                          *)
LEMMA LogSteps ==
  ASSUME TypeOK, [Next]_vars
  PROVE  \/ syncLogs' \subseteq syncLogs
         \/ \E p \in Pushers :
              Apply(p) /\ syncLogs' = syncLogs \cup {LogRow(p, "success")}
<1>1. ASSUME NEW p \in Pushers, PushAction(p), ~Apply(p)
      PROVE  syncLogs' = syncLogs
  BY <1>1
  DEF PushAction, PushStep, BeginPush, RefuseDuplicate, PassDedupe,
      RefuseUnapproved, PassGate, InsertLog, LogConflict, Simulate,
      ZohoReplies, RequestTimesOut, ApplyConflict, ZohoAccepts, ZohoFails,
      CrashPush, AfterRollback, database
<1>2. ASSUME NEW p \in Pushers, Apply(p)
      PROVE  syncLogs' = syncLogs \cup {LogRow(p, "success")}
  BY <1>2 DEF Apply
<1>3. ASSUME NEW d \in Deleters, DeleteAction(d)
      PROVE  syncLogs' \subseteq syncLogs
  BY <1>3
  DEF DeleteAction, DeleteStep, BeginDelete, LoadClaim, NoteMissing, FindNote, DeleteDedupe,
      DeleteLogs, CommitClear, LogsAfterClear, RemoveNote, CrashDelete, database
<1>4. ASSUME StaffAction
      PROVE  syncLogs' = syncLogs
  BY <1>4
  DEF StaffAction, SetStatus, DecideApproval, OpenForm, SaveForm, Configure,
      database
<1>5. ASSUME UNCHANGED vars PROVE syncLogs' = syncLogs
  BY <1>5 DEF vars, database
<1> QED BY <1>1, <1>2, <1>3, <1>4, <1>5 DEF Next

(* One open transaction per idempotency key, and no committed log has its  *)
(* key: the row inserted before the call is the lock that serialises the   *)
(* pushes, whatever is cleared, edited, lost or killed meanwhile.          *)
THEOREM Exclusion == Spec => []PushExclusive
<1>1. Init => PushExclusive
  <2>1. ASSUME Init PROVE \A p \in Pushers : ~Uncommitted(p)
    BY <2>1 DEF Init, Uncommitted, Idle
  <2> QED BY <2>1 DEF PushExclusive
<1>2. ASSUME TypeOK, PushExclusive, [Next]_vars
      PROVE  PushExclusive'
  <2>1. CASE Quiet /\ syncLogs' \subseteq syncLogs
    BY <1>2, <2>1 DEF Quiet, PushExclusive
  <2>2. ASSUME NEW p \in Pushers, InsertLog(p)
        PROVE  PushExclusive'
    <3>1. /\ push'[p].pc = "calling" /\ Key(p)' = Key(p)
          /\ \A o \in Pushers \ {p} : push'[o] = push[o]
      BY <1>2, <2>2, GotoFields DEF InsertLog
    <3>2. \A o \in Pushers \ {p} :
            Uncommitted(o)' = Uncommitted(o) /\ Key(o)' = Key(o)
      BY <3>1 DEF Uncommitted, Key, _fingerprint
    <3>3. syncLogs' = syncLogs BY <2>2 DEF InsertLog, database
    <3>4. /\ \A o \in Pushers \ {p} : Uncommitted(o) => Key(o) # Key(p)
          /\ \A l \in syncLogs : l.key # Key(p)
      BY <2>2 DEF InsertLog, LogKeyLocked, LogKeyTaken
    <3> QED BY <1>2, <3>1, <3>2, <3>3, <3>4 DEF PushExclusive
  <2>3. ASSUME NEW p \in Pushers, Apply(p),
               syncLogs' = syncLogs \cup {LogRow(p, "success")}
        PROVE  PushExclusive'
    <3>1. /\ push'[p].pc = "idle"
          /\ \A o \in Pushers \ {p} : push'[o] = push[o]
      BY <1>2, <2>3, AnswerFields DEF Apply
    <3>2. \A o \in Pushers : Uncommitted(o)' =>
            o # p /\ Uncommitted(o) /\ Key(o)' = Key(o)
      BY <3>1 DEF Uncommitted, Key, _fingerprint
    <3>3. Uncommitted(p) BY <2>3 DEF Apply, Uncommitted
    <3>4. LogRow(p, "success").key = Key(p) BY DEF LogRow
    <3> QED BY <1>2, <2>3, <3>2, <3>3, <3>4 DEF PushExclusive
  <2> QED BY <1>2, <2>1, <2>2, <2>3, QuietSteps, LogSteps
<1>3. PushExclusive /\ TypeOK /\ [Next]_vars => PushExclusive'
  BY <1>2
<1> QED BY <1>1, <1>3, TypeCorrect, PTL DEF Spec
-----------------------------------------------------------------------------
(* Audit rows are never taken back.                                        *)
LEMMA AuditGrows ==
  ASSUME [Next]_vars
  PROVE  audit \subseteq audit'
<1>1. ASSUME NEW p \in Pushers, PushAction(p)
      PROVE  audit \subseteq audit'
  BY <1>1
  DEF PushAction, PushStep, BeginPush, RefuseDuplicate, PassDedupe,
      RefuseUnapproved, PassGate, InsertLog, LogConflict, Simulate,
      ZohoReplies, RequestTimesOut, Apply, ApplyConflict, ZohoAccepts,
      ZohoFails, CrashPush, database
<1>2. ASSUME NEW d \in Deleters, DeleteAction(d)
      PROVE  audit' = audit
  BY <1>2
  DEF DeleteAction, DeleteStep, BeginDelete, LoadClaim, NoteMissing, FindNote, DeleteDedupe,
      DeleteLogs, CommitClear, RemoveNote, CrashDelete, database
<1>3. ASSUME StaffAction
      PROVE  audit' = audit
  BY <1>3
  DEF StaffAction, SetStatus, DecideApproval, OpenForm, SaveForm, Configure,
      database
<1>4. ASSUME UNCHANGED vars PROVE audit' = audit
  BY <1>4 DEF vars, database
<1> QED BY <1>1, <1>2, <1>3, <1>4 DEF Next

FormSaved ==
  \E e \in Editors, q \in Quantities, amount \in Exposures, so \in Numbers :
    SaveForm(e, q, amount, so)

(* What was typed by hand stays on record.                                 *)
LEMMA TypedGrows ==
  ASSUME [Next]_vars
  PROVE  typed \subseteq typed'
<1>1. ASSUME NEW p \in Pushers, PushAction(p)
      PROVE  typed' = typed
  BY <1>1
  DEF PushAction, PushStep, BeginPush, RefuseDuplicate, PassDedupe,
      RefuseUnapproved, PassGate, InsertLog, LogConflict, Simulate,
      ZohoReplies, RequestTimesOut, Apply, ApplyConflict, ZohoAccepts,
      ZohoFails, CrashPush, history
<1>2. ASSUME NEW d \in Deleters, DeleteAction(d)
      PROVE  typed' = typed
  BY <1>2
  DEF DeleteAction, DeleteStep, BeginDelete, LoadClaim, NoteMissing, FindNote,
      DeleteDedupe, DeleteLogs, CommitClear, RemoveNote, CrashDelete, history
<1>3. ASSUME StaffAction
      PROVE  typed \subseteq typed'
  BY <1>3
  DEF StaffAction, SetStatus, DecideApproval, OpenForm, SaveForm, Configure,
      history
<1>4. ASSUME UNCHANGED vars PROVE typed' = typed
  BY <1>4 DEF vars, history
<1> QED BY <1>1, <1>2, <1>3, <1>4 DEF Next

(* The numbers shown in open admin forms are audited or typed too: a form  *)
(* saved late puts an old number back, never an unknown one.               *)
Audited(rows, hand, c, so) ==
  so # "" => \/ \E r \in rows : r.claim = c /\ r.so = so
             \/ <<c, so>> \in hand
FormsAudited ==
  \A e \in Editors : form[e].pc = "open" =>
    Audited(audit, typed, form[e].claim, form[e].so)

(* Who changes the number of a claim.                                      *)
LEMMA NumberSteps ==
  ASSUME TypeOK, [Next]_vars
  PROVE  \/ soNumber' = soNumber
         \/ \E p \in Pushers : Apply(p)
         \/ \E d \in Deleters : CommitClear(d)
         \/ FormSaved
<1>1. ASSUME NEW p \in Pushers, PushAction(p), ~Apply(p)
      PROVE  soNumber' = soNumber
  BY <1>1
  DEF PushAction, PushStep, BeginPush, RefuseDuplicate, PassDedupe,
      RefuseUnapproved, PassGate, InsertLog, LogConflict, Simulate,
      ZohoReplies, RequestTimesOut, ApplyConflict, ZohoAccepts, ZohoFails,
      CrashPush, database
<1>2. ASSUME NEW d \in Deleters, DeleteAction(d), ~CommitClear(d)
      PROVE  soNumber' = soNumber
  BY <1>2
  DEF DeleteAction, DeleteStep, BeginDelete, LoadClaim, NoteMissing, FindNote, DeleteDedupe,
      DeleteLogs, RemoveNote, CrashDelete, database
<1>3. ASSUME StaffAction, ~FormSaved
      PROVE  soNumber' = soNumber
  BY <1>3
  DEF StaffAction, SetStatus, DecideApproval, OpenForm, Configure, database,
      FormSaved
<1>4. ASSUME UNCHANGED vars PROVE soNumber' = soNumber
  BY <1>4 DEF vars, database
<1> QED BY <1>1, <1>2, <1>3, <1>4 DEF Next

LEMMA FormSteps ==
  ASSUME [Next]_vars
  PROVE  \/ form' = form
         \/ \E e \in Editors, c \in Claims : OpenForm(e, c)
         \/ FormSaved
<1>1. ASSUME NEW p \in Pushers, PushAction(p)
      PROVE  form' = form
  BY <1>1
  DEF PushAction, PushStep, BeginPush, RefuseDuplicate, PassDedupe,
      RefuseUnapproved, PassGate, InsertLog, LogConflict, Simulate,
      ZohoReplies, RequestTimesOut, Apply, ApplyConflict, ZohoAccepts,
      ZohoFails, CrashPush
<1>2. ASSUME NEW d \in Deleters, DeleteAction(d)
      PROVE  form' = form
  BY <1>2
  DEF DeleteAction, DeleteStep, BeginDelete, LoadClaim, NoteMissing, FindNote, DeleteDedupe,
      DeleteLogs, CommitClear, RemoveNote, CrashDelete
<1>3. ASSUME StaffAction,
             ~FormSaved,
             ~ \E e \in Editors, c \in Claims : OpenForm(e, c)
      PROVE  form' = form
  BY <1>3 DEF StaffAction, SetStatus, DecideApproval, Configure, FormSaved
<1>4. ASSUME UNCHANGED vars PROVE form' = form
  BY <1>4 DEF vars
<1> QED BY <1>1, <1>2, <1>3, <1>4 DEF Next

(* Whatever interleaves, the number on a claim is one that an audited push *)
(* of that claim obtained, or that somebody typed there.                   *)
THEOREM AuditTrail == Spec => []AuditCoversFile
<1> DEFINE Inv == AuditCoversFile /\ FormsAudited
<1>1. Init => Inv
  <2>1. ASSUME Init PROVE /\ \A c \in Claims : soNumber[c] = ""
                          /\ \A e \in Editors : form[e].pc = "closed"
    BY <2>1 DEF Init, Closed
  <2> QED BY <2>1 DEF AuditCoversFile, FormsAudited
<1>2. ASSUME TypeOK, Inv, [Next]_vars
      PROVE  Inv'
  <2>1. audit \subseteq audit' /\ typed \subseteq typed'
    BY <1>2, AuditGrows, TypedGrows
  <2>2. \A c, so : Audited(audit, typed, c, so) => Audited(audit', typed', c, so)
    BY <2>1 DEF Audited
  <2>3. \A c \in Claims : Audited(audit, typed, c, soNumber[c])
    BY <1>2 DEF AuditCoversFile, Audited
  <2>4. \A c \in Claims : Audited(audit', typed', c, soNumber'[c])
    <3>1. CASE soNumber' = soNumber
      BY <2>2, <2>3, <3>1
    <3>2. ASSUME NEW p \in Pushers, Apply(p)
          PROVE  \A c \in Claims : Audited(audit', typed', c, soNumber'[c])
      <4>1. soNumber' = [soNumber EXCEPT ![push[p].claim] = push[p].so]
        BY <3>2 DEF Apply
      <4>2. PushNote(p) \in audit' BY <3>2 DEF Apply, AuditRows
      <4>3. PushNote(p).claim = push[p].claim /\ PushNote(p).so = push[p].so
        BY DEF PushNote
      <4>4. Audited(audit', typed', push[p].claim, push[p].so)
        BY <4>2, <4>3 DEF Audited
      <4> QED BY <1>2, <2>2, <2>3, <4>1, <4>4 DEF TypeOK
    <3>3. ASSUME NEW d \in Deleters, CommitClear(d)
          PROVE  \A c \in Claims : Audited(audit', typed', c, soNumber'[c])
      <4>1. soNumber' = [soNumber EXCEPT ![del[d].claim] = ""]
        BY <3>3 DEF CommitClear
      <4>2. \A c \in Claims : soNumber'[c] \in {soNumber[c], ""}
        BY <1>2, <4>1 DEF TypeOK
      <4>3. \A c \in Claims : Audited(audit', typed', c, "") BY DEF Audited
      <4> QED BY <2>2, <2>3, <4>2, <4>3
    <3>4. ASSUME NEW e \in Editors, NEW q \in Quantities,
                 NEW amount \in Exposures, NEW so \in Numbers,
                 SaveForm(e, q, amount, so)
          PROVE  \A c \in Claims : Audited(audit', typed', c, soNumber'[c])
      <4> DEFINE b == form[e].claim
      <4>1. /\ soNumber' = [soNumber EXCEPT ![b] = so]
            /\ typed' = typed \cup {<<b, IF so = form[e].so THEN "" ELSE so>>}
        BY <3>4 DEF SaveForm
      <4>2. Audited(audit, typed, b, form[e].so)
        BY <1>2, <3>4 DEF FormsAudited, SaveForm
      <4>3. ASSUME so = form[e].so PROVE Audited(audit', typed', b, so)
        BY <2>2, <4>2, <4>3
      <4>4. ASSUME so # form[e].so PROVE Audited(audit', typed', b, so)
        <5>1. <<b, so>> \in typed' BY <4>1, <4>4
        <5> HIDE DEF b
        <5> QED BY <5>1 DEF Audited
      <4>5. Audited(audit', typed', b, so)
        BY <4>3, <4>4
      <4> HIDE DEF b
      <4> QED BY <1>2, <2>2, <2>3, <4>1, <4>5 DEF TypeOK
    <3> QED BY <1>2, <3>1, <3>2, <3>3, <3>4, NumberSteps DEF FormSaved
  <2>5. AuditCoversFile' BY <2>4 DEF AuditCoversFile, Audited
  <2>6. FormsAudited'
    <3>1. CASE form' = form
      BY <1>2, <2>2, <3>1 DEF FormsAudited
    <3>2. ASSUME NEW e \in Editors, NEW c \in Claims, OpenForm(e, c)
          PROVE  FormsAudited'
      <4>1. form' = [form EXCEPT ![e] =
                       [pc |-> "open", claim |-> c, so |-> soNumber[c]]]
        BY <3>2 DEF OpenForm
      <4>2. Audited(audit', typed', c, soNumber'[c]) BY <2>3, <2>4, <3>2 DEF OpenForm, database
      <4>3. \A f \in Editors \ {e} : form'[f] = form[f]
        BY <1>2, <4>1 DEF TypeOK
      <4>4. form'[e] = [pc |-> "open", claim |-> c, so |-> soNumber[c]]
        BY <1>2, <4>1 DEF TypeOK
      <4>5. soNumber' = soNumber BY <3>2 DEF OpenForm, database
      <4> QED BY <1>2, <2>2, <4>2, <4>3, <4>4, <4>5 DEF FormsAudited
    <3>3. ASSUME NEW e \in Editors, NEW q \in Quantities,
                 NEW amount \in Exposures, NEW so \in Numbers,
                 SaveForm(e, q, amount, so)
          PROVE  FormsAudited'
      <4>1. \A f \in Editors : f # e => form'[f] = form[f]
        BY <1>2, <3>3 DEF SaveForm, TypeOK
      <4>2. form'[e].pc = "closed"
        BY <1>2, <3>3 DEF SaveForm, TypeOK, Closed
      <4> QED BY <1>2, <2>2, <4>1, <4>2 DEF FormsAudited
    <3> QED BY <1>2, <3>1, <3>2, <3>3, FormSteps DEF FormSaved
  <2> QED BY <2>5, <2>6
<1>3. Inv /\ TypeOK /\ [Next]_vars => Inv'
  BY <1>2
<1> QED BY <1>1, <1>3, TypeCorrect, PTL DEF Spec
-----------------------------------------------------------------------------
(* Where no answer is lost, no request is killed and no note is deleted,   *)
(* an order in Zoho has left its sync log or its push still holds the key. *)
Holds(p) == push[p].pc \in {"accepted", "apply"}
OrdersHeld ==
  /\ \A o \in placed : \/ \E l \in syncLogs : l.key = o.key
                       \/ \E p \in Pushers : Holds(p) /\ Key(p) = o.key
  /\ placed # {} => configured
  /\ \A k \in dedupe : \E l \in syncLogs : l.key = k
OneOrder == \A o1, o2 \in placed : o1.key = o2.key => o1 = o2
OrderInv == OrdersHeld /\ OneOrder

(* Steps that place nothing and release no key an order needs.             *)
LEMMA OrdersKept ==
  ASSUME OrderInv, placed' = placed, configured' = configured,
         syncLogs \subseteq syncLogs',
         \A k \in dedupe' : k \in dedupe \/ \E l \in syncLogs' : l.key = k,
         \A p \in Pushers : Holds(p) =>
           \/ Holds(p)' /\ Key(p)' = Key(p)
           \/ \E l \in syncLogs' : l.key = Key(p)
  PROVE  OrderInv'
BY DEF OrderInv, OrdersHeld, OneOrder

LEMMA PushKeepsOrders ==
  ASSUME TypeOK, PushExclusive, OrderInv, ~LostReplies, ~Crashes,
         Deleters = {},
         NEW p \in Pushers, PushAction(p)
  PROVE  OrderInv'
<1>1. ASSUME PushOnly,
             \A o \in Pushers \ {p} : push'[o] = push[o],
             Holds(p) => Holds(p)' /\ Key(p)' = Key(p)
      PROVE  OrderInv'
  <2>1. \A o \in Pushers : Holds(o) => Holds(o)' /\ Key(o)' = Key(o)
    BY <1>1 DEF Holds, Key, _fingerprint
  <2> QED BY <1>1, <2>1, OrdersKept DEF database
<1>2. ASSUME NEW c \in Claims, NEW a \in Actors, BeginPush(p, c, a)
      PROVE  OrderInv'
  <2>1. \A o \in Pushers : Holds(o) => Holds(o)' /\ Key(o)' = Key(o)
    <3>1. \A o \in Pushers \ {p} : push'[o] = push[o]
      BY <1>2 DEF BeginPush, TypeOK
    <3>2. ~Holds(p) BY <1>2 DEF BeginPush, Holds
    <3> QED BY <3>1, <3>2 DEF Holds, Key, _fingerprint
  <2>2. UNCHANGED <<placed, configured, syncLogs, dedupe>>
    BY <1>2 DEF BeginPush, database
  <2> QED BY <2>1, <2>2, OrdersKept
<1>3. CASE \/ RefuseDuplicate(p) \/ LogConflict(p) \/ RequestTimesOut(p)
           \/ CrashPush(p)
  <2>1. PushOnly /\ ~Holds(p)
    BY <1>3 DEF RefuseDuplicate, LogConflict, RequestTimesOut, Waiting,
       CrashPush, Holds
  <2>2. \A o \in Pushers \ {p} : push'[o] = push[o]
    BY <1>3, AnswerFields
    DEF RefuseDuplicate, LogConflict, RequestTimesOut, CrashPush
  <2> QED BY <1>1, <2>1, <2>2
<1>4. CASE RefuseUnapproved(p) \/ ZohoFails(p)
  <2>1. /\ UNCHANGED <<placed, configured, syncLogs, dedupe>>
        /\ ~Holds(p)
    BY <1>4 DEF RefuseUnapproved, ZohoFails, AfterRollback, Holds
  <2>2. \A o \in Pushers \ {p} : push'[o] = push[o]
    BY <1>4, AnswerFields DEF RefuseUnapproved, ZohoFails
  <2>3. \A o \in Pushers : Holds(o) => Holds(o)' /\ Key(o)' = Key(o)
    BY <2>1, <2>2 DEF Holds, Key, _fingerprint
  <2> QED BY <2>1, <2>3, OrdersKept
<1>5. CASE PassDedupe(p) \/ PassGate(p) \/ InsertLog(p)
  <2>1. PushOnly /\ ~Holds(p)
    BY <1>5 DEF PassDedupe, PassGate, InsertLog, Holds
  <2>2. \A o \in Pushers \ {p} : push'[o] = push[o]
    BY <1>5, GotoFields DEF PassDedupe, PassGate, InsertLog
  <2> QED BY <1>1, <2>1, <2>2
<1>6. CASE Simulate(p) \/ ZohoReplies(p)
  <2>1. PICK so \in {"sim", "real"} :
          push' = [push EXCEPT ![p].pc = "apply", ![p].so = so]
    BY <1>6 DEF Simulate, ZohoReplies
  <2>2. PushOnly /\ push[p].pc \in {"calling", "accepted"}
    BY <1>6 DEF Simulate, ZohoReplies
  <2>3. /\ \A o \in Pushers \ {p} : push'[o] = push[o]
        /\ push'[p].pc = "apply"
    <3>1. push'[p] = [push[p] EXCEPT !.pc = "apply", !.so = so]
      BY <2>1 DEF TypeOK
    <3>2. push[p] \in EarlyPushes BY <2>2, ActivePush
    <3>3. push'[p] \in ApplyingPushes
      BY <3>1, <3>2 DEF EarlyPushes, ApplyingPushes
    <3>4. \A o \in Pushers \ {p} : push'[o] = push[o]
      BY <2>1 DEF TypeOK
    <3> QED BY <3>3, <3>4 DEF ApplyingPushes
  <2>4. Uncommitted(p)' => Key(p)' = Key(p)
    BY <2>1, <2>2, NumberedQuiet DEF Quiet
  <2> QED BY <1>1, <2>2, <2>3, <2>4 DEF Holds, Uncommitted
<1>7. CASE ZohoAccepts(p)
  <2> DEFINE o == [attempt |-> push[p].attempt, key |-> Key(p),
                   actor |-> push[p].actor]
  <2>1. /\ push'[p].pc = "accepted" /\ Key(p)' = Key(p)
        /\ \A x \in Pushers \ {p} : push'[x] = push[x]
    BY <1>7, GotoFields DEF ZohoAccepts
  <2>2. \A x \in Pushers : Holds(x) => Holds(x)' /\ Key(x)' = Key(x)
    BY <2>1 DEF Holds, Key, _fingerprint
  <2>3. Holds(p)' /\ Key(p)' = Key(p)
    BY <2>1 DEF Holds
  <2>4. /\ placed' = placed \cup {o} /\ configured
        /\ UNCHANGED <<configured, syncLogs, dedupe>>
    BY <1>7 DEF ZohoAccepts, database
  <2>5. o.key = Key(p) OBVIOUS
  <2>6. \A x \in placed : x.key # o.key
    <3>1. Uncommitted(p) /\ ~Holds(p)
      BY <1>7 DEF ZohoAccepts, Uncommitted, Holds
    <3>2. \A l \in syncLogs : l.key # Key(p)
      BY <3>1 DEF PushExclusive
    <3>3. \A x \in Pushers : Holds(x) => Key(x) # Key(p)
      BY <3>1 DEF PushExclusive, Uncommitted, Holds
    <3> QED BY <2>5, <3>2, <3>3 DEF OrderInv, OrdersHeld
  <2>7. OneOrder' BY <2>4, <2>6 DEF OrderInv, OneOrder
  <2>8. OrdersHeld' BY <2>2, <2>3, <2>4, <2>5 DEF OrderInv, OrdersHeld
  <2> QED BY <2>7, <2>8 DEF OrderInv
<1>8. CASE Apply(p)
  <2>1. \A x \in Pushers \ {p} : push'[x] = push[x]
    BY <1>8, AnswerFields DEF Apply
  <2>2. /\ syncLogs' = syncLogs \cup {LogRow(p, "success")}
        /\ dedupe' = dedupe \cup {Key(p)}
        /\ UNCHANGED <<placed, configured>>
    BY <1>8 DEF Apply
  <2>3. \E l \in syncLogs' : l.key = Key(p)
    <3>1. LogRow(p, "success").key = Key(p) BY DEF LogRow
    <3> QED BY <2>2, <3>1
  <2>4. \A x \in Pushers \ {p} : Holds(x) => Holds(x)' /\ Key(x)' = Key(x)
    BY <2>1 DEF Holds, Key, _fingerprint
  <2> QED BY <2>2, <2>3, <2>4, OrdersKept
<1>9. CASE ApplyConflict(p)
  <2>1. Uncommitted(p) /\ Key(p) \in dedupe
    BY <1>9 DEF ApplyConflict, Uncommitted
  <2> QED BY <2>1 DEF PushExclusive, OrderInv, OrdersHeld
<1> QED
  BY <1>2, <1>3, <1>4, <1>5, <1>6, <1>7, <1>8, <1>9 DEF PushAction, PushStep

LEMMA StaffKeepsOrders ==
  ASSUME TypeOK, OrderInv, StaffAction
  PROVE  OrderInv'
<1>1. ASSUME ~Configure PROVE OrderInv'
  <2>1. UNCHANGED <<placed, configured, syncLogs, dedupe, push>>
    BY <1>1 DEF StaffAction, SetStatus, DecideApproval, OpenForm, SaveForm,
       database
  <2>2. \A p \in Pushers : Holds(p) => Holds(p)' /\ Key(p)' = Key(p)
    BY <2>1 DEF Holds, Key, _fingerprint
  <2> QED BY <2>1, <2>2, OrdersKept
<1>2. CASE Configure
  <2>1. placed = {} BY <1>2 DEF Configure, OrderInv, OrdersHeld
  <2>2. UNCHANGED <<placed, syncLogs, dedupe>> BY <1>2 DEF Configure, database
  <2> QED BY <2>1, <2>2 DEF OrderInv, OrdersHeld, OneOrder
<1> QED BY <1>1, <1>2

(* "Prevent duplicate Zoho pushes": with no note deleted, no answer lost   *)
(* and no request killed, however many requests push, whatever the admin   *)
(* site edits, Zoho has at most one order for a fingerprint.               *)
THEOREM NoDuplicateOrder ==
  ASSUME ~LostReplies, ~Crashes, Deleters = {}
  PROVE  Spec => []OneOrderPerFingerprint
<1>1. Init => OrderInv
  BY DEF Init, OrderInv, OrdersHeld, OneOrder
<1>2. ASSUME TypeOK, PushExclusive, OrderInv, [Next]_vars
      PROVE  OrderInv'
  <2>1. ASSUME UNCHANGED vars PROVE OrderInv'
    <3>1. UNCHANGED <<placed, configured, syncLogs, dedupe, push>>
      BY <2>1 DEF vars, database
    <3>2. \A p \in Pushers : Holds(p) => Holds(p)' /\ Key(p)' = Key(p)
      BY <3>1 DEF Holds, Key, _fingerprint
    <3> QED BY <1>2, <3>1, <3>2, OrdersKept
  <2> QED BY <1>2, <2>1, PushKeepsOrders, StaffKeepsOrders DEF Next
<1>3. TypeOK /\ OrderInv => OneOrderPerFingerprint
  <2> SUFFICES ASSUME OrderInv, NEW k \in Fingerprints
               PROVE  Cardinality(OrdersFor(k)) <= 1
    BY DEF OneOrderPerFingerprint
  <2>1. CASE OrdersFor(k) = {}
    BY <2>1, FS_EmptySet
  <2>2. ASSUME NEW o \in OrdersFor(k)
        PROVE  Cardinality(OrdersFor(k)) <= 1
    <3>1. OrdersFor(k) = {o}
      BY <2>2 DEF OrdersFor, OrderInv, OneOrder
    <3>2. Cardinality({o}) = 1 BY FS_Singleton
    <3> QED BY <3>1, <3>2
  <2> QED BY <2>1, <2>2
<1>4. TypeOK /\ PushExclusive /\ OrderInv /\ [Next]_vars => OrderInv'
  BY <1>2
<1> QED BY <1>1, <1>3, <1>4, TypeCorrect, Exclusion, PTL DEF Spec
-----------------------------------------------------------------------------
(* What any step does to one push.                                         *)
SameRequest(p) ==
  /\ push'[p].claim = push[p].claim /\ push'[p].qty = push[p].qty
  /\ push'[p].exposure = push[p].exposure
  /\ push'[p].actor = push[p].actor /\ push'[p].attempt = push[p].attempt

Advance(p) ==
  \/ PassDedupe(p) /\ push'[p].pc = "gate"
  \/ PassGate(p) /\ push'[p].pc = "insert"
  \/ InsertLog(p) /\ push'[p].pc = "calling"
  \/ ZohoAccepts(p) /\ push'[p].pc = "accepted"
  \/ Simulate(p) /\ push'[p].pc = "apply" /\ push'[p].so = "sim"
  \/ ZohoReplies(p) /\ push'[p].pc = "apply" /\ push'[p].so = "real"

LEMMA GotoSame ==
  ASSUME TypeOK, NEW p \in Pushers, push[p].pc \notin {"idle", "apply"},
         NEW pc \in {"dedupe", "gate", "insert", "calling", "accepted"},
         Goto(p, pc)
  PROVE  SameRequest(p) /\ push'[p].pc = pc
<1>1. push[p] \in EarlyPushes BY ActivePush
<1>2. push'[p] = [push[p] EXCEPT !.pc = pc] BY DEF Goto, TypeOK
<1> QED BY <1>1, <1>2 DEF EarlyPushes, SameRequest

LEMMA NumberedSame ==
  ASSUME TypeOK, NEW p \in Pushers, push[p].pc \notin {"idle", "apply"},
         NEW so \in {"sim", "real"},
         push' = [push EXCEPT ![p].pc = "apply", ![p].so = so]
  PROVE  SameRequest(p) /\ push'[p].pc = "apply" /\ push'[p].so = so
<1> DEFINE r == push[p]
           s == [r EXCEPT !.pc = "apply", !.so = so]
<1>1. r \in EarlyPushes BY ActivePush
<1>2. push'[p] = s BY DEF TypeOK
<1> HIDE DEF r
<1>3. /\ s.pc = "apply" /\ s.so = so /\ s.claim = r.claim
      /\ s.qty = r.qty /\ s.exposure = r.exposure
      /\ s.actor = r.actor /\ s.attempt = r.attempt
  BY <1>1 DEF EarlyPushes
<1> QED BY <1>2, <1>3 DEF SameRequest, r

LEMMA OwnStep ==
  ASSUME TypeOK, NEW p \in Pushers, PushAction(p)
  PROVE  \/ push'[p].pc = "idle"
         \/ \E c \in Claims, a \in Actors : BeginPush(p, c, a)
         \/ SameRequest(p) /\ Advance(p)
<1>1. CASE \/ RefuseDuplicate(p) \/ RefuseUnapproved(p) \/ LogConflict(p)
           \/ RequestTimesOut(p) \/ Apply(p) \/ ApplyConflict(p)
           \/ ZohoFails(p) \/ CrashPush(p)
  BY <1>1, AnswerFields
  DEF RefuseDuplicate, RefuseUnapproved, LogConflict, RequestTimesOut,
      Apply, ApplyConflict, ZohoFails, CrashPush
<1>2. CASE PassDedupe(p) \/ PassGate(p) \/ InsertLog(p) \/ ZohoAccepts(p)
  BY <1>2, GotoSame DEF PassDedupe, PassGate, InsertLog, ZohoAccepts, Advance
<1>3. CASE Simulate(p)
  <2>1. SameRequest(p) /\ push'[p].pc = "apply" /\ push'[p].so = "sim"
    BY <1>3, NumberedSame DEF Simulate
  <2> QED BY <1>3, <2>1 DEF Advance
<1>4. CASE ZohoReplies(p)
  <2>1. SameRequest(p) /\ push'[p].pc = "apply" /\ push'[p].so = "real"
    BY <1>4, NumberedSame DEF ZohoReplies
  <2> QED BY <1>4, <2>1 DEF Advance
<1> QED BY <1>1, <1>2, <1>3, <1>4 DEF PushAction, PushStep

LEMMA OthersStay ==
  ASSUME TypeOK, NEW p \in Pushers, PushAction(p)
  PROVE  \A o \in Pushers \ {p} : push'[o] = push[o]
<1>1. CASE \/ RefuseDuplicate(p) \/ RefuseUnapproved(p) \/ LogConflict(p)
           \/ RequestTimesOut(p) \/ Apply(p) \/ ApplyConflict(p)
           \/ ZohoFails(p) \/ CrashPush(p)
  BY <1>1, AnswerFields
  DEF RefuseDuplicate, RefuseUnapproved, LogConflict, RequestTimesOut,
      Apply, ApplyConflict, ZohoFails, CrashPush
<1>2. CASE \/ PassDedupe(p) \/ PassGate(p) \/ InsertLog(p) \/ ZohoAccepts(p)
           \/ Simulate(p) \/ ZohoReplies(p)
           \/ \E c \in Claims, a \in Actors : BeginPush(p, c, a)
  BY <1>2 DEF PassDedupe, PassGate, InsertLog, ZohoAccepts, Simulate, ZohoReplies,
     BeginPush, Goto, TypeOK
<1> QED BY <1>1, <1>2 DEF PushAction, PushStep

LEMMA PushSteps ==
  ASSUME TypeOK, [Next]_vars, NEW p \in Pushers
  PROVE  \/ push'[p] = push[p]
         \/ push'[p].pc = "idle"
         \/ \E c \in Claims, a \in Actors : BeginPush(p, c, a)
         \/ SameRequest(p) /\ Advance(p)
<1>1. ASSUME NEW o \in Pushers, PushAction(o), o # p
      PROVE  push'[p] = push[p]
  BY <1>1, OthersStay
<1>2. ASSUME NEW d \in Deleters, DeleteAction(d) PROVE push' = push
  BY <1>2
  DEF DeleteAction, DeleteStep, BeginDelete, LoadClaim, NoteMissing, FindNote,
      DeleteDedupe, DeleteLogs, CommitClear, RemoveNote, CrashDelete
<1>3. ASSUME StaffAction PROVE push' = push \/ push'[p].pc = "idle"
  <2>1. Configure => push'[p].pc = "idle"
    BY DEF Configure
  <2>2. ~Configure => push' = push
    BY <1>3 DEF StaffAction, SetStatus, DecideApproval, OpenForm, SaveForm
  <2> QED BY <2>1, <2>2
<1>4. ASSUME UNCHANGED vars PROVE push' = push BY <1>4 DEF vars
<1> QED BY <1>1, <1>2, <1>3, <1>4, OwnStep DEF Next
-----------------------------------------------------------------------------
(* Amounts and approvals change only in steps that keep the history.       *)
LEMMA AuthoritySteps ==
  ASSUME [Next]_vars
  PROVE  UNCHANGED <<exposure, approvals, authorised>> \/ NoteAuthority
<1>1. ASSUME NEW p \in Pushers, PushAction(p),
             ~ \E c \in Claims, a \in Actors : BeginPush(p, c, a)
      PROVE  UNCHANGED <<exposure, approvals, authorised>>
  BY <1>1
  DEF PushAction, PushStep, RefuseDuplicate, PassDedupe, RefuseUnapproved,
      PassGate, InsertLog, LogConflict, Simulate, ZohoReplies,
      RequestTimesOut, Apply, ApplyConflict, ZohoAccepts, ZohoFails,
      CrashPush, AfterRollback, database, history
<1>2. ASSUME NEW p \in Pushers, NEW c \in Claims, NEW a \in Actors,
             BeginPush(p, c, a)
      PROVE  NoteAuthority
  BY <1>2 DEF BeginPush
<1>3. ASSUME NEW d \in Deleters, DeleteAction(d)
      PROVE  UNCHANGED <<exposure, approvals, authorised>>
  BY <1>3
  DEF DeleteAction, DeleteStep, BeginDelete, LoadClaim, NoteMissing, FindNote,
      DeleteDedupe, DeleteLogs, CommitClear, RemoveNote, CrashDelete,
      database, history
<1>4. ASSUME StaffAction
      PROVE  UNCHANGED <<exposure, approvals, authorised>> \/ NoteAuthority
  BY <1>4
  DEF StaffAction, SetStatus, DecideApproval, OpenForm, SaveForm, Configure,
      database, history
<1>5. ASSUME UNCHANGED vars
      PROVE  UNCHANGED <<exposure, approvals, authorised>>
  BY <1>5 DEF vars, database, history
<1> QED BY <1>1, <1>2, <1>3, <1>4, <1>5 DEF Next

(* A push in progress that may order now, or whose loaded amount needs no  *)
(* approval, or that is past the gate, has had the authority.              *)
PastGate(p) == push[p].pc \in {"insert", "calling", "accepted", "apply"}
FreeAmount(p) ==
  push[p].pc # "idle" /\ ~replacement_so_requires_approval(push[p].exposure)
AuthorityInv ==
  \A p \in Pushers :
    MayOrder(p) \/ FreeAmount(p) \/ PastGate(p) => push[p].attempt \in authorised

LEMMA AuthorityKept ==
  ASSUME TypeOK, AuthorityInv, [Next]_vars
  PROVE  AuthorityInv'
<1>1. authorised \subseteq authorised'
  BY AuthoritySteps DEF NoteAuthority
<1>2. ASSUME NEW p \in Pushers, MayOrder(p)', NoteAuthority
      PROVE  push'[p].attempt \in authorised'
  BY <1>2 DEF NoteAuthority, AuthorisedNow
<1> SUFFICES ASSUME NEW p \in Pushers,
                    MayOrder(p)' \/ FreeAmount(p)' \/ PastGate(p)'
             PROVE  push'[p].attempt \in authorised'
  BY DEF AuthorityInv
<1>3. push'[p].pc # "idle"
  BY DEF MayOrder, FreeAmount, PastGate
<1>4. CASE push'[p] = push[p]
  <2>1. push'[p].attempt \in authorised' \/ MayOrder(p)'
    BY <1>1, <1>4 DEF AuthorityInv, FreeAmount, PastGate
  <2>2. ASSUME UNCHANGED <<exposure, approvals>>, MayOrder(p)'
        PROVE  MayOrder(p)
    BY <1>4, <2>2 DEF MayOrder
  <2> QED BY <1>1, <1>2, <1>4, <2>1, <2>2, AuthoritySteps DEF AuthorityInv
<1>5. ASSUME NEW c \in Claims, NEW a \in Actors, BeginPush(p, c, a)
      PROVE  push'[p].attempt \in authorised'
  <2>1. /\ push'[p].pc = "dedupe" /\ push'[p].claim = c
        /\ push'[p].exposure = exposure[c] /\ exposure' = exposure
    BY <1>5 DEF BeginPush, TypeOK, database
  <2>2. MayOrder(p)'
    BY <2>1 DEF MayOrder, FreeAmount, PastGate
  <2> QED BY <1>2, <1>5, <2>2 DEF BeginPush
<1>6. CASE SameRequest(p) /\ Advance(p)
  <2>1. push[p].pc # "idle" /\ UNCHANGED <<exposure, approvals>>
    BY <1>6
    DEF Advance, PassDedupe, PassGate, InsertLog, ZohoAccepts, Simulate,
        ZohoReplies, database
  <2>2. MayOrder(p)' => MayOrder(p)
    BY <1>6, <2>1 DEF SameRequest, MayOrder
  <2>3. FreeAmount(p)' => FreeAmount(p)
    BY <1>6, <2>1 DEF SameRequest, FreeAmount
  <2>4. PastGate(p)' => PastGate(p) \/ MayOrder(p) \/ FreeAmount(p)
    <3>1. PassGate(p) => MayOrder(p) \/ FreeAmount(p)
      BY DEF PassGate, GateOpen, MayOrder, FreeAmount
    <3> QED
      BY <1>6, <3>1
      DEF Advance, PastGate, PassDedupe, InsertLog, ZohoAccepts, Simulate,
          ZohoReplies
  <2>5. push[p].attempt \in authorised
    BY <2>2, <2>3, <2>4 DEF AuthorityInv
  <2> QED BY <1>1, <1>6, <2>5 DEF SameRequest
<1> QED BY <1>3, <1>4, <1>5, <1>6, PushSteps

(* Who places an order changes no record of orders, and nobody else does.  *)
LEMMA PlacedSteps ==
  ASSUME [Next]_vars
  PROVE  placed' = placed \/ \E p \in Pushers : ZohoAccepts(p)
<1>1. ASSUME NEW p \in Pushers, PushAction(p), ~ZohoAccepts(p)
      PROVE  placed' = placed
  BY <1>1
  DEF PushAction, PushStep, BeginPush, RefuseDuplicate, PassDedupe,
      RefuseUnapproved, PassGate, InsertLog, LogConflict, Simulate,
      ZohoReplies, RequestTimesOut, Apply, ApplyConflict, ZohoFails, CrashPush
<1>2. ASSUME NEW d \in Deleters, DeleteAction(d) PROVE placed' = placed
  BY <1>2
  DEF DeleteAction, DeleteStep, BeginDelete, LoadClaim, NoteMissing, FindNote,
      DeleteDedupe, DeleteLogs, CommitClear, RemoveNote, CrashDelete
<1>3. ASSUME StaffAction PROVE placed' = placed
  BY <1>3 DEF StaffAction, SetStatus, DecideApproval, OpenForm, SaveForm, Configure
<1>4. ASSUME UNCHANGED vars PROVE placed' = placed BY <1>4 DEF vars
<1> QED BY <1>1, <1>2, <1>3, <1>4 DEF Next

(* Every order had the authority at some single moment after its push      *)
(* began, though its amount is the one loaded then, its approval the one   *)
(* found at the gate, and both are edited before, between and after.       *)
THEOREM Authorised == Spec => []OrdersAuthorised
<1> DEFINE Inv == AuthorityInv /\ OrdersAuthorised
<1>1. Init => Inv
  <2>1. ASSUME Init PROVE placed = {} /\ \A p \in Pushers : push[p].pc = "idle"
    BY <2>1 DEF Init, Idle
  <2> QED
    BY <2>1 DEF AuthorityInv, MayOrder, FreeAmount, PastGate, OrdersAuthorised
<1>2. ASSUME TypeOK, Inv, [Next]_vars PROVE OrdersAuthorised'
  <2>1. authorised \subseteq authorised'
    BY <1>2, AuthoritySteps DEF NoteAuthority
  <2>2. CASE placed' = placed
    BY <1>2, <2>1, <2>2 DEF OrdersAuthorised
  <2>3. ASSUME NEW p \in Pushers, ZohoAccepts(p) PROVE OrdersAuthorised'
    <3>1. placed' = placed \cup {[attempt |-> push[p].attempt, key |-> Key(p),
                                  actor |-> push[p].actor]}
      BY <2>3 DEF ZohoAccepts
    <3>2. push[p].attempt \in authorised
      BY <1>2, <2>3 DEF AuthorityInv, PastGate, ZohoAccepts
    <3> QED BY <1>2, <2>1, <3>1, <3>2 DEF OrdersAuthorised
  <2> QED BY <1>2, <2>2, <2>3, PlacedSteps
<1>3. TypeOK /\ Inv /\ [Next]_vars => Inv'
  BY <1>2, AuthorityKept
<1> QED BY <1>1, <1>3, TypeCorrect, PTL DEF Spec
=============================================================================
