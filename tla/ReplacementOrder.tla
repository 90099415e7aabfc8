-------------------------- MODULE ReplacementOrder --------------------------
(***************************************************************************)
(* The replacement sales order of a claim: the push to Zoho                *)
(* (create_replacement_sales_order), its undo when the push was simulated  *)
(* (clear_simulated_replacement_so, reached by deleting the internal       *)
(* note), the staff drop-down, the admin site's edits and the restart that *)
(* brings Zoho credentials, all running concurrently over one PostgreSQL   *)
(* database at READ COMMITTED.                                             *)
(*                                                                         *)
(* The variables are the COMMITTED rows, the orders that exist in Zoho,    *)
(* and the local state of every request in progress.  A statement that     *)
(* reads committed rows, or takes a row or unique-key lock that is held    *)
(* across another step, is a step of its own; what a transaction wrote and *)
(* did not commit lives in the request's record, so a rollback forgets it. *)
(***************************************************************************)
EXTENDS Naturals, FiniteSets

CONSTANTS
  Claims,        \* claims, each with its own ticket
  Quantities,    \* values of quantity_affected that occur
  Pushers,       \* requests (web, API or Celery) that push an order
  Deleters,      \* requests by which an administrator deletes a note
  Editors,       \* admin-site change forms of a claim
  Actors,        \* staff users
  Privileged,    \* those whose role is ADMIN or FINANCE
  Exposures,     \* values of estimated_exposure that occur
  Threshold,     \* settings.ZOHO_REPLACEMENT_SO_THRESHOLD
  StaffStatuses, \* ticket statuses picked in the drop-down
  MaxAttempts,   \* bound on the number of pushes begun
  MaxActs,       \* bound on pushes begun and admin forms saved, together
  LostReplies,   \* may an answer of Zoho be lost after it took the order?
  Crashes        \* may a request be killed half way?

ASSUME ExposureAssumption == Exposures \subseteq Nat /\ Threshold \in Nat
ASSUME PrivilegedAssumption == Privileged \subseteq Actors
ASSUME BoundsAssumption == MaxAttempts \in Nat /\ MaxActs \in Nat
ASSUME FaultsAssumption == LostReplies \in BOOLEAN /\ Crashes \in BOOLEAN

TicketStatus == {"new", "open", "pending_info", "investigating",
                 "awaiting_approval", "resolved_credit",
                 "resolved_replacement", "escalated", "closed"}
ASSUME StaffStatusesAssumption == StaffStatuses \subseteq TicketStatus

ApprovalState == {"pending", "approved", "rejected"}

(* zoho_replacement_so_number, by what it is: blank, SIM-SO-..., or a      *)
(* number Zoho gave.  SIM-SO-<claim> is the same for every push of a claim.*)
Numbers == {"", "sim", "real"}

VARIABLES
  quantity,     \* Claim.quantity_affected
  exposure,     \* Claim.estimated_exposure
  soNumber,     \* Claim.zoho_replacement_so_number
  ticketStatus, \* Ticket.status of the claim's ticket
  approvals,    \* states of the claim's REPLACEMENT_SO Approval rows
  dedupe,       \* ZohoPushDedupe rows, by fingerprint
  syncLogs,     \* ZohoSyncLog rows
  notes,        \* internal notes written by a push
  audit,        \* audit rows written by a push
  placed,       \* sales orders that exist in Zoho
  configured,   \* are the Zoho credentials set?
  attempts,     \* pushes begun so far
  push,         \* what each pusher is doing
  del,          \* what each deleter is doing
  form,         \* each admin form: what the browser shows
  edits,        \* forms saved in the admin site so far
  authorised,   \* history: the attempts that had the authority to order at
                \* some moment since they began
  typed         \* history: the claims whose form was saved, each with the
                \* number typed there ("" if it was cleared or left alone)

database == <<quantity, exposure, soNumber, ticketStatus, approvals,
              dedupe, syncLogs, notes, audit>>
history == <<edits, authorised, typed>>
vars == <<database, placed, configured, attempts, push, del, form, history>>
-----------------------------------------------------------------------------
Fingerprints == Claims \X Quantities
Attempt == 1 .. MaxAttempts

SyncLogs == [attempt : Attempt, key : Fingerprints,
             status : {"success", "failed"}]
Notes  == [attempt : Attempt, claim : Claims, so : {"sim", "real"}]
Orders == [attempt : Attempt, key : Fingerprints, actor : Actors]

Answers == {"none", "ok", "duplicate", "refused", "conflict", "failed",
            "timeout", "killed"}
Idle == [pc |-> "idle", answer |-> "none"]
IdlePushes == [pc : {"idle"}, answer : Answers]
EarlyPushes ==
  [pc : {"dedupe", "gate", "insert", "calling", "accepted"}, claim : Claims,
   qty : Quantities, exposure : Exposures, actor : Actors,
   attempt : Attempt, so : {""}]
ApplyingPushes ==
  [pc : {"apply"}, claim : Claims, qty : Quantities, exposure : Exposures,
   actor : Actors, attempt : Attempt, so : {"sim", "real"}]
ActivePushes == EarlyPushes \cup ApplyingPushes
EndedPushes ==
  [pc : {"idle"}, answer : Answers, claim : Claims, attempt : Attempt]
Pushes == IdlePushes \cup ActivePushes \cup EndedPushes

NotDeleting == [pc |-> "idle"]
Deletes ==
  [pc : {"idle"}]
    \cup [pc : {"load"}, claim : Claims, status : TicketStatus, note : Notes]
    \cup [pc : {"find", "dedupe", "logs", "commit", "note"}, claim : Claims,
          status : TicketStatus, note : Notes, so : Numbers, qty : Quantities,
          goneDedupe : SUBSET Fingerprints, goneLogs : SUBSET SyncLogs]

Closed == [pc |-> "closed"]
Forms == [pc : {"closed"}] \cup [pc : {"open"}, claim : Claims, so : Numbers]

(* Every table holds only rows of its type, and every request's record has *)
(* the fields of the step it is at.                                        *)
TypeOK ==
  /\ quantity \in [Claims -> Quantities]
  /\ exposure \in [Claims -> Exposures]
  /\ soNumber \in [Claims -> Numbers]
  /\ ticketStatus \in [Claims -> TicketStatus]
  /\ approvals \in [Claims -> SUBSET ApprovalState]
  /\ dedupe \subseteq Fingerprints
  /\ syncLogs \subseteq SyncLogs
  /\ notes \subseteq Notes
  /\ audit \subseteq Notes
  /\ placed \subseteq Orders
  /\ configured \in BOOLEAN
  /\ attempts \in 0 .. MaxAttempts
  /\ push \in [Pushers -> Pushes]
  /\ del \in [Deleters -> Deletes]
  /\ form \in [Editors -> Forms]
  /\ edits \in 0 .. MaxActs
  /\ authorised \subseteq Attempt
  /\ typed \subseteq Claims \X Numbers
-----------------------------------------------------------------------------
Init ==
  /\ quantity \in [Claims -> Quantities]
  /\ exposure \in [Claims -> Exposures]
  /\ soNumber = [c \in Claims |-> ""]
  /\ ticketStatus = [c \in Claims |-> "new"]
  /\ approvals = [c \in Claims |-> {}]
  /\ dedupe = {} /\ syncLogs = {} /\ notes = {} /\ audit = {}
  /\ placed = {}
  /\ configured \in BOOLEAN
  /\ attempts = 0
  /\ push = [p \in Pushers |-> Idle]
  /\ del = [d \in Deleters |-> NotDeleting]
  /\ form = [e \in Editors |-> Closed]
  /\ edits = 0 /\ authorised = {} /\ typed = {}
-----------------------------------------------------------------------------
(* The push                                                                *)

_fingerprint(c, q) == <<c, q>>

replacement_so_requires_approval(amount) == amount >= Threshold

Key(p) == _fingerprint(push[p].claim, push[p].qty)

(* A push that inserted its sync log and has not committed it.             *)
Uncommitted(p) == push[p].pc \in {"calling", "accepted", "apply"}

(* Mutant: idempotency_key is not unique.                                  *)
KeyNeverTaken(k) == FALSE
LogKeyTaken(k) == \E l \in syncLogs : l.key = k

(* A row with this key was deleted by a transaction still open.            *)
LogKeyBeingDeleted(k) == \E d \in Deleters :
  /\ del[d].pc \in {"dedupe", "logs", "commit", "note"}
  /\ \E l \in del[d].goneLogs : l.key = k

DedupeBeingDeleted(k) == \E d \in Deleters :
  /\ del[d].pc \in {"dedupe", "logs", "commit", "note"}
  /\ k \in del[d].goneDedupe

(* Mutant: the row is inserted after the call, so nobody waits for it.     *)
NobodyWaits(p) == FALSE

(* Inserting a key another open transaction inserted or deleted waits for  *)
(* that transaction to end.                                                *)
LogKeyLocked(p) ==
  \/ \E o \in Pushers \ {p} : Uncommitted(o) /\ Key(o) = Key(p)
  \/ LogKeyBeingDeleted(Key(p))

(* What an exception leaves of a table the atomic block wrote to.          *)
AfterRollback(before, written) == before

PushOnly ==
  UNCHANGED <<database, placed, configured, attempts, del, form, history>>

Goto(p, pc) == push' = [push EXCEPT ![p].pc = pc]

Answer(p, answer) ==
  push' = [push EXCEPT ![p] = [pc |-> "idle", answer |-> answer,
                               claim |-> @.claim, attempt |-> @.attempt]]

(* The push in progress may order by what the tables say now: the amount   *)
(* is below the threshold, finance approved, or the actor needs nobody.    *)
MayOrder(p) ==
  /\ push[p].pc # "idle"
  /\ \/ ~replacement_so_requires_approval(exposure[push[p].claim])
     \/ "approved" \in approvals[push[p].claim]
     \/ push[p].actor \in Privileged

AuthorisedNow == {push[p].attempt : p \in {q \in Pushers : MayOrder(q)}}

(* History, kept by the steps that change what MayOrder reads.             *)
NoteAuthority == authorised' = authorised \cup AuthorisedNow'

(* A request begins: a staff POST, the API call, or the retry task on the  *)
(* claim of a sync log.  The claim is loaded once and used to the end.     *)
BeginPush(p, c, a) ==
  /\ push[p].pc = "idle"
  /\ attempts < MaxAttempts /\ attempts + edits < MaxActs
  /\ attempts' = attempts + 1
  /\ push' = [push EXCEPT ![p] =
       [pc |-> "dedupe", claim |-> c, qty |-> quantity[c],
        exposure |-> exposure[c], actor |-> a, attempt |-> attempts + 1,
        so |-> ""]]
  /\ UNCHANGED <<database, placed, configured, del, form, edits, typed>>
  /\ NoteAuthority

AlreadyPushed(k) == k \in dedupe

RefuseDuplicate(p) ==
  /\ push[p].pc = "dedupe"
  /\ AlreadyPushed(Key(p))
  /\ Answer(p, "duplicate")
  /\ PushOnly

PassDedupe(p) ==
  /\ push[p].pc = "dedupe"
  /\ ~AlreadyPushed(Key(p))
  /\ Goto(p, "gate")
  /\ PushOnly

(* Mutant: any approval row opens the gate, whatever its state.            *)
GateOpenToAnyRow(p) ==
  replacement_so_requires_approval(push[p].exposure) =>
    approvals[push[p].claim] # {} \/ push[p].actor \in Privileged

(* The amount is the one loaded with the claim, the approvals are queried. *)
GateOpen(p) ==
  replacement_so_requires_approval(push[p].exposure) =>
    \/ "approved" \in approvals[push[p].claim]
    \/ push[p].actor \in Privileged

(* The PENDING approval is created, then the ValueError rolls it back.     *)
RefuseUnapproved(p) ==
  /\ push[p].pc = "gate"
  /\ ~GateOpen(p)
  /\ approvals' = AfterRollback(approvals,
       [approvals EXCEPT ![push[p].claim] = @ \cup {"pending"}])
  /\ Answer(p, "refused")
  /\ UNCHANGED <<quantity, exposure, soNumber, ticketStatus, dedupe, syncLogs,
                 notes, audit, placed, configured, attempts, del, form,
                 history>>

PassGate(p) ==
  /\ push[p].pc = "gate"
  /\ GateOpen(p)
  /\ Goto(p, "insert")
  /\ PushOnly

InsertLog(p) ==
  /\ push[p].pc = "insert"
  /\ ~LogKeyLocked(p)
  /\ ~LogKeyTaken(Key(p))
  /\ Goto(p, "calling")
  /\ PushOnly

(* idempotency_key is unique: IntegrityError.                              *)
LogConflict(p) ==
  /\ push[p].pc = "insert"
  /\ ~LogKeyLocked(p)
  /\ LogKeyTaken(Key(p))
  /\ Answer(p, "conflict")
  /\ PushOnly

(* Mutant: the simulated path forgets the number.                          *)
SimulateWithoutNumber(p) ==
  /\ push[p].pc = "calling"
  /\ ~configured
  /\ Goto(p, "apply")
  /\ PushOnly

Simulate(p) ==
  /\ push[p].pc = "calling"
  /\ ~configured
  /\ push' = [push EXCEPT ![p].pc = "apply", ![p].so = "sim"]
  /\ PushOnly

ZohoAccepts(p) ==
  /\ push[p].pc = "calling"
  /\ configured
  /\ placed' = placed \cup {[attempt |-> push[p].attempt, key |-> Key(p),
                             actor |-> push[p].actor]}
  /\ Goto(p, "accepted")
  /\ UNCHANGED <<database, configured, attempts, del, form, history>>

ZohoReplies(p) ==
  /\ push[p].pc = "accepted"
  /\ push' = [push EXCEPT ![p].pc = "apply", ![p].so = "real"]
  /\ PushOnly

LogRow(p, status) ==
  [attempt |-> push[p].attempt, key |-> Key(p), status |-> status]

(* ZohoAPIError, at the token or the order: the log row is saved as FAILED,*)
(* then the re-raise rolls the row back.  An answer that Zoho already      *)
(* turned into an order may still arrive as an error when replies are lost.*)
ZohoFails(p) ==
  /\ \/ push[p].pc = "calling" /\ configured
     \/ push[p].pc = "accepted" /\ LostReplies
  /\ syncLogs' = AfterRollback(syncLogs, syncLogs \cup {LogRow(p, "failed")})
  /\ Answer(p, "failed")
  /\ UNCHANGED <<quantity, exposure, soNumber, ticketStatus, approvals, dedupe,
                 notes, audit, placed, configured, attempts, del, form,
                 history>>

(* Mutant: the request has no timeout.                                     *)
NoTimeout(p) == FALSE

(* The client gives up after its timeout.  That exception is not a         *)
(* ZohoAPIError: nothing is even attempted on the log row.                 *)
Waiting(p) ==
  \/ push[p].pc = "calling" /\ configured
  \/ push[p].pc = "accepted" /\ LostReplies

RequestTimesOut(p) ==
  /\ Waiting(p)
  /\ Answer(p, "timeout")
  /\ PushOnly

PushNote(p) ==
  [attempt |-> push[p].attempt, claim |-> push[p].claim, so |-> push[p].so]

(* Mutant: only pushes Zoho really took are audited.                       *)
AuditOnlyReal(p) == IF push[p].so = "real" THEN {PushNote(p)} ELSE {}

AuditRows(p) == {PushNote(p)}

(* The rest of the atomic block and its COMMIT, from claim.save on.  Its   *)
(* row locks are held for these writes only, so they are one step.         *)
Apply(p) ==
  LET c == push[p].claim IN
  /\ push[p].pc = "apply"
  /\ ~DedupeBeingDeleted(Key(p))
  /\ Key(p) \notin dedupe
  /\ soNumber' = [soNumber EXCEPT ![c] = push[p].so]
  /\ ticketStatus' = [ticketStatus EXCEPT ![c] = "resolved_replacement"]
  /\ notes' = notes \cup {PushNote(p)}
  /\ dedupe' = dedupe \cup {Key(p)}
  /\ audit' = audit \cup AuditRows(p)
  /\ syncLogs' = syncLogs \cup {LogRow(p, "success")}
  /\ Answer(p, "ok")
  /\ UNCHANGED <<quantity, exposure, approvals, placed, configured, attempts,
                 del, form, history>>

(* The push holds the claim row and waits for the dedupe row the delete    *)
(* took; the delete waits for the claim row.  PostgreSQL ends one of them. *)
Deadlocked(p, d) ==
  /\ push[p].pc = "apply"
  /\ del[d].pc = "commit"
  /\ Key(p) \in del[d].goneDedupe

(* The dedupe fingerprint is unique: IntegrityError, all is rolled back.   *)
(* The victim of a deadlock is rolled back too.                            *)
ApplyConflict(p) ==
  /\ push[p].pc = "apply"
  /\ \/ ~DedupeBeingDeleted(Key(p)) /\ Key(p) \in dedupe
     \/ \E d \in Deleters : Deadlocked(p, d)
  /\ Answer(p, "conflict")
  /\ PushOnly

CrashPush(p) ==
  /\ Crashes
  /\ push[p].pc # "idle"
  /\ Answer(p, "killed")
  /\ PushOnly

PushStep(p) ==
  \/ RefuseDuplicate(p) \/ PassDedupe(p)
  \/ RefuseUnapproved(p) \/ PassGate(p)
  \/ InsertLog(p) \/ LogConflict(p)
  \/ Simulate(p) \/ ZohoReplies(p) \/ RequestTimesOut(p)
  \/ Apply(p) \/ ApplyConflict(p)

PushAction(p) ==
  \/ \E c \in Claims, a \in Actors : BeginPush(p, c, a)
  \/ PushStep(p)
  \/ ZohoAccepts(p) \/ ZohoFails(p)
  \/ CrashPush(p)
-----------------------------------------------------------------------------
(* The administrator deletes the internal note of a push                   *)

DelOnly ==
  UNCHANGED <<database, placed, configured, attempts, push, form, history>>

(* The ticket is loaded; the note's id comes from the administrator's page,*)
(* where a note deleted since may still stand: any note ever written, of   *)
(* which there is an audit row.                                            *)
BeginDelete(d, n) ==
  /\ del[d].pc = "idle"
  /\ n \in audit
  /\ del' = [del EXCEPT ![d] =
       [pc |-> "load", claim |-> n.claim, status |-> ticketStatus[n.claim],
        note |-> n]]
  /\ DelOnly

(* The claim is prefetched by a query of its own.                          *)
LoadClaim(d) ==
  /\ del[d].pc = "load"
  /\ del' = [del EXCEPT ![d] =
       [pc |-> "find", claim |-> @.claim, status |-> @.status,
        note |-> @.note, so |-> soNumber[@.claim], qty |-> quantity[@.claim],
        goneDedupe |-> {}, goneLogs |-> {}]]
  /\ DelOnly

(* The note is gone: 404.                                                  *)
NoteMissing(d) ==
  /\ del[d].pc = "find"
  /\ del[d].note \notin notes
  /\ del' = [del EXCEPT ![d] = NotDeleting]
  /\ DelOnly

(* Mutant: the undo takes any number.                                      *)
IsNumber(so) == so # ""

(* so.startswith("SIM-SO-")                                                *)
IsSimulated(so) == so = "sim"

(* The note is loaded; whether the number is in it and simulated is        *)
(* decided on the claim loaded before ("" is in every text).               *)
FindNote(d) ==
  LET matched == del[d].so \in {"", del[d].note.so} IN
  /\ del[d].pc = "find"
  /\ del[d].note \in notes
  /\ del' = [del EXCEPT ![d].pc =
               IF matched /\ IsSimulated(del[d].so) THEN "dedupe" ELSE "note"]
  /\ DelOnly

(* Deleting a row another open transaction deleted waits for its end.      *)
DeleteDedupe(d) ==
  LET k == _fingerprint(del[d].claim, del[d].qty) IN
  /\ del[d].pc = "dedupe"
  /\ ~DedupeBeingDeleted(k)
  /\ del' = [del EXCEPT ![d].pc = "logs", ![d].goneDedupe = dedupe \cap {k}]
  /\ DelOnly

LogsOf(c) == {l \in syncLogs : l.key[1] = c}

DeleteLogs(d) ==
  /\ del[d].pc = "logs"
  /\ \A l \in LogsOf(del[d].claim) : ~LogKeyBeingDeleted(l.key)
  /\ del' = [del EXCEPT ![d].pc = "commit",
                        ![d].goneLogs = LogsOf(del[d].claim)]
  /\ DelOnly

(* ticket.status here is the status read when the request began.           *)
ReopenedStatus(seen, current) ==
  IF seen = "resolved_replacement" THEN "open" ELSE current

(* Mutant: the clear forgets the sync logs.                                *)
LogsKept(d) == syncLogs

(* What is left of a table once the clear's deletions commit.              *)
DedupeAfterClear(d) == dedupe \ del[d].goneDedupe
LogsAfterClear(d) == syncLogs \ del[d].goneLogs

CommitClear(d) ==
  LET c == del[d].claim IN
  /\ del[d].pc = "commit"
  /\ dedupe' = DedupeAfterClear(d)
  /\ syncLogs' = LogsAfterClear(d)
  /\ soNumber' = [soNumber EXCEPT ![c] = ""]
  /\ ticketStatus' =
       [ticketStatus EXCEPT ![c] = ReopenedStatus(del[d].status, @)]
  /\ del' = [del EXCEPT ![d].pc = "note", ![d].goneDedupe = {},
                        ![d].goneLogs = {}]
  /\ UNCHANGED <<quantity, exposure, approvals, notes, audit, placed,
                 configured, attempts, push, form, history>>

(* msg.delete(), in a transaction of its own.                              *)
RemoveNote(d) ==
  /\ del[d].pc = "note"
  /\ notes' = notes \ {del[d].note}
  /\ del' = [del EXCEPT ![d] = NotDeleting]
  /\ UNCHANGED <<quantity, exposure, soNumber, ticketStatus, approvals, dedupe,
                 syncLogs, audit, placed, configured, attempts, push, form,
                 history>>

CrashDelete(d) ==
  /\ Crashes \/ \E p \in Pushers : Deadlocked(p, d)
  /\ del[d].pc # "idle"
  /\ del' = [del EXCEPT ![d] = NotDeleting]
  /\ DelOnly

DeleteStep(d) ==
  \/ LoadClaim(d) \/ NoteMissing(d) \/ FindNote(d)
  \/ DeleteDedupe(d) \/ DeleteLogs(d)
  \/ CommitClear(d) \/ RemoveNote(d)

DeleteAction(d) ==
  \/ \E n \in audit : BeginDelete(d, n)
  \/ DeleteStep(d)
  \/ CrashDelete(d)
-----------------------------------------------------------------------------
(* The rest of the staff, and the operator                                 *)

(* The ticket drop-down writes the status it was given.                    *)
SetStatus(c, s) ==
  /\ ticketStatus' = [ticketStatus EXCEPT ![c] = s]
  /\ UNCHANGED <<quantity, exposure, soNumber, approvals, dedupe, syncLogs,
                 notes, audit, placed, configured, attempts, push, del, form,
                 history>>

CountEdit == attempts + edits < MaxActs /\ edits' = edits + 1

(* The admin site's approval form sets a row to any state, one that was    *)
(* approved too, or adds a row (no row has the old state).                 *)
DecideApproval(c, old, new) ==
  /\ CountEdit
  /\ approvals' = [approvals EXCEPT ![c] = (@ \ {old}) \cup {new}]
  /\ UNCHANGED <<quantity, exposure, soNumber, ticketStatus, dedupe, syncLogs,
                 notes, audit, placed, configured, attempts, push, del, form,
                 typed>>
  /\ NoteAuthority

(* The admin site's claim form shows every field and saves every field: as *)
(* it was shown, perhaps long ago, or as somebody typed it.                *)
OpenForm(e, c) ==
  /\ form[e].pc = "closed"
  /\ form' = [form EXCEPT ![e] =
                [pc |-> "open", claim |-> c, so |-> soNumber[c]]]
  /\ UNCHANGED <<database, placed, configured, attempts, push, del, history>>

SaveForm(e, q, amount, so) ==
  LET c == form[e].claim IN
  /\ form[e].pc = "open"
  /\ CountEdit
  /\ quantity' = [quantity EXCEPT ![c] = q]
  /\ exposure' = [exposure EXCEPT ![c] = amount]
  /\ soNumber' = [soNumber EXCEPT ![c] = so]
  /\ typed' = typed \cup {<<c, IF so = form[e].so THEN "" ELSE so>>}
  /\ form' = [form EXCEPT ![e] = Closed]
  /\ UNCHANGED <<ticketStatus, approvals, dedupe, syncLogs, notes, audit,
                 placed, configured, attempts, push, del>>
  /\ NoteAuthority

(* The operator sets the credentials and restarts the services, which ends *)
(* every request; open browser forms survive it.                           *)
Configure ==
  /\ ~configured
  /\ configured' = TRUE
  /\ push' = [p \in Pushers |->
                IF push[p].pc = "idle" THEN push[p]
                ELSE [pc |-> "idle", answer |-> "killed",
                      claim |-> push[p].claim, attempt |-> push[p].attempt]]
  /\ del' = [d \in Deleters |-> NotDeleting]
  /\ UNCHANGED <<database, placed, attempts, form, history>>

StaffAction ==
  \/ \E c \in Claims, s \in StaffStatuses : SetStatus(c, s)
  \/ \E c \in Claims, old, new \in ApprovalState : DecideApproval(c, old, new)
  \/ \E e \in Editors, c \in Claims : OpenForm(e, c)
  \/ \E e \in Editors, q \in Quantities, amount \in Exposures,
        so \in Numbers : SaveForm(e, q, amount, so)
  \/ Configure

Next ==
  \/ \E p \in Pushers : PushAction(p)
  \/ \E d \in Deleters : DeleteAction(d)
  \/ StaffAction

Spec == Init /\ [][Next]_vars

(* A worker goes on with its request, and the client's timeout fires; Zoho *)
(* owes nothing, neither does any person.                                  *)
Fairness ==
  /\ \A p \in Pushers : WF_vars(PushStep(p))
  /\ \A d \in Deleters : WF_vars(DeleteStep(d))

FairSpec == Spec /\ Fairness
-----------------------------------------------------------------------------
(* Safety                                                                  *)

(* The unique idempotency_key, inserted before the call and held to the    *)
(* commit, is what serialises pushes: at most one open transaction is past *)
(* the insert of a key, and none is while a committed log has that key.    *)
PushExclusive ==
  \A p \in Pushers : Uncommitted(p) =>
    /\ \A o \in Pushers \ {p} : Uncommitted(o) => Key(o) # Key(p)
    /\ \A l \in syncLogs : l.key # Key(p)

(* However pushes, clears, edits and crashes interleave, a number on a     *)
(* claim is one some audited push of that claim obtained or somebody typed *)
(* there: neither a rollback nor a stale admin form leaves another.        *)
AuditCoversFile ==
  \A c \in Claims : soNumber[c] # "" =>
    \/ \E r \in audit : r.claim = c /\ r.so = soNumber[c]
    \/ <<c, soNumber[c]>> \in typed

Untouched(c) == \A t \in typed : t[1] # c

(* With one note-deleter at a time the four records of a push agree        *)
(* whatever crashes, on every claim whose form nobody saved in the admin   *)
(* site: the number on the claim, the dedupe row, the sync log and, for a  *)
(* simulated number, a note a human can delete.  No such claim is blocked  *)
(* as a duplicate and shows no number.                                     *)
RecordsAgree ==
  \A c \in {b \in Claims : Untouched(b)} :
    /\ soNumber[c] # "" <=> \E k \in dedupe : k[1] = c
    /\ {l.key : l \in LogsOf(c)} = {k \in dedupe : k[1] = c}
    /\ soNumber[c] = "sim" => \E n \in notes : n.claim = c /\ n.so = "sim"

OrdersFor(k) == {o \in placed : o.key = k}
OrdersOf(c) == {o \in placed : o.key[1] = c}

(* "Prevent duplicate Zoho pushes for the same claim + action": Zoho is    *)
(* never given two replacement orders for one fingerprint.                 *)
OneOrderPerFingerprint ==
  \A k \in Fingerprints : Cardinality(OrdersFor(k)) <= 1

(* While no answer is lost and nothing crashes, an order that exists in    *)
(* Zoho is on its claim's file or its push is still in progress.           *)
OrdersAccountedFor ==
  \A o \in placed :
    \/ /\ soNumber[o.key[1]] = "real"
       /\ \E r \in audit : r.attempt = o.attempt /\ r.so = "real"
    \/ \E p \in Pushers : /\ push[p].pc \in {"accepted", "apply"}
                           /\ push[p].attempt = o.attempt

(* Amount and approvals are read at two moments, both before the order,    *)
(* and change all the while.  Still every order had the authority at some  *)
(* single moment after its push began; when it is placed the amount may    *)
(* have been raised or the approval taken back.                            *)
OrdersAuthorised == \A o \in placed : o.attempt \in authorised

(* The undo is for "SIM-SO-... numbers": no delete of a note takes a real  *)
(* order's number off its claim.                                           *)
RealNumberStays ==
  [][\A c \in Claims : soNumber[c] = "real" => soNumber'[c] = "real"]_vars

(* A push refused for want of approval leaves a PENDING approval for       *)
(* finance to find ("Auto-created: exceeds replacement threshold").        *)
RefusalAsksForApproval ==
  \A p \in Pushers : push[p].pc = "idle" /\ push[p].answer = "refused" =>
    approvals[push[p].claim] # {}

(* A push that failed with a ZohoAPIError can be found in the sync logs    *)
(* ("Zoho push failed - see sync logs") and retried from there.            *)
FailureIsLogged ==
  \A p \in Pushers : push[p].pc = "idle" /\ push[p].answer = "failed" =>
    \E l \in syncLogs : l.attempt = push[p].attempt /\ l.status = "failed"

(* Every push that begins is answered, though Zoho may never reply and two *)
(* pushes wait for one key: someone's timeout ends every wait, unless the  *)
(* deletions a push waits for are killed and begun again for ever.         *)
PushAnswered ==
  <>[][\A d \in Deleters : ~CrashDelete(d)]_vars =>
    \A p \in Pushers : push[p].pc # "idle" ~> push[p].pc = "idle"
=============================================================================
