--------------------- MODULE ReplacementOrderImplProofs ---------------------
(***************************************************************************)
(* Theorems about ReplacementOrder where one administrator at a time       *)
(* deletes notes and the admin site edits no claim: the records of a push  *)
(* agree and real numbers stay, whatever is lost or killed; and where      *)
(* nothing is lost or killed either, the orders in Zoho are on file and    *)
(* the system implements OrderLedger.  RO_stale_undo and RO_lost_reply     *)
(* show what happens otherwise.                                            *)
(***************************************************************************)
EXTENDS ReplacementOrderImpl, ReplacementOrderProofs

USE DEF PushOnly, DelOnly

DeletersTakeTurns == \A d, e \in Deleters : d = e
NoEdits == Editors = {}
NoFaults == ~LostReplies /\ ~Crashes

(* The only fingerprint a claim can have while nobody edits its quantity.  *)
Current(c) == <<c, quantity[c]>>

KeysInv ==
  /\ \A p \in Pushers : push[p].pc # "idle" =>
       push[p].qty = quantity[push[p].claim]
  /\ \A d \in Deleters : del[d].pc \in ClearPhases =>
       del[d].qty = quantity[del[d].claim]
  /\ \A k \in dedupe : k = Current(k[1])
  /\ \A l \in syncLogs : l.key = Current(l.key[1])

(* An attempt in progress has written nothing yet; a deleter's note was.   *)
AttemptInv ==
  /\ \A p \in Pushers : push[p].pc # "idle" =>
       /\ push[p].attempt <= attempts
       /\ \A o \in Pushers \ {p} :
            push[o].pc # "idle" => push[o].attempt # push[p].attempt
       /\ \A r \in audit : r.attempt # push[p].attempt
  /\ \A r \in audit : r.attempt <= attempts
  /\ \A d \in Deleters : del[d].pc # "idle" =>
       del[d].note \in audit /\ del[d].claim = del[d].note.claim

(* What the undo has seen is still so when it commits.                     *)
Undoing(d) == del[d].pc \in {"dedupe", "logs", "commit"}
UndoInv ==
  \A d \in Deleters :
    /\ Undoing(d) => del[d].so = "sim"
    /\ (Undoing(d) \/ del[d].pc = "find") /\ del[d].so = "sim" =>
         soNumber[del[d].claim] = "sim"
    /\ del[d].pc \in {"logs", "commit"} =>
         del[d].goneDedupe = {Current(del[d].claim)}
    /\ del[d].pc = "commit" => del[d].goneLogs = LogsOf(del[d].claim)

(* The number, the dedupe row and the sync log of a claim come and go      *)
(* together.                                                               *)
AgreeInv ==
  \A c \in Claims :
    /\ soNumber[c] # "" <=> Current(c) \in dedupe
    /\ (\E l \in syncLogs : l.key = Current(c)) <=> Current(c) \in dedupe

(* A simulated number has a note that no deleter is about to delete but    *)
(* one that will first undo the number.                                    *)
Safe(m) ==
  \A d \in Deleters : del[d].pc \in {"find", "note"} /\ del[d].note = m =>
    del[d].pc = "find" /\ del[d].so = "sim"
HasNote(c) == \E m \in notes : m.claim = c /\ m.so = "sim" /\ Safe(m)
NotesInv == \A c \in Claims : soNumber[c] = "sim" => HasNote(c)

FileInv == KeysInv /\ AttemptInv /\ UndoInv /\ AgreeInv /\ NotesInv
-----------------------------------------------------------------------------
(* An order is on its claim's file or its push still holds the key.        *)
RealFile(o) ==
  /\ soNumber[o.key[1]] = "real"
  /\ \E r \in audit : r.attempt = o.attempt /\ r.so = "real"
HeldBy(o, p) == Holds(p) /\ push[p].attempt = o.attempt /\ Key(p) = o.key

PlacedInv ==
  /\ placed # {} => configured
  /\ \A p \in Pushers : /\ push[p].pc = "accepted" => configured
                        /\ push[p].pc = "apply" => (push[p].so = "real" <=> configured)
                        /\ Holds(p) /\ configured => \E o \in placed : o.key = Key(p)
  /\ \A o \in placed : /\ o.key = Current(o.key[1])
                       /\ RealFile(o) \/ \E p \in Pushers : HeldBy(o, p)
  /\ \A o1, o2 \in placed : o1.key = o2.key => o1 = o2
-----------------------------------------------------------------------------
(* What any step does to one deleter, and to the tables.                   *)
SameUndo(d) ==
  /\ del'[d].claim = del[d].claim /\ del'[d].note = del[d].note
  /\ del'[d].so = del[d].so /\ del'[d].qty = del[d].qty

Loads(d) ==
  /\ LoadClaim(d)
  /\ del'[d].pc = "find" /\ del'[d].claim = del[d].claim
  /\ del'[d].note = del[d].note
  /\ del'[d].so = soNumber[del[d].claim] /\ del'[d].qty = quantity[del[d].claim]

Finds(d) ==
  /\ FindNote(d)
  /\ \/ del'[d].pc = "dedupe" /\ del[d].so = "sim"
     \/ /\ del'[d].pc = "note"
        /\ ~(del[d].so = "sim" /\ del[d].note.so = "sim")

Undoes(d) ==
  \/ /\ DeleteDedupe(d) /\ del'[d].pc = "logs"
     /\ del'[d].goneDedupe = dedupe \cap {<<del[d].claim, del[d].qty>>}
  \/ /\ DeleteLogs(d) /\ del'[d].pc = "commit"
     /\ del'[d].goneDedupe = del[d].goneDedupe
     /\ del'[d].goneLogs = LogsOf(del[d].claim)
  \/ CommitClear(d) /\ del'[d].pc = "note"

SameIn(s, r) ==
  s.claim = r.claim /\ s.note = r.note /\ s.so = r.so /\ s.qty = r.qty

LEMMA ClearingFields ==
  ASSUME NEW r \in Clearing, NEW pc, NEW D, NEW L
  PROVE  /\ [r EXCEPT !.pc = pc].pc = pc /\ SameIn([r EXCEPT !.pc = pc], r)
         /\ LET s == [r EXCEPT !.pc = pc, !.goneDedupe = D]
            IN  s.pc = pc /\ SameIn(s, r) /\ s.goneDedupe = D
         /\ LET s == [r EXCEPT !.pc = pc, !.goneLogs = L]
            IN  /\ s.pc = pc /\ SameIn(s, r) /\ s.goneLogs = L
                /\ s.goneDedupe = r.goneDedupe
         /\ LET s == [r EXCEPT !.pc = pc, !.goneDedupe = D, !.goneLogs = L]
            IN  s.pc = pc /\ SameIn(s, r)
BY DEF Clearing, SameIn

LEMMA DelSteps ==
  ASSUME TypeOK, [Next]_vars, NEW d \in Deleters
  PROVE  \/ del'[d] = del[d]
         \/ del'[d].pc = "idle"
         \/ \E n \in audit : /\ BeginDelete(d, n) /\ del'[d].pc = "load"
                             /\ del'[d].claim = n.claim /\ del'[d].note = n
         \/ Loads(d)
         \/ SameUndo(d) /\ (Finds(d) \/ Undoes(d))
<1>1. ASSUME NEW n \in audit, BeginDelete(d, n)
      PROVE  /\ del'[d].pc = "load"
             /\ del'[d].claim = n.claim /\ del'[d].note = n
  BY <1>1 DEF BeginDelete, TypeOK
<1>2. CASE LoadClaim(d)
  BY <1>2 DEF LoadClaim, Loads, TypeOK
<1>3. CASE NoteMissing(d) \/ RemoveNote(d) \/ CrashDelete(d)
  BY <1>3 DEF NoteMissing, RemoveNote, CrashDelete, NotDeleting, TypeOK
<1>4. CASE FindNote(d)
  <2> DEFINE pc == IF del[d].so \in {"", del[d].note.so} /\ IsSimulated(del[d].so)
                   THEN "dedupe" ELSE "note"
             s == [del[d] EXCEPT !.pc = pc]
  <2>1. del[d] \in Clearing BY <1>4, ActiveDelete DEF FindNote, ClearPhases
  <2>2. del' = [del EXCEPT ![d].pc = pc] BY <1>4 DEF FindNote
  <2>3. del'[d] = s BY <2>2 DEF TypeOK
  <2>4. pc \in ClearPhases BY DEF ClearPhases
  <2> HIDE DEF pc
  <2>5. SameUndo(d) /\ del'[d].pc = pc
    BY <2>1, <2>3, <2>4, ClearingFields DEF SameUndo, SameIn
  <2> QED BY <1>4, <2>5 DEF Finds, IsSimulated, pc
<1>5. CASE DeleteDedupe(d)
  <2> DEFINE D == dedupe \cap {_fingerprint(del[d].claim, del[d].qty)}
             s == [del[d] EXCEPT !.pc = "logs", !.goneDedupe = D]
  <2>1. del[d] \in Clearing BY <1>5, ActiveDelete DEF DeleteDedupe, ClearPhases
  <2>2. del'[d] = s BY <1>5 DEF DeleteDedupe, TypeOK
  <2>3. D \in SUBSET Fingerprints /\ "logs" \in ClearPhases
    BY DEF TypeOK, ClearPhases
  <2> HIDE DEF D
  <2>4. SameUndo(d) /\ del'[d].pc = "logs" /\ del'[d].goneDedupe = D
    BY <2>1, <2>2, <2>3, ClearingFields DEF SameUndo, SameIn
  <2> QED BY <1>5, <2>4 DEF Undoes, D, _fingerprint
<1>6. CASE DeleteLogs(d)
  <2> DEFINE L == LogsOf(del[d].claim)
             s == [del[d] EXCEPT !.pc = "commit", !.goneLogs = L]
  <2>1. del[d] \in Clearing BY <1>6, ActiveDelete DEF DeleteLogs, ClearPhases
  <2>2. del'[d] = s BY <1>6 DEF DeleteLogs, TypeOK
  <2>3. L \in SUBSET SyncLogs /\ "commit" \in ClearPhases
    BY DEF TypeOK, ClearPhases, LogsOf
  <2> HIDE DEF L
  <2>4. /\ SameUndo(d) /\ del'[d].pc = "commit" /\ del'[d].goneLogs = L
        /\ del'[d].goneDedupe = del[d].goneDedupe
    BY <2>1, <2>2, <2>3, ClearingFields DEF SameUndo, SameIn
  <2> QED BY <1>6, <2>4 DEF Undoes, L
<1>7. CASE CommitClear(d)
  <2> DEFINE s == [del[d] EXCEPT !.pc = "note", !.goneDedupe = {}, !.goneLogs = {}]
  <2>1. del[d] \in Clearing BY <1>7, ActiveDelete DEF CommitClear, ClearPhases
  <2>2. del'[d] = s BY <1>7 DEF CommitClear, TypeOK
  <2>3. "note" \in ClearPhases BY DEF ClearPhases
  <2>4. SameUndo(d) /\ del'[d].pc = "note"
    BY <2>1, <2>2, <2>3, ClearingFields DEF SameUndo, SameIn
  <2> QED BY <1>7, <2>4 DEF Undoes
<1>8. ASSUME NEW e \in Deleters, DeleteAction(e), e # d PROVE del'[d] = del[d]
  BY <1>8 DEF DeleteAction, DeleteStep, BeginDelete, LoadClaim, NoteMissing, FindNote,
     DeleteDedupe, DeleteLogs, CommitClear, RemoveNote, CrashDelete, TypeOK
<1>9. ASSUME NEW p \in Pushers, PushAction(p) PROVE del' = del
  BY <1>9
  DEF PushAction, PushStep, BeginPush, RefuseDuplicate, PassDedupe,
      RefuseUnapproved, PassGate, InsertLog, LogConflict, Simulate,
      ZohoReplies, RequestTimesOut, Apply, ApplyConflict, ZohoAccepts,
      ZohoFails, CrashPush
<1>10. ASSUME StaffAction PROVE del' = del \/ del'[d].pc = "idle"
  <2>1. Configure => del'[d].pc = "idle"
    BY DEF Configure, NotDeleting
  <2>2. ~Configure => del' = del
    BY <1>10 DEF StaffAction, SetStatus, DecideApproval, OpenForm, SaveForm
  <2> QED BY <2>1, <2>2
<1>11. ASSUME UNCHANGED vars PROVE del' = del BY <1>11 DEF vars
<1> QED
  BY <1>1, <1>2, <1>3, <1>4, <1>5, <1>6, <1>7, <1>8, <1>9, <1>10, <1>11
  DEF Next, DeleteAction, DeleteStep

(* The tables of records change at three steps only.                       *)
Kept == UNCHANGED <<quantity, soNumber, dedupe, syncLogs, notes, audit>>

LEMMA TableSteps ==
  ASSUME TypeOK, NoEdits, [Next]_vars
  PROVE  /\ quantity' = quantity
         /\ \/ Kept
            \/ \E p \in Pushers : Apply(p)
            \/ \E d \in Deleters : CommitClear(d) \/ RemoveNote(d)
<1>1. ASSUME NEW p \in Pushers, PushAction(p)
      PROVE  quantity' = quantity /\ (Kept \/ Apply(p))
  BY <1>1
  DEF PushAction, PushStep, BeginPush, RefuseDuplicate, PassDedupe,
      RefuseUnapproved, PassGate, InsertLog, LogConflict, Simulate,
      ZohoReplies, RequestTimesOut, Apply, ApplyConflict, ZohoAccepts,
      ZohoFails, CrashPush, AfterRollback, database, Kept
<1>2. ASSUME NEW d \in Deleters, DeleteAction(d)
      PROVE  quantity' = quantity /\ (Kept \/ CommitClear(d) \/ RemoveNote(d))
  BY <1>2
  DEF DeleteAction, DeleteStep, BeginDelete, LoadClaim, NoteMissing, FindNote,
      DeleteDedupe, DeleteLogs, CommitClear, RemoveNote, CrashDelete, database, Kept
<1>3. ASSUME StaffAction PROVE quantity' = quantity /\ Kept
  BY <1>3 DEF NoEdits, StaffAction, SetStatus, DecideApproval, OpenForm, SaveForm,
     Configure, database, Kept
<1>4. ASSUME UNCHANGED vars PROVE quantity' = quantity /\ Kept
  BY <1>4 DEF vars, database, Kept
<1> QED BY <1>1, <1>2, <1>3, <1>4 DEF Next
-----------------------------------------------------------------------------
LEMMA KeysStep ==
  ASSUME TypeOK, NoEdits, KeysInv, [Next]_vars
  PROVE  KeysInv'
<1>0. quantity' = quantity BY TableSteps
<1>1. ASSUME NEW p \in Pushers, push'[p].pc # "idle"
      PROVE  push'[p].qty = quantity[push'[p].claim]
  <2>1. ASSUME NEW c \in Claims, NEW a \in Actors, BeginPush(p, c, a)
        PROVE  push'[p].qty = quantity[push'[p].claim]
    BY <2>1 DEF BeginPush, TypeOK
  <2>2. CASE SameRequest(p) /\ Advance(p)
    <3>1. push[p].pc # "idle"
      BY <2>2 DEF Advance, PassDedupe, PassGate, InsertLog, ZohoAccepts, Simulate,
         ZohoReplies
    <3> QED BY <2>2, <3>1 DEF SameRequest, KeysInv
  <2> QED BY <1>1, <2>1, <2>2, PushSteps DEF KeysInv
<1>2. ASSUME NEW d \in Deleters, del'[d].pc \in ClearPhases
      PROVE  del'[d].qty = quantity[del'[d].claim]
  <2>1. CASE Loads(d) BY <2>1 DEF Loads
  <2>2. CASE SameUndo(d) /\ (Finds(d) \/ Undoes(d))
    <3>1. del[d].pc \in ClearPhases
      BY <2>2 DEF Finds, Undoes, FindNote, DeleteDedupe, DeleteLogs, CommitClear,
         ClearPhases
    <3> QED BY <2>2, <3>1 DEF SameUndo, KeysInv
  <2> QED BY <1>2, <2>1, <2>2, DelSteps DEF KeysInv, ClearPhases
<1>3. /\ \A k \in dedupe' : k = <<k[1], quantity[k[1]]>>
      /\ \A l \in syncLogs' : l.key = <<l.key[1], quantity[l.key[1]]>>
  <2>1. ASSUME NEW p \in Pushers, Apply(p)
        PROVE  /\ \A k \in dedupe' : k = <<k[1], quantity[k[1]]>>
               /\ \A l \in syncLogs' : l.key = <<l.key[1], quantity[l.key[1]]>>
    <3>1. Key(p) = <<push[p].claim, quantity[push[p].claim]>>
      BY <2>1 DEF Apply, KeysInv, Key, _fingerprint
    <3>2. dedupe' = dedupe \cup {Key(p)} BY <2>1 DEF Apply
    <3>3. syncLogs' = syncLogs \cup {LogRow(p, "success")} BY <2>1 DEF Apply
    <3>4. LogRow(p, "success").key = Key(p) BY DEF LogRow
    <3> QED BY <3>1, <3>2, <3>3, <3>4 DEF KeysInv, Current
  <2>2. CASE dedupe' \subseteq dedupe /\ syncLogs' \subseteq syncLogs
    BY <2>2 DEF KeysInv, Current
  <2>3. ASSUME NEW d \in Deleters, CommitClear(d) \/ RemoveNote(d)
        PROVE  dedupe' \subseteq dedupe /\ syncLogs' \subseteq syncLogs
    BY <2>3 DEF CommitClear, RemoveNote, DedupeAfterClear, LogsAfterClear
  <2> QED BY <2>1, <2>2, <2>3, TableSteps DEF Kept
<1> QED BY <1>0, <1>1, <1>2, <1>3 DEF KeysInv, Current

LEMMA AuditSteps ==
  ASSUME [Next]_vars
  PROVE  \/ audit' = audit
         \/ \E p \in Pushers : Apply(p) /\ audit' = audit \cup {PushNote(p)}
<1>1. ASSUME NEW p \in Pushers, PushAction(p)
      PROVE  audit' = audit \/ (Apply(p) /\ audit' = audit \cup {PushNote(p)})
  BY <1>1
  DEF PushAction, PushStep, BeginPush, RefuseDuplicate, PassDedupe,
      RefuseUnapproved, PassGate, InsertLog, LogConflict, Simulate,
      ZohoReplies, RequestTimesOut, Apply, AuditRows, ApplyConflict, ZohoAccepts,
      ZohoFails, CrashPush, database
<1>2. ASSUME NEW d \in Deleters, DeleteAction(d) PROVE audit' = audit
  BY <1>2
  DEF DeleteAction, DeleteStep, BeginDelete, LoadClaim, NoteMissing, FindNote,
      DeleteDedupe, DeleteLogs, CommitClear, RemoveNote, CrashDelete, database
<1>3. ASSUME StaffAction PROVE audit' = audit
  BY <1>3 DEF StaffAction, SetStatus, DecideApproval, OpenForm, SaveForm,
     Configure, database
<1>4. ASSUME UNCHANGED vars PROVE audit' = audit BY <1>4 DEF vars, database
<1> QED BY <1>1, <1>2, <1>3, <1>4 DEF Next

(* The number of attempts grows by those that begin.                       *)
LEMMA AttemptSteps ==
  ASSUME TypeOK, [Next]_vars
  PROVE  \/ attempts' = attempts
         \/ \E p \in Pushers, c \in Claims, a \in Actors : BeginPush(p, c, a)
<1>1. ASSUME NEW p \in Pushers, PushAction(p),
             ~ \E c \in Claims, a \in Actors : BeginPush(p, c, a)
      PROVE  attempts' = attempts
  BY <1>1
  DEF PushAction, PushStep, RefuseDuplicate, PassDedupe,
      RefuseUnapproved, PassGate, InsertLog, LogConflict, Simulate,
      ZohoReplies, RequestTimesOut, Apply, ApplyConflict, ZohoAccepts,
      ZohoFails, CrashPush
<1>2. ASSUME NEW d \in Deleters, DeleteAction(d) PROVE attempts' = attempts
  BY <1>2
  DEF DeleteAction, DeleteStep, BeginDelete, LoadClaim, NoteMissing, FindNote,
      DeleteDedupe, DeleteLogs, CommitClear, RemoveNote, CrashDelete
<1>3. ASSUME StaffAction PROVE attempts' = attempts
  BY <1>3 DEF StaffAction, SetStatus, DecideApproval, OpenForm, SaveForm, Configure
<1>4. ASSUME UNCHANGED vars PROVE attempts' = attempts BY <1>4 DEF vars
<1> QED BY <1>1, <1>2, <1>3, <1>4 DEF Next

LEMMA AttemptStep ==
  ASSUME TypeOK, NoEdits, AttemptInv, [Next]_vars
  PROVE  AttemptInv'
<1> DEFINE Open(p) == push[p].pc # "idle"
           Open1(p) == push'[p].pc # "idle"
<1>0. /\ attempts \in Nat /\ attempts' \in Nat
      /\ \A p \in Pushers : Open(p) => push[p].attempt \in Nat
      /\ \A r \in audit : r.attempt \in Nat
  <2>1. TypeOK' BY TypeStep
  <2>2. \A p \in Pushers : Open(p) => push[p].attempt \in Attempt
    BY ActivePush DEF ActivePushes, EarlyPushes, ApplyingPushes
  <2>3. \A r \in audit : r.attempt \in Attempt BY DEF TypeOK, Notes
  <2> QED BY <2>1, <2>2, <2>3, BoundsAssumption DEF TypeOK, Attempt
<1>1. ASSUME NEW p \in Pushers, NEW c \in Claims, NEW a \in Actors,
             BeginPush(p, c, a)
      PROVE  /\ attempts' = attempts + 1 /\ push'[p].attempt = attempts'
             /\ \A o \in Pushers \ {p} : push'[o] = push[o]
             /\ audit' = audit /\ del' = del
  BY <1>1 DEF BeginPush, TypeOK, database
<1>2. ASSUME ~ \E p \in Pushers, c \in Claims, a \in Actors : BeginPush(p, c, a)
      PROVE  /\ attempts' = attempts
             /\ \A p \in Pushers : Open1(p) =>
                  Open(p) /\ push'[p].attempt = push[p].attempt
  <2>1. attempts' = attempts BY <1>2, AttemptSteps
  <2>2. ASSUME NEW p \in Pushers, Open1(p)
        PROVE  Open(p) /\ push'[p].attempt = push[p].attempt
    <3>1. CASE SameRequest(p) /\ Advance(p)
      BY <3>1 DEF SameRequest, Advance, PassDedupe, PassGate, InsertLog, ZohoAccepts,
         Simulate, ZohoReplies
    <3> QED BY <1>2, <2>2, <3>1, PushSteps
  <2> QED BY <2>1, <2>2
<1>3. attempts <= attempts'
  BY <1>0, <1>1, <1>2
<1>4. ASSUME NEW p \in Pushers, Open1(p)
      PROVE  /\ push'[p].attempt <= attempts'
             /\ \A o \in Pushers \ {p} :
                  Open1(o) => push'[o].attempt # push'[p].attempt
             /\ \A r \in audit' : r.attempt # push'[p].attempt
  <2>1. ASSUME NEW q \in Pushers, NEW c \in Claims, NEW a \in Actors,
               BeginPush(q, c, a)
        PROVE  /\ push'[p].attempt <= attempts'
               /\ \A o \in Pushers \ {p} :
                    Open1(o) => push'[o].attempt # push'[p].attempt
               /\ \A r \in audit' : r.attempt # push'[p].attempt
    <3>1. /\ attempts' = attempts + 1 /\ push'[q].attempt = attempts'
          /\ \A o \in Pushers \ {q} : push'[o] = push[o]
          /\ audit' = audit
      BY <1>1, <2>1
    <3> QED BY <1>0, <1>4, <3>1 DEF AttemptInv
  <2>2. CASE ~ \E q \in Pushers, c \in Claims, a \in Actors : BeginPush(q, c, a)
    <3>1. /\ attempts' = attempts
          /\ \A o \in Pushers : Open1(o) =>
               Open(o) /\ push'[o].attempt = push[o].attempt
      BY <1>2, <2>2
    <3>2. ASSUME NEW r \in audit' PROVE r.attempt # push'[p].attempt
      <4>1. CASE r \in audit BY <1>4, <3>1, <4>1 DEF AttemptInv
      <4>2. ASSUME NEW q \in Pushers, Apply(q), r = PushNote(q)
            PROVE  r.attempt # push'[p].attempt
        <5>1. push'[q].pc = "idle" BY <4>2, AnswerFields DEF Apply
        <5>2. q # p /\ Open(q) BY <1>4, <4>2, <5>1 DEF Apply
        <5>3. r.attempt = push[q].attempt BY <4>2 DEF PushNote
        <5> QED BY <1>4, <3>1, <5>2, <5>3 DEF AttemptInv
      <4> QED BY <3>2, <4>1, <4>2, AuditSteps
    <3> QED BY <1>4, <3>1, <3>2 DEF AttemptInv
  <2> QED BY <2>1, <2>2
<1>5. ASSUME NEW r \in audit' PROVE r.attempt <= attempts'
  <2>1. CASE r \in audit BY <1>0, <1>3, <2>1 DEF AttemptInv
  <2>2. ASSUME NEW q \in Pushers, Apply(q), r = PushNote(q)
        PROVE  r.attempt <= attempts'
    <3>1. Open(q) /\ r.attempt = push[q].attempt BY <2>2 DEF Apply, PushNote
    <3> QED BY <1>0, <1>3, <3>1 DEF AttemptInv
  <2> QED BY <1>5, <2>1, <2>2, AuditSteps
<1>6. ASSUME NEW d \in Deleters, del'[d].pc # "idle"
      PROVE  del'[d].note \in audit' /\ del'[d].claim = del'[d].note.claim
  <2>1. audit \subseteq audit' BY AuditGrows
  <2>2. CASE Loads(d) BY <2>1, <2>2 DEF Loads, LoadClaim, AttemptInv
  <2>3. CASE SameUndo(d) /\ (Finds(d) \/ Undoes(d))
    BY <2>1, <2>3 DEF SameUndo, Finds, Undoes, FindNote, DeleteDedupe, DeleteLogs,
       CommitClear, AttemptInv
  <2> QED BY <1>6, <2>1, <2>2, <2>3, DelSteps DEF AttemptInv
<1> QED BY <1>4, <1>5, <1>6 DEF AttemptInv
-----------------------------------------------------------------------------
(* The three steps that write the records, in terms of what is current.    *)
LEMMA Applies ==
  ASSUME TypeOK, NoEdits, KeysInv, NEW p \in Pushers, Apply(p)
  PROVE  LET c == push[p].claim IN
         /\ c \in Claims /\ push[p].so \in {"sim", "real"}
         /\ Key(p) = Current(c) /\ Current(c) \notin dedupe
         /\ soNumber'[c] = push[p].so
         /\ \A b \in Claims \ {c} : soNumber'[b] = soNumber[b]
         /\ dedupe' = dedupe \cup {Current(c)}
         /\ \E l : l.key = Current(c) /\ syncLogs' = syncLogs \cup {l}
<1>1. push[p] \in ApplyingPushes BY ActivePush DEF Apply
<1>2. push[p].claim \in Claims /\ push[p].so \in {"sim", "real"}
  BY <1>1 DEF ApplyingPushes
<1>3. Key(p) = Current(push[p].claim)
  BY DEF Apply, KeysInv, Key, _fingerprint, Current
<1>4. LogRow(p, "success").key = Key(p) BY DEF LogRow
<1>5. /\ soNumber' = [soNumber EXCEPT ![push[p].claim] = push[p].so]
      /\ dedupe' = dedupe \cup {Key(p)} /\ Key(p) \notin dedupe
      /\ syncLogs' = syncLogs \cup {LogRow(p, "success")}
  BY DEF Apply
<1>6. /\ soNumber'[push[p].claim] = push[p].so
      /\ \A b \in Claims \ {push[p].claim} : soNumber'[b] = soNumber[b]
  BY <1>2, <1>5 DEF TypeOK
<1> QED BY <1>2, <1>3, <1>4, <1>5, <1>6

LEMMA Clears ==
  ASSUME TypeOK, UndoInv, NEW d \in Deleters, CommitClear(d)
  PROVE  LET c == del[d].claim IN
         /\ c \in Claims /\ soNumber[c] = "sim"
         /\ soNumber'[c] = ""
         /\ \A b \in Claims \ {c} : soNumber'[b] = soNumber[b]
         /\ dedupe' = dedupe \ {Current(c)}
         /\ syncLogs' = {l \in syncLogs : l.key[1] # c}
<1>1. del[d] \in Clearing BY ActiveDelete DEF CommitClear, ClearPhases
<1>2. del[d].claim \in Claims BY <1>1 DEF Clearing
<1>3. /\ soNumber[del[d].claim] = "sim"
      /\ del[d].goneDedupe = {Current(del[d].claim)}
      /\ del[d].goneLogs = LogsOf(del[d].claim)
  BY DEF CommitClear, UndoInv, Undoing
<1>4. /\ soNumber' = [soNumber EXCEPT ![del[d].claim] = ""]
      /\ dedupe' = dedupe \ del[d].goneDedupe
      /\ syncLogs' = syncLogs \ del[d].goneLogs
  BY DEF CommitClear, DedupeAfterClear, LogsAfterClear
<1>5. /\ soNumber'[del[d].claim] = ""
      /\ \A b \in Claims \ {del[d].claim} : soNumber'[b] = soNumber[b]
  BY <1>2, <1>4 DEF TypeOK
<1>6. syncLogs' = {l \in syncLogs : l.key[1] # del[d].claim}
  BY <1>3, <1>4 DEF LogsOf
<1> QED BY <1>2, <1>3, <1>4, <1>5, <1>6

(* While no clear commits, a claim with a number keeps its records: a push *)
(* that would write them meets its dedupe row.                             *)
LEMMA FileStays ==
  ASSUME TypeOK, NoEdits, KeysInv, AgreeInv, [Next]_vars,
         ~ \E d \in Deleters : CommitClear(d),
         NEW c \in Claims, soNumber[c] # ""
  PROVE  soNumber'[c] = soNumber[c] /\ LogsOf(c)' = LogsOf(c)
<1>1. ASSUME NEW p \in Pushers, Apply(p)
      PROVE  soNumber'[c] = soNumber[c] /\ LogsOf(c)' = LogsOf(c)
  <2>1. push[p].claim # c
    BY <1>1, Applies DEF AgreeInv
  <2>2. soNumber'[c] = soNumber[c] BY <1>1, <2>1, Applies
  <2>3. PICK l : l.key = Current(push[p].claim) /\ syncLogs' = syncLogs \cup {l}
    BY <1>1, Applies
  <2>4. Current(push[p].claim)[1] = push[p].claim BY DEF Current
  <2>5. l.key[1] # c BY <2>1, <2>3, <2>4
  <2> QED BY <2>2, <2>3, <2>5 DEF LogsOf
<1>2. ASSUME NEW d \in Deleters, RemoveNote(d)
      PROVE  soNumber'[c] = soNumber[c] /\ LogsOf(c)' = LogsOf(c)
  BY <1>2 DEF RemoveNote, LogsOf
<1>3. ASSUME Kept PROVE soNumber'[c] = soNumber[c] /\ LogsOf(c)' = LogsOf(c)
  BY <1>3 DEF Kept, LogsOf
<1> QED BY <1>1, <1>2, <1>3, TableSteps
-----------------------------------------------------------------------------
LEMMA AgreeStep ==
  ASSUME TypeOK, NoEdits, KeysInv, UndoInv, AgreeInv, [Next]_vars
  PROVE  AgreeInv'
<1>0. \A c \in Claims : Current(c)' = Current(c) BY TableSteps DEF Current
<1> DEFINE Agree(c) ==
      /\ soNumber'[c] # "" <=> Current(c) \in dedupe'
      /\ (\E l \in syncLogs' : l.key = Current(c)) <=> Current(c) \in dedupe'
<1>1. ASSUME UNCHANGED <<soNumber, dedupe, syncLogs>>, NEW b \in Claims
      PROVE  Agree(b)
  BY <1>1 DEF AgreeInv
<1>2. ASSUME NEW p \in Pushers, Apply(p), NEW b \in Claims PROVE Agree(b)
  <2> DEFINE c == push[p].claim
  <2>1. PICK l : l.key = Current(c) /\ syncLogs' = syncLogs \cup {l}
    BY <1>2, Applies
  <2>2. CASE b = c BY <1>2, <2>1, <2>2, Applies
  <2>3. CASE b # c
    <3>1. Current(b) # Current(c) BY <2>3 DEF Current
    <3>2. /\ soNumber'[b] = soNumber[b]
          /\ Current(b) \in dedupe' <=> Current(b) \in dedupe
      BY <1>2, <2>3, <3>1, Applies
    <3>3. (\E m \in syncLogs' : m.key = Current(b))
            <=> \E m \in syncLogs : m.key = Current(b)
      BY <2>1, <3>1
    <3> QED BY <3>2, <3>3 DEF AgreeInv
  <2> QED BY <2>2, <2>3
<1>3. ASSUME NEW d \in Deleters, CommitClear(d), NEW b \in Claims PROVE Agree(b)
  <2> DEFINE c == del[d].claim
  <2>1. /\ soNumber'[c] = "" /\ dedupe' = dedupe \ {Current(c)}
        /\ \A x \in Claims \ {c} : soNumber'[x] = soNumber[x]
        /\ syncLogs' = {l \in syncLogs : l.key[1] # c}
    BY <1>3, Clears
  <2>2. Current(c)[1] = c /\ Current(b)[1] = b BY DEF Current
  <2>3. CASE b = c
    <3>1. ~ \E l \in syncLogs' : l.key = Current(c) BY <2>1, <2>2
    <3> QED BY <2>1, <2>3, <3>1
  <2>4. CASE b # c
    <3>1. Current(b) # Current(c) BY <2>2, <2>4
    <3>2. /\ soNumber'[b] = soNumber[b]
          /\ Current(b) \in dedupe' <=> Current(b) \in dedupe
      BY <2>1, <2>4, <3>1
    <3>3. (\E m \in syncLogs' : m.key = Current(b))
            <=> \E m \in syncLogs : m.key = Current(b)
      BY <2>1, <2>2, <2>4
    <3> QED BY <3>2, <3>3 DEF AgreeInv
  <2> QED BY <2>3, <2>4
<1>4. ASSUME NEW b \in Claims PROVE Agree(b)
  <2>1. ASSUME NEW d \in Deleters, RemoveNote(d)
        PROVE  UNCHANGED <<soNumber, dedupe, syncLogs>>
    BY <2>1 DEF RemoveNote
  <2>2. ASSUME Kept PROVE UNCHANGED <<soNumber, dedupe, syncLogs>>
    BY <2>2 DEF Kept
  <2> HIDE DEF Agree
  <2> QED BY <1>1, <1>2, <1>3, <2>1, <2>2, TableSteps
<1> QED BY <1>0, <1>4 DEF AgreeInv

LEMMA UndoStep ==
  ASSUME TypeOK, DeletersTakeTurns, NoEdits, KeysInv, UndoInv, AgreeInv, [Next]_vars
  PROVE  UndoInv'
<1> SUFFICES ASSUME NEW d \in Deleters
             PROVE  /\ Undoing(d)' => del'[d].so = "sim"
                    /\ (Undoing(d)' \/ del'[d].pc = "find") /\ del'[d].so = "sim" =>
                         soNumber'[del'[d].claim] = "sim"
                    /\ del'[d].pc \in {"logs", "commit"} =>
                         del'[d].goneDedupe = {<<del'[d].claim, quantity'[del'[d].claim]>>}
                    /\ del'[d].pc = "commit" =>
                         del'[d].goneLogs = {l \in syncLogs' : l.key[1] = del'[d].claim}
  BY DEF UndoInv, Undoing, Current, LogsOf
<1>9. PICK c : c = del[d].claim OBVIOUS
<1>0. quantity' = quantity BY TableSteps
<1>1. CASE Undoing(d)' \/ del'[d].pc = "find"
  <2>1. CASE del'[d] = del[d]
    <3>1. ~ \E e \in Deleters : CommitClear(e)
      <4>1. ASSUME CommitClear(d) PROVE FALSE
        <5> DEFINE r == del[d]
                   s == [r EXCEPT !.pc = "note", !.goneDedupe = {}, !.goneLogs = {}]
        <5>1. r.pc = "commit" /\ r \in Clearing
          BY <4>1, ActiveDelete DEF CommitClear, ClearPhases
        <5>2. del'[d] = s BY <4>1 DEF CommitClear, TypeOK
        <5> HIDE DEF r
        <5>3. s.pc = "note" BY <5>1 DEF Clearing
        <5> QED BY <2>1, <5>1, <5>2, <5>3 DEF r
      <4> QED BY <4>1 DEF DeletersTakeTurns
    <3>2. c \in Claims
      BY <1>1, <1>9, <2>1, ActiveDelete DEF Undoing, ClearPhases, Clearing
    <3>3. soNumber[c] = "sim" => soNumber'[c] = "sim" /\ LogsOf(c)' = LogsOf(c)
      BY <3>1, <3>2, FileStays
    <3> QED BY <1>0, <1>9, <2>1, <3>3 DEF UndoInv, Undoing, Current, LogsOf
  <2>2. CASE Loads(d)
    <3>1. soNumber' = soNumber BY <2>2 DEF Loads, LoadClaim, database
    <3> QED BY <2>2, <3>1 DEF Loads, Undoing
  <2>3. CASE SameUndo(d) /\ Finds(d)
    <3>1. soNumber' = soNumber /\ del[d].pc = "find"
      BY <2>3 DEF Finds, FindNote, database
    <3> QED BY <1>1, <1>9, <2>3, <3>1 DEF SameUndo, Finds, Undoing, UndoInv
  <2>4. CASE SameUndo(d) /\ Undoes(d)
    <3>1. del'[d].pc \in {"logs", "commit", "note"} BY <2>4 DEF Undoes
    <3>2. DeleteDedupe(d) \/ DeleteLogs(d)
      BY <1>1, <2>4, <3>1 DEF Undoes, Undoing
    <3>3. UNCHANGED <<soNumber, syncLogs>> /\ Undoing(d)
      BY <3>2 DEF DeleteDedupe, DeleteLogs, database, Undoing
    <3>4. /\ del'[d].so = "sim" /\ soNumber'[c] = "sim" /\ del'[d].claim = c
          /\ c \in Claims /\ del[d].qty = quantity[c]
      BY <1>9, <2>4, <3>3, ActiveDelete
      DEF UndoInv, SameUndo, Undoing, ClearPhases, Clearing, KeysInv
    <3>5. CASE DeleteDedupe(d) /\ del'[d].pc = "logs"
      <4>1. Current(c) \in dedupe BY <3>3, <3>4 DEF AgreeInv
      <4>2. del'[d].goneDedupe = dedupe \cap {Current(c)}
        BY <1>9, <2>4, <3>4, <3>5 DEF Undoes, Current, DeleteDedupe, DeleteLogs, CommitClear
      <4> QED BY <1>0, <3>4, <3>5, <4>1, <4>2 DEF Current
    <3>6. CASE DeleteLogs(d) /\ del'[d].pc = "commit"
      <4>1. /\ del'[d].goneDedupe = {Current(c)}
            /\ del'[d].goneLogs = LogsOf(c)
        BY <1>9, <2>4, <3>6 DEF Undoes, DeleteDedupe, DeleteLogs, CommitClear, UndoInv
      <4> QED BY <1>0, <3>3, <3>4, <3>6, <4>1 DEF Current, LogsOf
    <3> QED BY <1>1, <2>4, <3>5, <3>6 DEF Undoes, Undoing
  <2> QED BY <1>1, <2>1, <2>2, <2>3, <2>4, DelSteps DEF Undoing
<1> QED BY <1>1 DEF Undoing

(* The note of a simulated number outlives every step but those that undo  *)
(* the number first: an attempt writes a note no page shows yet, and a     *)
(* deleter that has found the note does the undo before it removes it.     *)
LEMMA NotesStep ==
  ASSUME TypeOK, NoEdits, KeysInv, AttemptInv, UndoInv, NotesInv, [Next]_vars
  PROVE  NotesInv'
<1> SUFFICES ASSUME NEW c \in Claims, soNumber'[c] = "sim" PROVE HasNote(c)'
  BY DEF NotesInv
<1>1. ASSUME NEW p \in Pushers, Apply(p), push[p].claim = c PROVE HasNote(c)'
  <2> DEFINE m == PushNote(p)
  <2>1. m.claim = c /\ m.so = "sim" /\ m.attempt = push[p].attempt
    BY <1>1, Applies DEF PushNote
  <2>2. m \in notes' /\ del' = del /\ push[p].pc # "idle" BY <1>1 DEF Apply
  <2>3. ASSUME NEW d \in Deleters, del[d].pc # "idle" PROVE del[d].note # m
    BY <2>1, <2>2, <2>3 DEF AttemptInv
  <2> HIDE DEF m
  <2>4. \A d \in Deleters : del'[d].pc \in {"find", "note"} => del'[d].note # m
    BY <2>2, <2>3
  <2> QED BY <2>1, <2>2, <2>4 DEF HasNote, Safe
<1>2. ASSUME ~ \E p \in Pushers : Apply(p) /\ push[p].claim = c PROVE HasNote(c)'
  <2>1. soNumber[c] = "sim"
    <3>1. ASSUME NEW p \in Pushers, Apply(p) PROVE soNumber[c] = "sim"
      BY <1>2, <3>1, Applies
    <3>2. ASSUME NEW d \in Deleters, CommitClear(d) PROVE soNumber[c] = "sim"
      BY <3>2, Clears
    <3>3. NoEdits => ~FormSaved
      BY DEF NoEdits, FormSaved
    <3> QED BY <3>1, <3>2, <3>3, NumberSteps
  <2>2. PICK m \in notes : m.claim = c /\ m.so = "sim" /\ Safe(m)
    BY <2>1 DEF NotesInv, HasNote
  <2>3. m \in notes'
    <3>1. ASSUME NEW p \in Pushers, Apply(p) PROVE m \in notes' BY <3>1 DEF Apply
    <3>2. ASSUME NEW d \in Deleters, CommitClear(d) PROVE m \in notes'
      BY <3>2 DEF CommitClear
    <3>3. ASSUME NEW d \in Deleters, RemoveNote(d) PROVE m \in notes'
      BY <2>2, <3>3 DEF RemoveNote, Safe
    <3> QED BY <3>1, <3>2, <3>3, TableSteps DEF Kept
  <2>4. ASSUME NEW d \in Deleters, del'[d].pc \in {"find", "note"}, del'[d].note = m
        PROVE  del'[d].pc = "find" /\ del'[d].so = "sim"
    <3>1. CASE del'[d] = del[d] BY <2>2, <2>4, <3>1 DEF Safe
    <3>2. CASE Loads(d)
      BY <2>1, <2>2, <2>4, <3>2 DEF Loads, LoadClaim, AttemptInv
    <3>3. CASE SameUndo(d) /\ Finds(d)
      BY <2>2, <2>4, <3>3 DEF SameUndo, Finds, FindNote, Safe
    <3>4. CASE SameUndo(d) /\ Undoes(d)
      <4>1. CommitClear(d) BY <2>4, <3>4 DEF Undoes
      <4>2. del[d].claim = c
        BY <2>2, <2>4, <3>4, <4>1 DEF CommitClear, AttemptInv, SameUndo
      <4> QED BY <4>1, <4>2, Clears
    <3> QED BY <2>4, <3>1, <3>2, <3>3, <3>4, DelSteps
  <2> QED BY <2>2, <2>3, <2>4 DEF HasNote, Safe
<1> QED BY <1>1, <1>2

LEMMA FileInit ==
  ASSUME Init PROVE FileInv
<1>1. /\ \A p \in Pushers : push[p].pc = "idle"
      /\ \A d \in Deleters : del[d].pc = "idle"
      /\ \A c \in Claims : soNumber[c] = ""
      /\ dedupe = {} /\ syncLogs = {} /\ audit = {}
  BY DEF Init, Idle, NotDeleting
<1>2. KeysInv /\ AttemptInv BY <1>1 DEF KeysInv, AttemptInv, ClearPhases
<1>3. UndoInv BY <1>1 DEF UndoInv, Undoing
<1>4. AgreeInv /\ NotesInv BY <1>1 DEF AgreeInv, NotesInv
<1> QED BY <1>2, <1>3, <1>4 DEF FileInv

LEMMA FileStep ==
  ASSUME TypeOK, DeletersTakeTurns, NoEdits, FileInv, [Next]_vars
  PROVE  FileInv'
BY KeysStep, AttemptStep, UndoStep, AgreeStep, NotesStep DEF FileInv

LEMMA Filed ==
  ASSUME DeletersTakeTurns, NoEdits
  PROVE  Spec => []FileInv
<1>1. TypeOK /\ FileInv /\ [Next]_vars => FileInv' BY FileStep
<1> QED BY <1>1, FileInit, TypeCorrect, PTL DEF Spec

(* With one note-deleter at a time and no admin edits, whatever else       *)
(* interleaves, is lost or is killed, the number on a claim, its dedupe    *)
(* row and its sync log come and go together, and a simulated number       *)
(* always has a note whose deletion undoes it.                             *)
THEOREM Agreement ==
  ASSUME DeletersTakeTurns, NoEdits
  PROVE  Spec => []RecordsAgree
<1>1. FileInv => RecordsAgree
  <2> SUFFICES ASSUME FileInv, NEW c \in Claims
               PROVE  /\ soNumber[c] # "" <=> \E k \in dedupe : k[1] = c
                      /\ {l.key : l \in LogsOf(c)} = {k \in dedupe : k[1] = c}
                      /\ soNumber[c] = "sim" =>
                           \E n \in notes : n.claim = c /\ n.so = "sim"
    BY DEF RecordsAgree
  <2>1. Current(c)[1] = c BY DEF Current
  <2>2. \A k \in dedupe : k[1] = c <=> k = Current(c)
    BY <2>1 DEF FileInv, KeysInv
  <2>3. \A l \in syncLogs : l.key[1] = c <=> l.key = Current(c)
    BY <2>1 DEF FileInv, KeysInv
  <2>4. /\ soNumber[c] # "" <=> Current(c) \in dedupe
        /\ (\E l \in syncLogs : l.key = Current(c)) <=> Current(c) \in dedupe
    BY DEF FileInv, AgreeInv
  <2>5. soNumber[c] # "" <=> \E k \in dedupe : k[1] = c BY <2>2, <2>4
  <2>6. {l.key : l \in LogsOf(c)} = {k \in dedupe : k[1] = c}
    <3>1. LogsOf(c) = {l \in syncLogs : l.key = Current(c)} BY <2>3 DEF LogsOf
    <3>2. {k \in dedupe : k[1] = c} = {k \in dedupe : k = Current(c)} BY <2>2
    <3> QED BY <2>4, <3>1, <3>2
  <2>7. soNumber[c] = "sim" => \E n \in notes : n.claim = c /\ n.so = "sim"
    BY DEF FileInv, NotesInv, HasNote
  <2> QED BY <2>5, <2>6, <2>7
<1> QED BY <1>1, Filed, PTL

LEMMA RealKept ==
  ASSUME TypeOK, NoEdits, FileInv, [Next]_vars, NEW c \in Claims,
         soNumber[c] = "real"
  PROVE  soNumber'[c] = "real"
<1>1. ASSUME NEW d \in Deleters, CommitClear(d) PROVE soNumber'[c] = "real"
  BY <1>1, Clears DEF FileInv
<1> QED BY <1>1, FileStays DEF FileInv

(* Under the same discipline no step takes a real number off its claim:    *)
(* what an undo found simulated is still simulated when it commits.        *)
THEOREM RealStays ==
  ASSUME DeletersTakeTurns, NoEdits
  PROVE  Spec => RealNumberStays
<1> DEFINE Stays == \A c \in Claims : soNumber[c] = "real" => soNumber'[c] = "real"
<1>1. TypeOK /\ FileInv /\ [Next]_vars => [Stays]_vars
  BY RealKept
<1> QED BY <1>1, Filed, TypeCorrect, PTL DEF Spec, RealNumberStays
-----------------------------------------------------------------------------
(* Nothing is lost or killed: what a push past the insert can meet.        *)
LEMMA KeyFree ==
  ASSUME KeysInv, AgreeInv, PushExclusive, NEW p \in Pushers, Uncommitted(p),
         push[p].claim \in Claims
  PROVE  /\ Key(p) = Current(push[p].claim)
         /\ Key(p) \notin dedupe /\ soNumber[push[p].claim] = ""
<1>1. Key(p) = Current(push[p].claim)
  BY DEF KeysInv, Key, _fingerprint, Current, Uncommitted
<1>2. ~ \E l \in syncLogs : l.key = Key(p) BY DEF PushExclusive
<1> QED BY <1>1, <1>2 DEF AgreeInv

(* A push that holds an order's key can only go on and record the order.   *)
LEMMA HolderGoesOn ==
  ASSUME TypeOK, NoFaults, FileInv, PushExclusive, configured, [Next]_vars,
         NEW p \in Pushers, Holds(p)
  PROVE  \/ Apply(p)
         \/ Holds(p)' /\ push'[p].attempt = push[p].attempt /\ Key(p)' = Key(p)
<1>0. push[p].claim \in Claims BY RowsTyped DEF Holds
<1>1. Key(p) \notin dedupe /\ soNumber[push[p].claim] = ""
  BY <1>0, KeyFree DEF Holds, Uncommitted, FileInv
<1>2. ASSUME NEW d \in Deleters PROVE ~Deadlocked(p, d)
  <2> SUFFICES ASSUME Deadlocked(p, d) PROVE FALSE
    OBVIOUS
  <2>1. del[d].pc = "commit" /\ Key(p) \in del[d].goneDedupe BY DEF Deadlocked
  <2>2. Key(p) = Current(del[d].claim) /\ soNumber[del[d].claim] = "sim"
    BY <2>1 DEF FileInv, UndoInv, Undoing
  <2>3. Key(p)[1] = push[p].claim /\ Current(del[d].claim)[1] = del[d].claim
    BY DEF Key, _fingerprint, Current
  <2> QED BY <1>1, <2>2, <2>3
<1>3. ~ApplyConflict(p) BY <1>1, <1>2 DEF ApplyConflict
<1>4. ~ZohoFails(p) /\ ~RequestTimesOut(p) /\ ~CrashPush(p) /\ ~Configure
  BY DEF NoFaults, Holds, ZohoFails, RequestTimesOut, Waiting, CrashPush, Configure
<1>5. /\ ~RefuseDuplicate(p) /\ ~RefuseUnapproved(p) /\ ~LogConflict(p)
      /\ ~PassDedupe(p) /\ ~PassGate(p) /\ ~InsertLog(p) /\ ~Simulate(p)
      /\ ~ZohoAccepts(p) /\ ~ \E c \in Claims, a \in Actors : BeginPush(p, c, a)
  BY DEF Holds, RefuseDuplicate, RefuseUnapproved, LogConflict, PassDedupe,
     PassGate, InsertLog, Simulate, ZohoAccepts, BeginPush
<1>6. CASE push'[p] = push[p]
  BY <1>6 DEF Holds, Key, _fingerprint
<1>7. CASE ZohoReplies(p)
  <2>1. SameRequest(p) /\ push'[p].pc = "apply"
    BY <1>7, NumberedSame DEF ZohoReplies
  <2> QED BY <2>1 DEF Holds, SameRequest, Key, _fingerprint
<1>8. ASSUME NEW o \in Pushers, PushAction(o), o # p PROVE push'[p] = push[p]
  BY <1>8, OthersStay
<1>9. ASSUME NEW d \in Deleters, DeleteAction(d) PROVE push' = push
  BY <1>9
  DEF DeleteAction, DeleteStep, BeginDelete, LoadClaim, NoteMissing, FindNote,
      DeleteDedupe, DeleteLogs, CommitClear, RemoveNote, CrashDelete
<1>10. ASSUME StaffAction PROVE push' = push
  BY <1>4, <1>10 DEF StaffAction, SetStatus, DecideApproval, OpenForm, SaveForm
<1>11. ASSUME UNCHANGED vars PROVE push' = push BY <1>11 DEF vars
<1>12. PushAction(p) => Apply(p) \/ ZohoReplies(p)
  BY <1>3, <1>4, <1>5 DEF PushAction, PushStep
<1> QED BY <1>6, <1>7, <1>8, <1>9, <1>10, <1>11, <1>12 DEF Next

LEMMA ConfiguredSteps ==
  ASSUME [Next]_vars
  PROVE  configured' = configured \/ Configure
<1>1. ASSUME NEW p \in Pushers, PushAction(p) PROVE configured' = configured
  BY <1>1
  DEF PushAction, PushStep, BeginPush, RefuseDuplicate, PassDedupe,
      RefuseUnapproved, PassGate, InsertLog, LogConflict, Simulate,
      ZohoReplies, RequestTimesOut, Apply, ApplyConflict, ZohoAccepts,
      ZohoFails, CrashPush
<1>2. ASSUME NEW d \in Deleters, DeleteAction(d) PROVE configured' = configured
  BY <1>2
  DEF DeleteAction, DeleteStep, BeginDelete, LoadClaim, NoteMissing, FindNote,
      DeleteDedupe, DeleteLogs, CommitClear, RemoveNote, CrashDelete
<1>3. ASSUME StaffAction PROVE configured' = configured \/ Configure
  BY <1>3 DEF StaffAction, SetStatus, DecideApproval, OpenForm, SaveForm
<1>4. ASSUME UNCHANGED vars PROVE configured' = configured BY <1>4 DEF vars
<1> QED BY <1>1, <1>2, <1>3, <1>4 DEF Next

(* The order Zoho takes is the claim's first: no earlier one is on file or *)
(* on its way.                                                             *)
LEMMA FirstOrder ==
  ASSUME TypeOK, FileInv, PlacedInv, PushExclusive, NEW p \in Pushers, ZohoAccepts(p)
  PROVE  /\ push[p].claim \in Claims /\ soNumber[push[p].claim] = ""
         /\ Key(p) = Current(push[p].claim)
         /\ \A o \in placed : o.key # Key(p)
<1>1. Uncommitted(p) /\ ~Holds(p) /\ push[p].pc # "idle"
  BY DEF ZohoAccepts, Uncommitted, Holds
<1>2. push[p].claim \in Claims BY <1>1, RowsTyped
<1>3. Key(p) = Current(push[p].claim) /\ soNumber[push[p].claim] = ""
  BY <1>1, <1>2, KeyFree DEF FileInv
<1>4. ASSUME NEW o \in placed, o.key = Key(p) PROVE FALSE
  <2>1. o.key[1] = push[p].claim BY <1>4 DEF Key, _fingerprint
  <2>2. ~RealFile(o) BY <1>3, <2>1 DEF RealFile
  <2>3. PICK q \in Pushers : HeldBy(o, q) BY <2>2 DEF PlacedInv
  <2>4. Uncommitted(q) /\ Key(q) = Key(p) /\ q # p
    BY <1>1, <1>4, <2>3 DEF HeldBy, Holds, Uncommitted
  <2> QED BY <1>1, <2>4 DEF PushExclusive
<1> QED BY <1>2, <1>3, <1>4

LEMMA OrderAdded ==
  ASSUME NEW p \in Pushers, ZohoAccepts(p)
  PROVE  \E o : /\ placed' = placed \cup {o} /\ o.key = Key(p)
                /\ o.attempt = push[p].attempt
<1> DEFINE o == [attempt |-> push[p].attempt, key |-> Key(p), actor |-> push[p].actor]
<1>1. placed' = placed \cup {o} BY DEF ZohoAccepts
<1>2. o.key = Key(p) /\ o.attempt = push[p].attempt OBVIOUS
<1> HIDE DEF o
<1> QED BY <1>1, <1>2

(* A taken order is held by its push.                                      *)
LEMMA Accepted ==
  ASSUME TypeOK, NEW p \in Pushers, ZohoAccepts(p)
  PROVE  /\ Holds(p)' /\ Key(p)' = Key(p) /\ push'[p].attempt = push[p].attempt
         /\ push'[p].pc = "accepted"
<1>1. SameRequest(p) /\ push'[p].pc = "accepted"
  BY GotoSame DEF ZohoAccepts
<1> QED BY <1>1 DEF Holds, SameRequest, Key, _fingerprint

LEMMA PlacedStep ==
  ASSUME TypeOK, NoEdits, NoFaults, FileInv, PushExclusive, PlacedInv, [Next]_vars
  PROVE  PlacedInv'
<1> USE DEF PlacedInv
<1>1. placed' # {} => configured'
  BY PlacedSteps, ConfiguredSteps DEF Configure, ZohoAccepts
<1>2. placed \subseteq placed' BY PlacedSteps, OrderAdded
<1>3. ASSUME NEW p \in Pushers
      PROVE  /\ push'[p].pc = "accepted" => configured'
             /\ push'[p].pc = "apply" => (push'[p].so = "real" <=> configured')
             /\ Holds(p)' /\ configured' => \E o \in placed' : o.key = Key(p)'
  <2>1. CASE push'[p].pc = "idle" BY <2>1 DEF Holds
  <2>2. CASE configured' = configured /\ push'[p] = push[p]
    BY <1>2, <2>2 DEF Holds, Key, _fingerprint
  <2>3. CASE Configure BY <2>1, <2>3 DEF Configure
  <2>4. ASSUME NEW c \in Claims, NEW a \in Actors, BeginPush(p, c, a)
        PROVE  push'[p].pc = "dedupe"
    BY <2>4 DEF BeginPush, TypeOK
  <2>5. CASE SameRequest(p) /\ Advance(p) /\ configured' = configured
    <3>1. Key(p)' = Key(p) BY <2>5 DEF SameRequest, Key, _fingerprint
    <3>2. CASE push'[p].pc \notin {"accepted", "apply"} BY <3>2 DEF Holds
    <3>3. CASE ZohoAccepts(p)
      BY <2>5, <3>1, <3>3, Accepted, OrderAdded DEF ZohoAccepts
    <3>4. CASE Simulate(p) /\ push'[p].pc = "apply" /\ push'[p].so = "sim"
      BY <2>5, <3>4 DEF Simulate
    <3>5. CASE ZohoReplies(p) /\ push'[p].pc = "apply" /\ push'[p].so = "real"
      BY <1>2, <2>5, <3>1, <3>5 DEF ZohoReplies, Holds
    <3> QED BY <2>5, <3>2, <3>3, <3>4, <3>5 DEF Advance
  <2> QED BY <2>1, <2>2, <2>3, <2>4, <2>5, PushSteps, ConfiguredSteps DEF Holds
<1>4. \A c \in Claims : Current(c)' = Current(c) BY TableSteps DEF Current
<1>5. \A o \in placed : o.key[1] \in Claims
  BY DEF TypeOK, Orders, Fingerprints
<1>6. audit \subseteq audit' BY AuditGrows
<1>7. ASSUME NEW o \in placed
      PROVE  RealFile(o)' \/ \E p \in Pushers : HeldBy(o, p)'
  <2>1. CASE RealFile(o)
    BY <1>5, <1>6, <2>1, RealKept DEF RealFile
  <2>2. ASSUME NEW p \in Pushers, HeldBy(o, p)
        PROVE  RealFile(o)' \/ HeldBy(o, p)'
    <3>1. CASE Apply(p)
      <4>1. o.key[1] = push[p].claim BY <2>2 DEF HeldBy, Key, _fingerprint
      <4>2. push[p].so = "real" BY <3>1 DEF Apply
      <4>3. soNumber'[push[p].claim] = "real"
        BY <3>1, <4>2, Applies DEF FileInv
      <4>4. PushNote(p) \in audit' BY <3>1 DEF Apply, AuditRows
      <4>5. PushNote(p).attempt = o.attempt /\ PushNote(p).so = "real"
        BY <2>2, <4>2 DEF PushNote, HeldBy
      <4> QED BY <4>1, <4>3, <4>4, <4>5 DEF RealFile
    <3>2. CASE Holds(p)' /\ push'[p].attempt = push[p].attempt /\ Key(p)' = Key(p)
      BY <2>2, <3>2 DEF HeldBy
    <3> QED BY <2>2, <3>1, <3>2, HolderGoesOn DEF HeldBy
  <2> QED BY <2>1, <2>2
<1>8. CASE placed' = placed
  BY <1>1, <1>3, <1>4, <1>5, <1>7, <1>8
<1>9. ASSUME NEW p \in Pushers, ZohoAccepts(p) PROVE PlacedInv'
  <2>1. PICK n : /\ placed' = placed \cup {n} /\ n.key = Key(p)
                 /\ n.attempt = push[p].attempt
    BY <1>9, OrderAdded
  <2>2. HeldBy(n, p)' BY <1>9, <2>1, Accepted DEF HeldBy
  <2>3. /\ Key(p) = Current(push[p].claim) /\ push[p].claim \in Claims
        /\ \A o \in placed : o.key # Key(p)
    BY <1>9, FirstOrder
  <2>4. n.key[1] = push[p].claim BY <2>1, <2>3 DEF Key, _fingerprint
  <2>5. \A o \in placed' : o.key = Current(o.key[1])'
    BY <1>4, <1>5, <2>1, <2>3, <2>4
  <2>6. \A o \in placed' : RealFile(o)' \/ \E q \in Pushers : HeldBy(o, q)'
    BY <1>7, <2>1, <2>2
  <2>7. \A o1, o2 \in placed' : o1.key = o2.key => o1 = o2
    BY <2>1, <2>3
  <2> QED BY <1>1, <1>3, <2>5, <2>6, <2>7
<1> QED BY <1>8, <1>9, PlacedSteps

LEMMA Placed ==
  ASSUME DeletersTakeTurns, NoEdits, NoFaults
  PROVE  Spec => []PlacedInv
<1>1. Init => PlacedInv
  <2>1. ASSUME Init PROVE placed = {} /\ \A p \in Pushers : push[p].pc = "idle"
    BY <2>1 DEF Init, Idle
  <2> QED BY <2>1 DEF PlacedInv, Holds
<1>2. TypeOK /\ FileInv /\ PushExclusive /\ PlacedInv /\ [Next]_vars => PlacedInv'
  BY PlacedStep
<1> QED BY <1>1, <1>2, Filed, Exclusion, TypeCorrect, PTL DEF Spec

(* Where besides no answer is lost and nothing is killed, every order that *)
(* exists in Zoho is on its claim's file, under its attempt's audit row,   *)
(* or its push still holds the key: deadlocks, conflicts and undos lose    *)
(* none.                                                                   *)
THEOREM Accounted ==
  ASSUME DeletersTakeTurns, NoEdits, NoFaults
  PROVE  Spec => []OrdersAccountedFor
<1>1. PlacedInv => OrdersAccountedFor
  BY DEF PlacedInv, OrdersAccountedFor, RealFile, HeldBy, Holds
<1> QED BY <1>1, Placed, PTL

(* NoDuplicateOrder allows admin edits and no deletion; here notes are     *)
(* deleted, and numbers undone and pushed again, by one deleter at a time. *)
THEOREM NoDuplicateWithUndo ==
  ASSUME DeletersTakeTurns, NoEdits, NoFaults
  PROVE  Spec => []OneOrderPerFingerprint
<1>1. PlacedInv => OneOrderPerFingerprint
  <2> SUFFICES ASSUME PlacedInv, NEW k \in Fingerprints
               PROVE  Cardinality(OrdersFor(k)) <= 1
    BY DEF OneOrderPerFingerprint
  <2>1. CASE OrdersFor(k) = {} BY <2>1, FS_EmptySet
  <2>2. ASSUME NEW o \in OrdersFor(k) PROVE Cardinality(OrdersFor(k)) <= 1
    <3>1. OrdersFor(k) = {o} BY <2>2 DEF OrdersFor, PlacedInv
    <3>2. Cardinality({o}) = 1 BY FS_Singleton
    <3> QED BY <3>1, <3>2
  <2> QED BY <2>1, <2>2
<1> QED BY <1>1, Placed, PTL
-----------------------------------------------------------------------------
(* The ledger's count of a claim's orders.                                 *)
LEMMA OrderCount ==
  ASSUME PlacedInv, NEW c \in Claims
  PROVE  /\ Cardinality(OrdersOf(c)) = 0 <=> \A o \in placed : o.key # Current(c)
         /\ Cardinality(OrdersOf(c)) = 1 <=> \E o \in placed : o.key = Current(c)
<1>1. Current(c)[1] = c BY DEF Current
<1>2. OrdersOf(c) = {o \in placed : o.key = Current(c)}
  BY <1>1 DEF PlacedInv, OrdersOf
<1>3. CASE OrdersOf(c) = {}
  <2>1. Cardinality(OrdersOf(c)) = 0 BY <1>3, FS_EmptySet
  <2>2. \A o \in placed : o.key # Current(c) BY <1>2, <1>3
  <2> QED BY <2>1, <2>2
<1>4. ASSUME NEW o \in OrdersOf(c)
      PROVE  Cardinality(OrdersOf(c)) = 1 /\ o \in placed /\ o.key = Current(c)
  <2>1. o \in placed /\ o.key = Current(c) BY <1>2, <1>4
  <2>2. OrdersOf(c) = {o} BY <1>2, <1>4, <2>1 DEF PlacedInv
  <2>3. Cardinality({o}) = 1 BY FS_Singleton
  <2> QED BY <2>1, <2>2, <2>3
<1> QED BY <1>3, <1>4

(* Three steps move the ledger: the order taken, the number recorded, the  *)
(* simulated number undone.                                                *)
LedgerOrders == [c \in Claims |-> Cardinality(OrdersOf(c))]

LEMMA PlaceStep ==
  ASSUME TypeOK, FileInv, PlacedInv, PushExclusive, NEW p \in Pushers, ZohoAccepts(p)
  PROVE  \E c \in Claims : Ledger!Place(c)
<1> DEFINE c == push[p].claim
<1>1. /\ c \in Claims /\ soNumber[c] = "" /\ Key(p) = Current(c)
      /\ \A o \in placed : o.key # Key(p)
  BY FirstOrder
<1>2. PICK n : placed' = placed \cup {n} /\ n.key = Key(p) BY OrderAdded
<1>3. Current(c)[1] = c BY DEF Current
<1>4. Cardinality(OrdersOf(c)) = 0 BY <1>1, OrderCount
<1>5. OrdersOf(c) = {}
  BY <1>1, <1>3 DEF OrdersOf, PlacedInv
<1>6. PICK b : b = c OBVIOUS
<1> HIDE DEF c
<1>7. OrdersOf(b)' = {n} BY <1>1, <1>2, <1>3, <1>5, <1>6 DEF OrdersOf
<1>8. \A x \in Claims \ {b} : OrdersOf(x)' = OrdersOf(x)
  BY <1>1, <1>2, <1>3, <1>6 DEF OrdersOf
<1>9. Cardinality({n}) = 1 BY FS_Singleton
<1>10. LedgerOrders' = [LedgerOrders EXCEPT ![b] = 1]
  BY <1>1, <1>6, <1>7, <1>8, <1>9 DEF LedgerOrders
<1>11. LedgerOrders[b] = 0 BY <1>1, <1>4, <1>6 DEF LedgerOrders
<1>12. soNumber' = soNumber BY DEF ZohoAccepts, database
<1> QED BY <1>1, <1>6, <1>10, <1>11, <1>12 DEF Ledger!Place, LedgerOrders

LEMMA RecordStep ==
  ASSUME TypeOK, FileInv, PlacedInv, PushExclusive, NoEdits,
         NEW p \in Pushers, Apply(p)
  PROVE  \E c \in Claims : Ledger!RecordReal(c) \/ Ledger!RecordSimulated(c)
<1> DEFINE c == push[p].claim
<1>1. /\ c \in Claims /\ push[p].so \in {"sim", "real"} /\ Key(p) = Current(c)
      /\ Current(c) \notin dedupe
  BY Applies DEF FileInv
<1>2. soNumber[c] = "" BY <1>1 DEF FileInv, AgreeInv
<1>3. soNumber' = [soNumber EXCEPT ![c] = push[p].so] BY DEF Apply
<1>4. placed' = placed /\ LedgerOrders' = LedgerOrders
  BY DEF Apply, LedgerOrders, OrdersOf
<1>5. CASE push[p].so = "real"
  <2>1. \E o \in placed : o.key = Current(c)
    BY <1>1, <1>5 DEF Apply, PlacedInv, Holds
  <2>2. LedgerOrders[c] = 1 BY <1>1, <2>1, OrderCount DEF LedgerOrders
  <2> QED BY <1>1, <1>2, <1>3, <1>4, <1>5, <2>2 DEF Ledger!RecordReal, LedgerOrders
<1>6. CASE push[p].so = "sim"
  <2>1. placed = {} BY <1>6 DEF Apply, PlacedInv
  <2>2. LedgerOrders[c] = 0 BY <1>1, <2>1, OrderCount DEF LedgerOrders
  <2> QED
    BY <1>1, <1>2, <1>3, <1>4, <1>6, <2>2 DEF Ledger!RecordSimulated, LedgerOrders
<1> QED BY <1>1, <1>5, <1>6

LEMMA UndoneStep ==
  ASSUME TypeOK, FileInv, NEW d \in Deleters, CommitClear(d)
  PROVE  \E c \in Claims : Ledger!Undo(c)
<1>1. del[d].claim \in Claims /\ soNumber[del[d].claim] = "sim"
  BY Clears DEF FileInv
<1>2. soNumber' = [soNumber EXCEPT ![del[d].claim] = ""] BY DEF CommitClear
<1>3. LedgerOrders' = LedgerOrders BY DEF CommitClear, LedgerOrders, OrdersOf
<1> QED BY <1>1, <1>2, <1>3 DEF Ledger!Undo, LedgerOrders

(* Where one administrator at a time deletes notes, nobody edits a claim   *)
(* in the admin site and nothing is lost or killed, the pushes and undos   *)
(* implement OrderLedger: at most one order for a claim, a real number     *)
(* only after it and for good, and only simulated numbers undone.          *)
THEOREM Refinement ==
  ASSUME DeletersTakeTurns, NoEdits, NoFaults
  PROVE  Spec => ImplementsLedger
<1>1. Init => Ledger!LedgerInit
  <2>1. ASSUME Init, NEW c \in Claims PROVE Cardinality(OrdersOf(c)) = 0
    <3>1. OrdersOf(c) = {} BY <2>1 DEF Init, OrdersOf
    <3> QED BY <3>1, FS_EmptySet
  <2> QED BY <2>1 DEF Init, Ledger!LedgerInit
<1>2. ASSUME TypeOK, FileInv, PlacedInv, PushExclusive, [Next]_vars
      PROVE  [Ledger!LedgerNext]_(Ledger!ledger)
  <2>1. ASSUME NEW p \in Pushers, ZohoAccepts(p) PROVE Ledger!LedgerNext
    BY <1>2, <2>1, PlaceStep DEF Ledger!LedgerNext
  <2>2. ASSUME NEW p \in Pushers, Apply(p) PROVE Ledger!LedgerNext
    BY <1>2, <2>2, RecordStep DEF Ledger!LedgerNext
  <2>3. ASSUME NEW d \in Deleters, CommitClear(d) PROVE Ledger!LedgerNext
    BY <1>2, <2>3, UndoneStep DEF Ledger!LedgerNext
  <2>4. ASSUME placed' = placed, soNumber' = soNumber
        PROVE  UNCHANGED Ledger!ledger
    BY <2>4 DEF Ledger!ledger, OrdersOf
  <2>5. NoEdits => ~FormSaved
    BY DEF NoEdits, FormSaved
  <2> QED BY <1>2, <2>1, <2>2, <2>3, <2>4, <2>5, PlacedSteps, NumberSteps
<1>3. TypeOK /\ FileInv /\ PlacedInv /\ PushExclusive /\ [Next]_vars
      => [Ledger!LedgerNext]_(Ledger!ledger)
  BY <1>2
<1> QED
  BY <1>1, <1>3, TypeCorrect, Exclusion, Filed, Placed, PTL
  DEF Spec, ImplementsLedger, Ledger!LedgerSpec
=============================================================================
