--------------------------- MODULE WorkingOnProofs ---------------------------
(***************************************************************************)
(* Theorems about WorkingOn, for every set of staff and requests and any   *)
(* number of signals and crashes.                                          *)
(***************************************************************************)
EXTENDS WorkingOn, FiniteSetTheorems, TLAPS

LEMMA BusyHandling ==
  ASSUME TypeOK, NEW r \in Requests, ~At(r, "idle")
  PROVE  req[r] \in Handling
BY DEF TypeOK, At, Idle

LEMMA PostTyped ==
  ASSUME TypeOK, NEW r \in Requests, ~At(r, "idle")
  PROVE  Post(r) \in Posts
BY BusyHandling DEF Post, Posts, By, Handling

(* Moving a request on leaves the table of requests typed.                 *)
LEMMA GotoTyped ==
  ASSUME TypeOK, NEW r \in Requests, ~At(r, "idle"),
         NEW pc \in {"noteKey", "setNoteKey", "note", "quote", "ticket",
                     "pingKey", "setPingKey", "ping"},
         NEW w \in Nat,
         req' \in {[req EXCEPT ![r] = [req[r] EXCEPT !.pc = pc]],
                   [req EXCEPT ![r] = [req[r] EXCEPT !.pc = pc, !.window = w]]}
  PROVE  req' \in [Requests -> {Idle} \cup Handling]
<1>1. req[r] \in Handling BY BusyHandling
<1>2. /\ [req[r] EXCEPT !.pc = pc] \in Handling
      /\ [req[r] EXCEPT !.pc = pc, !.window = w] \in Handling
  BY <1>1 DEF Handling
<1> QED BY <1>2 DEF TypeOK

LEMMA TypeStep ==
  ASSUME TypeOK, [Next]_vars
  PROVE  TypeOK'
<1> USE DEF ticket, keys
<1>1. ASSUME NEW r \in Requests, NEW u \in Staff, NEW t \in BOOLEAN,
             Begin(r, u, t)
      PROVE  TypeOK'
  <2>1. signals + 1 \in 1 .. MaxSignals /\ signals' \in 0 .. MaxSignals
    BY <1>1, BoundsAssumption DEF Begin, TypeOK
  <2>2. [pc |-> "noteKey", by |-> u, signal |-> signals + 1, telegram |-> t,
         seenStatus |-> status, seenAssignee |-> assignee, window |-> 0]
          \in Handling
    BY <2>1 DEF Handling, TypeOK
  <2>3. req' \in [Requests -> {Idle} \cup Handling]
    BY <1>1, <2>2 DEF Begin, TypeOK
  <2> QED BY <1>1, <2>1, <2>3 DEF Begin, TypeOK
<1>2. ASSUME NEW r \in Requests, SignalStep(r) \/ Crash(r)
      PROVE  TypeOK'
  <2>0. ~At(r, "idle") /\ req[r] \in Handling /\ Post(r) \in Posts
    BY <1>2, BusyHandling, PostTyped DEF At, SignalStep, GetNoteKey, SetNoteKey,
       WriteNote, QuoteMessage, SaveTicket, GetPingKey, SetPingKey, TellTeam, Crash
  <2>1. By(r) \in Staff /\ window[By(r)].note \in Nat /\ window[By(r)].ping \in Nat
    BY <2>0 DEF By, Handling, TypeOK
  <2>2. CASE GetNoteKey(r)
    <3>1. req' \in [Requests -> {Idle} \cup Handling]
      BY <2>0, <2>2, GotoTyped DEF GetNoteKey, Goto, AfterNoteKey
    <3> QED BY <2>2, <3>1 DEF GetNoteKey, TypeOK
  <2>3. CASE SetNoteKey(r)
    <3>1. req' \in [Requests -> {Idle} \cup Handling]
      <4>1. req' = [req EXCEPT ![r] =
              [req[r] EXCEPT !.pc = "note", !.window = window[By(r)].note]]
        BY <2>3 DEF SetNoteKey
      <4> QED BY <2>0, <2>1, <4>1, GotoTyped
    <3> QED BY <2>1, <2>3, <3>1 DEF SetNoteKey, TypeOK
  <2>4. CASE WriteNote(r)
    <3>1. req' \in [Requests -> {Idle} \cup Handling]
      BY <2>0, <2>4, GotoTyped DEF WriteNote, Goto
    <3>2. notes' \in [accepted : SUBSET Posts, quoted : SUBSET Posts]
      BY <2>0, <2>4 DEF WriteNote, TypeOK
    <3> QED BY <2>4, <3>1, <3>2 DEF WriteNote, TypeOK
  <2>5. CASE QuoteMessage(r)
    <3>1. req' \in [Requests -> {Idle} \cup Handling]
      BY <2>0, <2>5, GotoTyped DEF QuoteMessage, Goto
    <3>2. notes' \in [accepted : SUBSET Posts, quoted : SUBSET Posts]
      BY <2>0, <2>5 DEF QuoteMessage, TypeOK
    <3> QED BY <2>5, <3>1, <3>2 DEF QuoteMessage, TypeOK
  <2>6. CASE SaveTicket(r)
    <3>1. req' \in [Requests -> {Idle} \cup Handling]
      BY <2>0, <2>6, GotoTyped DEF SaveTicket, Goto
    <3>2. status' \in TicketStatus /\ assignee' \in Staff \cup {Nobody}
      BY <2>1, <2>6 DEF SaveTicket, SavedStatus, SavedAssignee, TypeOK, TicketStatus
    <3> QED BY <2>6, <3>1, <3>2 DEF SaveTicket, TypeOK
  <2>7. CASE GetPingKey(r)
    <3>1. req' \in [Requests -> {Idle} \cup Handling]
      <4>1. CASE Limited(By(r), pingKeys)
        BY <2>7, <4>1 DEF GetPingKey, TypeOK
      <4>2. CASE ~Limited(By(r), pingKeys)
        BY <2>0, <2>7, <4>2, GotoTyped DEF GetPingKey, Goto
      <4> QED BY <4>1, <4>2
    <3> QED BY <2>7, <3>1 DEF GetPingKey, TypeOK
  <2>8. CASE SetPingKey(r)
    <3>1. req' \in [Requests -> {Idle} \cup Handling]
      <4>1. req' = [req EXCEPT ![r] =
              [req[r] EXCEPT !.pc = "ping", !.window = window[By(r)].ping]]
        BY <2>8 DEF SetPingKey
      <4> QED BY <2>0, <2>1, <4>1, GotoTyped
    <3> QED BY <2>1, <2>8, <3>1 DEF SetPingKey, TypeOK
  <2>9. CASE TellTeam(r)
    BY <2>0, <2>9 DEF TellTeam, TypeOK
  <2>10. CASE Crash(r)
    <3>1. crashes' \in 0 .. MaxCrashes
      BY <2>10, BoundsAssumption DEF Crash, TypeOK
    <3>2. lost' \subseteq Staff BY <2>1, <2>10 DEF Crash, TypeOK
    <3> QED BY <2>10, <3>1, <3>2 DEF Crash, TypeOK
  <2> QED BY <1>2, <2>2, <2>3, <2>4, <2>5, <2>6, <2>7, <2>8, <2>9, <2>10
       DEF SignalStep
<1>3. ASSUME NEW u \in Staff, NoteKeyExpires(u) \/ PingKeyExpires(u)
      PROVE  TypeOK'
  <2>1. window' \in [Staff -> [note : Nat, ping : Nat]]
    BY <1>3 DEF NoteKeyExpires, PingKeyExpires, TypeOK
  <2> QED BY <1>3, <2>1 DEF NoteKeyExpires, PingKeyExpires, TypeOK
<1>4. ASSUME NEW s \in OtherStatuses, SetStatus(s) PROVE TypeOK'
  BY <1>4 DEF SetStatus, TypeOK, TicketStatus
<1>5. CASE UNCHANGED vars BY <1>5 DEF vars, TypeOK
<1> QED BY <1>1, <1>2, <1>3, <1>4, <1>5 DEF Next

(* Rows, keys and requests hold values of their types, for any number of   *)
(* users, requests and signals.                                            *)
THEOREM TypeCorrect == Spec => []TypeOK
<1>1. Init => TypeOK
  <2> SUFFICES ASSUME Init PROVE TypeOK OBVIOUS
  <2>1. signals \in 0 .. MaxSignals /\ crashes \in 0 .. MaxCrashes
    BY BoundsAssumption DEF Init
  <2> QED BY <2>1 DEF Init, TypeOK, TicketStatus
<1>2. TypeOK /\ [Next]_vars => TypeOK' BY TypeStep
<1> QED BY <1>1, <1>2, PTL DEF Spec
-----------------------------------------------------------------------------
(* What a step leaves of the request's record.                             *)
Same(r) == /\ req'[r].by = req[r].by /\ req'[r].signal = req[r].signal
           /\ req'[r].seenAssignee = req[r].seenAssignee

LEMMA SignalStepFields ==
  ASSUME TypeOK, NEW r \in Requests, SignalStep(r)
  PROVE  /\ ~At(r, "idle") /\ req[r] \in Handling
         /\ \A o \in Requests \ {r} : req'[o] = req[o]
         /\ req'[r].pc # "idle" => Same(r)
         /\ GetNoteKey(r) => req'[r].pc = AfterNoteKey(r)
         /\ SetNoteKey(r) => /\ req'[r].pc = "note"
                             /\ req'[r].window = window[By(r)].note
         /\ WriteNote(r) => req'[r].pc \in {"quote", "ticket"}
         /\ QuoteMessage(r) => req'[r].pc = "ticket"
         /\ SaveTicket(r) => req'[r].pc = "pingKey"
         /\ GetPingKey(r) =>
              req'[r].pc = IF Limited(By(r), pingKeys) THEN "idle" ELSE "setPingKey"
         /\ SetPingKey(r) => /\ req'[r].pc = "ping"
                             /\ req'[r].window = window[By(r)].ping
         /\ TellTeam(r) => req'[r].pc = "idle"
<1>1. ~At(r, "idle") /\ req[r] \in Handling
  BY BusyHandling DEF At, SignalStep, GetNoteKey, SetNoteKey, WriteNote,
     QuoteMessage, SaveTicket, GetPingKey, SetPingKey, TellTeam
<1>2. \A o \in Requests \ {r} : req'[o] = req[o]
  BY DEF TypeOK, SignalStep, GetNoteKey, SetNoteKey, WriteNote, QuoteMessage,
     SaveTicket, GetPingKey, SetPingKey, TellTeam, Goto
<1> USE <1>1 DEF TypeOK, Handling, Goto, Same, Idle
<1>3. GetNoteKey(r) => req'[r].pc = AfterNoteKey(r) /\ Same(r)
  BY DEF GetNoteKey, AfterNoteKey
<1>4. SetNoteKey(r) => /\ req'[r].pc = "note" /\ Same(r)
                       /\ req'[r].window = window[By(r)].note
  BY DEF SetNoteKey
<1>5. WriteNote(r) => req'[r].pc \in {"quote", "ticket"} /\ Same(r)
  BY DEF WriteNote
<1>6. QuoteMessage(r) => req'[r].pc = "ticket" /\ Same(r)
  BY DEF QuoteMessage
<1>7. SaveTicket(r) => req'[r].pc = "pingKey" /\ Same(r)
  BY DEF SaveTicket
<1>8. GetPingKey(r) =>
        IF Limited(By(r), pingKeys) THEN req'[r].pc = "idle"
        ELSE req'[r].pc = "setPingKey" /\ Same(r)
  BY DEF GetPingKey
<1>9. SetPingKey(r) => /\ req'[r].pc = "ping" /\ Same(r)
                       /\ req'[r].window = window[By(r)].ping
  BY DEF SetPingKey
<1>10. TellTeam(r) => req'[r].pc = "idle"
  BY DEF TellTeam
<1> QED BY <1>1, <1>2, <1>3, <1>4, <1>5, <1>6, <1>7, <1>8, <1>9, <1>10
     DEF SignalStep
-----------------------------------------------------------------------------
(* A note of the user's is written, or about to be, or was lost.           *)
Noted(u) ==
  \/ \E n \in notes.accepted : n.by = u
  \/ \E r \in Requests : At(r, "note") /\ By(r) = u
  \/ u \in lost

NoteInv ==
  /\ assignee # Nobody => Noted(assignee)
  /\ \A u \in noteKeys : Noted(u)
  /\ \A r \in Requests : req[r].pc \in {"quote", "ticket"} => Noted(By(r))

(* Once a note is certain it stays so: a request that goes on writes it,   *)
(* and one that is killed leaves its user to lost.                         *)
LEMMA NotedStays ==
  ASSUME TypeOK, [Next]_vars, NEW u, Noted(u)
  PROVE  Noted(u)'
<1> USE DEF Noted, At, By
<1>1. notes.accepted \subseteq notes'.accepted /\ lost \subseteq lost'
  BY DEF Next, vars, Begin, SignalStep, GetNoteKey, SetNoteKey, WriteNote,
     QuoteMessage, SaveTicket, GetPingKey, SetPingKey, TellTeam, Crash,
     NoteKeyExpires, PingKeyExpires, SetStatus, TypeOK
<1>2. ASSUME NEW r \in Requests, At(r, "note"), By(r) = u
      PROVE  Noted(u)'
  <2>1. CASE req'[r] = req[r] BY <1>2, <2>1
  <2>2. CASE WriteNote(r)
    <3>1. Post(r) \in notes'.accepted
      BY <2>2 DEF WriteNote, TypeOK
    <3>2. Post(r).by = u BY <1>2 DEF Post
    <3> QED BY <3>1, <3>2
  <2>3. CASE Crash(r)
    BY <1>2, <2>3 DEF Crash
  <2>4. req'[r] = req[r] \/ WriteNote(r) \/ Crash(r)
    <3>1. ASSUME NEW o \in Requests, SignalStep(o) \/ Crash(o), ~WriteNote(r),
                 ~Crash(r)
          PROVE  req'[r] = req[r]
      <4>1. o # r
        BY <1>2, <3>1 DEF SignalStep, GetNoteKey, SetNoteKey, QuoteMessage,
           SaveTicket, GetPingKey, SetPingKey, TellTeam
      <4>2. CASE SignalStep(o) BY <4>1, <4>2, SignalStepFields
      <4>3. CASE Crash(o) BY <4>1, <4>3 DEF Crash, TypeOK
      <4> QED BY <3>1, <4>2, <4>3
    <3>2. ASSUME NEW o \in Requests, NEW v \in Staff, NEW t \in BOOLEAN,
                 Begin(o, v, t)
          PROVE  req'[r] = req[r]
      BY <1>2, <3>2 DEF Begin, TypeOK
    <3>3. CASE UNCHANGED req BY <3>3
    <3> QED BY <3>1, <3>2, <3>3 DEF Next, vars, NoteKeyExpires, PingKeyExpires,
         SetStatus
  <2> QED BY <2>1, <2>2, <2>3, <2>4
<1> QED BY <1>1, <1>2

LEMMA NoteStep ==
  ASSUME TypeOK, NoteInv, [Next]_vars
  PROVE  NoteInv'
<1> USE DEF NoteInv, At, By, ticket, keys
<1>0. \A u : Noted(u) => Noted(u)' BY NotedStays
<1>1. ASSUME NEW r \in Requests, SignalStep(r) PROVE NoteInv'
  <2>1. /\ req[r] \in Handling
        /\ \A o \in Requests \ {r} : req'[o] = req[o]
        /\ req'[r].pc # "idle" => req'[r].by = req[r].by
    BY <1>1, SignalStepFields DEF Same
  <2>2. \A o \in Requests \ {r} :
          req'[o].pc \in {"quote", "ticket"} => Noted(By(o))'
    BY <1>0, <2>1
  <2>3. CASE GetNoteKey(r)
    <3>1. req'[r].pc = AfterNoteKey(r) BY <1>1, <2>3, SignalStepFields
    <3>2. req'[r].pc \in {"quote", "ticket"} => Noted(req[r].by)
      BY <3>1 DEF AfterNoteKey, Limited
    <3> QED BY <1>0, <2>1, <2>2, <2>3, <3>2 DEF GetNoteKey
  <2>4. CASE SetNoteKey(r)
    <3>1. req'[r].pc = "note" BY <1>1, <2>4, SignalStepFields
    <3>2. Noted(req[r].by)' BY <2>1, <3>1 DEF Noted
    <3> QED BY <1>0, <2>1, <2>2, <2>4, <3>1, <3>2 DEF SetNoteKey
  <2>5. CASE WriteNote(r)
    <3>1. Noted(req[r].by) BY <2>5 DEF WriteNote, Noted
    <3> QED BY <1>0, <1>1, <2>1, <2>2, <2>5, <3>1 DEF WriteNote
  <2>6. CASE QuoteMessage(r)
    <3>1. Noted(req[r].by) BY <2>6 DEF QuoteMessage
    <3> QED BY <1>0, <2>1, <2>2, <2>6, <3>1 DEF QuoteMessage
  <2>7. CASE SaveTicket(r)
    <3>1. /\ Noted(req[r].by) /\ noteKeys' = noteKeys
          /\ assignee' \in {assignee, req[r].by}
      BY <2>7 DEF SaveTicket, SavedAssignee
    <3> QED BY <1>0, <2>1, <2>2, <3>1
  <2>8. CASE GetPingKey(r) \/ SetPingKey(r) \/ TellTeam(r)
    <3>1. /\ noteKeys' = noteKeys /\ assignee' = assignee
          /\ req'[r].pc \notin {"quote", "ticket"}
      BY <1>1, <2>8, SignalStepFields DEF GetPingKey, SetPingKey, TellTeam
    <3> QED BY <1>0, <2>1, <2>2, <3>1
  <2> QED BY <1>1, <2>3, <2>4, <2>5, <2>6, <2>7, <2>8 DEF SignalStep
<1>2. ASSUME NEW r \in Requests,
             Crash(r) \/ \E u \in Staff, t \in BOOLEAN : Begin(r, u, t)
      PROVE  NoteInv'
  <2>1. /\ noteKeys' = noteKeys /\ assignee' = assignee
        /\ req'[r].pc \notin {"quote", "ticket"}
        /\ \A o \in Requests \ {r} : req'[o] = req[o]
    BY <1>2 DEF Crash, Begin, TypeOK, Idle
  <2> QED BY <1>0, <2>1
<1>3. CASE \/ \E u \in Staff : NoteKeyExpires(u) \/ PingKeyExpires(u)
           \/ \E s \in OtherStatuses : SetStatus(s)
           \/ UNCHANGED vars
  <2>1. noteKeys' \subseteq noteKeys /\ assignee' = assignee /\ req' = req
    BY <1>3 DEF NoteKeyExpires, PingKeyExpires, SetStatus, vars
  <2> QED BY <1>0, <2>1
<1> QED BY <1>1, <1>2, <1>3 DEF Next

(* Whoever a signal assigned has accepted in a note, or is about to, or    *)
(* was killed right after setting the key.                                 *)
THEOREM AcceptedInNote == Spec => []AssignedHasNote
<1>1. Init => NoteInv
  BY DEF Init, Idle, NoteInv
<1>2. TypeOK /\ NoteInv /\ [Next]_vars => NoteInv' BY NoteStep
<1>3. NoteInv => AssignedHasNote
  BY DEF NoteInv, Noted, AssignedHasNote
<1> QED BY <1>1, <1>2, <1>3, TypeCorrect, PTL DEF Spec

(* An assignee is replaced only by a request that loaded the ticket before *)
(* there was one.                                                          *)
THEOREM AssigneeStays == Spec => AssigneeSettles
<1> DEFINE Settles ==
      assignee # Nobody
        /\ (\A r \in Requests : ~At(r, "idle") => req[r].seenAssignee # Nobody)
      => assignee' = assignee
<1>1. [Next]_vars => [Settles]_vars
  BY DEF Next, vars, ticket, keys, Begin, SignalStep, GetNoteKey, SetNoteKey, WriteNote,
     QuoteMessage, SaveTicket, SavedAssignee, GetPingKey, SetPingKey, TellTeam,
     Crash, NoteKeyExpires, PingKeyExpires, SetStatus, At
<1> QED BY <1>1, PTL DEF Spec, AssigneeSettles
-----------------------------------------------------------------------------
(* Notes and announcements are limited in the same way, each by its key.   *)
Kinds == {"note", "ping"}
Written(k) == IF k = "note" THEN notes.accepted ELSE pings
Keyed(k) == IF k = "note" THEN noteKeys ELSE pingKeys
SetPc(k) == IF k = "note" THEN "setNoteKey" ELSE "setPingKey"
Stays(r) == req'[r] = req[r]

(* What one step may be to a kind: nothing, a key set, a post written or a *)
(* key expired.                                                            *)
Quiet(k) ==
  /\ Written(k)' = Written(k) /\ Keyed(k)' = Keyed(k)
  /\ \A u \in Staff : window'[u][k] = window[u][k]
  /\ \A r \in Requests :
       \/ Stays(r)
       \/ req'[r].pc \notin {k, SetPc(k)}
       \/ /\ req'[r].pc = SetPc(k) /\ req[r].by \notin Keyed(k)
          /\ Same(r)

Sets(k, r) ==
  /\ req[r].pc = SetPc(k) /\ req'[r].pc = k /\ Same(r)
  /\ req'[r].window = window[req[r].by][k]
  /\ Keyed(k)' = Keyed(k) \cup {req[r].by}
  /\ Written(k)' = Written(k) /\ window' = window
  /\ \A o \in Requests \ {r} : Stays(o)

Writes(k, r) ==
  /\ req[r].pc = k /\ req'[r].pc \notin {k, SetPc(k)}
  /\ Written(k)' = Written(k) \cup {Post(r)}
  /\ Keyed(k)' = Keyed(k) /\ window' = window
  /\ \A o \in Requests \ {r} : Stays(o)

Expires(k, u) ==
  /\ u \in Keyed(k) /\ Keyed(k)' = Keyed(k) \ {u}
  /\ window'[u][k] = window[u][k] + 1
  /\ \A v \in Staff \ {u} : window'[v][k] = window[v][k]
  /\ Written(k)' = Written(k) /\ req' = req

LEMMA KindStep ==
  ASSUME TypeOK, [Next]_vars, NEW k \in Kinds
  PROVE  \/ Quiet(k)
         \/ \E r \in Requests : Sets(k, r) \/ Writes(k, r)
         \/ \E u \in Staff : Expires(k, u)
<1> USE DEF Kinds, ticket, keys
<1>1. ASSUME NEW r \in Requests, SignalStep(r)
      PROVE  Quiet(k) \/ Sets(k, r) \/ Writes(k, r)
  <2>1. /\ \A o \in Requests \ {r} : Stays(o)
        /\ req'[r].pc # "idle" => Same(r)
    BY <1>1, SignalStepFields DEF Stays
  <2>2. CASE GetNoteKey(r)
    <3>1. req'[r].pc = AfterNoteKey(r) BY <1>1, <2>2, SignalStepFields
    <3> QED BY <2>1, <2>2, <3>1
         DEF GetNoteKey, AfterNoteKey, Limited, By, Quiet, SetPc, Keyed, Written
  <2>3. CASE SetNoteKey(r)
    <3>1. req'[r].pc = "note" /\ req'[r].window = window[By(r)].note
      BY <1>1, <2>3, SignalStepFields
    <3>2. CASE k = "note"
      BY <2>1, <2>3, <3>1, <3>2 DEF SetNoteKey, At, By, Sets, SetPc, Keyed, Written
    <3>3. UNCHANGED <<pingKeys, window, pings>> BY <2>3 DEF SetNoteKey
    <3>4. CASE k = "ping"
      BY <2>1, <3>1, <3>3, <3>4 DEF Quiet, SetPc, Keyed, Written
    <3> QED BY <3>2, <3>4
  <2>4. CASE WriteNote(r)
    <3>1. req'[r].pc \in {"quote", "ticket"} BY <1>1, <2>4, SignalStepFields
    <3>2. notes'.accepted = notes.accepted \cup {Post(r)}
      BY <2>4 DEF WriteNote, TypeOK
    <3>3. CASE k = "note"
      BY <2>1, <2>4, <3>1, <3>2, <3>3
         DEF WriteNote, At, Writes, SetPc, Keyed, Written
    <3>4. CASE k = "ping"
      BY <2>1, <2>4, <3>1, <3>4 DEF WriteNote, Quiet, SetPc, Keyed, Written
    <3> QED BY <3>3, <3>4
  <2>5. CASE QuoteMessage(r)
    <3>1. req'[r].pc = "ticket" BY <1>1, <2>5, SignalStepFields
    <3>2. notes'.accepted = notes.accepted BY <2>5 DEF QuoteMessage, TypeOK
    <3> QED BY <2>1, <2>5, <3>1, <3>2 DEF QuoteMessage, Quiet, SetPc, Keyed, Written
  <2>6. CASE SaveTicket(r)
    <3>1. req'[r].pc = "pingKey" BY <1>1, <2>6, SignalStepFields
    <3> QED BY <2>1, <2>6, <3>1 DEF SaveTicket, Quiet, SetPc, Keyed, Written
  <2>7. CASE GetPingKey(r)
    <3>1. req'[r].pc = IF Limited(By(r), pingKeys) THEN "idle" ELSE "setPingKey"
      BY <1>1, <2>7, SignalStepFields
    <3> QED BY <2>1, <2>7, <3>1
         DEF GetPingKey, Limited, By, Quiet, SetPc, Keyed, Written
  <2>8. CASE SetPingKey(r)
    <3>1. req'[r].pc = "ping" /\ req'[r].window = window[By(r)].ping
      BY <1>1, <2>8, SignalStepFields
    <3>2. CASE k = "ping"
      BY <2>1, <2>8, <3>1, <3>2 DEF SetPingKey, At, By, Sets, SetPc, Keyed, Written
    <3>3. UNCHANGED <<noteKeys, window, notes>> BY <2>8 DEF SetPingKey
    <3>4. CASE k = "note"
      BY <2>1, <3>1, <3>3, <3>4 DEF Quiet, SetPc, Keyed, Written
    <3> QED BY <3>2, <3>4
  <2>9. CASE TellTeam(r)
    <3>1. req'[r].pc = "idle" BY <1>1, <2>9, SignalStepFields
    <3>2. CASE k = "ping"
      BY <2>1, <2>9, <3>1, <3>2 DEF TellTeam, At, Writes, SetPc, Keyed, Written
    <3>3. CASE k = "note"
      BY <2>1, <2>9, <3>1, <3>3 DEF TellTeam, Quiet, SetPc, Keyed, Written
    <3> QED BY <3>2, <3>3
  <2> QED BY <1>1, <2>2, <2>3, <2>4, <2>5, <2>6, <2>7, <2>8, <2>9 DEF SignalStep
<1>2. ASSUME NEW r \in Requests,
             Crash(r) \/ \E u \in Staff, t \in BOOLEAN : Begin(r, u, t)
      PROVE  Quiet(k)
  <2>1. /\ req'[r].pc \in {"idle", "noteKey"}
        /\ \A o \in Requests \ {r} : Stays(o)
    BY <1>2 DEF Crash, Begin, TypeOK, Idle, Stays
  <2> QED BY <1>2, <2>1 DEF Crash, Begin, Quiet, SetPc, Keyed, Written
<1>3. ASSUME NEW u \in Staff, NoteKeyExpires(u) \/ PingKeyExpires(u)
      PROVE  Quiet(k) \/ Expires(k, u)
  <2>1. CASE NoteKeyExpires(u)
    <3>1. /\ \A v \in Staff : window'[v].ping = window[v].ping
          /\ \A v \in Staff \ {u} : window'[v].note = window[v].note
          /\ window'[u].note = window[u].note + 1
      BY <2>1 DEF NoteKeyExpires, TypeOK
    <3>2. CASE k = "note"
      BY <2>1, <3>1, <3>2 DEF NoteKeyExpires, Expires, Keyed, Written
    <3>3. CASE k = "ping"
      BY <2>1, <3>1, <3>3 DEF NoteKeyExpires, Quiet, Stays, Keyed, Written
    <3> QED BY <3>2, <3>3
  <2>2. CASE PingKeyExpires(u)
    <3>1. /\ \A v \in Staff : window'[v].note = window[v].note
          /\ \A v \in Staff \ {u} : window'[v].ping = window[v].ping
          /\ window'[u].ping = window[u].ping + 1
      BY <2>2 DEF PingKeyExpires, TypeOK
    <3>2. CASE k = "ping"
      BY <2>2, <3>1, <3>2 DEF PingKeyExpires, Expires, Keyed, Written
    <3>3. CASE k = "note"
      BY <2>2, <3>1, <3>3 DEF PingKeyExpires, Quiet, Stays, Keyed, Written
    <3> QED BY <3>2, <3>3
  <2> QED BY <1>3, <2>1, <2>2
<1>4. CASE UNCHANGED vars \/ \E s \in OtherStatuses : SetStatus(s)
  BY <1>4 DEF vars, SetStatus, Quiet, Stays, Keyed, Written
<1> QED BY <1>1, <1>2, <1>3, <1>4 DEF Next
-----------------------------------------------------------------------------
(* The requests that may still post in window w of u's key: those that set *)
(* the key in it, and those that found it missing before it was first set. *)
Carries(k, u, w, r) ==
  /\ req[r].pc \in {k, SetPc(k)} /\ req[r].by = u
  /\ IF req[r].pc = k THEN req[r].window = w
     ELSE u \in Keyed(k) /\ window[u][k] = w

(* The signals posted in the window or still to be posted in it.           *)
Marks(k, u, w) ==
  {n.signal : n \in InWindow(Written(k), u, w)}
    \cup {req[r].signal : r \in {o \in Requests : Carries(k, u, w, o)}}

(* A window whose key nobody has set yet.                                  *)
Fresh(k, u, w) == w > window[u][k] \/ (w = window[u][k] /\ u \notin Keyed(k))

(* Nothing is posted in a fresh window; what is posted in the others, or   *)
(* still can be, are signals of the requests there were when the key was   *)
(* first set.                                                              *)
LimitInv ==
  \A k \in Kinds, u \in Staff, w \in Nat :
    /\ Fresh(k, u, w) => Marks(k, u, w) = {}
    /\ IsFiniteSet(Marks(k, u, w))
    /\ Cardinality(Marks(k, u, w)) <= Cardinality(Requests)

LEMMA RequestsCount == Cardinality(Requests) \in Nat
BY RequestsAssumption, FS_CardinalityType

(* The marks of a window only go on to be posts, but for the first time    *)
(* its key is set.                                                         *)
LEMMA MarksStep ==
  ASSUME TypeOK, LimitInv, [Next]_vars,
         NEW k \in Kinds, NEW u \in Staff, NEW w \in Nat
  PROVE  \/ Marks(k, u, w)' \subseteq Marks(k, u, w)
         \/ /\ Marks(k, u, w)' \subseteq {req'[r].signal : r \in Requests}
            /\ ~Fresh(k, u, w)'
<1> USE DEF Kinds, SetPc, Stays
<1>1. CASE Quiet(k)
  <2>1. ASSUME NEW r \in Requests, Carries(k, u, w, r)'
        PROVE  Carries(k, u, w, r) /\ req'[r] = req[r]
    BY <1>1, <2>1 DEF Quiet, Carries, Same
  <2>2. InWindow(Written(k), u, w)' = InWindow(Written(k), u, w)
    BY <1>1 DEF Quiet, InWindow
  <2> QED BY <2>1, <2>2 DEF Marks
<1>2. ASSUME NEW r \in Requests, Sets(k, r)
      PROVE  \/ Marks(k, u, w)' \subseteq Marks(k, u, w)
             \/ /\ Marks(k, u, w)' \subseteq {req'[o].signal : o \in Requests}
                /\ ~Fresh(k, u, w)'
  <2>1. InWindow(Written(k), u, w)' = InWindow(Written(k), u, w)
    BY <1>2 DEF Sets, InWindow
  <2>2. CASE u = req[r].by /\ w = window[u][k] /\ u \notin Keyed(k)
    <3>1. Marks(k, u, w) = {} BY <2>2 DEF LimitInv, Fresh
    <3>2. Marks(k, u, w)' \subseteq {req'[o].signal : o \in Requests}
      BY <2>1, <3>1 DEF Marks
    <3>3. window[u][k] \in Nat /\ window' = window /\ u \in Keyed(k)'
      BY <1>2, <2>2 DEF Sets, TypeOK
    <3>4. ~Fresh(k, u, w)' BY <2>2, <3>3 DEF Fresh
    <3> QED BY <3>2, <3>4
  <2>3. CASE ~(u = req[r].by /\ w = window[u][k] /\ u \notin Keyed(k))
    <3>1. ASSUME NEW o \in Requests, Carries(k, u, w, o)'
          PROVE  Carries(k, u, w, o) /\ req'[o].signal = req[o].signal
      BY <1>2, <2>3, <3>1 DEF Sets, Carries, Same
    <3> QED BY <2>1, <3>1 DEF Marks
  <2> QED BY <2>2, <2>3
<1>3. ASSUME NEW r \in Requests, Writes(k, r)
      PROVE  Marks(k, u, w)' \subseteq Marks(k, u, w)
  <2>1. ASSUME NEW o \in Requests, Carries(k, u, w, o)'
        PROVE  Carries(k, u, w, o) /\ req'[o].signal = req[o].signal
    BY <1>3, <2>1 DEF Writes, Carries
  <2>2. ASSUME NEW n \in InWindow(Written(k), u, w)'
        PROVE  n.signal \in Marks(k, u, w)
    <3>1. CASE n \in Written(k)
      BY <2>2, <3>1 DEF InWindow, Marks
    <3>2. CASE n = Post(r)
      <4>1. n.signal = req[r].signal /\ n.by = req[r].by /\ n.window = req[r].window
        BY <3>2 DEF Post, By
      <4>2. Carries(k, u, w, r) BY <1>3, <2>2, <4>1 DEF InWindow, Carries, Writes
      <4> QED BY <4>1, <4>2 DEF Marks
    <3> QED BY <1>3, <2>2, <3>1, <3>2 DEF InWindow, Writes
  <2> QED BY <2>1, <2>2 DEF Marks
<1>4. ASSUME NEW v \in Staff, Expires(k, v)
      PROVE  Marks(k, u, w)' \subseteq Marks(k, u, w)
  <2>1. ASSUME NEW o \in Requests, Carries(k, u, w, o)'
        PROVE  Carries(k, u, w, o) /\ req'[o].signal = req[o].signal
    BY <1>4, <2>1 DEF Expires, Carries
  <2>2. InWindow(Written(k), u, w)' = InWindow(Written(k), u, w)
    BY <1>4 DEF Expires, InWindow
  <2> QED BY <2>1, <2>2 DEF Marks
<1> QED BY <1>1, <1>2, <1>3, <1>4, KindStep

(* A window that is fresh was fresh before.                                *)
LEMMA FreshStep ==
  ASSUME TypeOK, [Next]_vars, NEW k \in Kinds, NEW u \in Staff, NEW w \in Nat,
         Fresh(k, u, w)'
  PROVE  Fresh(k, u, w)
<1>1. window[u][k] \in Nat BY DEF Kinds, TypeOK
<1>2. CASE Quiet(k) BY <1>2 DEF Quiet, Fresh
<1>3. ASSUME NEW r \in Requests, Sets(k, r) \/ Writes(k, r)
      PROVE  Fresh(k, u, w)
  <2>1. window' = window /\ Keyed(k) \subseteq Keyed(k)'
    BY <1>3 DEF Sets, Writes
  <2> QED BY <2>1 DEF Fresh
<1>4. ASSUME NEW v \in Staff, Expires(k, v) PROVE Fresh(k, u, w)
  <2>1. CASE u = v
    <3>1. window'[u][k] = window[u][k] + 1 BY <1>4, <2>1 DEF Expires
    <3> QED BY <1>1, <3>1 DEF Fresh
  <2>2. CASE u # v
    BY <1>4, <2>2 DEF Expires, Fresh
  <2> QED BY <2>1, <2>2
<1> QED BY <1>2, <1>3, <1>4, KindStep

LEMMA LimitStep ==
  ASSUME TypeOK, LimitInv, [Next]_vars
  PROVE  LimitInv'
<1> SUFFICES ASSUME NEW k \in Kinds, NEW u \in Staff, NEW w \in Nat
             PROVE  /\ Fresh(k, u, w)' => Marks(k, u, w)' = {}
                    /\ IsFiniteSet(Marks(k, u, w)')
                    /\ Cardinality(Marks(k, u, w)') <= Cardinality(Requests)
  BY DEF LimitInv
<1> DEFINE M == Marks(k, u, w)
           N == Marks(k, u, w)'
<1>1. /\ Fresh(k, u, w) => M = {}
      /\ IsFiniteSet(M) /\ Cardinality(M) <= Cardinality(Requests)
  BY DEF LimitInv
<1>2. CASE N \subseteq M
  <2>1. Fresh(k, u, w)' => N = {} BY <1>1, <1>2, FreshStep
  <2> HIDE DEF M, N
  <2>2. N \in SUBSET M BY <1>2
  <2>3. IsFiniteSet(N) /\ Cardinality(N) <= Cardinality(M)
    BY <1>1, <2>2, FS_Subset
  <2>4. Cardinality(N) \in Nat /\ Cardinality(M) \in Nat
    BY <1>1, <2>3, FS_CardinalityType
  <2>5. Cardinality(N) <= Cardinality(Requests)
    BY <1>1, <2>3, <2>4, RequestsCount
  <2> QED BY <2>1, <2>3, <2>5 DEF N
<1>3. CASE N \subseteq {req'[r].signal : r \in Requests} /\ ~Fresh(k, u, w)'
  <2> DEFINE C == {req'[r].signal : r \in Requests}
             f == [r \in Requests |-> req'[r].signal]
  <2>1. f \in Surjection(Requests, C) BY DEF Surjection
  <2>2. IsFiniteSet(C) /\ Cardinality(C) <= Cardinality(Requests)
    BY <2>1, RequestsAssumption, FS_Surjection
  <2>3. N \in SUBSET C BY <1>3
  <2> HIDE DEF C, N
  <2>4. IsFiniteSet(N) /\ Cardinality(N) <= Cardinality(C)
    BY <2>2, <2>3, FS_Subset
  <2>5. Cardinality(N) \in Nat /\ Cardinality(C) \in Nat
    BY <2>2, <2>4, FS_CardinalityType
  <2>6. Cardinality(N) <= Cardinality(Requests)
    BY <2>2, <2>4, <2>5, RequestsCount
  <2> QED BY <1>3, <2>4, <2>6 DEF N
<1> QED BY <1>2, <1>3, MarksStep

(* The posts of a window are no more than their signals.                   *)
LEMMA PostsCount ==
  ASSUME TypeOK, LimitInv, NEW k \in Kinds, NEW u \in Staff, NEW w \in Nat
  PROVE  Cardinality(InWindow(Written(k), u, w)) <= Cardinality(Requests)
<1> DEFINE P == InWindow(Written(k), u, w)
           S == {n.signal : n \in P}
           f == [s \in S |-> [signal |-> s, by |-> u, window |-> w]]
           M == Marks(k, u, w)
<1>1. P \subseteq Posts BY DEF InWindow, Written, TypeOK, Kinds
<1>2. \A n \in P : n = f[n.signal] BY <1>1 DEF Posts, InWindow
<1>3. f \in Surjection(S, P)
  <2>1. ASSUME NEW s \in S PROVE f[s] \in P
    <3>1. PICK n \in P : s = n.signal OBVIOUS
    <3> QED BY <1>2, <3>1
  <2>2. f \in [S -> P] BY <2>1
  <2>3. \A n \in P : \E s \in S : f[s] = n BY <1>2
  <2> QED BY <2>2, <2>3 DEF Surjection
<1>4. S \in SUBSET M BY DEF Marks
<1>5. IsFiniteSet(M) /\ Cardinality(M) <= Cardinality(Requests) BY DEF LimitInv
<1> HIDE DEF P, S, f, M
<1>6. IsFiniteSet(S) /\ Cardinality(S) <= Cardinality(M) BY <1>4, <1>5, FS_Subset
<1>7. IsFiniteSet(P) /\ Cardinality(P) <= Cardinality(S)
  BY <1>3, <1>6, FS_Surjection
<1>8. /\ Cardinality(P) \in Nat /\ Cardinality(S) \in Nat
      /\ Cardinality(M) \in Nat
  BY <1>5, <1>6, <1>7, FS_CardinalityType
<1>9. Cardinality(P) <= Cardinality(Requests)
  BY <1>5, <1>6, <1>7, <1>8, RequestsCount
<1> QED BY <1>9 DEF P

(* In ten minutes a user leaves no more notes on a ticket, and no more     *)
(* announcements, than requests can overlap.                               *)
THEOREM TenMinuteLimit == Spec => []SignalsLimited
<1>1. Init => LimitInv
  <2> SUFFICES ASSUME Init, NEW k \in Kinds, NEW u \in Staff, NEW w \in Nat
               PROVE  Marks(k, u, w) = {}
    BY FS_EmptySet, RequestsCount DEF LimitInv
  <2>1. Written(k) = {} BY DEF Init, Written
  <2>2. \A r \in Requests : req[r].pc = "idle" BY DEF Init, Idle
  <2> QED BY <2>1, <2>2 DEF Marks, InWindow, Carries, SetPc, Kinds
<1>2. TypeOK /\ LimitInv /\ [Next]_vars => LimitInv' BY LimitStep
<1>3. TypeOK /\ LimitInv => SignalsLimited
  <2> SUFFICES ASSUME TypeOK, LimitInv, NEW u \in Staff, NEW w \in 0 .. MaxSignals
               PROVE  \A k \in Kinds :
                        Cardinality(InWindow(Written(k), u, w))
                          <= Cardinality(Requests)
    BY DEF SignalsLimited, Written, Kinds
  <2>1. w \in Nat BY BoundsAssumption
  <2> QED BY <2>1, PostsCount
<1> QED BY <1>1, <1>2, <1>3, TypeCorrect, PTL DEF Spec
=============================================================================
