------------------------------ MODULE WorkingOn ------------------------------
(***************************************************************************)
(* "I'm on it": a staff member posts, or sends the bot, a message with an  *)
(* eye emoji (apply_staff_working_on_signals).  The request adds an        *)
(* acceptance note, opens and assigns the ticket and tells the team, each  *)
(* a statement of its own: nothing is atomic.  Two cache keys, read and    *)
(* then set, limit notes and announcements to one in ten minutes.  Every   *)
(* row and key belongs to one ticket, so the module follows one.           *)
(***************************************************************************)
EXTENDS Naturals, FiniteSets

CONSTANTS
  Staff,         \* users who may pick up a ticket
  Nobody,        \* no assignee
  Requests,      \* workspace posts and webhook deliveries
  OtherStatuses, \* statuses the rest of the system writes to the ticket
  MaxSignals,    \* bound on the number of signals
  MaxCrashes     \* bound on the requests killed or failed half way

ASSUME NobodyAssumption == Nobody \notin Staff
ASSUME RequestsAssumption == IsFiniteSet(Requests)
ASSUME BoundsAssumption == MaxSignals \in Nat /\ MaxCrashes \in Nat

TicketStatus == {"new", "open"} \cup OtherStatuses

VARIABLES
  status,    \* Ticket.status
  assignee,  \* Ticket.assignee
  noteKeys,  \* users whose ticket:auto_work_note key is in the cache
  pingKeys,  \* users whose tg:work_on key is in the cache
  window,    \* ten-minute windows of each user's keys, counted
  notes,     \* internal notes written
  pings,     \* announcements to the team
  signals,   \* signals received
  crashes,   \* requests killed
  lost,      \* users whose note was not written though their key was set
  req        \* what each request is doing

keys == <<noteKeys, pingKeys, window>>
ticket == <<status, assignee>>
vars == <<ticket, keys, notes, pings, signals, crashes, lost, req>>

Posts == [signal : 1 .. MaxSignals, by : Staff, window : Nat]

Idle == [pc |-> "idle"]
Handling ==
  [pc : {"noteKey", "setNoteKey", "note", "quote", "ticket",
         "pingKey", "setPingKey", "ping"},
   by : Staff, signal : 1 .. MaxSignals, telegram : BOOLEAN,
   seenStatus : TicketStatus, seenAssignee : Staff \cup {Nobody},
   window : Nat]

(* Rows, cache keys and requests hold values of their types.               *)
TypeOK ==
  /\ status \in TicketStatus
  /\ assignee \in Staff \cup {Nobody}
  /\ noteKeys \subseteq Staff /\ pingKeys \subseteq Staff
  /\ window \in [Staff -> [note : Nat, ping : Nat]]
  /\ notes \in [accepted : SUBSET Posts, quoted : SUBSET Posts]
  /\ pings \subseteq Posts
  /\ signals \in 0 .. MaxSignals
  /\ crashes \in 0 .. MaxCrashes /\ lost \subseteq Staff
  /\ req \in [Requests -> {Idle} \cup Handling]

Init ==
  /\ status = "new" /\ assignee = Nobody
  /\ noteKeys = {} /\ pingKeys = {}
  /\ window = [u \in Staff |-> [note |-> 0, ping |-> 0]]
  /\ notes = [accepted |-> {}, quoted |-> {}] /\ pings = {}
  /\ signals = 0 /\ crashes = 0 /\ lost = {}
  /\ req = [r \in Requests |-> Idle]
-----------------------------------------------------------------------------
Goto(r, pc) == req' = [req EXCEPT ![r].pc = pc]
At(r, pc) == req[r].pc = pc
By(r) == req[r].by
Post(r) == [signal |-> req[r].signal, by |-> By(r), window |-> req[r].window]

(* The ticket is loaded before anything is written, and never again.       *)
Begin(r, u, telegram) ==
  /\ At(r, "idle")
  /\ signals < MaxSignals
  /\ signals' = signals + 1
  /\ req' = [req EXCEPT ![r] =
       [pc |-> "noteKey", by |-> u, signal |-> signals + 1,
        telegram |-> telegram, seenStatus |-> status,
        seenAssignee |-> assignee, window |-> 0]]
  /\ UNCHANGED <<ticket, keys, notes, pings, crashes, lost>>

(* Mutants: the key is looked up under another name than it is set; the    *)
(* test is inverted for a key nobody has set.                              *)
NeverLimited(u, ks) == FALSE
AlwaysLimited(u, ks) == TRUE

Limited(u, ks) == u \in ks

AfterNoteKey(r) == IF Limited(By(r), noteKeys) THEN "ticket" ELSE "setNoteKey"

GetNoteKey(r) ==
  /\ At(r, "noteKey")
  /\ Goto(r, AfterNoteKey(r))
  /\ UNCHANGED <<ticket, keys, notes, pings, signals, crashes, lost>>

SetNoteKey(r) ==
  /\ At(r, "setNoteKey")
  /\ noteKeys' = noteKeys \cup {By(r)}
  /\ req' = [req EXCEPT ![r].pc = "note", ![r].window = window[By(r)].note]
  /\ UNCHANGED <<ticket, pingKeys, window, notes, pings, signals, crashes, lost>>

WriteNote(r) ==
  /\ At(r, "note")
  /\ notes' = [notes EXCEPT !.accepted = @ \cup {Post(r)}]
  /\ Goto(r, IF req[r].telegram THEN "quote" ELSE "ticket")
  /\ UNCHANGED <<ticket, keys, pings, signals, crashes, lost>>

(* The text sent to the bot is kept as a second note.                      *)
QuoteMessage(r) ==
  /\ At(r, "quote")
  /\ notes' = [notes EXCEPT !.quoted = @ \cup {Post(r)}]
  /\ Goto(r, "ticket")
  /\ UNCHANGED <<ticket, keys, pings, signals, crashes, lost>>

(* Mutant: the request is assigned, not its user.                          *)
AssignedRequest(r) == IF req[r].seenAssignee = Nobody THEN r ELSE assignee

(* Mutant: whoever signals last has the ticket.                            *)
LastSignalWins(r) == By(r)

(* What the save writes is decided on the ticket as it was loaded.         *)
SavedStatus(r) == IF req[r].seenStatus = "new" THEN "open" ELSE status
SavedAssignee(r) == IF req[r].seenAssignee = Nobody THEN By(r) ELSE assignee

SaveTicket(r) ==
  /\ At(r, "ticket")
  /\ status' = SavedStatus(r)
  /\ assignee' = SavedAssignee(r)
  /\ Goto(r, "pingKey")
  /\ UNCHANGED <<keys, notes, pings, signals, crashes, lost>>

GetPingKey(r) ==
  /\ At(r, "pingKey")
  /\ IF Limited(By(r), pingKeys) THEN req' = [req EXCEPT ![r] = Idle]
     ELSE Goto(r, "setPingKey")
  /\ UNCHANGED <<ticket, keys, notes, pings, signals, crashes, lost>>

SetPingKey(r) ==
  /\ At(r, "setPingKey")
  /\ pingKeys' = pingKeys \cup {By(r)}
  /\ req' = [req EXCEPT ![r].pc = "ping", ![r].window = window[By(r)].ping]
  /\ UNCHANGED <<ticket, noteKeys, window, notes, pings, signals, crashes, lost>>

(* The loop over the team's chats.                                         *)
TellTeam(r) ==
  /\ At(r, "ping")
  /\ pings' = pings \cup {Post(r)}
  /\ req' = [req EXCEPT ![r] = Idle]
  /\ UNCHANGED <<ticket, keys, notes, signals, crashes, lost>>

Crash(r) ==
  /\ crashes < MaxCrashes
  /\ ~At(r, "idle")
  /\ crashes' = crashes + 1
  /\ lost' = IF At(r, "note") THEN lost \cup {By(r)} ELSE lost
  /\ req' = [req EXCEPT ![r] = Idle]
  /\ UNCHANGED <<ticket, keys, notes, pings, signals>>

(* Ten minutes after a key was set.                                        *)
NoteKeyExpires(u) ==
  /\ u \in noteKeys
  /\ noteKeys' = noteKeys \ {u}
  /\ window' = [window EXCEPT ![u].note = @ + 1]
  /\ UNCHANGED <<ticket, pingKeys, notes, pings, signals, req, crashes, lost>>

PingKeyExpires(u) ==
  /\ u \in pingKeys
  /\ pingKeys' = pingKeys \ {u}
  /\ window' = [window EXCEPT ![u].ping = @ + 1]
  /\ UNCHANGED <<ticket, noteKeys, notes, pings, signals, req, crashes, lost>>

(* A push resolves the ticket, or staff pick a status: both write what     *)
(* they were given.                                                        *)
SetStatus(s) ==
  /\ status' = s
  /\ UNCHANGED <<assignee, keys, notes, pings, signals, req, crashes, lost>>

SignalStep(r) ==
  \/ GetNoteKey(r) \/ SetNoteKey(r) \/ WriteNote(r) \/ QuoteMessage(r)
  \/ SaveTicket(r) \/ GetPingKey(r) \/ SetPingKey(r) \/ TellTeam(r)

Next ==
  \/ \E r \in Requests, u \in Staff, t \in BOOLEAN : Begin(r, u, t)
  \/ \E r \in Requests : SignalStep(r) \/ Crash(r)
  \/ \E u \in Staff : NoteKeyExpires(u) \/ PingKeyExpires(u)
  \/ \E s \in OtherStatuses : SetStatus(s)

Spec == Init /\ [][Next]_vars

(* A worker goes on with its request; everything else is up to people and  *)
(* clocks.                                                                 *)
FairSpec == Spec /\ \A r \in Requests : WF_vars(SignalStep(r))
-----------------------------------------------------------------------------
InWindow(posts, u, w) == {n \in posts : n.by = u /\ n.window = w}

(* "At most once per user per ticket per ~10 minutes" is what the keys     *)
(* give requests that follow each other.  Each key is read and set by two  *)
(* calls, so requests that overlap may all write their note, and all tell  *)
(* the team; no other request does.                                        *)
SignalsLimited ==
  \A u \in Staff, w \in 0 .. MaxSignals :
    /\ Cardinality(InWindow(notes.accepted, u, w)) <= Cardinality(Requests)
    /\ Cardinality(InWindow(pings, u, w)) <= Cardinality(Requests)

(* Whoever a signal assigned has accepted the ticket in a note, or a       *)
(* request of theirs is about to write it, for the key that silences the   *)
(* next request was set by one that goes on.  The exception is a request   *)
(* killed right after it set the key: for ten minutes nobody writes.       *)
AssignedHasNote ==
  assignee # Nobody =>
    \/ \E n \in notes.accepted : n.by = assignee
    \/ \E r \in Requests : At(r, "note") /\ By(r) = assignee
    \/ assignee \in lost

(* "Set assignee when still unassigned": the test is on the ticket that    *)
(* was loaded, so an assignee may still be replaced, but only by requests  *)
(* that began before there was one.                                        *)
AssigneeSettles ==
  [][assignee # Nobody
       /\ (\A r \in Requests : ~At(r, "idle") => req[r].seenAssignee # Nobody)
     => assignee' = assignee]_vars
=============================================================================
