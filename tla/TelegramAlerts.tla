---------------------------- MODULE TelegramAlerts ----------------------------
(***************************************************************************)
(* The bot tells the team of new claims and of who is on a ticket, and     *)
(* staff pick tickets up by reacting or replying to what it sent.  The     *)
(* chats of an alert are read in two queries, the alert is sent to each in *)
(* turn, and only the answer to a send says which message id to bind to    *)
(* the ticket in the cache.  Telegram delivers an update until a delivery  *)
(* is answered.  What picking up writes to the ticket, and the limit on    *)
(* announcements, are WorkingOn's; tokens for linking are TelegramLink's.  *)
(***************************************************************************)
EXTENDS Naturals, Sequences, FiniteSets, FiniteSetsExt, SequencesExt

CONSTANTS
  NumUsers,    \* users are numbered by username
  Private,     \* private chats, named by the Telegram user
  Groups,      \* group chats
  Env,         \* TELEGRAM_CHAT_IDS
  Teams,       \* users and team inboxes to begin with
  Inboxes,     \* what administrators enter as the team inbox
  Garbage,     \* an entry that is no number
  Tickets,
  Roles,       \* roles administrators give users
  Nothing,     \* no chat, no ticket, no user, no update
  Workers,     \* requests in progress
  Texts,       \* tickets that what people write may name, or Nothing
  MaxAlerts,   \* bound on the broadcasts
  MaxUpdates,  \* bound on the updates people cause
  MaxMishaps   \* bound on changes to users and the inbox, and on failed
               \* sends, expired keys and requests killed

Users == 1 .. NumUsers
Chats == Private \cup Groups

AllRoles == {"distributor", "agent", "quality", "finance", "admin"}

ASSUME EnvAssumption == Env \in Seq(Chats)
ASSUME InboxAssumption == Inboxes \subseteq Seq(Chats \cup {Garbage})
ASSUME RolesAssumption == Roles \subseteq AllRoles
ASSUME TextsAssumption == Texts \subseteq Tickets \cup {Nothing}
ASSUME NothingAssumption == Nothing \notin Chats \cup Tickets
ASSUME BoundsAssumption == {NumUsers, MaxAlerts, MaxUpdates, MaxMishaps} \subseteq Nat

VARIABLES
  user,      \* committed rows of the users
  inbox,     \* TelegramTeamInboxSettings.team_chat_ids
  messages,  \* what the bot has sent to each chat; a message id is an index
  bound,     \* tg:reply_bind keys, with the ticket of each
  pending,   \* updates no delivery has answered
  unbound,   \* messages whose key was never set or has expired
  alerts, updates, mishaps, \* counted
  proc       \* what each request is doing

count == <<alerts, updates, mishaps>>
team == <<user, inbox>>
bot == <<messages, bound, unbound>>
vars == <<team, bot, pending, count, proc>>

UserRows ==
  [role : AllRoles, super : BOOLEAN, active : BOOLEAN, chat : Private \cup {Nothing}]

ASSUME TeamsAssumption ==
  \A t \in Teams : /\ t.user \in [Users -> UserRows] /\ t.inbox \in Seq(Chats)
                   /\ \A u, v \in Users : t.user[u].chat = t.user[v].chat
                        => u = v \/ t.user[u].chat = Nothing

Updates ==
  [from : Private, chat : Chats, target : Nat, names : Tickets \cup {Nothing},
   reaction : BOOLEAN]

Messages == [ticket : Tickets \cup {Nothing}, alert : BOOLEAN]

Idle == [pc |-> "idle"]
Busy ==
  [pc : {"staff", "resolve", "signal", "inbox", "users", "send", "bind", "confirm"},
   kind : {"claim", "onit"}, ticket : Tickets \cup {Nothing},
   own : Private \cup {Nothing}, update : Updates \cup {Nothing},
   alert : BOOLEAN, todo : Seq(Chats), due : SUBSET Chats,
   sent : {Nothing} \cup (Chats \X Nat),
   was : SUBSET Chats, steady : SUBSET ({"list", "user"} \X Chats)]

(* Rows, messages, keys, updates and requests hold values of their types.  *)
TypeOK ==
  /\ user \in [Users -> UserRows]
  /\ inbox \in Seq(Chats)
  /\ messages \in [Chats -> Seq(Messages)]
  /\ DOMAIN bound \subseteq Chats \X Nat /\ Range(bound) \subseteq Tickets
  /\ pending \subseteq Updates
  /\ unbound \subseteq Chats \X Nat
  /\ alerts \in 0 .. MaxAlerts /\ updates \in 0 .. MaxUpdates
  /\ mishaps \in 0 .. MaxMishaps
  /\ proc \in [Workers -> {Idle} \cup Busy]

Init ==
  /\ \E t \in Teams : user = t.user /\ inbox = t.inbox
  /\ messages = [c \in Chats |-> <<>>] /\ bound = <<>> /\ unbound = {}
  /\ pending = {}
  /\ alerts = 0 /\ updates = 0 /\ mishaps = 0
  /\ proc = [w \in Workers |-> Idle]
-----------------------------------------------------------------------------
(* Who is told of what.                                                    *)
NotifyRoles(kind) ==
  {"admin", "agent", "quality"} \cup IF kind = "onit" THEN {"finance"} ELSE {}

IsStaff(kind, row) == row.super \/ row.role \in NotifyRoles(kind)

(* Mutant: the filter forgets is_active.                                   *)
GetsLinked(kind, row) == row.chat # Nothing /\ IsStaff(kind, row)

Gets(kind, row) == row.active /\ row.chat # Nothing /\ IsStaff(kind, row)

(* The elements of s at the positions in I, in their order.                *)
Nth(I, k) == CHOOSE i \in I : Cardinality({j \in I : j <= i}) = k
Picked(s, I) == [k \in 1 .. Cardinality(I) |-> s[Nth(I, k)]]

LinkedChats(kind) ==
  Picked([u \in Users |-> user[u].chat], {u \in Users : Gets(kind, user[u])})

(* Chats that are on the list, or came before, are not added again.        *)
AddNew(ids, more) ==
  ids \o Picked(more, {i \in DOMAIN more :
                        /\ more[i] \notin Range(ids)
                        /\ \A j \in 1 .. i - 1 : more[j] # more[i]})

(* What the properties compare a broadcast with: the chats that should be  *)
(* told, each with the reason, given the rows.                             *)
Reasons(kind, rows, ids) ==
  {<<"list", c>> : c \in Range(Env) \cup Range(ids)}
    \cup {<<"user", rows[u].chat>> :
           u \in {v \in Users : /\ rows[v].active /\ rows[v].chat # Nothing
                                /\ IsStaff(kind, rows[v])}}

Told(reasons) == {r[2] : r \in reasons}

At(w, pc) == proc[w].pc = pc
Goto(w, pc) == proc' = [proc EXCEPT ![w].pc = pc]

Request(pc, kind, t, own, m, alert) ==
  [pc |-> pc, kind |-> kind, ticket |-> t, own |-> own, update |-> m,
   alert |-> alert, todo |-> <<>>, due |-> {}, sent |-> Nothing,
   was |-> IF alert THEN Told(Reasons(kind, user, inbox)) ELSE {},
   steady |-> IF alert THEN Reasons(kind, user, inbox) ELSE {}]
-----------------------------------------------------------------------------
(* A distributor's claim is committed.                                     *)
NotifyPortalClaim(w, t) ==
  /\ At(w, "idle") /\ alerts < MaxAlerts
  /\ alerts' = alerts + 1
  /\ proc' = [proc EXCEPT ![w] =
       Request("inbox", "claim", t, Nothing, Nothing, TRUE)]
  /\ UNCHANGED <<team, bot, pending, updates, mishaps>>

(* A post with an eye in the workspace, by a user loaded before.           *)
NotifyWorkingOn(w, u, t) ==
  /\ At(w, "idle") /\ alerts < MaxAlerts
  /\ user[u].active /\ IsStaff("onit", user[u])
  /\ alerts' = alerts + 1
  /\ proc' = [proc EXCEPT ![w] =
       Request("inbox", "onit", t, user[u].chat, Nothing, TRUE)]
  /\ UNCHANGED <<team, bot, pending, updates, mishaps>>

(* merged_telegram_broadcast_chat_ids.                                     *)
LoadInbox(w) ==
  /\ At(w, "inbox")
  /\ proc' = [proc EXCEPT ![w].pc = "users",
                          ![w].todo = AddNew(AddNew(<<>>, Env), inbox)]
  /\ UNCHANGED <<team, bot, pending, count>>

LoadUsers(w) ==
  /\ At(w, "users")
  /\ proc' = [proc EXCEPT ![w].pc = "send",
                          ![w].todo = AddNew(@, LinkedChats(proc[w].kind)),
                          ![w].due = Told(proc[w].steady),
                          ![w].was = {}, ![w].steady = {}]
  /\ UNCHANGED <<team, bot, pending, count>>

Sending(w) == At(w, "send") /\ proc[w].todo # <<>>
To(w) == Head(proc[w].todo)

(* The actor's own chat is passed over.                                    *)
Skip(w) ==
  /\ Sending(w) /\ To(w) = proc[w].own
  /\ proc' = [proc EXCEPT ![w].todo = Tail(@)]
  /\ UNCHANGED <<team, bot, pending, count>>

Append1(c, t, alert) ==
  messages' = [messages EXCEPT ![c] = Append(@, [ticket |-> t, alert |-> alert])]
NextId(c) == <<c, Len(messages[c]) + 1>>

(* Mutant: announcements are not registered.                               *)
OnlyClaimsBound(w) == IF proc[w].kind = "claim" THEN "bind" ELSE "send"

AfterSend(w) == "bind"

Send(w) ==
  /\ Sending(w) /\ To(w) # proc[w].own
  /\ Append1(To(w), proc[w].ticket, TRUE)
  /\ proc' = [proc EXCEPT ![w].pc = AfterSend(w), ![w].sent = NextId(To(w)),
                          ![w].due = @ \ {To(w)}, ![w].todo = Tail(@)]
  /\ UNCHANGED <<team, bound, unbound, pending, count>>

(* Mutant: the exception leaves the loop.                                  *)
GiveUp(w) == <<>>

AfterFailure(w) == Tail(proc[w].todo)

(* sendMessage raises or is refused: logged, and on with the next.  Sent   *)
(* but not answered in time, the message is there and nobody has its id.   *)
SendFails(w, delivered) ==
  /\ Sending(w) /\ To(w) # proc[w].own
  /\ mishaps < MaxMishaps
  /\ mishaps' = mishaps + 1
  /\ IF delivered
     THEN /\ Append1(To(w), proc[w].ticket, TRUE)
          /\ unbound' = unbound \cup {NextId(To(w))}
     ELSE UNCHANGED <<messages, unbound>>
  /\ proc' = [proc EXCEPT ![w].due = @ \ {To(w)}, ![w].todo = AfterFailure(w)]
  /\ UNCHANGED <<team, bound, pending, alerts, updates>>

(* Mutant: the key is the message id alone, which every chat counts anew.  *)
KeyOfId(c, id) == <<CHOOSE d \in Chats : TRUE, id>>

BindKey(c, id) == <<c, id>>

RegisterMessage(w) ==
  /\ At(w, "bind")
  /\ LET key == BindKey(proc[w].sent[1], proc[w].sent[2])
     IN  bound' = [k \in DOMAIN bound \cup {key} |->
                     IF k = key THEN proc[w].ticket ELSE bound[k]]
  /\ proc' = [proc EXCEPT ![w].pc = "send", ![w].sent = Nothing]
  /\ UNCHANGED <<team, messages, unbound, pending, count>>

AllSent(w) ==
  /\ At(w, "send") /\ proc[w].todo = <<>>
  /\ proc' = [proc EXCEPT ![w] = IF @.update = Nothing THEN Idle
                                 ELSE [@ EXCEPT !.pc = "confirm"]]
  /\ UNCHANGED <<team, bot, pending, count>>
-----------------------------------------------------------------------------
(* People react to a message of the bot, reply to it, or write a message   *)
(* that may name a ticket; always with an eye.                             *)
Ask(p, c, id, t, reaction) ==
  /\ c = p \/ c \in Groups
  /\ updates < MaxUpdates
  /\ updates' = updates + 1
  /\ pending' = pending \cup
       {[from |-> p, chat |-> c, target |-> id, names |-> t, reaction |-> reaction]}
  /\ UNCHANGED <<team, bot, alerts, mishaps, proc>>

Deliver(w, m) ==
  /\ At(w, "idle") /\ m \in pending
  /\ proc' = [proc EXCEPT ![w] = Request("staff", "onit", Nothing, m.from, m, FALSE)]
  /\ UNCHANGED <<team, bot, pending, count>>

PicksUp(row, p) == row.active /\ row.chat = p /\ IsStaff("onit", row)

(* _telegram_staff_can_pick_up_claims of the linked user.                  *)
FindStaff(w) ==
  /\ At(w, "staff")
  /\ IF \E u \in Users : PicksUp(user[u], proc[w].update.from)
     THEN Goto(w, "resolve") /\ UNCHANGED pending
     ELSE /\ pending' = pending \ {proc[w].update}
          /\ proc' = [proc EXCEPT ![w] = Idle]
  /\ UNCHANGED <<team, bot, count>>

(* The key of the message replied to, else the ticket the text names.      *)
Resolved(m) ==
  LET key == BindKey(m.chat, m.target)
  IN  IF m.target # 0 /\ key \in DOMAIN bound THEN bound[key] ELSE m.names

Resolve(w) ==
  /\ At(w, "resolve") /\ Resolved(proc[w].update) # Nothing
  /\ proc' = [proc EXCEPT ![w].pc = "signal",
                          ![w].ticket = Resolved(proc[w].update)]
  /\ UNCHANGED <<team, bot, pending, count>>

(* A message gets a hint for an answer, a reaction none.                   *)
NoTicket(w) ==
  /\ At(w, "resolve") /\ Resolved(proc[w].update) = Nothing
  /\ IF proc[w].update.reaction THEN UNCHANGED messages
     ELSE Append1(proc[w].update.chat, Nothing, FALSE)
  /\ pending' = pending \ {proc[w].update}
  /\ proc' = [proc EXCEPT ![w] = Idle]
  /\ UNCHANGED <<team, bound, unbound, count>>

(* The team is told unless the user's key for the ticket is set.           *)
ApplySignals(w) ==
  /\ At(w, "signal")
  /\ \/ /\ alerts < MaxAlerts
        /\ alerts' = alerts + 1
        /\ proc' = [proc EXCEPT ![w] =
             Request("inbox", "onit", @.ticket, @.own, @.update, TRUE)]
     \/ Goto(w, "confirm") /\ UNCHANGED alerts
  /\ UNCHANGED <<team, bot, pending, updates, mishaps>>

(* "you're on TKT-...", and the answer to Telegram.                        *)
Confirm(w) ==
  /\ At(w, "confirm")
  /\ Append1(proc[w].update.chat, proc[w].ticket, FALSE)
  /\ pending' = pending \ {proc[w].update}
  /\ proc' = [proc EXCEPT ![w] = Idle]
  /\ UNCHANGED <<team, bound, unbound, count>>

(* A worker is killed, or the database fails it.                           *)
Crash(w) ==
  /\ ~At(w, "idle") /\ mishaps < MaxMishaps
  /\ mishaps' = mishaps + 1
  /\ unbound' = IF At(w, "bind") THEN unbound \cup {proc[w].sent} ELSE unbound
  /\ proc' = [proc EXCEPT ![w] = Idle]
  /\ UNCHANGED <<team, messages, bound, pending, alerts, updates>>

(* Sixty days later.                                                       *)
KeyExpires(k) ==
  /\ k \in DOMAIN bound /\ mishaps < MaxMishaps
  /\ mishaps' = mishaps + 1
  /\ bound' = [j \in DOMAIN bound \ {k} |-> bound[j]]
  /\ unbound' = unbound \cup {k}
  /\ UNCHANGED <<team, messages, pending, alerts, updates, proc>>
-----------------------------------------------------------------------------
Change(rows, ids) ==
  /\ mishaps < MaxMishaps
  /\ mishaps' = mishaps + 1
  /\ user' = rows /\ inbox' = ids
  /\ proc' = [w \in Workers |->
       IF ~(At(w, "inbox") \/ At(w, "users")) THEN proc[w]
       ELSE [proc[w] EXCEPT
              !.was = @ \cup Told(Reasons(proc[w].kind, rows, ids)),
              !.steady = @ \cap Reasons(proc[w].kind, rows, ids)]]
  /\ UNCHANGED <<bot, pending, alerts, updates>>

Free(c, u) == c = Nothing \/ \A v \in Users \ {u} : user[v].chat # c

(* The webhook links a chat once it has taken it from every other user.    *)
Link(u, c) ==
  /\ Free(c, u) /\ user[u].chat # c
  /\ Change([user EXCEPT ![u].chat = c], inbox)

(* By the user, or by the webhook for another one.                         *)
Unlink(u) ==
  /\ user[u].chat # Nothing
  /\ Change([user EXCEPT ![u].chat = Nothing], inbox)

(* The admin site's user form saves every field, also a chat that it has   *)
(* shown since before it was unlinked.                                     *)
SaveForm(u, role, active, c) ==
  /\ Free(c, u)
  /\ Change([user EXCEPT ![u] =
       [@ EXCEPT !.role = role, !.active = active, !.chat = c]], inbox)

(* Mutant: what is no number is saved too.                                 *)
AnyIds(raw) == AddNew(<<>>, raw)

(* parse_team_telegram_chat_ids_input, and the page that refuses garbage.  *)
ValidIds(raw) == IF Contains(raw, Garbage) THEN inbox ELSE AddNew(<<>>, raw)

SaveInbox(u, raw) ==
  /\ user[u].active /\ user[u].role # "distributor"
  /\ user[u].super \/ user[u].role = "admin"
  /\ Change(user, ValidIds(raw))

Step(w) ==
  \/ LoadInbox(w) \/ LoadUsers(w) \/ Skip(w) \/ Send(w) \/ RegisterMessage(w)
  \/ AllSent(w) \/ FindStaff(w) \/ Resolve(w) \/ NoTicket(w) \/ ApplySignals(w)
  \/ Confirm(w)

Administration ==
  \/ \E u \in Users, c \in Private : Link(u, c)
  \/ \E u \in Users : Unlink(u)
  \/ \E u \in Users, c \in Private \cup {Nothing}, r \in Roles, a \in BOOLEAN :
       SaveForm(u, r, a, c)
  \/ \E u \in Users, raw \in Inboxes : SaveInbox(u, raw)

People ==
  \E p \in Private, c \in Chats :
    \/ \E id \in DOMAIN messages[c] :
         \/ Ask(p, c, id, Nothing, TRUE)
         \/ \E t \in Texts : Ask(p, c, id, t, FALSE)
    \/ \E t \in Texts : Ask(p, c, 0, t, FALSE)

Next ==
  \/ \E w \in Workers :
       \/ Step(w) \/ Crash(w) \/ \E d \in BOOLEAN : SendFails(w, d)
       \/ \E t \in Tickets : NotifyPortalClaim(w, t)
       \/ \E u \in Users, t \in Tickets : NotifyWorkingOn(w, u, t)
       \/ \E m \in pending : Deliver(w, m)
  \/ \E k \in DOMAIN bound : KeyExpires(k)
  \/ Administration
  \/ People

Spec == Init /\ [][Next]_vars
-----------------------------------------------------------------------------
(* Only chats that were to be told at some moment since the broadcast      *)
(* began are told: no distributor's, no deactivated user's, and no claims  *)
(* to finance.  Each is told once, however it got on the list (from the    *)
(* environment, the inbox or a link) and whatever changes in between.      *)
TeamToldOnce ==
  [][\A w \in Workers :
       At(w, "users") /\ At(w, "send")'
         => /\ Range(proc'[w].todo) \subseteq proc[w].was
            /\ IsInjective(proc'[w].todo)]_vars

(* Every chat that was to be told while the list was made, and for one and *)
(* the same reason, has been tried when the broadcast ends, whatever       *)
(* failed for the others; only the chat of who is on it is spared.         *)
SteadyChatsTried ==
  [][\A w \in Workers :
       At(w, "send") /\ (At(w, "idle") \/ At(w, "confirm"))' /\ mishaps' = mishaps
         => proc[w].due \subseteq {proc[w].own}]_vars

(* A ticket is picked up only for who asked for that ticket, by naming it  *)
(* or by answering a message about it, though message ids are only unique  *)
(* within a chat.                                                          *)
PickupsMeant ==
  \A w \in Workers :
    At(w, "signal") =>
      LET m == proc[w].update
      IN  \/ proc[w].ticket = m.names
          \/ m.target # 0 /\ proc[w].ticket = messages[m.chat][m.target].ticket

(* "Reactions on a message that is not a mapped Nexus alert are ignored":  *)
(* one that staff made on an alert is, too, only if the alert's key has    *)
(* expired, was never set for a fault, or is just about to be set.         *)
AlertsAnswered ==
  [][\A w \in Workers :
       At(w, "resolve") /\ At(w, "idle")' /\ mishaps' = mishaps
         => LET m == proc[w].update
            IN  m.target # 0 /\ messages[m.chat][m.target].alert
                  => \/ <<m.chat, m.target>> \in unbound
                     \/ \E v \in Workers :
                          At(v, "bind") /\ proc[v].sent = <<m.chat, m.target>>]_vars
=============================================================================
