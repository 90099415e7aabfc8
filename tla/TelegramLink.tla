---------------------------- MODULE TelegramLink ----------------------------
(***************************************************************************)
(* Binding a Telegram chat to a user: the settings page mints a token into *)
(* the cache, the user sends it to the bot from a chat, and the webhook    *)
(* consumes it and rewrites User.telegram_chat_id in two updates, each a   *)
(* transaction of its own.  Telegram delivers an update again until it is  *)
(* answered with a success, and deliveries may run side by side.           *)
(***************************************************************************)
EXTENDS Naturals, FiniteSets

CONSTANTS
  Users, Chats,
  NoUser, NoChat,
  Requests,   \* webhook deliveries in progress
  MaxTokens,  \* bound on the tokens minted
  MaxCrashes  \* bound on the deliveries killed half way

ASSUME AbsentAssumption == NoChat \notin Chats /\ NoUser \notin Users
ASSUME RequestsAssumption == IsFiniteSet(Requests)
ASSUME BoundsAssumption == MaxTokens \in Nat /\ MaxCrashes \in Nat

VARIABLES
  minted,    \* the user each token was minted for
  cached,    \* tokens in the cache
  sent,      \* /start messages ever sent to the bot
  answered,  \* those a delivery has answered with a success
  chatOf,    \* User.telegram_chat_id
  consumed,  \* deliveries that took each token from the cache
  crashes,   \* deliveries killed
  req        \* what each delivery is doing

vars == <<minted, cached, sent, answered, chatOf, consumed, crashes, req>>

Tokens == 1 .. MaxTokens
Starts == [token : Tokens, chat : Chats]

Idle == [pc |-> "idle"]
Deliveries ==
  [pc : {"get", "delete", "unlinkOthers", "link"}, start : Starts,
   uid : Users \cup {NoUser}]

(* Tokens, messages, links and deliveries hold values of their types.      *)
TypeOK ==
  /\ minted \in [Tokens -> Users \cup {NoUser}]
  /\ cached \subseteq Tokens
  /\ sent \subseteq Starts /\ answered \subseteq sent
  /\ chatOf \in [Users -> Chats \cup {NoChat}]
  /\ consumed \in [Tokens -> Nat] /\ crashes \in 0 .. MaxCrashes
  /\ req \in [Requests -> {Idle} \cup Deliveries]

Init ==
  /\ minted = [t \in Tokens |-> NoUser]
  /\ cached = {} /\ sent = {} /\ answered = {}
  /\ chatOf = [u \in Users |-> NoChat]
  /\ consumed = [t \in Tokens |-> 0] /\ crashes = 0
  /\ req = [r \in Requests |-> Idle]
-----------------------------------------------------------------------------
(* Every view of the settings page mints a token and shows it as a link.   *)
Mint(t, u) ==
  /\ minted[t] = NoUser
  /\ \A s \in Tokens : s < t => minted[s] # NoUser
  /\ minted' = [minted EXCEPT ![t] = u]
  /\ cached' = cached \cup {t}
  /\ UNCHANGED <<sent, answered, chatOf, consumed, crashes, req>>

(* Fifteen minutes later.                                                  *)
Expire(t) ==
  /\ t \in cached
  /\ cached' = cached \ {t}
  /\ UNCHANGED <<minted, sent, answered, chatOf, consumed, crashes, req>>

(* "Start" is tapped in a chat, perhaps not for the first time.            *)
Send(t, c) ==
  /\ minted[t] # NoUser
  /\ sent' = sent \cup {[token |-> t, chat |-> c]}
  /\ answered' = answered \ {[token |-> t, chat |-> c]}
  /\ UNCHANGED <<minted, cached, chatOf, consumed, crashes, req>>

Deliver(r, m) ==
  /\ req[r].pc = "idle"
  /\ m \in sent \ answered
  /\ req' = [req EXCEPT ![r] = [pc |-> "get", start |-> m, uid |-> NoUser]]
  /\ UNCHANGED <<minted, cached, sent, answered, chatOf, consumed, crashes>>

Token(r) == req[r].start.token
Chat(r) == req[r].start.chat
End(r) == req' = [req EXCEPT ![r] = Idle]

(* Mutants: one cache key serves every token; a token that is not in the   *)
(* cache is an error.                                                      *)
LatestUser(t) ==
  LET last == {s \in Tokens : /\ minted[s] # NoUser
                              /\ \A n \in Tokens : minted[n] # NoUser => n <= s}
  IN  minted[CHOOSE s \in last : TRUE]
NoAnswer(r) == UNCHANGED answered

UserOf(t) == minted[t]
Answer(r) == answered' = answered \cup {req[r].start}

GetToken(r) ==
  /\ req[r].pc = "get"
  /\ Token(r) \in cached
  /\ req' = [req EXCEPT ![r].pc = "delete", ![r].uid = UserOf(Token(r))]
  /\ UNCHANGED <<minted, cached, sent, answered, chatOf, consumed, crashes>>

AnswerExpired(r) ==
  /\ req[r].pc = "get"
  /\ Token(r) \notin cached
  /\ Answer(r)
  /\ End(r)
  /\ UNCHANGED <<minted, cached, sent, chatOf, consumed, crashes>>

(* Mutant: the token is left to expire.                                    *)
LeftInCache(t) == cached

WithoutToken(t) == cached \ {t}

(* Deleting a key that is gone succeeds too.                               *)
DeleteToken(r) ==
  /\ req[r].pc = "delete"
  /\ cached' = WithoutToken(Token(r))
  /\ consumed' = [consumed EXCEPT ![Token(r)] = @ + 1]
  /\ req' = [req EXCEPT ![r].pc = "unlinkOthers"]
  /\ UNCHANGED <<minted, sent, answered, chatOf, crashes>>

UnlinkOthers(r) ==
  /\ req[r].pc = "unlinkOthers"
  /\ chatOf' = [u \in Users |-> IF chatOf[u] = Chat(r) /\ u # req[r].uid
                                THEN NoChat ELSE chatOf[u]]
  /\ req' = [req EXCEPT ![r].pc = "link"]
  /\ UNCHANGED <<minted, cached, sent, answered, consumed, crashes>>

(* Mutant: the token is filed as the chat.                                 *)
LinkedToken(r) == Token(r)

(* telegram_chat_id is unique.                                             *)
ChatTaken(r) == \E u \in Users \ {req[r].uid} : chatOf[u] = Chat(r)
LinkedChat(r) == Chat(r)

LinkUser(r) ==
  /\ req[r].pc = "link"
  /\ ~ChatTaken(r)
  /\ chatOf' = [chatOf EXCEPT ![req[r].uid] = LinkedChat(r)]
  /\ Answer(r)
  /\ End(r)
  /\ UNCHANGED <<minted, cached, sent, consumed, crashes>>

(* IntegrityError: the delivery ends in a 500 and Telegram tries again.    *)
LinkConflict(r) ==
  /\ req[r].pc = "link"
  /\ ChatTaken(r)
  /\ End(r)
  /\ UNCHANGED <<minted, cached, sent, answered, chatOf, consumed, crashes>>

Crash(r) ==
  /\ crashes < MaxCrashes
  /\ crashes' = crashes + 1
  /\ req[r].pc # "idle"
  /\ End(r)
  /\ UNCHANGED <<minted, cached, sent, answered, chatOf, consumed>>

(* The unlink button of the settings page.                                 *)
Unlink(u) ==
  /\ chatOf' = [chatOf EXCEPT ![u] = NoChat]
  /\ UNCHANGED <<minted, cached, sent, answered, consumed, crashes, req>>

DeliveryStep(r) ==
  \/ GetToken(r) \/ AnswerExpired(r) \/ DeleteToken(r) \/ UnlinkOthers(r)
  \/ LinkUser(r) \/ LinkConflict(r)

Next ==
  \/ \E t \in Tokens, u \in Users : Mint(t, u)
  \/ \E t \in Tokens : Expire(t)
  \/ \E t \in Tokens, c \in Chats : Send(t, c)
  \/ \E r \in Requests, m \in sent : Deliver(r, m)
  \/ \E r \in Requests : DeliveryStep(r) \/ Crash(r)
  \/ \E u \in Users : Unlink(u)

Spec == Init /\ [][Next]_vars

(* A worker goes on with its delivery, Telegram goes on delivering what    *)
(* was not answered.                                                       *)
FairSpec ==
  /\ Spec
  /\ \A r \in Requests : WF_vars(DeliveryStep(r))
  /\ \A m \in Starts : SF_vars(\E r \in Requests : Deliver(r, m))
-----------------------------------------------------------------------------
(* A user is linked only to a chat from which a token minted for that very *)
(* user was sent, and shares it with nobody, though the unlink and the     *)
(* link are two updates and two deliveries may interleave them.            *)
LinkedByOwnToken ==
  \A u \in Users : chatOf[u] # NoChat =>
    /\ \E m \in sent : minted[m.token] = u /\ m.chat = chatOf[u]
    /\ \A v \in Users \ {u} : chatOf[v] # chatOf[u]

(* "One-time token": get and delete are two calls, so what holds is that   *)
(* only deliveries that overlapped are given the user of one token.        *)
TokenShared ==
  \A t \in Tokens : consumed[t] <= Cardinality(Requests)

(* Every /start is answered in the end, though a delivery may fail on the  *)
(* unique chat after it has used up the token.                             *)
StartAnswered ==
  \A m \in Starts : m \in sent \ answered ~> m \in answered
=============================================================================
