-------------------------- MODULE TelegramLinkProofs --------------------------
(***************************************************************************)
(* Theorems about TelegramLink, for every set of users, chats and          *)
(* deliveries and any number of tokens and crashes.                        *)
(***************************************************************************)
EXTENDS TelegramLink, FiniteSetTheorems, TLAPS

(* What a step of a delivery leaves of its record and of the others.       *)
LEMMA DeliveryFields ==
  ASSUME TypeOK, NEW r \in Requests, DeliveryStep(r)
  PROVE  /\ req[r] \in Deliveries
         /\ \A o \in Requests \ {r} : req'[o] = req[o]
         /\ req'[r].pc # "idle" => req'[r].start = req[r].start
         /\ GetToken(r) => req'[r].pc = "delete" /\ req'[r].uid = UserOf(Token(r))
         /\ DeleteToken(r) => req'[r].pc = "unlinkOthers" /\ req'[r].uid = req[r].uid
         /\ UnlinkOthers(r) => req'[r].pc = "link" /\ req'[r].uid = req[r].uid
         /\ AnswerExpired(r) \/ LinkUser(r) \/ LinkConflict(r) => req'[r] = Idle
<1>1. req[r].pc # "idle"
  BY DEF DeliveryStep, GetToken, AnswerExpired, DeleteToken, UnlinkOthers,
     LinkUser, LinkConflict
<1>2. req[r] \in Deliveries BY <1>1 DEF TypeOK, Idle
<1>3. \A o \in Requests \ {r} : req'[o] = req[o]
  BY DEF TypeOK, DeliveryStep, GetToken, AnswerExpired, DeleteToken, UnlinkOthers,
     LinkUser, LinkConflict, End
<1> USE <1>2 DEF TypeOK, Deliveries
<1>4. GetToken(r) => /\ req'[r].pc = "delete" /\ req'[r].start = req[r].start
                     /\ req'[r].uid = UserOf(Token(r))
  BY DEF GetToken
<1>5. DeleteToken(r) => /\ req'[r].pc = "unlinkOthers" /\ req'[r].uid = req[r].uid
                        /\ req'[r].start = req[r].start
  BY DEF DeleteToken
<1>6. UnlinkOthers(r) => /\ req'[r].pc = "link" /\ req'[r].uid = req[r].uid
                         /\ req'[r].start = req[r].start
  BY DEF UnlinkOthers
<1>7. AnswerExpired(r) \/ LinkUser(r) \/ LinkConflict(r) => req'[r] = Idle
  BY DEF AnswerExpired, LinkUser, LinkConflict, End
<1>8. Idle.pc = "idle" BY DEF Idle
<1> QED BY <1>2, <1>3, <1>4, <1>5, <1>6, <1>7, <1>8 DEF DeliveryStep
-----------------------------------------------------------------------------
(* A delivery handles a message that was sent, for the user its token was  *)
(* minted for; a message carries a token that was minted.                  *)
ReqInv ==
  /\ \A m \in sent : minted[m.token] \in Users
  /\ \A t \in cached : minted[t] \in Users
  /\ \A r \in Requests : req[r].pc # "idle" =>
       /\ req[r].start \in sent
       /\ req[r].pc # "get" => req[r].uid = minted[req[r].start.token]

TypeInv == TypeOK /\ ReqInv

LEMMA TypeStep ==
  ASSUME TypeInv, [Next]_vars
  PROVE  TypeOK'
<1> USE DEF TypeInv
<1>1. ASSUME NEW t \in Tokens, NEW u \in Users, Mint(t, u) PROVE TypeOK'
  BY <1>1 DEF Mint, TypeOK
<1>2. ASSUME NEW t \in Tokens, Expire(t) PROVE TypeOK'
  BY <1>2 DEF Expire, TypeOK
<1>3. ASSUME NEW t \in Tokens, NEW c \in Chats, Send(t, c) PROVE TypeOK'
  <2>1. [token |-> t, chat |-> c] \in Starts BY DEF Starts
  <2> QED BY <1>3, <2>1 DEF Send, TypeOK
<1>4. ASSUME NEW r \in Requests, NEW m \in sent, Deliver(r, m) PROVE TypeOK'
  <2>1. [pc |-> "get", start |-> m, uid |-> NoUser] \in Deliveries
    BY DEF Deliveries, TypeOK
  <2> QED BY <1>4, <2>1 DEF Deliver, TypeOK
<1>5. ASSUME NEW r \in Requests, DeliveryStep(r) PROVE TypeOK'
  <2>1. /\ req[r] \in Deliveries
        /\ req[r].start \in Starts /\ req[r].start \in sent
        /\ Token(r) \in Tokens /\ Chat(r) \in Chats
    BY <1>5, DeliveryFields DEF Deliveries, Starts, Token, Chat, ReqInv,
       DeliveryStep, GetToken, AnswerExpired, DeleteToken, UnlinkOthers, LinkUser,
       LinkConflict
  <2> DEFINE to(pc, u) == [req[r] EXCEPT !.pc = pc, !.uid = u]
  <2>2. ASSUME NEW pc \in {"delete", "unlinkOthers", "link"},
               NEW u \in Users \cup {NoUser}, req' = [req EXCEPT ![r] = to(pc, u)]
        PROVE  req' \in [Requests -> {Idle} \cup Deliveries]
    <3>1. to(pc, u) \in Deliveries BY <2>1 DEF Deliveries
    <3> QED BY <2>2, <3>1 DEF TypeOK
  <2>3. ASSUME NEW pc \in {"delete", "unlinkOthers", "link"},
               req' = [req EXCEPT ![r].pc = pc]
        PROVE  req' \in [Requests -> {Idle} \cup Deliveries]
    <3>1. [req[r] EXCEPT !.pc = pc] \in Deliveries BY <2>1 DEF Deliveries
    <3> QED BY <2>3, <3>1 DEF TypeOK
  <2>4. CASE GetToken(r)
    <3>1. UserOf(Token(r)) \in Users \cup {NoUser}
      BY <2>1 DEF UserOf, TypeOK
    <3>2. req' = [req EXCEPT ![r] = to("delete", UserOf(Token(r)))]
      BY <2>4 DEF GetToken
    <3>3. req' \in [Requests -> {Idle} \cup Deliveries]
      BY <2>2, <3>1, <3>2
    <3> QED BY <2>4, <3>3 DEF GetToken, TypeOK
  <2>5. CASE AnswerExpired(r)
    BY <2>1, <2>5 DEF AnswerExpired, Answer, End, TypeOK
  <2>6. CASE DeleteToken(r)
    <3>1. req' \in [Requests -> {Idle} \cup Deliveries]
      BY <2>3, <2>6 DEF DeleteToken
    <3>2. consumed' \in [Tokens -> Nat]
      BY <2>1, <2>6 DEF DeleteToken, TypeOK
    <3>3. cached' \subseteq cached BY <2>6 DEF DeleteToken, WithoutToken
    <3>4. UNCHANGED <<minted, sent, answered, chatOf, crashes>>
      BY <2>6 DEF DeleteToken
    <3> QED BY <3>1, <3>2, <3>3, <3>4 DEF TypeOK
  <2>7. CASE UnlinkOthers(r)
    <3>1. req' \in [Requests -> {Idle} \cup Deliveries]
      BY <2>3, <2>7 DEF UnlinkOthers
    <3> QED BY <2>7, <3>1 DEF UnlinkOthers, TypeOK
  <2>8. CASE LinkUser(r)
    <3>1. chatOf' \in [Users -> Chats \cup {NoChat}]
      BY <2>1, <2>8 DEF LinkUser, LinkedChat, TypeOK
    <3> QED BY <2>1, <2>8, <3>1 DEF LinkUser, Answer, End, TypeOK
  <2>9. CASE LinkConflict(r)
    BY <2>9 DEF LinkConflict, End, TypeOK
  <2> QED BY <1>5, <2>4, <2>5, <2>6, <2>7, <2>8, <2>9 DEF DeliveryStep
<1>6. ASSUME NEW r \in Requests, Crash(r) PROVE TypeOK'
  <2>1. crashes' \in 0 .. MaxCrashes
    BY <1>6, BoundsAssumption DEF Crash, TypeOK
  <2> QED BY <1>6, <2>1 DEF Crash, End, TypeOK
<1>7. ASSUME NEW u \in Users, Unlink(u) PROVE TypeOK'
  BY <1>7 DEF Unlink, TypeOK
<1>8. CASE UNCHANGED vars BY <1>8 DEF vars, TypeOK
<1> QED BY <1>1, <1>2, <1>3, <1>4, <1>5, <1>6, <1>7, <1>8 DEF Next

LEMMA ReqStep ==
  ASSUME TypeInv, [Next]_vars
  PROVE  ReqInv'
<1> USE DEF TypeInv, ReqInv
<1>0. Idle.pc = "idle" BY DEF Idle
<1>1. ASSUME NEW t \in Tokens, NEW u \in Users, Mint(t, u) PROVE ReqInv'
  <2>1. /\ minted'[t] = u /\ cached' = cached \cup {t}
        /\ \A s \in Tokens \ {t} : minted'[s] = minted[s]
        /\ sent' = sent /\ req' = req
    BY <1>1 DEF Mint, TypeOK
  <2>2. minted[t] \notin Users BY <1>1, AbsentAssumption DEF Mint
  <2>3. \A m \in sent : m.token \in Tokens /\ m.token # t
    BY <2>2 DEF TypeOK, Starts
  <2>4. \A s \in cached' : s \in Tokens BY <2>1 DEF TypeOK
  <2> QED BY <2>1, <2>3, <2>4
<1>2. ASSUME NEW t \in Tokens, Expire(t) PROVE ReqInv'
  BY <1>2 DEF Expire
<1>3. ASSUME NEW t \in Tokens, NEW c \in Chats, Send(t, c) PROVE ReqInv'
  BY <1>3 DEF Send, TypeOK
<1>4. ASSUME NEW r \in Requests, NEW m \in sent, Deliver(r, m) PROVE ReqInv'
  <2>1. /\ req'[r].pc = "get" /\ req'[r].start = m
        /\ \A o \in Requests \ {r} : req'[o] = req[o]
    BY <1>4 DEF Deliver, TypeOK
  <2> QED BY <1>4, <2>1 DEF Deliver
<1>5. ASSUME NEW r \in Requests, DeliveryStep(r) PROVE ReqInv'
  <2>1. req[r].pc # "idle" /\ minted' = minted /\ sent' = sent
        /\ cached' \subseteq cached
    BY <1>5 DEF DeliveryStep, GetToken, AnswerExpired, DeleteToken, WithoutToken,
       UnlinkOthers, LinkUser, LinkConflict
  <2>2. req[r].pc = "get" \/ req[r].uid = minted[req[r].start.token]
    BY <2>1
  <2>3. req'[r].pc # "idle" =>
          req'[r].start = req[r].start /\ req'[r].uid = minted[req[r].start.token]
    <3>1. CASE GetToken(r)
      BY <1>5, <3>1, DeliveryFields DEF UserOf, Token
    <3>2. CASE DeleteToken(r) \/ UnlinkOthers(r)
      BY <1>5, <2>2, <3>2, DeliveryFields DEF DeleteToken, UnlinkOthers
    <3>3. CASE AnswerExpired(r) \/ LinkUser(r) \/ LinkConflict(r)
      BY <1>0, <1>5, <3>3, DeliveryFields
    <3> QED BY <1>5, <3>1, <3>2, <3>3 DEF DeliveryStep
  <2>4. \A o \in Requests \ {r} : req'[o] = req[o] BY <1>5, DeliveryFields
  <2> QED BY <2>1, <2>3, <2>4
<1>6. ASSUME NEW r \in Requests, Crash(r) PROVE ReqInv'
  <2>1. req'[r] = Idle /\ \A o \in Requests \ {r} : req'[o] = req[o]
    BY <1>6 DEF Crash, End, TypeOK
  <2> QED BY <1>0, <1>6, <2>1 DEF Crash
<1>7. CASE UNCHANGED vars \/ \E u \in Users : Unlink(u)
  BY <1>7 DEF vars, Unlink
<1> QED BY <1>1, <1>2, <1>3, <1>4, <1>5, <1>6, <1>7 DEF Next

LEMMA TypeInvariant == Spec => []TypeInv
<1>1. Init => TypeInv
  <2> SUFFICES ASSUME Init PROVE TypeInv OBVIOUS
  <2>1. TypeOK BY BoundsAssumption DEF Init, TypeOK
  <2>2. Idle.pc = "idle" BY DEF Idle
  <2> QED BY <2>1, <2>2 DEF Init, ReqInv, TypeInv
<1>2. TypeInv /\ [Next]_vars => TypeInv' BY TypeStep, ReqStep DEF TypeInv
<1> QED BY <1>1, <1>2, PTL DEF Spec

(* Tokens, messages, links and deliveries hold values of their types.      *)
THEOREM TypeCorrect == Spec => []TypeOK
BY TypeInvariant, PTL DEF TypeInv
-----------------------------------------------------------------------------
LEMMA LinkStep ==
  ASSUME TypeInv, LinkedByOwnToken, [Next]_vars
  PROVE  LinkedByOwnToken'
<1> USE DEF LinkedByOwnToken, TypeInv
<1>1. ASSUME NEW t \in Tokens, NEW u \in Users, Mint(t, u)
      PROVE  LinkedByOwnToken'
  <2>1. \A m \in sent : minted'[m.token] = minted[m.token]
    <3>1. minted[t] \notin Users BY <1>1, AbsentAssumption DEF Mint
    <3> QED BY <1>1, <3>1 DEF Mint, ReqInv, TypeOK, Starts
  <2> QED BY <1>1, <2>1 DEF Mint
<1>2. ASSUME sent \subseteq sent', minted' = minted,
             \A u \in Users : chatOf'[u] \in {chatOf[u], NoChat}
      PROVE  LinkedByOwnToken'
  BY <1>2
<1>3. ASSUME NEW r \in Requests, LinkUser(r) PROVE LinkedByOwnToken'
  <2> DEFINE u == req[r].uid
  <2>1. /\ u = minted[req[r].start.token] /\ req[r].start \in sent
        /\ u \in Users
    BY <1>3 DEF LinkUser, ReqInv
  <2>2. /\ chatOf'[u] = req[r].start.chat
        /\ \A v \in Users \ {u} : chatOf'[v] = chatOf[v]
        /\ \A v \in Users \ {u} : chatOf[v] # req[r].start.chat
        /\ sent' = sent /\ minted' = minted
    BY <1>3, <2>1 DEF LinkUser, LinkedChat, ChatTaken, Chat, TypeOK
  <2> QED BY <2>1, <2>2
<1>4. CASE ~\E t \in Tokens, u \in Users : Mint(t, u)
  <2>1. CASE \E r \in Requests : LinkUser(r) BY <1>3, <2>1
  <2>2. CASE ~\E r \in Requests : LinkUser(r)
    <3>1. sent \subseteq sent' /\ minted' = minted
      BY <1>4, <2>2 DEF Next, vars, Expire, Send, Deliver, DeliveryStep, GetToken,
         AnswerExpired, DeleteToken, UnlinkOthers, LinkConflict, Crash, Unlink
    <3>2. ASSUME NEW u \in Users PROVE chatOf'[u] \in {chatOf[u], NoChat}
      <4>1. CASE \E r \in Requests : UnlinkOthers(r)
        BY <4>1 DEF UnlinkOthers
      <4>2. CASE \E v \in Users : Unlink(v)
        BY <4>2 DEF Unlink, TypeOK
      <4>3. CASE UNCHANGED chatOf BY <4>3
      <4> QED BY <1>4, <2>2, <4>1, <4>2, <4>3
           DEF Next, vars, Expire, Send, Deliver, DeliveryStep, GetToken,
               AnswerExpired, DeleteToken, LinkConflict, Crash
    <3> QED BY <1>2, <3>1, <3>2
  <2> QED BY <2>1, <2>2
<1> QED BY <1>1, <1>4

(* A user is linked only to a chat that sent a token minted for that very  *)
(* user, and shares it with nobody, however deliveries interleave, fail    *)
(* and are repeated.                                                       *)
THEOREM OwnToken == Spec => []LinkedByOwnToken
<1>1. Init => LinkedByOwnToken BY DEF Init, LinkedByOwnToken
<1>2. TypeInv /\ LinkedByOwnToken /\ [Next]_vars => LinkedByOwnToken'
  BY LinkStep
<1> QED BY <1>1, <1>2, TypeInvariant, PTL DEF Spec
-----------------------------------------------------------------------------
(* Deliveries that were given the user of token t and are about to delete  *)
(* it.                                                                     *)
Holders(t) == {r \in Requests : req[r].pc = "delete" /\ req[r].start.token = t}

(* A token that can still be read was taken by nobody; those who took it   *)
(* and those who are about to were never more than could overlap.          *)
ShareInv ==
  \A t \in Tokens :
    /\ t \in cached \/ minted[t] = NoUser => consumed[t] = 0
    /\ consumed[t] + Cardinality(Holders(t)) <= Cardinality(Requests)

LEMMA HoldersCount ==
  ASSUME NEW H \in SUBSET Requests
  PROVE  /\ IsFiniteSet(H) /\ Cardinality(H) \in Nat
         /\ Cardinality(Requests) \in Nat
         /\ Cardinality(H) <= Cardinality(Requests)
BY RequestsAssumption, FS_Subset, FS_CardinalityType

(* A step that takes no token and lets nobody read one.                    *)
LEMMA ShareKept ==
  ASSUME TypeInv, ShareInv, consumed' = consumed,
         NEW t \in Tokens, Holders(t)' \subseteq Holders(t)
  PROVE  consumed'[t] + Cardinality(Holders(t)') <= Cardinality(Requests)
<1> DEFINE H == Holders(t)  G == Holders(t)'
<1>1. H \in SUBSET Requests /\ G \in SUBSET H BY DEF Holders
<1>2. consumed[t] \in Nat /\ consumed[t] + Cardinality(H) <= Cardinality(Requests)
  BY DEF TypeInv, TypeOK, ShareInv
<1> HIDE DEF H, G
<1>3. IsFiniteSet(H) /\ Cardinality(H) \in Nat /\ Cardinality(Requests) \in Nat
  BY <1>1, HoldersCount
<1>4. Cardinality(G) <= Cardinality(H) /\ Cardinality(G) \in Nat
  BY <1>1, <1>3, FS_Subset, FS_CardinalityType
<1>5. consumed[t] + Cardinality(G) <= Cardinality(Requests)
  BY <1>2, <1>3, <1>4
<1> QED BY <1>5 DEF G

LEMMA ShareStep ==
  ASSUME TypeInv, ShareInv, [Next]_vars
  PROVE  ShareInv'
<1> USE DEF TypeInv
<1>0. Idle.pc = "idle" BY DEF Idle
<1>1. ASSUME NEW r \in Requests, GetToken(r) PROVE ShareInv'
  <2>1. /\ consumed' = consumed /\ cached' = cached /\ minted' = minted
        /\ Token(r) \in cached
    BY <1>1 DEF GetToken
  <2>2. /\ \A o \in Requests \ {r} : req'[o] = req[o]
        /\ req'[r].start = req[r].start /\ req'[r].pc = "delete"
    BY <1>1, DeliveryFields DEF DeliveryStep
  <2>3. ASSUME NEW t \in Tokens
        PROVE  consumed'[t] + Cardinality(Holders(t)') <= Cardinality(Requests)
    <3>1. CASE t = Token(r)
      <4>1. consumed'[t] = 0 BY <2>1, <3>1 DEF ShareInv
      <4>2. Holders(t)' \in SUBSET Requests BY DEF Holders
      <4>3. /\ Cardinality(Holders(t)') <= Cardinality(Requests)
            /\ Cardinality(Holders(t)') \in Nat
        BY <4>2, HoldersCount
      <4> QED BY <4>1, <4>3
    <3>2. CASE t # Token(r)
      <4>1. Holders(t)' \subseteq Holders(t) BY <2>2, <3>2 DEF Holders, Token
      <4> QED BY <2>1, <4>1, ShareKept
    <3> QED BY <3>1, <3>2
  <2> QED BY <2>1, <2>3 DEF ShareInv
<1>2. ASSUME NEW r \in Requests, DeleteToken(r) PROVE ShareInv'
  <2>1. /\ Token(r) \in Tokens /\ minted[Token(r)] \in Users
        /\ req[r].pc = "delete"
    BY <1>2 DEF DeleteToken, ReqInv, TypeOK, Token, Starts
  <2>2. /\ consumed'[Token(r)] = consumed[Token(r)] + 1
        /\ \A t \in Tokens \ {Token(r)} : consumed'[t] = consumed[t]
        /\ cached' = cached \ {Token(r)} /\ minted' = minted
    BY <1>2, <2>1 DEF DeleteToken, WithoutToken, TypeOK
  <2>3. \A o \in Requests \ {r} : req'[o] = req[o]
    BY <1>2, DeliveryFields DEF DeliveryStep
  <2>4. req'[r].pc = "unlinkOthers" BY <1>2, DeliveryFields DEF DeliveryStep
  <2>5. ASSUME NEW t \in Tokens
        PROVE  consumed'[t] + Cardinality(Holders(t)') <= Cardinality(Requests)
    <3> DEFINE H == Holders(t)  G == Holders(t)'
    <3>1. H \in SUBSET Requests BY DEF Holders
    <3>2. /\ consumed[t] \in Nat
          /\ consumed[t] + Cardinality(H) <= Cardinality(Requests)
      BY DEF TypeOK, ShareInv
    <3>3. CASE t = Token(r)
      <4>1. r \in H /\ G = H \ {r} BY <2>1, <2>3, <2>4, <3>3 DEF Holders, Token
      <4> HIDE DEF H, G
      <4>2. /\ IsFiniteSet(H) /\ Cardinality(H) \in Nat
            /\ Cardinality(Requests) \in Nat
        BY <3>1, HoldersCount
      <4>3. Cardinality(G) = Cardinality(H) - 1
        BY <4>1, <4>2, FS_RemoveElement
      <4>4. consumed'[t] + Cardinality(G) <= Cardinality(Requests)
        BY <2>2, <3>2, <3>3, <4>2, <4>3
      <4> QED BY <4>4 DEF G
    <3>4. CASE t # Token(r)
      <4>1. G = H BY <2>1, <2>3, <2>4, <3>4 DEF Holders, Token
      <4> QED BY <2>2, <3>2, <3>4, <4>1
    <3> QED BY <3>3, <3>4
  <2>6. ASSUME NEW t \in Tokens, t \in cached' \/ minted'[t] = NoUser
        PROVE  consumed'[t] = 0
    <3>1. t # Token(r) BY <2>1, <2>2, <2>6, AbsentAssumption
    <3> QED BY <2>2, <2>6, <3>1 DEF ShareInv
  <2> QED BY <2>5, <2>6 DEF ShareInv
<1>3. CASE \A r \in Requests : ~GetToken(r) /\ ~DeleteToken(r)
  <2>1. consumed' = consumed
    BY <1>3 DEF Next, vars, Mint, Expire, Send, Deliver, DeliveryStep,
       AnswerExpired, UnlinkOthers, LinkUser, LinkConflict, Crash, Unlink
  <2>2. ASSUME NEW t \in Tokens, t \in cached' \/ minted'[t] = NoUser
        PROVE  t \in cached \/ minted[t] = NoUser
    <3>1. \/ cached' \subseteq cached /\ minted' = minted
          \/ \E s \in Tokens, u \in Users : Mint(s, u)
      BY <1>3 DEF Next, vars, Expire, Send, Deliver, DeliveryStep,
         AnswerExpired, UnlinkOthers, LinkUser, LinkConflict, Crash, Unlink
    <3>2. ASSUME NEW s \in Tokens, NEW u \in Users, Mint(s, u)
          PROVE  t \in cached \/ minted[t] = NoUser
      BY <2>2, <3>2 DEF Mint, TypeOK
    <3> QED BY <2>2, <3>1, <3>2
  <2>3. ASSUME NEW r \in Requests, req'[r].pc = "delete"
        PROVE  req'[r] = req[r]
    <3>1. ASSUME NEW o \in Requests, DeliveryStep(o) \/ Crash(o)
          PROVE  req'[r] = req[r]
      <4>1. CASE DeliveryStep(o)
        <5>1. req'[o].pc # "delete"
          BY <1>0, <1>3, <4>1, DeliveryFields DEF DeliveryStep
        <5> QED BY <2>3, <4>1, <5>1, DeliveryFields
      <4>2. CASE Crash(o)
        BY <1>0, <2>3, <4>2 DEF Crash, End, TypeOK
      <4> QED BY <3>1, <4>1, <4>2
    <3>2. ASSUME NEW o \in Requests, NEW m \in sent, Deliver(o, m)
          PROVE  req'[r] = req[r]
      BY <2>3, <3>2 DEF Deliver, TypeOK
    <3> QED BY <3>1, <3>2 DEF Next, vars, Mint, Expire, Send, Unlink
  <2>4. ASSUME NEW t \in Tokens PROVE Holders(t)' \subseteq Holders(t)
    BY <2>3 DEF Holders
  <2>5. \A t \in Tokens :
          consumed'[t] + Cardinality(Holders(t)') <= Cardinality(Requests)
    BY <2>1, <2>4, ShareKept
  <2> QED BY <2>1, <2>2, <2>5 DEF ShareInv
<1> QED BY <1>1, <1>2, <1>3

(* A one-time token is consumed by no more deliveries than overlap, though *)
(* it is read and deleted in two calls and Telegram repeats messages.      *)
THEOREM SharedByOverlap == Spec => []TokenShared
<1>1. Init => ShareInv
  <2> SUFFICES ASSUME Init, NEW t \in Tokens
               PROVE  /\ consumed[t] = 0
                      /\ consumed[t] + Cardinality(Holders(t))
                           <= Cardinality(Requests)
    BY DEF ShareInv
  <2>1. Holders(t) = {} BY DEF Init, Idle, Holders
  <2>2. Cardinality(Holders(t)) = 0 BY <2>1, FS_EmptySet
  <2>3. Cardinality(Requests) \in Nat
    BY RequestsAssumption, FS_CardinalityType
  <2>4. consumed[t] = 0 BY DEF Init
  <2>5. consumed[t] + Cardinality(Holders(t)) <= Cardinality(Requests)
    BY <2>2, <2>3, <2>4
  <2> QED BY <2>4, <2>5
<1>2. TypeInv /\ ShareInv /\ [Next]_vars => ShareInv' BY ShareStep
<1>3. TypeInv /\ ShareInv => TokenShared
  <2> SUFFICES ASSUME TypeInv, ShareInv, NEW t \in Tokens
               PROVE  consumed[t] <= Cardinality(Requests)
    BY DEF TokenShared
  <2>1. Holders(t) \in SUBSET Requests BY DEF Holders
  <2>2. Cardinality(Holders(t)) \in Nat /\ Cardinality(Requests) \in Nat
    BY <2>1, HoldersCount
  <2>3. /\ consumed[t] \in Nat
        /\ consumed[t] + Cardinality(Holders(t)) <= Cardinality(Requests)
    BY DEF TypeInv, TypeOK, ShareInv
  <2> QED BY <2>2, <2>3
<1> QED BY <1>1, <1>2, <1>3, TypeInvariant, PTL DEF Spec
=============================================================================
