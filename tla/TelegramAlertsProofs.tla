------------------------ MODULE TelegramAlertsProofs ------------------------
(***************************************************************************)
(* Theorems about TelegramAlerts, for any team, inbox, environment and     *)
(* number of broadcasts, updates and mishaps.                              *)
(***************************************************************************)
EXTENDS TelegramAlerts, FiniteSetTheorems, SequenceTheorems,
        WellFoundedInduction, TLAPS

(* A nonempty set of naturals has a least element.                         *)
LEMMA Least ==
  ASSUME NEW S \in SUBSET Nat, S # {}
  PROVE  \E x \in S : \A y \in S : x <= y
<1> DEFINE less == {ss \in Nat \X Nat : ss[1] < ss[2]}
<1>1. IsWellFoundedOn(less, Nat)
  BY NatLessThanWellFounded DEF OpToRel
<1>2. PICK x \in S : \A y \in S : <<y, x>> \notin less
  BY <1>1, WFMin
<1>3. ASSUME NEW y \in S PROVE x <= y
  <2>1. <<y, x>> \in Nat \X Nat /\ <<y, x>> \notin less BY <1>2
  <2>2. ~(y < x) BY <2>1
  <2> QED BY <2>2
<1> QED BY <1>3

(* Nth numbers a finite set of naturals: how many elements are no larger   *)
(* is an injection into as many numbers, so a surjection.                  *)
Rank(I, i) == Cardinality({j \in I : j <= i})

LEMMA RankRange ==
  ASSUME NEW I \in SUBSET Nat, IsFiniteSet(I), NEW i \in I
  PROVE  Rank(I, i) \in 1 .. Cardinality(I)
<1> DEFINE J == {j \in I : j <= i}
<1>1. J \in SUBSET I OBVIOUS
<1>2. i \in J OBVIOUS
<1> HIDE DEF J
<1>3. IsFiniteSet(J) /\ Cardinality(J) <= Cardinality(I) BY <1>1, FS_Subset
<1>4. Cardinality(J) \in Nat /\ Cardinality(I) \in Nat
  BY <1>3, FS_CardinalityType
<1>5. Cardinality(J) # 0 BY <1>2, <1>3, FS_EmptySet
<1> QED BY <1>3, <1>4, <1>5 DEF Rank, J

LEMMA RankInjective ==
  ASSUME NEW I \in SUBSET Nat, IsFiniteSet(I), NEW i \in I, NEW k \in I, i < k
  PROVE  Rank(I, i) # Rank(I, k)
<1> DEFINE J == {j \in I : j <= i}
           K == {j \in I : j <= k}
<1>0. i \in Nat /\ k \in Nat /\ \A j \in I : j \in Nat OBVIOUS
<1>1. J \in SUBSET K /\ K \in SUBSET I
  <2>1. \A j \in I : j <= i => j <= k BY <1>0
  <2> QED BY <2>1
<1>2. k \in K /\ k \notin J BY <1>0
<1> HIDE DEF J, K
<1>3. IsFiniteSet(K) BY <1>1, FS_Subset
<1>4. Cardinality(K) = Cardinality(J) => K = J BY <1>1, <1>3, FS_Subset
<1> QED BY <1>2, <1>4 DEF Rank, J, K

LEMMA NthProperties ==
  ASSUME NEW I \in SUBSET Nat, IsFiniteSet(I)
  PROVE  /\ Cardinality(I) \in Nat
         /\ \A k \in 1 .. Cardinality(I) : Nth(I, k) \in I /\ Rank(I, Nth(I, k)) = k
         /\ \A i \in I : \E k \in 1 .. Cardinality(I) : Nth(I, k) = i
<1> DEFINE n == Cardinality(I)
           rank == [i \in I |-> Rank(I, i)]
<1>1. n \in Nat BY FS_CardinalityType
<1>2. rank \in [I -> 1 .. n] BY RankRange
<1>3. ASSUME NEW i \in I, NEW k \in I, Rank(I, i) = Rank(I, k) PROVE i = k
  <2>1. i \in Nat /\ k \in Nat OBVIOUS
  <2>2. ~(i < k) /\ ~(k < i) BY <1>3, RankInjective
  <2> QED BY <2>1, <2>2
<1>4. rank \in Injection(I, 1 .. n)
  BY <1>2, <1>3 DEF Injection, IsInjective
<1>5. IsFiniteSet(1 .. n) /\ Cardinality(1 .. n) = n BY <1>1, FS_Interval
<1> HIDE DEF rank
<1>6. rank \in Surjection(I, 1 .. n) BY <1>4, <1>5, FS_Injection
<1>7. ASSUME NEW k \in 1 .. n PROVE Nth(I, k) \in I /\ Rank(I, Nth(I, k)) = k
  <2>1. PICK i \in I : rank[i] = k BY <1>6 DEF Surjection
  <2>2. Rank(I, i) = k BY <2>1 DEF rank
  <2> QED BY <2>2 DEF Nth, Rank
<1>8. ASSUME NEW i \in I PROVE \E k \in 1 .. n : Nth(I, k) = i
  <2>1. Rank(I, i) \in 1 .. n BY RankRange
  <2> QED BY <1>3, <1>7, <2>1
<1> QED BY <1>1, <1>7, <1>8

LEMMA PickedProperties ==
  ASSUME NEW T, NEW s, NEW I \in SUBSET Nat, IsFiniteSet(I), \A i \in I : s[i] \in T
  PROVE  /\ Picked(s, I) \in Seq(T)
         /\ Range(Picked(s, I)) = {s[i] : i \in I}
         /\ (\A i, j \in I : s[i] = s[j] => i = j) => IsInjective(Picked(s, I))
<1> DEFINE n == Cardinality(I)
           p == Picked(s, I)
<1>1. n \in Nat BY NthProperties
<1>2. \A k \in 1 .. n : Nth(I, k) \in I /\ Rank(I, Nth(I, k)) = k
  BY NthProperties
<1>3. \A i \in I : \E k \in 1 .. n : Nth(I, k) = i BY NthProperties
<1>4. p = [k \in 1 .. n |-> s[Nth(I, k)]] BY DEF Picked
<1> HIDE DEF n, p
<1>5. p \in Seq(T)
  <2>1. p \in [1 .. n -> T] BY <1>2, <1>4
  <2> QED BY <1>1, <2>1
<1>6. DOMAIN p = 1 .. n BY <1>4
<1>7. Range(p) = {s[i] : i \in I}
  BY <1>2, <1>3, <1>4, <1>6 DEF Range
<1>8. ASSUME \A i, j \in I : s[i] = s[j] => i = j PROVE IsInjective(p)
  <2> SUFFICES ASSUME NEW a \in 1 .. n, NEW b \in 1 .. n, p[a] = p[b] PROVE a = b
    BY <1>6 DEF IsInjective
  <2>1. s[Nth(I, a)] = s[Nth(I, b)] BY <1>4
  <2>2. Nth(I, a) = Nth(I, b) BY <1>2, <1>8, <2>1
  <2> QED BY <1>2, <2>2
<1> QED BY <1>5, <1>7, <1>8 DEF p

(* The list keeps its order, gains what it lacked, and lists no chat twice *)
(* if it did not before.                                                   *)
LEMMA AddNewProperties ==
  ASSUME NEW T, NEW ids \in Seq(T), NEW more \in Seq(T)
  PROVE  /\ AddNew(ids, more) \in Seq(T)
         /\ Range(AddNew(ids, more)) = Range(ids) \cup Range(more)
         /\ IsInjective(ids) => IsInjective(AddNew(ids, more))
<1> DEFINE I == {i \in DOMAIN more : /\ more[i] \notin Range(ids)
                                     /\ \A j \in 1 .. i - 1 : more[j] # more[i]}
           p == Picked(more, I)
           all == ids \o p
<1>0. AddNew(ids, more) = all BY DEF AddNew
<1>1. DOMAIN more = 1 .. Len(more) /\ Len(more) \in Nat
  BY LenProperties
<1>2. DOMAIN ids = 1 .. Len(ids) /\ Len(ids) \in Nat
  BY LenProperties
<1>3. I \in SUBSET Nat /\ IsFiniteSet(I)
  <2>1. I \in SUBSET (1 .. Len(more)) /\ I \in SUBSET Nat BY <1>1
  <2>2. IsFiniteSet(1 .. Len(more)) BY <1>1, FS_Interval
  <2> HIDE DEF I
  <2> QED BY <2>1, <2>2, FS_Subset
<1>4. \A i \in I : more[i] \in T /\ more[i] \in Range(more) /\ more[i] \notin Range(ids)
  BY <1>1, ElementOfSeq DEF Range
<1>5. ASSUME NEW i \in I, NEW j \in I, more[i] = more[j] PROVE i = j
  <2>1. i \in Nat \ {0} /\ j \in Nat \ {0} BY <1>1
  <2>2. ~(i < j) /\ ~(j < i) BY <1>5, <2>1
  <2> QED BY <2>1, <2>2
<1>6. ASSUME NEW x \in Range(more), x \notin Range(ids)
      PROVE  \E i \in I : more[i] = x
  <2> DEFINE S == {i \in DOMAIN more : more[i] = x}
  <2>1. S \in SUBSET Nat /\ S # {} BY <1>1 DEF Range
  <2>2. PICK i \in S : \A y \in S : i <= y BY <2>1, Least
  <2>3. i \in DOMAIN more /\ more[i] = x BY <2>2
  <2>4. ASSUME NEW j \in 1 .. i - 1 PROVE more[j] # more[i]
    <3>1. j \in DOMAIN more /\ ~(i <= j) BY <1>1, <2>3
    <3> QED BY <2>2, <2>3, <3>1
  <2> QED BY <1>6, <2>3, <2>4
<1> HIDE DEF I
<1>7. p \in Seq(T) /\ Range(p) = {more[i] : i \in I} /\ IsInjective(p)
  BY <1>3, <1>4, <1>5, PickedProperties
<1>8. DOMAIN p = 1 .. Len(p) /\ Len(p) \in Nat BY <1>7, LenProperties
<1> HIDE DEF p
<1>9. /\ all \in Seq(T) /\ DOMAIN all = 1 .. Len(ids) + Len(p)
      /\ \A i \in DOMAIN all : all[i] = IF i <= Len(ids) THEN ids[i] ELSE p[i - Len(ids)]
  BY <1>7, ConcatProperties, LenProperties
<1> HIDE DEF all
<1>10. Range(all) = Range(ids) \cup Range(p)
  <2>1. ASSUME NEW x \in Range(all) PROVE x \in Range(ids) \cup Range(p)
    <3>1. PICK i \in DOMAIN all : all[i] = x BY DEF Range
    <3>2. CASE i <= Len(ids) BY <1>2, <1>9, <3>1, <3>2 DEF Range
    <3>3. CASE ~(i <= Len(ids))
      <4>1. i - Len(ids) \in DOMAIN p BY <1>2, <1>8, <1>9, <3>3
      <4> QED BY <1>9, <3>1, <3>3, <4>1 DEF Range
    <3> QED BY <3>2, <3>3
  <2>2. ASSUME NEW x \in Range(ids) PROVE x \in Range(all)
    <3>1. PICK i \in DOMAIN ids : ids[i] = x BY DEF Range
    <3>2. i \in DOMAIN all /\ all[i] = x BY <1>2, <1>8, <1>9, <3>1
    <3> QED BY <3>2 DEF Range
  <2>3. ASSUME NEW x \in Range(p) PROVE x \in Range(all)
    <3>1. PICK i \in DOMAIN p : p[i] = x BY DEF Range
    <3>2. i + Len(ids) \in DOMAIN all /\ all[i + Len(ids)] = x
      BY <1>2, <1>8, <1>9, <3>1
    <3> QED BY <3>2 DEF Range
  <2> QED BY <2>1, <2>2, <2>3
<1>11. Range(ids) \cup Range(p) = Range(ids) \cup Range(more)
  BY <1>4, <1>6, <1>7
<1>12. ASSUME IsInjective(ids) PROVE IsInjective(all)
  <2> SUFFICES ASSUME NEW a \in DOMAIN all, NEW b \in DOMAIN all, all[a] = all[b]
               PROVE  a = b
    BY DEF IsInjective
  <2>1. \A i \in DOMAIN p : p[i] \notin Range(ids)
    <3>1. \A i \in DOMAIN p : p[i] \in Range(p) BY DEF Range
    <3> QED BY <1>4, <1>7, <3>1
  <2>2. \A i \in DOMAIN ids : ids[i] \in Range(ids) BY DEF Range
  <2>3. CASE a <= Len(ids) /\ b <= Len(ids)
    BY <1>2, <1>9, <1>12, <2>3 DEF IsInjective
  <2>4. CASE ~(a <= Len(ids)) /\ ~(b <= Len(ids))
    <3>1. a - Len(ids) \in DOMAIN p /\ b - Len(ids) \in DOMAIN p
      BY <1>2, <1>8, <1>9, <2>4
    <3>2. p[a - Len(ids)] = p[b - Len(ids)] BY <1>9, <2>4
    <3>3. a - Len(ids) = b - Len(ids) BY <1>7, <3>1, <3>2 DEF IsInjective
    <3> QED BY <1>2, <1>8, <1>9, <3>3
  <2>5. ASSUME NEW c \in DOMAIN all, NEW d \in DOMAIN all,
               c <= Len(ids), ~(d <= Len(ids))
        PROVE  all[c] # all[d]
    <3>1. c \in DOMAIN ids /\ d - Len(ids) \in DOMAIN p BY <1>2, <1>8, <1>9, <2>5
    <3>2. all[c] = ids[c] /\ all[d] = p[d - Len(ids)] BY <1>9, <2>5
    <3> QED BY <2>1, <2>2, <3>1, <3>2
  <2> QED BY <2>3, <2>4, <2>5
<1> QED BY <1>0, <1>9, <1>10, <1>11, <1>12

LEMMA LinkedChatsProperties ==
  ASSUME NEW kind, user \in [Users -> UserRows]
  PROVE  /\ LinkedChats(kind) \in Seq(Chats)
         /\ Range(LinkedChats(kind)) =
              {user[u].chat : u \in {v \in Users : Gets(kind, user[v])}}
<1> DEFINE I == {u \in Users : Gets(kind, user[u])}
           s == [u \in Users |-> user[u].chat]
<1>1. I \in SUBSET Nat /\ IsFiniteSet(I)
  <2>1. NumUsers \in Nat BY BoundsAssumption
  <2>2. IsFiniteSet(1 .. NumUsers) BY <2>1, FS_Interval
  <2>3. I \in SUBSET (1 .. NumUsers) /\ I \in SUBSET Nat BY <2>1 DEF Users
  <2> HIDE DEF I
  <2> QED BY <2>1, <2>2, <2>3, FS_Subset
<1>2. \A i \in I : s[i] = user[i].chat /\ s[i] \in Chats
  <2> SUFFICES ASSUME NEW i \in I PROVE s[i] = user[i].chat /\ s[i] \in Chats
    OBVIOUS
  <2>1. i \in Users /\ user[i].chat # Nothing BY DEF Gets
  <2>2. user[i].chat \in Private \cup {Nothing} BY <2>1 DEF UserRows
  <2> QED BY <2>1, <2>2 DEF Chats
<1>3. LinkedChats(kind) = Picked(s, I) BY DEF LinkedChats
<1> HIDE DEF s, I
<1>4. Picked(s, I) \in Seq(Chats) /\ Range(Picked(s, I)) = {s[i] : i \in I}
  <2>1. \A i \in I : s[i] \in Chats BY <1>2
  <2> QED BY <1>1, <2>1, PickedProperties
<1>5. {s[i] : i \in I} = {user[i].chat : i \in I} BY <1>2
<1> QED BY <1>3, <1>4, <1>5 DEF I
-----------------------------------------------------------------------------
(* What a request's record keeps from one step to the next, and lemmas on  *)
(* each shape of assignment to it.                                         *)
Pcs == {"staff", "resolve", "signal", "inbox", "users", "send", "bind", "confirm"}
Why == {"list", "user"} \X Chats

Edited(s, r, pc, ticket, todo, due, sent, was, steady) ==
  /\ s \in Busy /\ s.kind = r.kind /\ s.own = r.own /\ s.update = r.update
  /\ s.pc = pc /\ s.ticket = ticket /\ s.todo = todo /\ s.due = due
  /\ s.sent = sent /\ s.was = was /\ s.steady = steady

LEMMA Fields ==
  ASSUME NEW r \in Busy
  PROVE  /\ r.pc \in Pcs /\ r.kind \in {"claim", "onit"}
         /\ r.ticket \in Tickets \cup {Nothing} /\ r.own \in Private \cup {Nothing}
         /\ r.update \in Updates \cup {Nothing} /\ r.todo \in Seq(Chats)
         /\ r.due \in SUBSET Chats /\ r.sent \in {Nothing} \cup (Chats \X Nat)
         /\ r.was \in SUBSET Chats /\ r.steady \in SUBSET Why
BY DEF Busy, Pcs, Why

LEMMA EditPc ==
  ASSUME NEW r \in Busy, NEW pc \in Pcs
  PROVE  Edited([r EXCEPT !.pc = pc], r,
                pc, r.ticket, r.todo, r.due, r.sent, r.was, r.steady)
<1> DEFINE B == Tickets \cup {Nothing}
           O == Private \cup {Nothing}
           U == Updates \cup {Nothing}
           T == Seq(Chats)
           D == SUBSET Chats
           S == {Nothing} \cup (Chats \X Nat)
           W == SUBSET Why
<1>1. Busy = [pc : Pcs, kind : {"claim", "onit"}, ticket : B, own : O, update : U,
              alert : BOOLEAN, todo : T, due : D, sent : S, was : D, steady : W]
  BY DEF Busy, Pcs, Why
<1>2. pc \in Pcs
  OBVIOUS
<1> HIDE DEF B, O, U, T, D, S, W
<1> QED BY <1>1, <1>2 DEF Edited

LEMMA EditPcTicket ==
  ASSUME NEW r \in Busy, NEW pc \in Pcs, NEW t \in Tickets
  PROVE  Edited([r EXCEPT !.pc = pc, !.ticket = t], r,
                pc, t, r.todo, r.due, r.sent, r.was, r.steady)
<1> DEFINE B == Tickets \cup {Nothing}
           O == Private \cup {Nothing}
           U == Updates \cup {Nothing}
           T == Seq(Chats)
           D == SUBSET Chats
           S == {Nothing} \cup (Chats \X Nat)
           W == SUBSET Why
<1>1. Busy = [pc : Pcs, kind : {"claim", "onit"}, ticket : B, own : O, update : U,
              alert : BOOLEAN, todo : T, due : D, sent : S, was : D, steady : W]
  BY DEF Busy, Pcs, Why
<1>2. pc \in Pcs /\ t \in B
  OBVIOUS
<1> HIDE DEF B, O, U, T, D, S, W
<1> QED BY <1>1, <1>2 DEF Edited

LEMMA EditTodo ==
  ASSUME NEW r \in Busy, NEW todo \in Seq(Chats)
  PROVE  Edited([r EXCEPT !.todo = todo], r,
                r.pc, r.ticket, todo, r.due, r.sent, r.was, r.steady)
<1> DEFINE B == Tickets \cup {Nothing}
           O == Private \cup {Nothing}
           U == Updates \cup {Nothing}
           T == Seq(Chats)
           D == SUBSET Chats
           S == {Nothing} \cup (Chats \X Nat)
           W == SUBSET Why
<1>1. Busy = [pc : Pcs, kind : {"claim", "onit"}, ticket : B, own : O, update : U,
              alert : BOOLEAN, todo : T, due : D, sent : S, was : D, steady : W]
  BY DEF Busy, Pcs, Why
<1>2. todo \in T
  OBVIOUS
<1> HIDE DEF B, O, U, T, D, S, W
<1> QED BY <1>1, <1>2 DEF Edited

LEMMA EditPcTodo ==
  ASSUME NEW r \in Busy, NEW pc \in Pcs, NEW todo \in Seq(Chats)
  PROVE  Edited([r EXCEPT !.pc = pc, !.todo = todo], r,
                pc, r.ticket, todo, r.due, r.sent, r.was, r.steady)
<1> DEFINE B == Tickets \cup {Nothing}
           O == Private \cup {Nothing}
           U == Updates \cup {Nothing}
           T == Seq(Chats)
           D == SUBSET Chats
           S == {Nothing} \cup (Chats \X Nat)
           W == SUBSET Why
<1>1. Busy = [pc : Pcs, kind : {"claim", "onit"}, ticket : B, own : O, update : U,
              alert : BOOLEAN, todo : T, due : D, sent : S, was : D, steady : W]
  BY DEF Busy, Pcs, Why
<1>2. pc \in Pcs /\ todo \in T
  OBVIOUS
<1> HIDE DEF B, O, U, T, D, S, W
<1> QED BY <1>1, <1>2 DEF Edited

LEMMA EditDueTodo ==
  ASSUME NEW r \in Busy, NEW due \in SUBSET Chats, NEW todo \in Seq(Chats)
  PROVE  Edited([r EXCEPT !.due = due, !.todo = todo], r,
                r.pc, r.ticket, todo, due, r.sent, r.was, r.steady)
<1> DEFINE B == Tickets \cup {Nothing}
           O == Private \cup {Nothing}
           U == Updates \cup {Nothing}
           T == Seq(Chats)
           D == SUBSET Chats
           S == {Nothing} \cup (Chats \X Nat)
           W == SUBSET Why
<1>1. Busy = [pc : Pcs, kind : {"claim", "onit"}, ticket : B, own : O, update : U,
              alert : BOOLEAN, todo : T, due : D, sent : S, was : D, steady : W]
  BY DEF Busy, Pcs, Why
<1>2. todo \in T /\ due \in D
  OBVIOUS
<1> HIDE DEF B, O, U, T, D, S, W
<1> QED BY <1>1, <1>2 DEF Edited

LEMMA EditPcSent ==
  ASSUME NEW r \in Busy, NEW pc \in Pcs, NEW sent \in {Nothing} \cup (Chats \X Nat)
  PROVE  Edited([r EXCEPT !.pc = pc, !.sent = sent], r,
                pc, r.ticket, r.todo, r.due, sent, r.was, r.steady)
<1> DEFINE B == Tickets \cup {Nothing}
           O == Private \cup {Nothing}
           U == Updates \cup {Nothing}
           T == Seq(Chats)
           D == SUBSET Chats
           S == {Nothing} \cup (Chats \X Nat)
           W == SUBSET Why
<1>1. Busy = [pc : Pcs, kind : {"claim", "onit"}, ticket : B, own : O, update : U,
              alert : BOOLEAN, todo : T, due : D, sent : S, was : D, steady : W]
  BY DEF Busy, Pcs, Why
<1>2. pc \in Pcs /\ sent \in S
  OBVIOUS
<1> HIDE DEF B, O, U, T, D, S, W
<1> QED BY <1>1, <1>2 DEF Edited

LEMMA EditSend ==
  ASSUME NEW r \in Busy, NEW pc \in Pcs, NEW sent \in {Nothing} \cup (Chats \X Nat),
         NEW due \in SUBSET Chats, NEW todo \in Seq(Chats)
  PROVE  Edited([r EXCEPT !.pc = pc, !.sent = sent, !.due = due, !.todo = todo], r,
                pc, r.ticket, todo, due, sent, r.was, r.steady)
<1> DEFINE B == Tickets \cup {Nothing}
           O == Private \cup {Nothing}
           U == Updates \cup {Nothing}
           T == Seq(Chats)
           D == SUBSET Chats
           S == {Nothing} \cup (Chats \X Nat)
           W == SUBSET Why
<1>1. Busy = [pc : Pcs, kind : {"claim", "onit"}, ticket : B, own : O, update : U,
              alert : BOOLEAN, todo : T, due : D, sent : S, was : D, steady : W]
  BY DEF Busy, Pcs, Why
<1>2. pc \in Pcs /\ todo \in T /\ due \in D /\ sent \in S
  OBVIOUS
<1> HIDE DEF B, O, U, T, D, S, W
<1> QED BY <1>1, <1>2 DEF Edited

LEMMA EditWhy ==
  ASSUME NEW r \in Busy, NEW was \in SUBSET Chats, NEW steady \in SUBSET Why
  PROVE  Edited([r EXCEPT !.was = was, !.steady = steady], r,
                r.pc, r.ticket, r.todo, r.due, r.sent, was, steady)
<1> DEFINE B == Tickets \cup {Nothing}
           O == Private \cup {Nothing}
           U == Updates \cup {Nothing}
           T == Seq(Chats)
           D == SUBSET Chats
           S == {Nothing} \cup (Chats \X Nat)
           W == SUBSET Why
<1>1. Busy = [pc : Pcs, kind : {"claim", "onit"}, ticket : B, own : O, update : U,
              alert : BOOLEAN, todo : T, due : D, sent : S, was : D, steady : W]
  BY DEF Busy, Pcs, Why
<1>2. was \in D /\ steady \in W
  OBVIOUS
<1> HIDE DEF B, O, U, T, D, S, W
<1> QED BY <1>1, <1>2 DEF Edited

LEMMA EditList ==
  ASSUME NEW r \in Busy, NEW pc \in Pcs, NEW todo \in Seq(Chats), NEW due \in SUBSET Chats,
         NEW was \in SUBSET Chats, NEW steady \in SUBSET Why
  PROVE  Edited([r EXCEPT !.pc = pc, !.todo = todo, !.due = due, !.was = was,
                     !.steady = steady], r,
                pc, r.ticket, todo, due, r.sent, was, steady)
<1> DEFINE B == Tickets \cup {Nothing}
           O == Private \cup {Nothing}
           U == Updates \cup {Nothing}
           T == Seq(Chats)
           D == SUBSET Chats
           S == {Nothing} \cup (Chats \X Nat)
           W == SUBSET Why
<1>1. Busy = [pc : Pcs, kind : {"claim", "onit"}, ticket : B, own : O, update : U,
              alert : BOOLEAN, todo : T, due : D, sent : S, was : D, steady : W]
  BY DEF Busy, Pcs, Why
<1>2. pc \in Pcs /\ todo \in T /\ due \in D /\ was \in D /\ steady \in W
  OBVIOUS
<1> HIDE DEF B, O, U, T, D, S, W
<1> QED BY <1>1, <1>2 DEF Edited
-----------------------------------------------------------------------------
(* What each action does to the record of its request.                     *)
Moves(w) == proc' = [proc EXCEPT ![w] = proc'[w]]

Becomes(w, pc, ticket, todo, due, sent, was, steady) ==
  /\ Moves(w) /\ proc[w] \in Busy
  /\ Edited(proc'[w], proc[w], pc, ticket, todo, due, sent, was, steady)

Drops(w) == Moves(w) /\ proc[w] \in Busy /\ proc'[w] = Idle

Fresh(s, pc, kind, t, m) ==
  s \in Busy /\ s.pc = pc /\ s.kind = kind /\ s.ticket = t /\ s.update = m

(* Every chat that is to be told is noted; the reasons that hold now are   *)
(* all that can have held throughout.                                      *)
Listing(r, rows, ids) ==
  /\ r.steady \subseteq Reasons(r.kind, rows, ids)
  /\ Told(Reasons(r.kind, rows, ids)) \subseteq r.was

Begins(w, pc, kind, t, own, m, alert) ==
  /\ Moves(w) /\ proc'[w] = Request(pc, kind, t, own, m, alert)
  /\ Fresh(proc'[w], pc, kind, t, m)
  /\ alert => Listing(proc'[w], user, inbox)

LEMMA Assigned ==
  ASSUME TypeOK, NEW w \in Workers, NEW s, proc' = [proc EXCEPT ![w] = s]
  PROVE  Moves(w) /\ proc'[w] = s
BY DEF TypeOK, Moves

LEMMA BusyOrIdle ==
  ASSUME TypeOK, NEW w \in Workers
  PROVE  At(w, "idle") <=> proc[w] = Idle
<1>1. proc[w] \in {Idle} \cup Busy BY DEF TypeOK
<1>2. Idle.pc = "idle" BY DEF Idle
<1>3. \A r \in Busy : r.pc # "idle" BY DEF Busy
<1> QED BY <1>1, <1>2, <1>3 DEF At

LEMMA BusyAt ==
  ASSUME TypeOK, NEW w \in Workers, ~At(w, "idle")
  PROVE  proc[w] \in Busy
BY BusyOrIdle DEF TypeOK

LEMMA BecomesBy ==
  ASSUME TypeOK, NEW w \in Workers, ~At(w, "idle"), NEW s,
         NEW pc, NEW t, NEW todo, NEW due, NEW sent, NEW was, NEW steady,
         proc' = [proc EXCEPT ![w] = s],
         Edited(s, proc[w], pc, t, todo, due, sent, was, steady)
  PROVE  Becomes(w, pc, t, todo, due, sent, was, steady)
BY Assigned, BusyAt DEF Becomes

LEMMA ReasonsTyped ==
  ASSUME NEW kind, NEW rows \in [Users -> UserRows], NEW ids \in Seq(Chats)
  PROVE  /\ Reasons(kind, rows, ids) \in SUBSET Why
         /\ Told(Reasons(kind, rows, ids)) \in SUBSET Chats
<1>1. \A c \in Range(Env) \cup Range(ids) : c \in Chats
  <2>1. \A i \in DOMAIN Env : Env[i] \in Chats
    BY EnvAssumption, ElementOfSeq, LenProperties
  <2>2. \A i \in DOMAIN ids : ids[i] \in Chats
    BY ElementOfSeq, LenProperties
  <2> QED BY <2>1, <2>2 DEF Range
<1>2. \A v \in Users : rows[v].chat # Nothing => rows[v].chat \in Chats
  BY DEF UserRows, Chats
<1>3. Reasons(kind, rows, ids) \in SUBSET Why BY <1>1, <1>2 DEF Reasons, Why
<1>4. ASSUME NEW R \in SUBSET Why PROVE Told(R) \in SUBSET Chats
  BY DEF Told, Why
<1> QED BY <1>3, <1>4

LEMMA RequestTyped ==
  ASSUME TypeOK, NEW pc \in Pcs, NEW kind \in {"claim", "onit"},
         NEW t \in Tickets \cup {Nothing}, NEW own \in Private \cup {Nothing},
         NEW m \in Updates \cup {Nothing}, NEW alert \in BOOLEAN
  PROVE  Fresh(Request(pc, kind, t, own, m, alert), pc, kind, t, m)
<1> DEFINE R == Reasons(kind, user, inbox)
           B == Tickets \cup {Nothing}
           O == Private \cup {Nothing}
           U == Updates \cup {Nothing}
           T == Seq(Chats)
           D == SUBSET Chats
           S == {Nothing} \cup (Chats \X Nat)
           W == SUBSET Why
           was == IF alert THEN Told(R) ELSE {}
           steady == IF alert THEN R ELSE {}
<1>1. Busy = [pc : Pcs, kind : {"claim", "onit"}, ticket : B, own : O, update : U,
              alert : BOOLEAN, todo : T, due : D, sent : S, was : D, steady : W]
  BY DEF Busy, Pcs, Why
<1>2. R \in W /\ Told(R) \in D BY ReasonsTyped DEF TypeOK
<1>3. was \in D /\ steady \in W BY <1>2
<1>4. <<>> \in T /\ {} \in D /\ Nothing \in S /\ t \in B /\ own \in O /\ m \in U
  OBVIOUS
<1>5. Request(pc, kind, t, own, m, alert)
        = [pc |-> pc, kind |-> kind, ticket |-> t, own |-> own, update |-> m,
           alert |-> alert, todo |-> <<>>, due |-> {}, sent |-> Nothing,
           was |-> was, steady |-> steady]
  BY DEF Request
<1> HIDE DEF R, B, O, U, T, D, S, W, was, steady
<1> QED BY <1>1, <1>3, <1>4, <1>5 DEF Fresh

LEMMA RequestLists ==
  ASSUME NEW pc, NEW kind, NEW t, NEW own, NEW m
  PROVE  Listing(Request(pc, kind, t, own, m, TRUE), user, inbox)
<1> DEFINE s == Request(pc, kind, t, own, m, TRUE)
<1>1. /\ s.kind = kind /\ s.was = Told(Reasons(kind, user, inbox))
      /\ s.steady = Reasons(kind, user, inbox)
  BY DEF Request
<1> HIDE DEF s
<1>2. Listing(s, user, inbox) BY <1>1 DEF Listing
<1> QED BY <1>2 DEF s

LEMMA ClaimFields ==
  ASSUME TypeOK, NEW w \in Workers, NEW t \in Tickets, NotifyPortalClaim(w, t)
  PROVE  Begins(w, "inbox", "claim", t, Nothing, Nothing, TRUE)
<1> DEFINE s == Request("inbox", "claim", t, Nothing, Nothing, TRUE)
<1>1. proc' = [proc EXCEPT ![w] = s] BY DEF NotifyPortalClaim
<1>2. Fresh(s, "inbox", "claim", t, Nothing)
  BY RequestTyped DEF Pcs
<1>4. Listing(s, user, inbox) BY RequestLists
<1> HIDE DEF s
<1>3. Moves(w) /\ proc'[w] = s BY <1>1, Assigned
<1> QED BY <1>2, <1>3, <1>4 DEF Begins, s

LEMMA WorkingOnFields ==
  ASSUME TypeOK, NEW w \in Workers, NEW u \in Users, NEW t \in Tickets,
         NotifyWorkingOn(w, u, t)
  PROVE  Begins(w, "inbox", "onit", t, user[u].chat, Nothing, TRUE)
<1> DEFINE s == Request("inbox", "onit", t, user[u].chat, Nothing, TRUE)
<1>1. proc' = [proc EXCEPT ![w] = s] BY DEF NotifyWorkingOn
<1>2. user[u].chat \in Private \cup {Nothing} BY DEF TypeOK, UserRows
<1>3. Fresh(s, "inbox", "onit", t, Nothing)
  BY <1>2, RequestTyped DEF Pcs
<1>5. Listing(s, user, inbox) BY RequestLists
<1> HIDE DEF s
<1>4. Moves(w) /\ proc'[w] = s BY <1>1, Assigned
<1> QED BY <1>3, <1>4, <1>5 DEF Begins, s

LEMMA DeliverFields ==
  ASSUME TypeOK, NEW w \in Workers, NEW m \in pending, Deliver(w, m)
  PROVE  Begins(w, "staff", "onit", Nothing, m.from, m, FALSE)
<1> DEFINE s == Request("staff", "onit", Nothing, m.from, m, FALSE)
<1>1. proc' = [proc EXCEPT ![w] = s] BY DEF Deliver
<1>2. m \in Updates BY DEF TypeOK
<1>3. m.from \in Private BY <1>2 DEF Updates
<1>4. Fresh(s, "staff", "onit", Nothing, m)
  BY <1>2, <1>3, RequestTyped DEF Pcs
<1> HIDE DEF s
<1>5. Moves(w) /\ proc'[w] = s BY <1>1, Assigned
<1> QED BY <1>4, <1>5 DEF Begins, s

LEMMA LoadInboxFields ==
  ASSUME TypeOK, NEW w \in Workers, LoadInbox(w)
  PROVE  /\ Becomes(w, "users", proc[w].ticket, AddNew(AddNew(<<>>, Env), inbox),
                    proc[w].due, proc[w].sent, proc[w].was, proc[w].steady)
         /\ AddNew(<<>>, Env) \in Seq(Chats)
         /\ Range(AddNew(<<>>, Env)) = Range(Env) /\ IsInjective(AddNew(<<>>, Env))
<1> DEFINE r == proc[w]
           env == AddNew(<<>>, Env)
           todo == AddNew(env, inbox)
           s == [r EXCEPT !.pc = "users", !.todo = todo]
<1>1. At(w, "inbox") /\ proc' = [proc EXCEPT ![w] = s] BY DEF LoadInbox
<1>2. ~At(w, "idle") /\ r \in Busy BY <1>1, BusyAt DEF At
<1>3. /\ env \in Seq(Chats) /\ Range(env) = Range(<<>>) \cup Range(Env)
      /\ IsInjective(<<>>) => IsInjective(env)
  <2>1. <<>> \in Seq(Chats) BY EmptySeq
  <2> QED BY <2>1, EnvAssumption, AddNewProperties
<1>4. Range(<<>>) = {} /\ IsInjective(<<>>) BY DEF Range, IsInjective
<1> HIDE DEF env
<1>5. todo \in Seq(Chats) BY <1>3, AddNewProperties DEF TypeOK
<1> HIDE DEF r, todo
<1>6. Edited(s, r, "users", r.ticket, todo, r.due, r.sent, r.was, r.steady)
  BY <1>2, <1>5, EditPcTodo DEF Pcs
<1> HIDE DEF s
<1>7. Becomes(w, "users", r.ticket, todo, r.due, r.sent, r.was, r.steady)
  BY <1>1, <1>2, <1>6, BecomesBy DEF r
<1> QED BY <1>3, <1>4, <1>7 DEF r, todo, env

LEMMA LoadUsersFields ==
  ASSUME TypeOK, NEW w \in Workers, LoadUsers(w)
  PROVE  Becomes(w, "send", proc[w].ticket,
                 AddNew(proc[w].todo, LinkedChats(proc[w].kind)),
                 Told(proc[w].steady), proc[w].sent, {}, {})
<1> DEFINE r == proc[w]
           todo == AddNew(r.todo, LinkedChats(r.kind))
           due == Told(r.steady)
           s == [r EXCEPT !.pc = "send", !.todo = todo, !.due = due, !.was = {},
                          !.steady = {}]
<1>1. At(w, "users") /\ proc' = [proc EXCEPT ![w] = s] BY DEF LoadUsers
<1>2. ~At(w, "idle") /\ r \in Busy BY <1>1, BusyAt DEF At
<1>3. r.todo \in Seq(Chats) /\ r.steady \in SUBSET Why BY <1>2, Fields
<1>4. LinkedChats(r.kind) \in Seq(Chats) BY LinkedChatsProperties DEF TypeOK
<1>5. todo \in Seq(Chats) BY <1>3, <1>4, AddNewProperties
<1>6. due \in SUBSET Chats BY <1>3 DEF Told, Why
<1> HIDE DEF r, todo, due
<1>7. Edited(s, r, "send", r.ticket, todo, due, r.sent, {}, {})
  <2>1. {} \in SUBSET Chats /\ {} \in SUBSET Why OBVIOUS
  <2> QED BY <1>2, <1>5, <1>6, <2>1, EditList DEF Pcs
<1> HIDE DEF s
<1>8. Becomes(w, "send", r.ticket, todo, due, r.sent, {}, {})
  BY <1>1, <1>2, <1>7, BecomesBy DEF r
<1> QED BY <1>8 DEF r, todo, due

LEMMA SendingFields ==
  ASSUME TypeOK, NEW w \in Workers, Sending(w)
  PROVE  /\ ~At(w, "idle") /\ proc[w] \in Busy
         /\ proc[w].todo \in Seq(Chats) /\ proc[w].todo # <<>>
         /\ To(w) \in Chats /\ Tail(proc[w].todo) \in Seq(Chats)
         /\ Range(proc[w].todo) = {To(w)} \cup Range(Tail(proc[w].todo))
<1>1. ~At(w, "idle") /\ proc[w] \in Busy BY BusyAt DEF Sending, At
<1> DEFINE todo == proc[w].todo
<1>2. todo \in Seq(Chats) /\ todo # <<>> BY <1>1, Fields DEF Sending
<1> HIDE DEF todo
<1>3. /\ Head(todo) \in Chats /\ Tail(todo) \in Seq(Chats)
      /\ Len(Tail(todo)) = Len(todo) - 1
      /\ \A i \in 1 .. Len(Tail(todo)) : Tail(todo)[i] = todo[i + 1]
  BY <1>2, HeadTailProperties
<1>4. /\ DOMAIN todo = 1 .. Len(todo) /\ Len(todo) \in Nat /\ Len(todo) # 0
      /\ DOMAIN Tail(todo) = 1 .. Len(Tail(todo))
  BY <1>2, <1>3, LenProperties, EmptySeq
<1>5. Head(todo) = todo[1] BY <1>2
<1>6. Range(todo) = {Head(todo)} \cup Range(Tail(todo))
  <2>1. ASSUME NEW i \in DOMAIN todo, i # 1 PROVE todo[i] \in Range(Tail(todo))
    <3>1. i - 1 \in DOMAIN Tail(todo) /\ Tail(todo)[i - 1] = todo[i]
      BY <1>3, <1>4, <2>1
    <3> QED BY <3>1 DEF Range
  <2>2. ASSUME NEW i \in DOMAIN Tail(todo) PROVE Tail(todo)[i] \in Range(todo)
    <3>1. i + 1 \in DOMAIN todo /\ Tail(todo)[i] = todo[i + 1] BY <1>3, <1>4
    <3> QED BY <3>1 DEF Range
  <2>3. 1 \in DOMAIN todo BY <1>4
  <2> QED BY <1>5, <2>1, <2>2, <2>3 DEF Range
<1> QED BY <1>1, <1>2, <1>3, <1>6 DEF todo, To

LEMMA SkipFields ==
  ASSUME TypeOK, NEW w \in Workers, Skip(w)
  PROVE  Becomes(w, "send", proc[w].ticket, Tail(proc[w].todo), proc[w].due,
                 proc[w].sent, proc[w].was, proc[w].steady)
<1> DEFINE r == proc[w]
           todo == Tail(r.todo)
           s == [r EXCEPT !.todo = todo]
<1>1. Sending(w) /\ proc' = [proc EXCEPT ![w] = s] BY DEF Skip
<1>2. ~At(w, "idle") /\ r \in Busy /\ todo \in Seq(Chats) BY <1>1, SendingFields
<1>3. r.pc = "send" BY <1>1 DEF Sending, At
<1> HIDE DEF r, todo
<1>4. Edited(s, r, r.pc, r.ticket, todo, r.due, r.sent, r.was, r.steady)
  BY <1>2, EditTodo
<1> HIDE DEF s
<1>5. Becomes(w, r.pc, r.ticket, todo, r.due, r.sent, r.was, r.steady)
  BY <1>1, <1>2, <1>4, BecomesBy DEF r
<1> QED BY <1>3, <1>5 DEF r, todo

LEMMA NextIdTyped ==
  ASSUME TypeOK, NEW c \in Chats
  PROVE  NextId(c) \in Chats \X Nat /\ NextId(c)[1] = c
<1>1. Len(messages[c]) \in Nat BY LenProperties DEF TypeOK
<1> QED BY <1>1 DEF NextId

LEMMA SendFields ==
  ASSUME TypeOK, NEW w \in Workers, Send(w)
  PROVE  Becomes(w, "bind", proc[w].ticket, Tail(proc[w].todo),
                 proc[w].due \ {To(w)}, NextId(To(w)), proc[w].was, proc[w].steady)
<1> DEFINE r == proc[w]
           todo == Tail(r.todo)
           due == r.due \ {To(w)}
           sent == NextId(To(w))
           s == [r EXCEPT !.pc = "bind", !.sent = sent, !.due = due, !.todo = todo]
<1>1. Sending(w) /\ proc' = [proc EXCEPT ![w] = s] BY DEF Send, AfterSend
<1>2. /\ ~At(w, "idle") /\ r \in Busy /\ todo \in Seq(Chats) /\ To(w) \in Chats
  BY <1>1, SendingFields
<1>3. sent \in {Nothing} \cup (Chats \X Nat) BY <1>2, NextIdTyped
<1>4. due \in SUBSET Chats BY <1>2, Fields
<1> HIDE DEF r, todo, due, sent
<1>5. Edited(s, r, "bind", r.ticket, todo, due, sent, r.was, r.steady)
  BY <1>2, <1>3, <1>4, EditSend DEF Pcs
<1> HIDE DEF s
<1>6. Becomes(w, "bind", r.ticket, todo, due, sent, r.was, r.steady)
  BY <1>1, <1>2, <1>5, BecomesBy DEF r
<1> QED BY <1>6 DEF r, todo, due, sent

LEMMA SendFailsFields ==
  ASSUME TypeOK, NEW w \in Workers, NEW d \in BOOLEAN, SendFails(w, d)
  PROVE  Becomes(w, "send", proc[w].ticket, Tail(proc[w].todo),
                 proc[w].due \ {To(w)}, proc[w].sent, proc[w].was, proc[w].steady)
<1> DEFINE r == proc[w]
           todo == Tail(r.todo)
           due == r.due \ {To(w)}
           s == [r EXCEPT !.due = due, !.todo = todo]
<1>1. Sending(w) /\ proc' = [proc EXCEPT ![w] = s] BY DEF SendFails, AfterFailure
<1>2. /\ ~At(w, "idle") /\ r \in Busy /\ todo \in Seq(Chats) /\ To(w) \in Chats
  BY <1>1, SendingFields
<1>3. r.pc = "send" BY <1>1 DEF Sending, At
<1>4. due \in SUBSET Chats BY <1>2, Fields
<1> HIDE DEF r, todo, due
<1>5. Edited(s, r, r.pc, r.ticket, todo, due, r.sent, r.was, r.steady)
  BY <1>2, <1>4, EditDueTodo
<1> HIDE DEF s
<1>6. Becomes(w, r.pc, r.ticket, todo, due, r.sent, r.was, r.steady)
  BY <1>1, <1>2, <1>5, BecomesBy DEF r
<1> QED BY <1>3, <1>6 DEF r, todo, due

LEMMA RegisterFields ==
  ASSUME TypeOK, NEW w \in Workers, RegisterMessage(w)
  PROVE  Becomes(w, "send", proc[w].ticket, proc[w].todo, proc[w].due, Nothing,
                 proc[w].was, proc[w].steady)
<1> DEFINE r == proc[w]
           s == [r EXCEPT !.pc = "send", !.sent = Nothing]
<1>1. At(w, "bind") /\ proc' = [proc EXCEPT ![w] = s] BY DEF RegisterMessage
<1>2. ~At(w, "idle") /\ r \in Busy BY <1>1, BusyAt DEF At
<1> HIDE DEF r
<1>3. Edited(s, r, "send", r.ticket, r.todo, r.due, Nothing, r.was, r.steady)
  BY <1>2, EditPcSent DEF Pcs
<1> HIDE DEF s
<1>4. Becomes(w, "send", r.ticket, r.todo, r.due, Nothing, r.was, r.steady)
  BY <1>1, <1>2, <1>3, BecomesBy DEF r
<1> QED BY <1>4 DEF r

(* The steps that only move on.                                            *)
MovesOn(w, pc) ==
  Becomes(w, pc, proc[w].ticket, proc[w].todo, proc[w].due, proc[w].sent,
          proc[w].was, proc[w].steady)

LEMMA MovesOnBy ==
  ASSUME TypeOK, NEW w \in Workers, ~At(w, "idle"), NEW pc \in Pcs,
         proc' = [proc EXCEPT ![w] = [proc[w] EXCEPT !.pc = pc]]
  PROVE  MovesOn(w, pc)
<1> DEFINE r == proc[w]
           s == [r EXCEPT !.pc = pc]
<1>1. r \in Busy BY BusyAt
<1>2. proc' = [proc EXCEPT ![w] = s] OBVIOUS
<1> HIDE DEF r
<1>3. Edited(s, r, pc, r.ticket, r.todo, r.due, r.sent, r.was, r.steady)
  BY <1>1, EditPc
<1> HIDE DEF s
<1>4. Becomes(w, pc, r.ticket, r.todo, r.due, r.sent, r.was, r.steady)
  BY <1>1, <1>2, <1>3, BecomesBy DEF r
<1> QED BY <1>4 DEF r, MovesOn

LEMMA GotoFields ==
  ASSUME TypeOK, NEW w \in Workers, ~At(w, "idle"), NEW pc \in Pcs, Goto(w, pc)
  PROVE  MovesOn(w, pc)
<1>1. proc' = [proc EXCEPT ![w] = [proc[w] EXCEPT !.pc = pc]] BY DEF Goto
<1> QED BY <1>1, MovesOnBy

LEMMA DropsBy ==
  ASSUME TypeOK, NEW w \in Workers, ~At(w, "idle"),
         proc' = [proc EXCEPT ![w] = Idle]
  PROVE  Drops(w)
BY Assigned, BusyAt DEF Drops

LEMMA AllSentFields ==
  ASSUME TypeOK, NEW w \in Workers, AllSent(w)
  PROVE  \/ Drops(w)
         \/ MovesOn(w, "confirm") /\ proc[w].update # Nothing
<1>1. At(w, "send") BY DEF AllSent
<1>2. ~At(w, "idle") BY <1>1 DEF At
<1>3. CASE proc[w].update = Nothing
  <2>1. proc' = [proc EXCEPT ![w] = Idle] BY <1>3 DEF AllSent
  <2> QED BY <1>2, <2>1, DropsBy
<1>4. CASE proc[w].update # Nothing
  <2>1. proc' = [proc EXCEPT ![w] = [proc[w] EXCEPT !.pc = "confirm"]]
    BY <1>4 DEF AllSent
  <2> QED BY <1>2, <1>4, <2>1, MovesOnBy DEF Pcs
<1> QED BY <1>3, <1>4

LEMMA FindStaffFields ==
  ASSUME TypeOK, NEW w \in Workers, FindStaff(w)
  PROVE  \/ Drops(w) /\ pending' = pending \ {proc[w].update}
         \/ MovesOn(w, "resolve") /\ pending' = pending
<1>1. At(w, "staff") BY DEF FindStaff
<1>2. ~At(w, "idle") BY <1>1 DEF At
<1>3. CASE Goto(w, "resolve") /\ UNCHANGED pending
  BY <1>2, <1>3, GotoFields DEF Pcs
<1>4. CASE /\ pending' = pending \ {proc[w].update}
           /\ proc' = [proc EXCEPT ![w] = Idle]
  BY <1>2, <1>4, DropsBy
<1> QED BY <1>3, <1>4 DEF FindStaff

LEMMA ResolvedTyped ==
  ASSUME TypeOK, NEW m \in Updates
  PROVE  Resolved(m) \in Tickets \cup {Nothing}
<1>1. m.names \in Tickets \cup {Nothing} BY DEF Updates
<1>2. \A k \in DOMAIN bound : bound[k] \in Tickets BY DEF TypeOK, Range
<1> QED BY <1>1, <1>2 DEF Resolved

LEMMA ResolveFields ==
  ASSUME TypeOK, NEW w \in Workers, proc[w].update \in Updates, Resolve(w)
  PROVE  /\ Becomes(w, "signal", Resolved(proc[w].update), proc[w].todo,
                    proc[w].due, proc[w].sent, proc[w].was, proc[w].steady)
         /\ Resolved(proc[w].update) \in Tickets
<1> DEFINE r == proc[w]
           t == Resolved(r.update)
           s == [r EXCEPT !.pc = "signal", !.ticket = t]
<1>1. At(w, "resolve") /\ proc' = [proc EXCEPT ![w] = s] BY DEF Resolve
<1>2. ~At(w, "idle") /\ r \in Busy BY <1>1, BusyAt DEF At
<1>3. t \in Tickets BY ResolvedTyped DEF Resolve
<1> HIDE DEF r, t
<1>4. Edited(s, r, "signal", t, r.todo, r.due, r.sent, r.was, r.steady)
  BY <1>2, <1>3, EditPcTicket DEF Pcs
<1> HIDE DEF s
<1>5. Becomes(w, "signal", t, r.todo, r.due, r.sent, r.was, r.steady)
  BY <1>1, <1>2, <1>4, BecomesBy DEF r
<1> QED BY <1>3, <1>5 DEF r, t

LEMMA ApplySignalsFields ==
  ASSUME TypeOK, NEW w \in Workers, ApplySignals(w)
  PROVE  \/ Begins(w, "inbox", "onit", proc[w].ticket, proc[w].own,
                   proc[w].update, TRUE)
         \/ MovesOn(w, "confirm")
<1> DEFINE r == proc[w]
           s == Request("inbox", "onit", r.ticket, r.own, r.update, TRUE)
<1>1. At(w, "signal") BY DEF ApplySignals
<1>2. ~At(w, "idle") /\ r \in Busy BY <1>1, BusyAt DEF At
<1>3. /\ r.ticket \in Tickets \cup {Nothing} /\ r.own \in Private \cup {Nothing}
      /\ r.update \in Updates \cup {Nothing}
  BY <1>2, Fields
<1>4. Fresh(s, "inbox", "onit", r.ticket, r.update)
  BY <1>3, RequestTyped DEF Pcs
<1>5. CASE proc' = [proc EXCEPT ![w] = s]
  <2>2. Listing(s, user, inbox) BY RequestLists
  <2> HIDE DEF s
  <2>1. Moves(w) /\ proc'[w] = s BY <1>5, Assigned
  <2> QED BY <1>4, <2>1, <2>2 DEF Begins, s
<1>6. CASE Goto(w, "confirm") BY <1>2, <1>6, GotoFields DEF Pcs
<1> QED BY <1>5, <1>6 DEF ApplySignals

LEMMA EndingFields ==
  ASSUME TypeOK, NEW w \in Workers, NoTicket(w) \/ Confirm(w) \/ Crash(w)
  PROVE  Drops(w)
<1>1. ~At(w, "idle") /\ proc' = [proc EXCEPT ![w] = Idle]
  BY DEF NoTicket, Confirm, Crash, At
<1> QED BY <1>1, DropsBy

(* A change of rows or inbox notes its reasons in the requests that are    *)
(* making their lists, and touches no other.                               *)
Noted(v, rows, ids) ==
  IF At(v, "inbox") \/ At(v, "users")
  THEN LET R == Reasons(proc[v].kind, rows, ids)
       IN  /\ proc[v] \in Busy
           /\ Edited(proc'[v], proc[v], proc[v].pc, proc[v].ticket, proc[v].todo,
                     proc[v].due, proc[v].sent, proc[v].was \cup Told(R),
                     proc[v].steady \cap R)
  ELSE proc'[v] = proc[v]

LEMMA ChangeFields ==
  ASSUME TypeOK, NEW rows \in [Users -> UserRows], NEW ids \in Seq(Chats),
         Change(rows, ids)
  PROVE  /\ proc' \in [Workers -> {Idle} \cup Busy]
         /\ \A v \in Workers : Noted(v, rows, ids)
<1>1. ASSUME NEW v \in Workers, At(v, "inbox") \/ At(v, "users")
      PROVE  Noted(v, rows, ids) /\ proc'[v] \in Busy
  <2> DEFINE r == proc[v]
             R == Reasons(r.kind, rows, ids)
             was == r.was \cup Told(R)
             steady == r.steady \cap R
             s == [r EXCEPT !.was = was, !.steady = steady]
  <2>1. proc'[v] = s BY <1>1 DEF Change
  <2>2. r \in Busy BY <1>1, BusyAt DEF At
  <2>3. r.was \in SUBSET Chats /\ r.steady \in SUBSET Why BY <2>2, Fields
  <2>4. R \in SUBSET Why /\ Told(R) \in SUBSET Chats BY ReasonsTyped
  <2> HIDE DEF r, R
  <2>5. was \in SUBSET Chats /\ steady \in SUBSET Why BY <2>3, <2>4
  <2> HIDE DEF was, steady
  <2>6. Edited(s, r, r.pc, r.ticket, r.todo, r.due, r.sent, was, steady)
    BY <2>2, <2>5, EditWhy
  <2> HIDE DEF s
  <2>7. Edited(proc'[v], r, r.pc, r.ticket, r.todo, r.due, r.sent, was, steady)
    BY <2>1, <2>6
  <2>8. proc'[v] \in Busy BY <2>7 DEF Edited
  <2> QED BY <1>1, <2>2, <2>7, <2>8 DEF Noted, r, R, was, steady
<1>2. ASSUME NEW v \in Workers, ~(At(v, "inbox") \/ At(v, "users"))
      PROVE  Noted(v, rows, ids) /\ proc'[v] = proc[v]
  BY <1>2 DEF Change, Noted
<1>3. \A v \in Workers : proc'[v] \in {Idle} \cup Busy BY <1>1, <1>2 DEF TypeOK
<1>4. proc' = [v \in Workers |-> proc'[v]] BY DEF Change
<1> QED BY <1>1, <1>2, <1>3, <1>4
-----------------------------------------------------------------------------
(* A message that is sent gets the next id of its chat; none changes.      *)
Grown ==
  \A c \in Chats : \A i \in DOMAIN messages[c] :
    i \in DOMAIN messages'[c] /\ messages'[c][i] = messages[c][i]

Added(c, t, alert) ==
  /\ messages' \in [Chats -> Seq(Messages)] /\ Grown
  /\ NextId(c)[2] \in DOMAIN messages'[c]
  /\ messages'[c][NextId(c)[2]].ticket = t
  /\ \A d \in Chats : \A i \in DOMAIN messages'[d] :
       \/ i \in DOMAIN messages[d]
       \/ <<d, i>> = NextId(c) /\ messages'[d][i].alert = alert

LEMMA MessageAdded ==
  ASSUME TypeOK, NEW c \in Chats, NEW t \in Tickets \cup {Nothing},
         NEW alert \in BOOLEAN, Append1(c, t, alert)
  PROVE  Added(c, t, alert)
<1> DEFINE x == [ticket |-> t, alert |-> alert]
           old == messages[c]
           new == Append(old, x)
<1>1. x \in Messages /\ x.ticket = t /\ x.alert = alert BY DEF Messages
<1>2. messages \in [Chats -> Seq(Messages)] BY DEF TypeOK
<1>3. messages' = [messages EXCEPT ![c] = new] BY DEF Append1
<1>4. NextId(c) = <<c, Len(old) + 1>> BY DEF NextId
<1>5. old \in Seq(Messages) BY <1>2
<1> HIDE DEF x, old
<1>6. /\ new \in Seq(Messages) /\ Len(new) = Len(old) + 1
      /\ \A i \in 1 .. Len(old) : new[i] = old[i]
      /\ new[Len(old) + 1] = x
  BY <1>1, <1>5, AppendProperties
<1>7. Len(old) \in Nat /\ DOMAIN old = 1 .. Len(old) BY <1>5, LenProperties
<1>8. DOMAIN new = 1 .. Len(old) + 1 BY <1>6, LenProperties
<1> HIDE DEF new
<1>9. messages' \in [Chats -> Seq(Messages)] BY <1>2, <1>3, <1>6
<1>10. messages'[c] = new /\ \A d \in Chats \ {c} : messages'[d] = messages[d]
  BY <1>2, <1>3
<1>11. \A i \in DOMAIN old : i \in DOMAIN new /\ new[i] = old[i]
  BY <1>6, <1>7, <1>8
<1>12. Grown BY <1>10, <1>11 DEF Grown, old
<1>13. NextId(c)[2] = Len(old) + 1 /\ Len(old) + 1 \in DOMAIN new
  BY <1>4, <1>7, <1>8
<1>14. messages'[c][NextId(c)[2]].ticket = t BY <1>1, <1>6, <1>10, <1>13
<1>15. ASSUME NEW d \in Chats, NEW i \in DOMAIN messages'[d], i \notin DOMAIN messages[d]
       PROVE  <<d, i>> = NextId(c) /\ messages'[d][i].alert = alert
  <2>1. d = c BY <1>10, <1>15
  <2>2. i \in DOMAIN new /\ i \notin DOMAIN old BY <1>10, <1>15, <2>1 DEF old
  <2>3. i = Len(old) + 1 BY <1>7, <1>8, <2>2
  <2> QED BY <1>1, <1>4, <1>6, <1>10, <2>1, <2>3
<1> QED BY <1>9, <1>10, <1>12, <1>13, <1>14, <1>15 DEF Added

LEMMA NoneAdded ==
  ASSUME UNCHANGED messages
  PROVE  Grown
BY DEF Grown
-----------------------------------------------------------------------------
(* What a request needs is there: the ticket it tells of, the update it    *)
(* answers, the id it binds.                                               *)
Formed(r) ==
  /\ r.pc \in {"inbox", "users", "send", "bind", "signal", "confirm"}
       => r.ticket \in Tickets
  /\ r.pc \in {"staff", "resolve", "signal", "confirm"} => r.update \in Updates
  /\ r.pc = "bind" => r.sent \in Chats \X Nat

FormInv == \A w \in Workers : ~At(w, "idle") => Formed(proc[w])

LEMMA ProcKept ==
  ASSUME TypeOK, FormInv, NEW w \in Workers, Moves(w),
         proc'[w] = Idle \/ (proc'[w] \in Busy /\ Formed(proc'[w]))
  PROVE  proc' \in [Workers -> {Idle} \cup Busy] /\ FormInv'
<1>1. proc \in [Workers -> {Idle} \cup Busy] BY DEF TypeOK
<1> DEFINE s == proc'[w]
<1>2. proc' = [proc EXCEPT ![w] = s] BY DEF Moves
<1>3. s \in {Idle} \cup Busy OBVIOUS
<1> HIDE DEF s
<1>4. proc' \in [Workers -> {Idle} \cup Busy] BY <1>1, <1>2, <1>3
<1>5. \A v \in Workers \ {w} : proc'[v] = proc[v] BY <1>1, <1>2
<1>6. s = Idle => s.pc = "idle" BY DEF Idle
<1>7. s.pc # "idle" => Formed(s) BY <1>6 DEF s
<1> QED BY <1>4, <1>5, <1>7 DEF FormInv, At, s

LEMMA BeginsKept ==
  ASSUME TypeOK, FormInv, NEW w \in Workers,
         NEW pc \in {"inbox", "staff"}, NEW kind \in {"claim", "onit"},
         NEW t \in Tickets \cup {Nothing}, NEW own \in Private \cup {Nothing},
         NEW m \in Updates \cup {Nothing}, NEW alert \in BOOLEAN,
         Begins(w, pc, kind, t, own, m, alert),
         pc = "inbox" => t \in Tickets, pc = "staff" => m \in Updates
  PROVE  proc' \in [Workers -> {Idle} \cup Busy] /\ FormInv'
<1>1. Moves(w) /\ proc'[w] \in Busy BY DEF Begins, Fresh
<1>2. Formed(proc'[w]) BY DEF Begins, Fresh, Formed
<1> QED BY <1>1, <1>2, ProcKept

LEMMA BecomesKept ==
  ASSUME TypeOK, FormInv, NEW w \in Workers,
         NEW pc, NEW t, NEW todo, NEW due, NEW sent, NEW was, NEW steady,
         Becomes(w, pc, t, todo, due, sent, was, steady),
         pc \in {"inbox", "users", "send", "bind", "signal", "confirm"} => t \in Tickets,
         pc \in {"staff", "resolve", "signal", "confirm"} => proc[w].update \in Updates,
         pc = "bind" => sent \in Chats \X Nat
  PROVE  proc' \in [Workers -> {Idle} \cup Busy] /\ FormInv'
<1>1. Moves(w) /\ proc'[w] \in Busy BY DEF Becomes, Edited
<1>2. Formed(proc'[w]) BY DEF Becomes, Edited, Formed
<1> QED BY <1>1, <1>2, ProcKept

LEMMA DropsKept ==
  ASSUME TypeOK, FormInv, NEW w \in Workers, Drops(w)
  PROVE  proc' \in [Workers -> {Idle} \cup Busy] /\ FormInv'
BY ProcKept DEF Drops

LEMMA ProcStill ==
  ASSUME TypeOK, FormInv, UNCHANGED proc
  PROVE  proc' \in [Workers -> {Idle} \cup Busy] /\ FormInv'
BY DEF TypeOK, FormInv, At

LEMMA ChangeKept ==
  ASSUME TypeOK, FormInv, NEW rows \in [Users -> UserRows], NEW ids \in Seq(Chats),
         Change(rows, ids)
  PROVE  proc' \in [Workers -> {Idle} \cup Busy] /\ FormInv'
<1>1. /\ proc' \in [Workers -> {Idle} \cup Busy]
      /\ \A v \in Workers : Noted(v, rows, ids)
  BY ChangeFields
<1>2. ASSUME NEW v \in Workers, ~(proc'[v].pc = "idle") PROVE Formed(proc'[v])
  <2>1. CASE At(v, "inbox") \/ At(v, "users")
    <3>1. Formed(proc[v]) BY <2>1 DEF FormInv, At
    <3>2. /\ proc'[v].pc = proc[v].pc /\ proc'[v].ticket = proc[v].ticket
          /\ proc'[v].update = proc[v].update /\ proc'[v].sent = proc[v].sent
      BY <1>1, <2>1 DEF Noted, Edited
    <3> QED BY <3>1, <3>2 DEF Formed
  <2>2. CASE ~(At(v, "inbox") \/ At(v, "users"))
    <3>1. proc'[v] = proc[v] BY <1>1, <2>2 DEF Noted
    <3> QED BY <1>2, <3>1 DEF FormInv, At
  <2> QED BY <2>1, <2>2
<1> QED BY <1>1, <1>2 DEF FormInv, At
-----------------------------------------------------------------------------
(* Types: one lemma for each group of actions.                             *)
TypeInv == TypeOK /\ FormInv

LEMMA TypeFrame ==
  ASSUME TypeOK,
         UNCHANGED team, messages' \in [Chats -> Seq(Messages)], UNCHANGED bound,
         pending' \subseteq Updates, unbound' \subseteq Chats \X Nat,
         alerts' \in 0 .. MaxAlerts, UNCHANGED updates, mishaps' \in 0 .. MaxMishaps,
         proc' \in [Workers -> {Idle} \cup Busy]
  PROVE  TypeOK'
BY DEF TypeOK, team

LEMMA StartTyped ==
  ASSUME TypeInv, NEW w \in Workers,
         \/ \E t \in Tickets : NotifyPortalClaim(w, t)
         \/ \E u \in Users, t \in Tickets : NotifyWorkingOn(w, u, t)
         \/ \E m \in pending : Deliver(w, m)
  PROVE  TypeInv'
<1>0. TypeOK /\ FormInv BY DEF TypeInv
<1>1. proc' \in [Workers -> {Idle} \cup Busy] /\ FormInv'
  <2>1. ASSUME NEW t \in Tickets, NotifyPortalClaim(w, t)
        PROVE  proc' \in [Workers -> {Idle} \cup Busy] /\ FormInv'
    <3>1. Begins(w, "inbox", "claim", t, Nothing, Nothing, TRUE)
      BY <1>0, <2>1, ClaimFields
    <3> QED BY <1>0, <3>1, BeginsKept
  <2>2. ASSUME NEW u \in Users, NEW t \in Tickets, NotifyWorkingOn(w, u, t)
        PROVE  proc' \in [Workers -> {Idle} \cup Busy] /\ FormInv'
    <3>1. Begins(w, "inbox", "onit", t, user[u].chat, Nothing, TRUE)
      BY <1>0, <2>2, WorkingOnFields
    <3>2. user[u].chat \in Private \cup {Nothing} BY <1>0 DEF TypeOK, UserRows
    <3> QED BY <1>0, <3>1, <3>2, BeginsKept
  <2>3. ASSUME NEW m \in pending, Deliver(w, m)
        PROVE  proc' \in [Workers -> {Idle} \cup Busy] /\ FormInv'
    <3>1. Begins(w, "staff", "onit", Nothing, m.from, m, FALSE)
      BY <1>0, <2>3, DeliverFields
    <3>2. m \in Updates BY <1>0 DEF TypeOK
    <3>3. m.from \in Private BY <3>2 DEF Updates
    <3> QED BY <1>0, <3>1, <3>2, <3>3, BeginsKept
  <2> QED BY <2>1, <2>2, <2>3
<1>2. /\ UNCHANGED <<team, bot, pending, updates, mishaps>>
      /\ alerts' \in 0 .. MaxAlerts
  <2>1. alerts \in 0 .. MaxAlerts /\ MaxAlerts \in Nat
    BY <1>0, BoundsAssumption DEF TypeOK
  <2>2. ASSUME NEW t \in Tickets, NotifyPortalClaim(w, t)
        PROVE  /\ UNCHANGED <<team, bot, pending, updates, mishaps>>
               /\ alerts' \in 0 .. MaxAlerts
    BY <2>1, <2>2 DEF NotifyPortalClaim
  <2>3. ASSUME NEW u \in Users, NEW t \in Tickets, NotifyWorkingOn(w, u, t)
        PROVE  /\ UNCHANGED <<team, bot, pending, updates, mishaps>>
               /\ alerts' \in 0 .. MaxAlerts
    BY <2>1, <2>3 DEF NotifyWorkingOn
  <2>4. ASSUME NEW m \in pending, Deliver(w, m)
        PROVE  /\ UNCHANGED <<team, bot, pending, updates, mishaps>>
               /\ alerts' \in 0 .. MaxAlerts
    BY <2>1, <2>4 DEF Deliver, count
  <2> QED BY <2>2, <2>3, <2>4
<1>3. TypeOK' BY <1>0, <1>1, <1>2, TypeFrame DEF TypeOK, bot
<1> QED BY <1>1, <1>3 DEF TypeInv

LEMMA ListTyped ==
  ASSUME TypeInv, NEW w \in Workers,
         LoadInbox(w) \/ LoadUsers(w) \/ Skip(w) \/ AllSent(w)
  PROVE  TypeInv'
<1>0. TypeOK /\ FormInv BY DEF TypeInv
<1>1. ~At(w, "idle") /\ (At(w, "inbox") \/ At(w, "users") \/ At(w, "send"))
  BY DEF LoadInbox, LoadUsers, Skip, AllSent, Sending, At
<1>2. proc[w].ticket \in Tickets BY <1>0, <1>1 DEF FormInv, Formed, At
<1>3. proc[w].update \in Updates \cup {Nothing} BY <1>0, <1>1, BusyAt, Fields
<1>4. proc' \in [Workers -> {Idle} \cup Busy] /\ FormInv'
  <2>1. CASE LoadInbox(w) BY <1>0, <1>2, <2>1, LoadInboxFields, BecomesKept
  <2>2. CASE LoadUsers(w) BY <1>0, <1>2, <2>2, LoadUsersFields, BecomesKept
  <2>3. CASE Skip(w) BY <1>0, <1>2, <2>3, SkipFields, BecomesKept
  <2>4. CASE AllSent(w)
    <3>1. CASE Drops(w) BY <1>0, <3>1, DropsKept
    <3>2. CASE MovesOn(w, "confirm") /\ proc[w].update # Nothing
      BY <1>0, <1>2, <1>3, <3>2, BecomesKept DEF MovesOn
    <3> QED BY <1>0, <2>4, <3>1, <3>2, AllSentFields
  <2> QED BY <2>1, <2>2, <2>3, <2>4
<1>5. UNCHANGED <<team, bot, pending, count>>
  BY DEF LoadInbox, LoadUsers, Skip, AllSent
<1>6. TypeOK' BY <1>0, <1>4, <1>5, TypeFrame DEF TypeOK, bot, count
<1> QED BY <1>4, <1>6 DEF TypeInv

LEMMA SendTyped ==
  ASSUME TypeInv, NEW w \in Workers,
         Send(w) \/ \E d \in BOOLEAN : SendFails(w, d)
  PROVE  TypeInv'
<1>0. TypeOK /\ FormInv BY DEF TypeInv
<1>1. Sending(w) BY DEF Send, SendFails
<1>2. ~At(w, "idle") /\ To(w) \in Chats BY <1>0, <1>1, SendingFields
<1>3. proc[w].ticket \in Tickets
  BY <1>0, <1>1, <1>2 DEF FormInv, Formed, At, Sending
<1>4. NextId(To(w)) \in Chats \X Nat BY <1>0, <1>2, NextIdTyped
<1>5. CASE Send(w)
  <2>1. proc' \in [Workers -> {Idle} \cup Busy] /\ FormInv'
    BY <1>0, <1>3, <1>4, <1>5, SendFields, BecomesKept
  <2>2. /\ Append1(To(w), proc[w].ticket, TRUE)
        /\ UNCHANGED <<team, bound, unbound, pending, count>>
    BY <1>5 DEF Send
  <2>3. messages' \in [Chats -> Seq(Messages)]
    BY <1>0, <1>2, <1>3, <2>2, MessageAdded DEF Added
  <2>4. TypeOK' BY <1>0, <2>1, <2>2, <2>3, TypeFrame DEF TypeOK, count
  <2> QED BY <2>1, <2>4 DEF TypeInv
<1>6. ASSUME NEW d \in BOOLEAN, SendFails(w, d) PROVE TypeInv'
  <2>1. proc' \in [Workers -> {Idle} \cup Busy] /\ FormInv'
    <3>1. Becomes(w, "send", proc[w].ticket, Tail(proc[w].todo), proc[w].due \ {To(w)},
                  proc[w].sent, proc[w].was, proc[w].steady)
      BY <1>0, <1>6, SendFailsFields
    <3> QED BY <1>0, <1>3, <3>1, BecomesKept
  <2>2. messages' \in [Chats -> Seq(Messages)] /\ unbound' \subseteq Chats \X Nat
    <3>1. CASE d
      <4>1. Append1(To(w), proc[w].ticket, TRUE) /\ unbound' = unbound \cup {NextId(To(w))}
        BY <1>6, <3>1 DEF SendFails
      <4>2. messages' \in [Chats -> Seq(Messages)]
        BY <1>0, <1>2, <1>3, <4>1, MessageAdded DEF Added
      <4> QED BY <1>0, <1>4, <4>1, <4>2 DEF TypeOK
    <3>2. CASE ~d
      BY <1>0, <1>6, <3>2 DEF SendFails, TypeOK
    <3> QED BY <3>1, <3>2
  <2>3. /\ UNCHANGED <<team, bound, pending, alerts, updates>>
        /\ mishaps' \in 0 .. MaxMishaps
    <3>1. mishaps \in 0 .. MaxMishaps /\ MaxMishaps \in Nat
      BY <1>0, BoundsAssumption DEF TypeOK
    <3> QED BY <1>6, <3>1 DEF SendFails
  <2>4. TypeOK' BY <1>0, <2>1, <2>2, <2>3, TypeFrame DEF TypeOK
  <2> QED BY <2>1, <2>4 DEF TypeInv
<1> QED BY <1>5, <1>6

LEMMA KeyTyped ==
  ASSUME TypeInv,
         \/ \E w \in Workers : RegisterMessage(w)
         \/ \E k \in DOMAIN bound : KeyExpires(k)
  PROVE  TypeInv'
<1>0. TypeOK /\ FormInv BY DEF TypeInv
<1>1. ASSUME NEW w \in Workers, RegisterMessage(w) PROVE TypeInv'
  <2>1. At(w, "bind") /\ ~At(w, "idle") BY <1>1 DEF RegisterMessage, At
  <2>2. proc[w].ticket \in Tickets /\ proc[w].sent \in Chats \X Nat
    BY <1>0, <2>1 DEF FormInv, Formed, At
  <2>3. proc' \in [Workers -> {Idle} \cup Busy] /\ FormInv'
    BY <1>0, <1>1, <2>2, RegisterFields, BecomesKept
  <2> DEFINE key == <<proc[w].sent[1], proc[w].sent[2]>>
             t == proc[w].ticket
  <2>4. bound' = [k \in DOMAIN bound \cup {key} |-> IF k = key THEN t ELSE bound[k]]
    BY <1>1 DEF RegisterMessage, BindKey
  <2>5. key \in Chats \X Nat BY <2>2
  <2>6. DOMAIN bound \subseteq Chats \X Nat /\ \A k \in DOMAIN bound : bound[k] \in Tickets
    BY <1>0 DEF TypeOK, Range
  <2>7. DOMAIN bound' \subseteq Chats \X Nat /\ Range(bound') \subseteq Tickets
    <3> HIDE DEF key, t
    <3>1. \A k \in DOMAIN bound' : bound'[k] \in Tickets
      BY <2>2, <2>4, <2>6 DEF t
    <3>2. DOMAIN bound' = DOMAIN bound \cup {key} BY <2>4
    <3> QED BY <2>5, <2>6, <3>1, <3>2 DEF Range
  <2>8. UNCHANGED <<team, messages, unbound, pending, count>>
    BY <1>1 DEF RegisterMessage
  <2>9. TypeOK' BY <1>0, <2>3, <2>7, <2>8 DEF TypeOK, team, count
  <2> QED BY <2>3, <2>9 DEF TypeInv
<1>2. ASSUME NEW k \in DOMAIN bound, KeyExpires(k) PROVE TypeInv'
  <2>1. /\ mishaps \in 0 .. MaxMishaps /\ MaxMishaps \in Nat
        /\ DOMAIN bound \subseteq Chats \X Nat /\ \A j \in DOMAIN bound : bound[j] \in Tickets
    BY <1>0, BoundsAssumption DEF TypeOK, Range
  <2>2. /\ bound' = [j \in DOMAIN bound \ {k} |-> bound[j]]
        /\ unbound' = unbound \cup {k}
        /\ UNCHANGED <<team, messages, pending, alerts, updates, proc>>
        /\ mishaps' \in 0 .. MaxMishaps
    BY <1>2, <2>1 DEF KeyExpires
  <2>3. DOMAIN bound' \subseteq Chats \X Nat /\ Range(bound') \subseteq Tickets
    BY <2>1, <2>2 DEF Range
  <2>4. unbound' \subseteq Chats \X Nat BY <1>0, <2>1, <2>2 DEF TypeOK
  <2>5. proc' \in [Workers -> {Idle} \cup Busy] /\ FormInv'
    BY <1>0, <2>2, ProcStill
  <2>6. TypeOK' BY <1>0, <2>2, <2>3, <2>4, <2>5 DEF TypeOK, team
  <2> QED BY <2>5, <2>6 DEF TypeInv
<1> QED BY <1>1, <1>2

LEMMA WebhookTyped ==
  ASSUME TypeInv, NEW w \in Workers,
         FindStaff(w) \/ Resolve(w) \/ ApplySignals(w)
  PROVE  TypeInv'
<1>0. TypeOK /\ FormInv BY DEF TypeInv
<1>1. ~At(w, "idle") /\ (At(w, "staff") \/ At(w, "resolve") \/ At(w, "signal"))
  BY DEF FindStaff, Resolve, ApplySignals, At
<1>2. /\ proc[w].update \in Updates
      /\ ApplySignals(w) => proc[w].ticket \in Tickets
  BY <1>0, <1>1 DEF FormInv, Formed, At, ApplySignals
<1>3. proc[w].own \in Private \cup {Nothing} BY <1>0, <1>1, BusyAt, Fields
<1>4. proc' \in [Workers -> {Idle} \cup Busy] /\ FormInv'
  <2>1. CASE FindStaff(w)
    <3>1. CASE Drops(w) BY <1>0, <3>1, DropsKept
    <3>2. CASE MovesOn(w, "resolve")
      BY <1>0, <1>2, <3>2, BecomesKept DEF MovesOn
    <3> QED BY <1>0, <2>1, <3>1, <3>2, FindStaffFields
  <2>2. CASE Resolve(w) BY <1>0, <1>2, <2>2, ResolveFields, BecomesKept
  <2>3. CASE ApplySignals(w)
    <3>1. CASE Begins(w, "inbox", "onit", proc[w].ticket, proc[w].own,
                      proc[w].update, TRUE)
      <4>1. "inbox" \in {"inbox", "staff"} /\ "onit" \in {"claim", "onit"}
            /\ proc[w].update \in Updates \cup {Nothing}
            /\ proc[w].ticket \in Tickets \cup {Nothing} /\ TRUE \in BOOLEAN
        BY <1>2, <2>3
      <4> QED BY <1>0, <1>2, <1>3, <2>3, <3>1, <4>1, BeginsKept
    <3>2. CASE MovesOn(w, "confirm")
      BY <1>0, <1>2, <2>3, <3>2, BecomesKept DEF MovesOn
    <3> QED BY <1>0, <2>3, <3>1, <3>2, ApplySignalsFields
  <2> QED BY <2>1, <2>2, <2>3
<1>5. /\ UNCHANGED <<team, bot, updates, mishaps>> /\ pending' \subseteq pending
      /\ alerts' \in 0 .. MaxAlerts
  <2>1. alerts \in 0 .. MaxAlerts /\ MaxAlerts \in Nat
    BY <1>0, BoundsAssumption DEF TypeOK
  <2>2. CASE FindStaff(w) BY <2>1, <2>2 DEF FindStaff, count
  <2>3. CASE Resolve(w) BY <2>1, <2>3 DEF Resolve, count
  <2>4. CASE ApplySignals(w)
    <3>1. UNCHANGED <<team, bot, pending, updates, mishaps>> BY <2>4 DEF ApplySignals
    <3>0. alerts' = alerts \/ (alerts < MaxAlerts /\ alerts' = alerts + 1)
      BY <2>4 DEF ApplySignals
    <3>2. alerts' \in 0 .. MaxAlerts BY <2>1, <3>0
    <3>3. pending' \subseteq pending BY <3>1
    <3> QED BY <3>1, <3>2, <3>3
  <2> QED BY <2>2, <2>3, <2>4
<1>6. TypeOK' BY <1>0, <1>4, <1>5, TypeFrame DEF TypeOK, bot
<1> QED BY <1>4, <1>6 DEF TypeInv

LEMMA EndTyped ==
  ASSUME TypeInv, NEW w \in Workers, NoTicket(w) \/ Confirm(w) \/ Crash(w)
  PROVE  TypeInv'
<1>0. TypeOK /\ FormInv BY DEF TypeInv
<1>1. proc' \in [Workers -> {Idle} \cup Busy] /\ FormInv'
  BY <1>0, EndingFields, DropsKept
<1>2. /\ UNCHANGED <<team, bound, alerts, updates>> /\ pending' \subseteq pending
      /\ mishaps' \in 0 .. MaxMishaps
  <2>1. mishaps \in 0 .. MaxMishaps /\ MaxMishaps \in Nat
    BY <1>0, BoundsAssumption DEF TypeOK
  <2>2. CASE NoTicket(w) BY <2>1, <2>2 DEF NoTicket, count
  <2>3. CASE Confirm(w) BY <2>1, <2>3 DEF Confirm, count
  <2>4. CASE Crash(w) BY <2>1, <2>4 DEF Crash
  <2> QED BY <2>2, <2>3, <2>4
<1>3. unbound' \subseteq Chats \X Nat
  <2>1. At(w, "bind") => proc[w].sent \in Chats \X Nat
    BY <1>0 DEF FormInv, Formed, At
  <2> QED BY <1>0, <2>1 DEF NoTicket, Confirm, Crash, TypeOK
<1>4. messages' \in [Chats -> Seq(Messages)]
  <2>1. CASE NoTicket(w)
    <3>1. proc[w].update \in Updates
      BY <1>0, <2>1 DEF NoTicket, FormInv, Formed, At
    <3>2. proc[w].update.chat \in Chats BY <3>1 DEF Updates
    <3>3. UNCHANGED messages \/ Append1(proc[w].update.chat, Nothing, FALSE)
      BY <2>1 DEF NoTicket
    <3> QED BY <1>0, <3>2, <3>3, MessageAdded DEF Added, TypeOK
  <2>2. CASE Confirm(w)
    <3>1. proc[w].update \in Updates /\ proc[w].ticket \in Tickets
      BY <1>0, <2>2 DEF Confirm, FormInv, Formed, At
    <3>2. proc[w].update.chat \in Chats BY <3>1 DEF Updates
    <3>3. Append1(proc[w].update.chat, proc[w].ticket, FALSE)
      BY <2>2 DEF Confirm
    <3> QED BY <1>0, <3>1, <3>2, <3>3, MessageAdded DEF Added
  <2>3. CASE Crash(w) BY <1>0, <2>3 DEF Crash, TypeOK
  <2> QED BY <2>1, <2>2, <2>3
<1>5. TypeOK' BY <1>0, <1>1, <1>2, <1>3, <1>4, TypeFrame DEF TypeOK
<1> QED BY <1>1, <1>5 DEF TypeInv

LEMMA ChangeTyped ==
  ASSUME TypeInv, NEW rows \in [Users -> UserRows], NEW ids \in Seq(Chats),
         Change(rows, ids)
  PROVE  TypeInv'
<1>0. TypeOK /\ FormInv BY DEF TypeInv
<1>1. proc' \in [Workers -> {Idle} \cup Busy] /\ FormInv' BY <1>0, ChangeKept
<1>2. /\ user' = rows /\ inbox' = ids /\ mishaps' = mishaps + 1
      /\ mishaps < MaxMishaps /\ UNCHANGED <<bot, pending, alerts, updates>>
  BY DEF Change
<1>3. mishaps' \in 0 .. MaxMishaps
  BY <1>0, <1>2, BoundsAssumption DEF TypeOK
<1>4. TypeOK' BY <1>0, <1>1, <1>2, <1>3 DEF TypeOK, bot
<1> QED BY <1>1, <1>4 DEF TypeInv

(* The rows and the inbox that administration leaves are of their types.   *)
Changes == \E rows \in [Users -> UserRows], ids \in Seq(Chats) : Change(rows, ids)

LEMMA ValidIdsTyped ==
  ASSUME TypeOK, NEW raw \in Inboxes
  PROVE  ValidIds(raw) \in Seq(Chats)
<1>1. raw \in Seq(Chats \cup {Garbage}) BY InboxAssumption
<1>2. CASE Contains(raw, Garbage) BY <1>2 DEF ValidIds, TypeOK
<1>3. CASE ~Contains(raw, Garbage)
  <2>1. /\ Len(raw) \in Nat /\ raw \in [1 .. Len(raw) -> Chats \cup {Garbage}]
    BY <1>1, LenProperties
  <2>2. \A i \in 1 .. Len(raw) : raw[i] \in Chats
    BY <1>3, <2>1 DEF Contains
  <2>3. raw \in [1 .. Len(raw) -> Chats] BY <2>1, <2>2
  <2>4. raw \in Seq(Chats) BY <2>1, <2>3, SeqDef
  <2>5. <<>> \in Seq(Chats) BY EmptySeq
  <2>6. AddNew(<<>>, raw) \in Seq(Chats) BY <2>4, <2>5, AddNewProperties
  <2> QED BY <1>3, <2>6 DEF ValidIds
<1> QED BY <1>2, <1>3

LEMMA RowTyped ==
  ASSUME NEW row \in UserRows, NEW c \in Private \cup {Nothing}
  PROVE  /\ [row EXCEPT !.chat = c] \in UserRows
         /\ \A role \in AllRoles, active \in BOOLEAN :
              [row EXCEPT !.role = role, !.active = active, !.chat = c] \in UserRows
<1> DEFINE P == Private \cup {Nothing}
<1>1. UserRows = [role : AllRoles, super : BOOLEAN, active : BOOLEAN, chat : P]
  BY DEF UserRows
<1> HIDE DEF P
<1>2. c \in P BY DEF P
<1> QED BY <1>1, <1>2

LEMMA AdministrationChanges ==
  ASSUME TypeOK, Administration
  PROVE  Changes
<1>1. user \in [Users -> UserRows] /\ inbox \in Seq(Chats) BY DEF TypeOK
<1>2. ASSUME NEW u \in Users, NEW c \in Private \cup {Nothing}
      PROVE  [user EXCEPT ![u].chat = c] \in [Users -> UserRows]
  <2> DEFINE row == [user[u] EXCEPT !.chat = c]
  <2>1. row \in UserRows
    <3>1. user[u] \in UserRows BY <1>1
    <3> QED BY <3>1, RowTyped
  <2>2. [user EXCEPT ![u].chat = c] = [user EXCEPT ![u] = row] OBVIOUS
  <2> HIDE DEF row
  <2> QED BY <1>1, <2>1, <2>2
<1>3. ASSUME NEW u \in Users, NEW c \in Private, Link(u, c) PROVE Changes
  <2>1. [user EXCEPT ![u].chat = c] \in [Users -> UserRows] BY <1>2
  <2>2. Change([user EXCEPT ![u].chat = c], inbox) BY <1>3 DEF Link
  <2> QED BY <1>1, <2>1, <2>2 DEF Changes
<1>4. ASSUME NEW u \in Users, Unlink(u) PROVE Changes
  <2>1. [user EXCEPT ![u].chat = Nothing] \in [Users -> UserRows] BY <1>2
  <2>2. Change([user EXCEPT ![u].chat = Nothing], inbox) BY <1>4 DEF Unlink
  <2> QED BY <1>1, <2>1, <2>2 DEF Changes
<1>5. ASSUME NEW u \in Users, NEW c \in Private \cup {Nothing}, NEW r \in Roles,
             NEW a \in BOOLEAN, SaveForm(u, r, a, c)
      PROVE  Changes
  <2> DEFINE row == [user[u] EXCEPT !.role = r, !.active = a, !.chat = c]
             rows == [user EXCEPT ![u] = row]
  <2>1. row \in UserRows
    <3>1. user[u] \in UserRows /\ r \in AllRoles BY <1>1, RolesAssumption
    <3> QED BY <3>1, RowTyped
  <2>2. Change(rows, inbox) BY <1>5 DEF SaveForm
  <2> HIDE DEF row
  <2>3. rows \in [Users -> UserRows] BY <1>1, <2>1
  <2> HIDE DEF rows
  <2> QED BY <1>1, <2>2, <2>3 DEF Changes
<1>6. ASSUME NEW u \in Users, NEW raw \in Inboxes, SaveInbox(u, raw) PROVE Changes
  <2>1. ValidIds(raw) \in Seq(Chats) BY ValidIdsTyped
  <2>2. Change(user, ValidIds(raw)) BY <1>6 DEF SaveInbox
  <2> QED BY <1>1, <2>1, <2>2 DEF Changes
<1> QED BY <1>3, <1>4, <1>5, <1>6 DEF Administration

(* What people write answers a message that is there, or none.             *)
Targeted(m) == m.target = 0 \/ m.target \in DOMAIN messages[m.chat]

Asks(m) ==
  /\ m \in Updates /\ Targeted(m) /\ pending' = pending \cup {m}
  /\ updates < MaxUpdates /\ updates' = updates + 1
  /\ UNCHANGED <<team, bot, alerts, mishaps, proc>>

LEMMA PeopleAsk ==
  ASSUME TypeOK, People
  PROVE  \E m : Asks(m)
<1>1. ASSUME NEW p \in Private, NEW c \in Chats, NEW id \in Nat,
             id = 0 \/ id \in DOMAIN messages[c],
             NEW t \in Tickets \cup {Nothing}, NEW reaction \in BOOLEAN,
             Ask(p, c, id, t, reaction)
      PROVE  \E m : Asks(m)
  <2> DEFINE m == [from |-> p, chat |-> c, target |-> id, names |-> t,
                   reaction |-> reaction]
  <2>1. m \in Updates BY DEF Updates
  <2>2. Targeted(m) BY <1>1 DEF Targeted
  <2>3. /\ updates < MaxUpdates /\ updates' = updates + 1
        /\ pending' = pending \cup {m}
        /\ UNCHANGED <<team, bot, alerts, mishaps, proc>>
    BY <1>1 DEF Ask
  <2> HIDE DEF m
  <2> QED BY <2>1, <2>2, <2>3 DEF Asks
<1>2. \A c \in Chats : DOMAIN messages[c] \subseteq Nat
  BY LenProperties DEF TypeOK
<1>3. PICK p \in Private, c \in Chats :
        \/ \E id \in DOMAIN messages[c] :
             \/ Ask(p, c, id, Nothing, TRUE)
             \/ \E t \in Texts : Ask(p, c, id, t, FALSE)
        \/ \E t \in Texts : Ask(p, c, 0, t, FALSE)
  BY DEF People
<1>4. \A t \in Texts : t \in Tickets \cup {Nothing} BY TextsAssumption
<1>5. ASSUME NEW id \in DOMAIN messages[c], Ask(p, c, id, Nothing, TRUE)
      PROVE  \E m : Asks(m)
  BY <1>1, <1>2, <1>5
<1>6. ASSUME NEW id \in DOMAIN messages[c], NEW t \in Texts, Ask(p, c, id, t, FALSE)
      PROVE  \E m : Asks(m)
  BY <1>1, <1>2, <1>4, <1>6
<1>7. ASSUME NEW t \in Texts, Ask(p, c, 0, t, FALSE) PROVE \E m : Asks(m)
  <2>1. 0 \in Nat OBVIOUS
  <2> QED BY <1>1, <1>4, <1>7, <2>1
<1> QED BY <1>3, <1>5, <1>6, <1>7

LEMMA AskTyped ==
  ASSUME TypeInv, NEW m, Asks(m)
  PROVE  TypeInv'
<1>0. TypeOK /\ FormInv BY DEF TypeInv
<1>1. UNCHANGED <<team, bot, alerts, mishaps, proc>> BY DEF Asks
<1>2. pending' \subseteq Updates BY <1>0 DEF Asks, TypeOK
<1>3. updates' \in 0 .. MaxUpdates BY <1>0, BoundsAssumption DEF Asks, TypeOK
<1>4. FormInv' BY <1>0, <1>1, ProcStill
<1>5. TypeOK' BY <1>0, <1>1, <1>2, <1>3 DEF TypeOK, team, bot
<1> QED BY <1>4, <1>5 DEF TypeInv

(* Whose step it is.                                                       *)
Acts(w) ==
  \/ Step(w) \/ Crash(w) \/ \E d \in BOOLEAN : SendFails(w, d)
  \/ \E t \in Tickets : NotifyPortalClaim(w, t)
  \/ \E u \in Users, t \in Tickets : NotifyWorkingOn(w, u, t)
  \/ \E m \in pending : Deliver(w, m)

LEMMA StepKinds ==
  ASSUME TypeOK, [Next]_vars
  PROVE  \/ \E w \in Workers : Acts(w)
         \/ \E k \in DOMAIN bound : KeyExpires(k)
         \/ Changes
         \/ \E m : Asks(m)
         \/ UNCHANGED vars
BY AdministrationChanges, PeopleAsk DEF Next, Acts

LEMMA TypeStep ==
  ASSUME TypeInv, [Next]_vars
  PROVE  TypeInv'
<1>0. TypeOK BY DEF TypeInv
<1>1. ASSUME NEW w \in Workers, Acts(w) PROVE TypeInv'
  BY <1>1, StartTyped, ListTyped, SendTyped, KeyTyped, WebhookTyped, EndTyped
     DEF Acts, Step
<1>2. ASSUME NEW k \in DOMAIN bound, KeyExpires(k) PROVE TypeInv'
  BY <1>2, KeyTyped
<1>3. CASE Changes BY <1>3, ChangeTyped DEF Changes
<1>4. ASSUME NEW m, Asks(m) PROVE TypeInv' BY <1>4, AskTyped
<1>5. CASE UNCHANGED vars
  BY <1>5 DEF vars, team, bot, count, TypeInv, TypeOK, FormInv, At
<1> QED BY <1>0, <1>1, <1>2, <1>3, <1>4, <1>5, StepKinds

LEMMA InitTyped ==
  ASSUME Init
  PROVE  TypeInv
<1>1. user \in [Users -> UserRows] /\ inbox \in Seq(Chats)
  BY TeamsAssumption DEF Init
<1>2. <<>> \in Seq(Messages) BY EmptySeq
<1>3. messages \in [Chats -> Seq(Messages)] BY <1>2 DEF Init
<1>4. DOMAIN bound \subseteq Chats \X Nat /\ Range(bound) \subseteq Tickets
  BY DEF Init, Range
<1>5. 0 \in 0 .. MaxAlerts /\ 0 \in 0 .. MaxUpdates /\ 0 \in 0 .. MaxMishaps
  BY BoundsAssumption
<1>6. proc \in [Workers -> {Idle} \cup Busy] BY DEF Init
<1>7. FormInv BY DEF Init, FormInv, At, Idle
<1>8. TypeOK BY <1>1, <1>3, <1>4, <1>5, <1>6 DEF Init, TypeOK
<1> QED BY <1>7, <1>8 DEF TypeInv

LEMMA TypeInvariance == Spec => []TypeInv
<1>1. Init => TypeInv BY InitTyped
<1>2. TypeInv /\ [Next]_vars => TypeInv' BY TypeStep
<1> QED BY <1>1, <1>2, PTL DEF Spec

(* Rows, messages, keys, updates and requests hold values of their types.  *)
THEOREM TypeCorrect == Spec => []TypeOK
BY TypeInvariance, PTL DEF TypeInv
-----------------------------------------------------------------------------
(* How a request came to where it is.                                      *)
After(v) ==
  /\ proc'[v].pc = "bind" => Send(v)
  /\ proc'[v].pc = "signal" => Resolve(v)
  /\ proc'[v].pc = "staff" => \E m \in pending : proc'[v].update = m
  /\ proc'[v].pc = "resolve" => FindStaff(v) /\ proc'[v].update = proc[v].update
  /\ proc'[v].pc = "inbox" => Listing(proc'[v], user, inbox) /\ UNCHANGED team
  /\ proc'[v].pc = "users" => LoadInbox(v)
  /\ proc'[v].pc = "send" =>
       LoadUsers(v) \/ Skip(v) \/ RegisterMessage(v) \/ \E d \in BOOLEAN : SendFails(v, d)

LEMMA BecomesPc ==
  ASSUME NEW w, NEW pc, NEW t, NEW todo, NEW due, NEW sent, NEW was, NEW steady,
         Becomes(w, pc, t, todo, due, sent, was, steady)
  PROVE  Moves(w) /\ proc'[w].pc = pc /\ proc'[w].update = proc[w].update
BY DEF Becomes, Edited

LEMMA DropsPc ==
  ASSUME NEW w, Drops(w)
  PROVE  Moves(w) /\ proc'[w].pc = "idle"
BY DEF Drops, Idle

LEMMA ActsAfter ==
  ASSUME TypeInv, NEW w \in Workers, Acts(w)
  PROVE  Moves(w) /\ After(w)
<1>0. TypeOK /\ FormInv BY DEF TypeInv
<1>1. ASSUME NEW t \in Tickets, NotifyPortalClaim(w, t) PROVE Moves(w) /\ After(w)
  <2>1. Begins(w, "inbox", "claim", t, Nothing, Nothing, TRUE)
    BY <1>0, <1>1, ClaimFields
  <2>2. UNCHANGED team BY <1>1 DEF NotifyPortalClaim
  <2> QED BY <2>1, <2>2 DEF Begins, Fresh, After
<1>2. ASSUME NEW u \in Users, NEW t \in Tickets, NotifyWorkingOn(w, u, t)
      PROVE  Moves(w) /\ After(w)
  <2>1. Begins(w, "inbox", "onit", t, user[u].chat, Nothing, TRUE)
    BY <1>0, <1>2, WorkingOnFields
  <2>2. UNCHANGED team BY <1>2 DEF NotifyWorkingOn
  <2> QED BY <2>1, <2>2 DEF Begins, Fresh, After
<1>3. ASSUME NEW m \in pending, Deliver(w, m) PROVE Moves(w) /\ After(w)
  <2>1. Begins(w, "staff", "onit", Nothing, m.from, m, FALSE)
    BY <1>0, <1>3, DeliverFields
  <2> QED BY <2>1 DEF Begins, Fresh, After
<1>4. CASE LoadInbox(w) BY <1>0, <1>4, LoadInboxFields, BecomesPc DEF After
<1>5. CASE LoadUsers(w) BY <1>0, <1>5, LoadUsersFields, BecomesPc DEF After
<1>6. CASE Skip(w) BY <1>0, <1>6, SkipFields, BecomesPc DEF After
<1>7. CASE Send(w)
  <2> DEFINE due == proc[w].due \ {To(w)}
             sent == NextId(To(w))
  <2>1. Becomes(w, "bind", proc[w].ticket, Tail(proc[w].todo), due, sent,
                proc[w].was, proc[w].steady)
    BY <1>0, <1>7, SendFields
  <2> HIDE DEF due, sent
  <2> QED BY <1>7, <2>1, BecomesPc DEF After
<1>8. ASSUME NEW d \in BOOLEAN, SendFails(w, d) PROVE Moves(w) /\ After(w)
  <2> DEFINE due == proc[w].due \ {To(w)}
  <2>1. Becomes(w, "send", proc[w].ticket, Tail(proc[w].todo), due, proc[w].sent,
                proc[w].was, proc[w].steady)
    BY <1>0, <1>8, SendFailsFields
  <2> HIDE DEF due
  <2> QED BY <1>8, <2>1, BecomesPc DEF After
<1>9. CASE RegisterMessage(w) BY <1>0, <1>9, RegisterFields, BecomesPc DEF After
<1>10. CASE AllSent(w)
  <2>1. CASE Drops(w) BY <2>1, DropsPc DEF After
  <2>2. CASE MovesOn(w, "confirm") BY <2>2, BecomesPc DEF MovesOn, After
  <2> QED BY <1>0, <1>10, <2>1, <2>2, AllSentFields
<1>11. CASE FindStaff(w)
  <2>1. CASE Drops(w) BY <2>1, DropsPc DEF After
  <2>2. CASE MovesOn(w, "resolve") BY <1>11, <2>2, BecomesPc DEF MovesOn, After
  <2> QED BY <1>0, <1>11, <2>1, <2>2, FindStaffFields
<1>12. CASE Resolve(w)
  <2>1. proc[w].update \in Updates BY <1>0, <1>12 DEF Resolve, FormInv, Formed, At
  <2> QED BY <1>0, <1>12, <2>1, ResolveFields, BecomesPc DEF After
<1>13. CASE ApplySignals(w)
  <2>1. CASE Begins(w, "inbox", "onit", proc[w].ticket, proc[w].own,
                    proc[w].update, TRUE)
    <3>1. UNCHANGED team BY <1>13 DEF ApplySignals
    <3> QED BY <2>1, <3>1 DEF Begins, Fresh, After
  <2>2. CASE MovesOn(w, "confirm") BY <2>2, BecomesPc DEF MovesOn, After
  <2> QED BY <1>0, <1>13, <2>1, <2>2, ApplySignalsFields
<1>14. CASE NoTicket(w) \/ Confirm(w) \/ Crash(w)
  BY <1>0, <1>14, EndingFields, DropsPc DEF After
<1> QED BY <1>1, <1>2, <1>3, <1>4, <1>5, <1>6, <1>7, <1>8, <1>9, <1>10, <1>11,
           <1>12, <1>13, <1>14 DEF Acts, Step

LEMMA Others ==
  ASSUME TypeOK, NEW w \in Workers, Moves(w), NEW v \in Workers, v # w
  PROVE  proc'[v] = proc[v]
<1> DEFINE s == proc'[w]
<1>1. proc' = [proc EXCEPT ![w] = s] BY DEF Moves
<1> HIDE DEF s
<1> QED BY <1>1 DEF TypeOK

(* A step moves one request, or its environment.                           *)
LEMMA Who ==
  ASSUME TypeInv, [Next]_vars, NEW v \in Workers
  PROVE  \/ Acts(v) /\ After(v)
         \/ /\ proc'[v] = proc[v]
            /\ UNCHANGED team \/ ~(At(v, "inbox") \/ At(v, "users"))
         \/ /\ At(v, "inbox") \/ At(v, "users")
            /\ \E rows \in [Users -> UserRows], ids \in Seq(Chats) :
                 Change(rows, ids) /\ Noted(v, rows, ids)
<1>0. TypeOK BY DEF TypeInv
<1>1. ASSUME NEW w \in Workers, Acts(w)
      PROVE  \/ Acts(v) /\ After(v)
             \/ proc'[v] = proc[v] /\ UNCHANGED team
  <2>1. CASE v = w
    <3>1. Acts(v) BY <1>1, <2>1
    <3> QED BY <3>1, ActsAfter
  <2>2. CASE v # w
    <3>1. proc'[v] = proc[v] BY <1>0, <1>1, <2>2, ActsAfter, Others
    <3>2. UNCHANGED team
      BY <1>1 DEF Acts, Step, LoadInbox, LoadUsers, Skip, Send, RegisterMessage,
         AllSent, FindStaff, Resolve, NoTicket, ApplySignals, Confirm, Crash,
         SendFails, NotifyPortalClaim, NotifyWorkingOn, Deliver
    <3> QED BY <3>1, <3>2
  <2> QED BY <2>1, <2>2
<1>2. ASSUME NEW k \in DOMAIN bound, KeyExpires(k)
      PROVE  proc'[v] = proc[v] /\ UNCHANGED team
  BY <1>2 DEF KeyExpires
<1>3. ASSUME NEW rows \in [Users -> UserRows], NEW ids \in Seq(Chats), Change(rows, ids)
      PROVE  \/ proc'[v] = proc[v] /\ ~(At(v, "inbox") \/ At(v, "users"))
             \/ (At(v, "inbox") \/ At(v, "users")) /\ Noted(v, rows, ids)
  BY <1>0, <1>3, ChangeFields DEF Noted
<1>4. ASSUME NEW m, Asks(m) PROVE proc'[v] = proc[v] /\ UNCHANGED team
  BY <1>4 DEF Asks
<1>5. CASE UNCHANGED vars BY <1>5 DEF vars
<1>6. CASE Changes
  <2>1. PICK rows \in [Users -> UserRows], ids \in Seq(Chats) : Change(rows, ids)
    BY <1>6 DEF Changes
  <2> QED BY <1>3, <1>6, <2>1
<1> QED BY <1>0, <1>1, <1>2, <1>4, <1>5, <1>6, StepKinds
-----------------------------------------------------------------------------
(* Keys name messages about their tickets, and every alert has its key, is *)
(* about to have it, or is known to have none.                             *)
Names(k, t) == k[2] \in DOMAIN messages[k[1]] /\ messages[k[1]][k[2]].ticket = t

Findable(k) ==
  \/ k \in DOMAIN bound \cup unbound
  \/ \E v \in Workers : At(v, "bind") /\ proc[v].sent = k

AskedInv ==
  /\ \A m \in pending : Targeted(m)
  /\ \A w \in Workers :
       proc[w].pc \in {"staff", "resolve", "signal"} => Targeted(proc[w].update)

BoundInv ==
  /\ \A k \in DOMAIN bound : Names(k, bound[k])
  /\ \A w \in Workers : At(w, "bind") => Names(proc[w].sent, proc[w].ticket)

AlertInv ==
  \A c \in Chats : \A i \in DOMAIN messages[c] :
    messages[c][i].alert => Findable(<<c, i>>)

LEMMA NamesStay ==
  ASSUME Grown, NEW k \in Chats \X Nat, NEW t, Names(k, t)
  PROVE  Names(k, t)'
<1>1. k[1] \in Chats OBVIOUS
<1> QED BY <1>1 DEF Grown, Names

LEMMA TargetStays ==
  ASSUME Grown, NEW m \in Updates, Targeted(m)
  PROVE  Targeted(m)'
<1>1. m.chat \in Chats BY DEF Updates
<1> QED BY <1>1 DEF Grown, Targeted

(* What a step adds to the messages.                                       *)
Adds ==
  \/ UNCHANGED messages
  \/ \E w \in Workers : /\ Send(w) /\ To(w) \in Chats
                        /\ Added(To(w), proc[w].ticket, TRUE)
  \/ \E w \in Workers : /\ To(w) \in Chats /\ Added(To(w), proc[w].ticket, TRUE)
                        /\ NextId(To(w)) \in unbound'
  \/ \E c \in Chats : \E t : Added(c, t, FALSE)

LEMMA StepAdds ==
  ASSUME TypeInv, [Next]_vars
  PROVE  Adds
<1>0. TypeOK /\ FormInv BY DEF TypeInv
<1>1. ASSUME NEW w \in Workers, Acts(w) PROVE Adds
  <2>1. ASSUME Sending(w) PROVE proc[w].ticket \in Tickets /\ To(w) \in Chats
    <3>1. proc[w].ticket \in Tickets BY <1>0, <2>1 DEF FormInv, Formed, At, Sending
    <3> QED BY <1>0, <2>1, <3>1, SendingFields
  <2>2. CASE Send(w)
    <3>1. Sending(w) /\ Append1(To(w), proc[w].ticket, TRUE) BY <2>2 DEF Send
    <3>2. Added(To(w), proc[w].ticket, TRUE) BY <1>0, <2>1, <3>1, MessageAdded
    <3> QED BY <2>1, <2>2, <3>1, <3>2 DEF Adds
  <2>3. ASSUME NEW d \in BOOLEAN, SendFails(w, d) PROVE Adds
    <3>1. CASE d
      <4>1. /\ Sending(w) /\ Append1(To(w), proc[w].ticket, TRUE)
            /\ NextId(To(w)) \in unbound'
        BY <2>3, <3>1 DEF SendFails
      <4>2. Added(To(w), proc[w].ticket, TRUE) BY <1>0, <2>1, <4>1, MessageAdded
      <4> QED BY <2>1, <4>1, <4>2 DEF Adds
    <3>2. CASE ~d BY <2>3, <3>2 DEF SendFails, Adds
    <3> QED BY <3>1, <3>2
  <2>4. CASE NoTicket(w)
    <3>1. proc[w].update \in Updates BY <1>0, <2>4 DEF NoTicket, FormInv, Formed, At
    <3>2. proc[w].update.chat \in Chats BY <3>1 DEF Updates
    <3>3. UNCHANGED messages \/ Append1(proc[w].update.chat, Nothing, FALSE)
      BY <2>4 DEF NoTicket
    <3> DEFINE c == proc[w].update.chat
    <3> HIDE DEF c
    <3>4. Append1(c, Nothing, FALSE) => Added(c, Nothing, FALSE)
      BY <1>0, <3>2, MessageAdded DEF c
    <3> QED BY <3>2, <3>3, <3>4 DEF Adds, c
  <2>5. CASE Confirm(w)
    <3>1. proc[w].update \in Updates /\ proc[w].ticket \in Tickets
      BY <1>0, <2>5 DEF Confirm, FormInv, Formed, At
    <3>2. proc[w].update.chat \in Chats BY <3>1 DEF Updates
    <3>3. Append1(proc[w].update.chat, proc[w].ticket, FALSE) BY <2>5 DEF Confirm
    <3> DEFINE c == proc[w].update.chat
               t == proc[w].ticket
    <3> HIDE DEF c, t
    <3>4. Added(c, t, FALSE) BY <1>0, <3>1, <3>2, <3>3, MessageAdded DEF c, t
    <3> QED BY <3>2, <3>4 DEF Adds, c
  <2>6. CASE \/ LoadInbox(w) \/ LoadUsers(w) \/ Skip(w) \/ RegisterMessage(w)
             \/ AllSent(w) \/ FindStaff(w) \/ Resolve(w) \/ ApplySignals(w)
             \/ Crash(w)
    BY <2>6 DEF LoadInbox, LoadUsers, Skip, RegisterMessage, AllSent, FindStaff,
       Resolve, ApplySignals, Crash, bot, Adds
  <2>7. CASE \/ \E t \in Tickets : NotifyPortalClaim(w, t)
             \/ \E u \in Users, t \in Tickets : NotifyWorkingOn(w, u, t)
             \/ \E m \in pending : Deliver(w, m)
    BY <2>7 DEF NotifyPortalClaim, NotifyWorkingOn, Deliver, bot, Adds
  <2> QED BY <1>1, <2>2, <2>3, <2>4, <2>5, <2>6, <2>7 DEF Acts, Step
<1>2. ASSUME NEW k \in DOMAIN bound, KeyExpires(k) PROVE Adds
  BY <1>2 DEF KeyExpires, Adds
<1>3. CASE Changes BY <1>3 DEF Changes, Change, bot, Adds
<1>4. ASSUME NEW m, Asks(m) PROVE Adds BY <1>4 DEF Asks, bot, Adds
<1>5. CASE UNCHANGED vars BY <1>5 DEF vars, bot, Adds
<1> QED BY <1>0, <1>1, <1>2, <1>3, <1>4, <1>5, StepKinds

LEMMA StepGrows ==
  ASSUME TypeInv, [Next]_vars
  PROVE  Grown
BY StepAdds, NoneAdded DEF Adds, Added

(* What a step does to the keys.                                           *)
Binds ==
  \/ UNCHANGED bound /\ unbound \subseteq unbound'
  \/ \E w \in Workers : RegisterMessage(w)
  \/ \E k \in DOMAIN bound : KeyExpires(k)

LEMMA StepBinds ==
  ASSUME TypeInv, [Next]_vars
  PROVE  Binds
<1>0. TypeOK BY DEF TypeInv
<1>1. ASSUME NEW w \in Workers, Acts(w) PROVE Binds
  <2>1. CASE RegisterMessage(w) BY <2>1 DEF Binds
  <2>2. CASE \/ LoadInbox(w) \/ LoadUsers(w) \/ Skip(w) \/ Send(w)
             \/ AllSent(w) \/ FindStaff(w) \/ Resolve(w) \/ ApplySignals(w)
             \/ NoTicket(w) \/ Confirm(w)
    BY <2>2 DEF LoadInbox, LoadUsers, Skip, Send, AllSent, FindStaff, NoTicket,
       Confirm, Resolve, ApplySignals, bot, Binds
  <2>3. CASE Crash(w) BY <2>3 DEF Crash, Binds
  <2>4. ASSUME NEW d \in BOOLEAN, SendFails(w, d) PROVE Binds
    BY <2>4 DEF SendFails, Binds
  <2>5. CASE \/ \E t \in Tickets : NotifyPortalClaim(w, t)
             \/ \E u \in Users, t \in Tickets : NotifyWorkingOn(w, u, t)
             \/ \E m \in pending : Deliver(w, m)
    BY <2>5 DEF NotifyPortalClaim, NotifyWorkingOn, Deliver, bot, Binds
  <2> QED BY <1>1, <2>1, <2>2, <2>3, <2>4, <2>5 DEF Acts, Step
<1>2. ASSUME NEW k \in DOMAIN bound, KeyExpires(k) PROVE Binds
  BY <1>2 DEF Binds
<1>3. CASE Changes BY <1>3 DEF Changes, Change, bot, Binds
<1>4. ASSUME NEW m, Asks(m) PROVE Binds BY <1>4 DEF Asks, bot, Binds
<1>5. CASE UNCHANGED vars BY <1>5 DEF vars, bot, Binds
<1> QED BY <1>0, <1>1, <1>2, <1>3, <1>4, <1>5, StepKinds

LEMMA AskedKept ==
  ASSUME TypeInv, AskedInv, [Next]_vars
  PROVE  AskedInv'
<1>0. TypeOK /\ FormInv BY DEF TypeInv
<1>1. Grown BY StepGrows
<1>2. ASSUME NEW m \in pending' PROVE Targeted(m)'
  <2>1. m \in Updates /\ Targeted(m)
    <3>1. CASE m \in pending BY <1>0, <3>1 DEF TypeOK, AskedInv
    <3>2. CASE m \notin pending
      <4>1. ASSUME NEW w \in Workers, Acts(w) PROVE pending' \subseteq pending
        BY <4>1 DEF Acts, Step, LoadInbox, LoadUsers, Skip, Send, RegisterMessage,
           AllSent, FindStaff, Resolve, NoTicket, ApplySignals, Confirm, Crash,
           SendFails, NotifyPortalClaim, NotifyWorkingOn, Deliver
      <4>2. ASSUME NEW k \in DOMAIN bound, KeyExpires(k) PROVE pending' = pending
        BY <4>2 DEF KeyExpires
      <4>3. Changes => pending' = pending BY DEF Changes, Change
      <4>4. UNCHANGED vars => pending' = pending BY DEF vars
      <4>5. PICK n : Asks(n)
        BY <1>0, <3>2, <4>1, <4>2, <4>3, <4>4, StepKinds
      <4> QED BY <3>2, <4>5 DEF Asks
    <3> QED BY <3>1, <3>2
  <2> QED BY <1>1, <2>1, TargetStays
<1>3. ASSUME NEW w \in Workers, proc'[w].pc \in {"staff", "resolve", "signal"}
      PROVE  \/ proc'[w].update.target = 0
             \/ proc'[w].update.target \in DOMAIN messages'[proc'[w].update.chat]
  <2>1. proc'[w].update \in Updates /\ Targeted(proc'[w].update)
    <3>1. CASE proc'[w] = proc[w]
      <4>1. ~At(w, "idle") BY <1>3, <3>1 DEF At
      <4>2. proc[w].update \in Updates BY <1>0, <1>3, <3>1, <4>1 DEF FormInv, Formed
      <4> QED BY <1>3, <3>1, <4>2 DEF AskedInv
    <3>2. CASE Acts(w) /\ After(w)
      <4>1. CASE proc'[w].pc = "staff"
        <5>1. proc'[w].update \in pending BY <3>2, <4>1 DEF After
        <5> QED BY <1>0, <5>1 DEF AskedInv, TypeOK
      <4>2. CASE proc'[w].pc = "resolve"
        <5>1. At(w, "staff") /\ proc'[w].update = proc[w].update
          BY <3>2, <4>2 DEF After, FindStaff
        <5>2. proc[w].update \in Updates BY <1>0, <5>1 DEF FormInv, Formed, At
        <5> QED BY <5>1, <5>2 DEF AskedInv, At
      <4>3. CASE proc'[w].pc = "signal"
        <5>1. Resolve(w) /\ At(w, "resolve") BY <3>2, <4>3 DEF After, Resolve
        <5>2. proc[w].update \in Updates BY <1>0, <5>1 DEF FormInv, Formed, At
        <5>3. proc'[w].update = proc[w].update
          BY <1>0, <5>1, <5>2, ResolveFields, BecomesPc
        <5> QED BY <5>1, <5>2, <5>3 DEF AskedInv, At
      <4> QED BY <1>3, <4>1, <4>2, <4>3
    <3>3. ASSUME At(w, "inbox") \/ At(w, "users"),
                 NEW rows \in [Users -> UserRows], NEW ids \in Seq(Chats),
                 Noted(w, rows, ids)
          PROVE  FALSE
      <4>1. proc'[w].pc = proc[w].pc BY <3>3 DEF Noted, Edited
      <4> QED BY <1>3, <3>3, <4>1 DEF At
    <3> QED BY <3>1, <3>2, <3>3, Who
  <2>2. ASSUME NEW n \in Updates, Targeted(n)
        PROVE  n.target = 0 \/ n.target \in DOMAIN messages'[n.chat]
    BY <1>1, <2>2, TargetStays DEF Targeted
  <2> QED BY <2>1, <2>2
<1> QED BY <1>2, <1>3 DEF AskedInv, Targeted

LEMMA BoundKept ==
  ASSUME TypeInv, BoundInv, [Next]_vars
  PROVE  BoundInv'
<1>0. TypeOK /\ FormInv BY DEF TypeInv
<1>1. Grown BY StepGrows
<1>2. DOMAIN bound \subseteq Chats \X Nat BY <1>0 DEF TypeOK
<1>3. ASSUME NEW w \in Workers, At(w, "bind")
      PROVE  proc[w].sent \in Chats \X Nat /\ Names(proc[w].sent, proc[w].ticket)
  BY <1>0, <1>3 DEF FormInv, Formed, BoundInv, At
<1>4. \A k \in Chats \X Nat : \A t : Names(k, t) => Names(k, t)' BY <1>1, NamesStay
<1>5. ASSUME NEW k \in DOMAIN bound'
      PROVE  k \in Chats \X Nat /\ Names(k, bound'[k])
  <2>1. CASE UNCHANGED bound BY <1>2, <2>1 DEF BoundInv
  <2>2. ASSUME NEW w \in Workers, RegisterMessage(w)
        PROVE  k \in Chats \X Nat /\ Names(k, bound'[k])
    <3> DEFINE sent == proc[w].sent
               t == proc[w].ticket
    <3>1. sent \in Chats \X Nat /\ Names(sent, t) BY <1>3, <2>2 DEF RegisterMessage
    <3>2. <<sent[1], sent[2]>> = sent BY <3>1
    <3> HIDE DEF sent, t
    <3>3. bound' = [j \in DOMAIN bound \cup {sent} |-> IF j = sent THEN t ELSE bound[j]]
      BY <2>2, <3>2 DEF RegisterMessage, BindKey, sent, t
    <3>4. CASE k = sent
      <4>1. bound'[k] = t BY <3>3, <3>4
      <4> QED BY <3>1, <3>4, <4>1
    <3>5. CASE k # sent
      <4>1. k \in DOMAIN bound /\ bound'[k] = bound[k] BY <3>3, <3>5
      <4> QED BY <1>2, <4>1 DEF BoundInv
    <3> QED BY <3>4, <3>5
  <2>3. ASSUME NEW j \in DOMAIN bound, KeyExpires(j)
        PROVE  k \in Chats \X Nat /\ Names(k, bound'[k])
    <3>1. k \in DOMAIN bound /\ bound'[k] = bound[k] BY <2>3 DEF KeyExpires
    <3> QED BY <1>2, <3>1 DEF BoundInv
  <2> QED BY <2>1, <2>2, <2>3, StepBinds DEF Binds
<1>6. ASSUME NEW w \in Workers, proc'[w].pc = "bind"
      PROVE  LET k == proc'[w].sent
             IN  k[2] \in DOMAIN messages'[k[1]] /\ messages'[k[1]][k[2]].ticket = proc'[w].ticket
  <2>1. CASE proc'[w] = proc[w]
    <3>1. proc[w].sent \in Chats \X Nat /\ Names(proc[w].sent, proc[w].ticket)
      BY <1>3, <1>6, <2>1 DEF At
    <3>2. Names(proc[w].sent, proc[w].ticket)
            => LET k == proc[w].sent
               IN  k[2] \in DOMAIN messages'[k[1]] /\ messages'[k[1]][k[2]].ticket = proc[w].ticket
      BY <1>4, <3>1 DEF Names
    <3> QED BY <2>1, <3>1, <3>2
  <2>2. CASE Acts(w) /\ After(w)
    <3>1. Send(w) BY <1>6, <2>2 DEF After
    <3>2. Sending(w) /\ Append1(To(w), proc[w].ticket, TRUE) BY <3>1 DEF Send
    <3>3. proc[w].ticket \in Tickets /\ To(w) \in Chats
      BY <1>0, <3>2, SendingFields DEF FormInv, Formed, At, Sending
    <3>4. Added(To(w), proc[w].ticket, TRUE) BY <1>0, <3>2, <3>3, MessageAdded
    <3>5. proc'[w].sent = NextId(To(w)) /\ proc'[w].ticket = proc[w].ticket
      BY <1>0, <3>1, SendFields DEF Becomes, Edited
    <3>6. NextId(To(w))[1] = To(w) BY DEF NextId
    <3> QED BY <3>4, <3>5, <3>6 DEF Added
  <2>3. ASSUME At(w, "inbox") \/ At(w, "users"),
               NEW rows \in [Users -> UserRows], NEW ids \in Seq(Chats),
               Noted(w, rows, ids)
        PROVE  FALSE
    <3>1. proc'[w].pc = proc[w].pc BY <2>3 DEF Noted, Edited
    <3> QED BY <1>6, <2>3, <3>1 DEF At
  <2> QED BY <2>1, <2>2, <2>3, Who
<1>7. ASSUME NEW k \in DOMAIN bound'
      PROVE  /\ k[2] \in DOMAIN messages'[k[1]]
             /\ messages'[k[1]][k[2]].ticket = bound'[k]
  <2>1. k[1] \in Chats BY <1>5
  <2>2. k[2] \in DOMAIN messages[k[1]] /\ messages[k[1]][k[2]].ticket = bound'[k]
    BY <1>5 DEF Names
  <2> QED BY <1>1, <2>1, <2>2 DEF Grown
<1> QED BY <1>6, <1>7 DEF BoundInv, Names, At

LEMMA AlertKept ==
  ASSUME TypeInv, AlertInv, [Next]_vars
  PROVE  AlertInv'
<1>0. TypeOK /\ FormInv BY DEF TypeInv
<1>1. ASSUME NEW k, k \in DOMAIN bound \cup unbound
      PROVE  k \in DOMAIN bound' \cup unbound'
  <2>1. ASSUME NEW w \in Workers, RegisterMessage(w)
        PROVE  DOMAIN bound \subseteq DOMAIN bound' /\ unbound' = unbound
    BY <2>1 DEF RegisterMessage
  <2>2. ASSUME NEW j \in DOMAIN bound, KeyExpires(j)
        PROVE  DOMAIN bound' = DOMAIN bound \ {j} /\ unbound' = unbound \cup {j}
    BY <2>2 DEF KeyExpires
  <2> QED BY <1>1, <2>1, <2>2, StepBinds DEF Binds
<1>2. ASSUME NEW v \in Workers, At(v, "bind")
      PROVE  \/ proc'[v] = proc[v]
             \/ proc[v].sent \in DOMAIN bound' \cup unbound'
  <2>1. CASE Acts(v)
    <3>1. RegisterMessage(v) \/ Crash(v)
      BY <1>2, <2>1 DEF Acts, Step, At, LoadInbox, LoadUsers, Skip, Send, Sending, AllSent,
         FindStaff, Resolve, NoTicket, ApplySignals, Confirm, SendFails,
         NotifyPortalClaim, NotifyWorkingOn, Deliver
    <3>2. proc[v].sent \in Chats \X Nat BY <1>0, <1>2 DEF FormInv, Formed, At
    <3>3. CASE RegisterMessage(v)
      <4>1. <<proc[v].sent[1], proc[v].sent[2]>> = proc[v].sent BY <3>2
      <4> QED BY <3>3, <4>1 DEF RegisterMessage, BindKey
    <3>4. CASE Crash(v) BY <1>2, <3>4 DEF Crash
    <3> QED BY <3>1, <3>3, <3>4
  <2>2. ~(At(v, "inbox") \/ At(v, "users")) BY <1>2 DEF At
  <2> QED BY <2>1, <2>2, Who
<1>3. ASSUME NEW k, Findable(k) PROVE Findable(k)'
  <2>1. CASE k \in DOMAIN bound \cup unbound BY <1>1, <2>1 DEF Findable
  <2>2. ASSUME NEW v \in Workers, At(v, "bind"), proc[v].sent = k PROVE Findable(k)'
    <3>1. CASE proc'[v] = proc[v]
      <4>1. At(v, "bind")' /\ proc'[v].sent = k BY <2>2, <3>1 DEF At
      <4> QED BY <4>1 DEF Findable
    <3>2. CASE k \in DOMAIN bound' \cup unbound' BY <3>2 DEF Findable
    <3> QED BY <1>2, <2>2, <3>1, <3>2
  <2> QED BY <1>3, <2>1, <2>2 DEF Findable
<1>4. ASSUME NEW c \in Chats, NEW i \in DOMAIN messages'[c], messages'[c][i].alert
      PROVE  Findable(<<c, i>>)'
  <2>1. CASE i \in DOMAIN messages[c]
    <3>1. messages'[c][i] = messages[c][i] BY <2>1, StepGrows DEF Grown
    <3>2. Findable(<<c, i>>) BY <1>4, <2>1, <3>1 DEF AlertInv
    <3> QED BY <1>3, <3>2
  <2>2. CASE i \notin DOMAIN messages[c]
    <3>1. ASSUME NEW w \in Workers, Send(w), To(w) \in Chats,
                 Added(To(w), proc[w].ticket, TRUE)
          PROVE  Findable(<<c, i>>)'
      <4>1. <<c, i>> = NextId(To(w)) BY <2>2, <3>1 DEF Added
      <4>2. proc'[w].pc = "bind" /\ proc'[w].sent = NextId(To(w))
        BY <1>0, <3>1, SendFields DEF Becomes, Edited
      <4>3. At(w, "bind")' /\ proc'[w].sent = <<c, i>> BY <4>1, <4>2 DEF At
      <4> QED BY <4>3 DEF Findable
    <3>2. ASSUME NEW w \in Workers, Added(To(w), proc[w].ticket, TRUE),
                 NextId(To(w)) \in unbound'
          PROVE  Findable(<<c, i>>)'
      <4>1. <<c, i>> = NextId(To(w)) BY <2>2, <3>2 DEF Added
      <4>2. <<c, i>> \in unbound' BY <3>2, <4>1
      <4> QED BY <4>2 DEF Findable
    <3>3. ASSUME NEW d \in Chats, NEW t, Added(d, t, FALSE) PROVE FALSE
      <4>1. messages'[c][i].alert = FALSE BY <2>2, <3>3 DEF Added
      <4> QED BY <1>4, <4>1
    <3>4. ~UNCHANGED messages BY <2>2
    <3> QED BY <3>1, <3>2, <3>3, <3>4, StepAdds DEF Adds
  <2> QED BY <2>1, <2>2
<1> QED BY <1>4 DEF AlertInv
-----------------------------------------------------------------------------
LEMMA MeantKept ==
  ASSUME TypeInv, AskedInv, BoundInv, PickupsMeant, [Next]_vars
  PROVE  PickupsMeant'
<1>0. TypeOK /\ FormInv BY DEF TypeInv
<1>1. Grown BY StepGrows
<1>2. ASSUME NEW m \in Updates, Targeted(m), m.target # 0
      PROVE  messages'[m.chat][m.target] = messages[m.chat][m.target]
  <2>1. m.chat \in Chats BY DEF Updates
  <2> QED BY <1>1, <1>2, <2>1 DEF Grown, Targeted
<1>3. ASSUME NEW w \in Workers, proc'[w].pc = "signal"
      PROVE  LET m == proc'[w].update
             IN  \/ proc'[w].ticket = m.names
                 \/ m.target # 0 /\ proc'[w].ticket = messages'[m.chat][m.target].ticket
  <2>1. CASE proc'[w] = proc[w]
    <3> DEFINE m == proc[w].update
    <3>1. At(w, "signal") /\ ~At(w, "idle") BY <1>3, <2>1 DEF At
    <3>2. m \in Updates /\ Targeted(m)
      BY <1>0, <3>1 DEF FormInv, Formed, AskedInv, At
    <3>3. \/ proc[w].ticket = m.names
          \/ m.target # 0 /\ proc[w].ticket = messages[m.chat][m.target].ticket
      BY <3>1 DEF PickupsMeant
    <3> HIDE DEF m
    <3>4. \/ proc[w].ticket = m.names
          \/ m.target # 0 /\ proc[w].ticket = messages'[m.chat][m.target].ticket
      BY <1>2, <3>2, <3>3
    <3> QED BY <2>1, <3>4 DEF m
  <2>2. CASE Acts(w) /\ After(w)
    <3> DEFINE m == proc[w].update
               t == proc'[w].ticket
    <3>1. Resolve(w) /\ At(w, "resolve") /\ ~At(w, "idle")
      BY <1>3, <2>2 DEF After, Resolve, At
    <3>2. m \in Updates /\ Targeted(m)
      BY <1>0, <3>1 DEF FormInv, Formed, AskedInv, At
    <3>3. proc'[w].update = m /\ t = Resolved(m)
      BY <1>0, <3>1, <3>2, ResolveFields DEF Becomes, Edited
    <3> HIDE DEF m, t
    <3>4. CASE m.target # 0 /\ <<m.chat, m.target>> \in DOMAIN bound
      <4> DEFINE k == <<m.chat, m.target>>
      <4>1. t = bound[k] BY <3>3, <3>4 DEF Resolved, BindKey
      <4>2. k[1] = m.chat /\ k[2] = m.target OBVIOUS
      <4> HIDE DEF k
      <4>3. Names(k, bound[k]) BY <3>4 DEF BoundInv, k
      <4>4. messages[m.chat][m.target].ticket = t BY <4>1, <4>2, <4>3 DEF Names
      <4>5. messages'[m.chat][m.target].ticket = t BY <1>2, <3>2, <3>4, <4>4
      <4> QED BY <3>3, <3>4, <4>5 DEF t
    <3>5. CASE ~(m.target # 0 /\ <<m.chat, m.target>> \in DOMAIN bound)
      <4>1. t = m.names BY <3>3, <3>5 DEF Resolved, BindKey
      <4> QED BY <3>3, <4>1 DEF t
    <3> QED BY <3>4, <3>5
  <2>3. ASSUME At(w, "inbox") \/ At(w, "users"),
               NEW rows \in [Users -> UserRows], NEW ids \in Seq(Chats),
               Noted(w, rows, ids)
        PROVE  FALSE
    <3>1. proc'[w].pc = proc[w].pc BY <2>3 DEF Noted, Edited
    <3> QED BY <1>3, <2>3, <3>1 DEF At
  <2> QED BY <2>1, <2>2, <2>3, Who
<1> QED BY <1>3 DEF PickupsMeant, At

MeantInv == TypeInv /\ AskedInv /\ BoundInv /\ PickupsMeant

(* A ticket is picked up only for who asked for that ticket, by naming it  *)
(* or by answering a message about it: a key names a message of its own    *)
(* chat, which keeps its ticket while anything is sent after it.           *)
THEOREM PickupsAreMeant == Spec => []PickupsMeant
<1>1. Init => MeantInv
  <2> SUFFICES ASSUME Init PROVE MeantInv OBVIOUS
  <2>1. AskedInv /\ BoundInv /\ PickupsMeant
    BY DEF Init, AskedInv, BoundInv, PickupsMeant, At, Idle
  <2>2. TypeInv BY InitTyped
  <2> QED BY <2>1, <2>2 DEF MeantInv
<1>2. MeantInv /\ [Next]_vars => MeantInv'
  BY TypeStep, AskedKept, BoundKept, MeantKept DEF MeantInv
<1>3. MeantInv => PickupsMeant BY DEF MeantInv
<1> QED BY <1>1, <1>2, <1>3, PTL DEF Spec

(* A pick-up that ends for want of a ticket found no key.                  *)
LEMMA UnansweredStep ==
  ASSUME TypeInv, AskedInv, AlertInv, [Next]_vars, NEW w \in Workers,
         At(w, "resolve"), At(w, "idle")', mishaps' = mishaps
  PROVE  LET m == proc[w].update
         IN  m.target # 0 /\ messages[m.chat][m.target].alert
               => \/ <<m.chat, m.target>> \in unbound
                  \/ \E v \in Workers :
                       At(v, "bind") /\ proc[v].sent = <<m.chat, m.target>>
<1> DEFINE m == proc[w].update
           k == <<m.chat, m.target>>
<1>0. TypeOK /\ FormInv BY DEF TypeInv
<1>1. proc[w].pc = "resolve" /\ proc'[w].pc = "idle" BY DEF At
<1>2. m \in Updates /\ Targeted(m) BY <1>0, <1>1 DEF FormInv, Formed, AskedInv, At
<1>3. Acts(w) BY <1>1, Who DEF At
<1>4. Resolve(w) \/ NoTicket(w) \/ Crash(w)
  BY <1>1, <1>3 DEF Acts, Step, At, LoadInbox, LoadUsers, Skip, Send, Sending,
     AllSent, FindStaff, RegisterMessage, ApplySignals, Confirm, SendFails,
     NotifyPortalClaim, NotifyWorkingOn, Deliver
<1>5. ~Crash(w)
  <2>1. mishaps \in Nat BY <1>0, BoundsAssumption DEF TypeOK
  <2>2. mishaps + 1 # mishaps BY <2>1
  <2> QED BY <2>2 DEF Crash
<1>6. ~Resolve(w)
  BY <1>0, <1>1, <1>2, ResolveFields, BecomesPc
<1>7. Resolved(m) = Nothing BY <1>4, <1>5, <1>6 DEF NoTicket
<1>8. ASSUME m.target # 0, messages[m.chat][m.target].alert
      PROVE  k \in unbound \/ \E v \in Workers : At(v, "bind") /\ proc[v].sent = k
  <2>1. m.chat \in Chats BY <1>2 DEF Updates
  <2> HIDE DEF m
  <2>2. m.target \in DOMAIN messages[m.chat] BY <1>2, <1>8 DEF Targeted
  <2>3. Findable(k) BY <1>8, <2>1, <2>2 DEF AlertInv
  <2>4. k \notin DOMAIN bound
    <3> SUFFICES ASSUME k \in DOMAIN bound PROVE FALSE OBVIOUS
    <3>1. bound[k] = Nothing BY <1>7, <1>8 DEF Resolved, BindKey
    <3>2. bound[k] \in Tickets BY <1>0 DEF TypeOK, Range
    <3> QED BY <3>1, <3>2, NothingAssumption
  <2> QED BY <2>3, <2>4 DEF Findable
<1> QED BY <1>8

AnswerInv == TypeInv /\ AskedInv /\ AlertInv

(* What staff make on an alert is ignored only if the alert's key has      *)
(* expired, was never set for a fault, or is just about to be set.         *)
THEOREM AlertsAreAnswered == Spec => AlertsAnswered
<1>1. Init => AnswerInv
  <2> SUFFICES ASSUME Init PROVE AnswerInv OBVIOUS
  <2>1. AskedInv /\ AlertInv BY DEF Init, AskedInv, AlertInv, Idle
  <2>2. TypeInv BY InitTyped
  <2> QED BY <2>1, <2>2 DEF AnswerInv
<1>2. AnswerInv /\ [Next]_vars => AnswerInv'
  BY TypeStep, AskedKept, AlertKept DEF AnswerInv
<1>3. AnswerInv /\ [Next]_vars =>
        [\A w \in Workers :
           At(w, "resolve") /\ At(w, "idle")' /\ mishaps' = mishaps
             => LET m == proc[w].update
                IN  m.target # 0 /\ messages[m.chat][m.target].alert
                      => \/ <<m.chat, m.target>> \in unbound
                         \/ \E v \in Workers :
                              At(v, "bind") /\ proc[v].sent = <<m.chat, m.target>>]_vars
  BY UnansweredStep DEF AnswerInv
<1> QED BY <1>1, <1>2, <1>3, PTL DEF Spec, AlertsAnswered
-----------------------------------------------------------------------------
(* While the list is made, everyone on it was to be told, nobody is on it  *)
(* twice, and whoever was to be told throughout as an entry is on it.      *)
Listed(r) ==
  /\ Range(r.todo) \subseteq r.was /\ IsInjective(r.todo)
  /\ \A c \in Chats : <<"list", c>> \in r.steady => c \in Range(r.todo)

Owed(r) == r.due \subseteq Range(r.todo) \cup {r.own}

ListInv ==
  \A w \in Workers :
    /\ proc[w].pc \in {"inbox", "users"} => Listing(proc[w], user, inbox)
    /\ proc[w].pc = "users" => Listed(proc[w])
    /\ proc[w].pc \in {"send", "bind"} => Owed(proc[w])

LEMMA InboxListed ==
  ASSUME TypeInv, ListInv, NEW w \in Workers, LoadInbox(w)
  PROVE  Listing(proc'[w], user, inbox) /\ Listed(proc'[w])
<1> DEFINE r == proc[w]
           s == proc'[w]
           env == AddNew(<<>>, Env)
           todo == AddNew(env, inbox)
           R == Reasons(r.kind, user, inbox)
<1>0. TypeOK BY DEF TypeInv
<1>1. r.steady \subseteq R /\ Told(R) \subseteq r.was
  BY DEF LoadInbox, At, ListInv, Listing
<1>2. s.kind = r.kind /\ s.todo = todo /\ s.was = r.was /\ s.steady = r.steady
  BY <1>0, LoadInboxFields DEF Becomes, Edited
<1>3. env \in Seq(Chats) /\ Range(env) = Range(Env) /\ IsInjective(env)
  BY <1>0, LoadInboxFields
<1>4. inbox \in Seq(Chats) BY <1>0 DEF TypeOK
<1> HIDE DEF r, s, env
<1>5. Range(todo) = Range(Env) \cup Range(inbox) /\ IsInjective(todo)
  BY <1>3, <1>4, AddNewProperties
<1>6. \A c \in Range(Env) \cup Range(inbox) : <<"list", c>> \in R /\ c \in Told(R)
  <2>1. \A c \in Range(Env) \cup Range(inbox) : <<"list", c>> \in R BY DEF Reasons
  <2>2. \A c : <<"list", c>> \in R => c \in Told(R) BY DEF Told
  <2> QED BY <2>1, <2>2
<1>7. \A c : <<"list", c>> \in R => c \in Range(Env) \cup Range(inbox)
  BY DEF Reasons
<1> HIDE DEF todo, R
<1>8. Listed(s) BY <1>1, <1>2, <1>5, <1>6, <1>7 DEF Listed
<1>9. Listing(s, user, inbox) BY <1>1, <1>2 DEF Listing, R
<1> QED BY <1>8, <1>9 DEF s

(* The filter of the query is the reason of a linked user.                 *)
LEMMA LinkedReasons ==
  ASSUME TypeOK, NEW kind
  PROVE  /\ \A c \in Range(LinkedChats(kind)) : c \in Told(Reasons(kind, user, inbox))
         /\ \A c : <<"user", c>> \in Reasons(kind, user, inbox)
                     => c \in Range(LinkedChats(kind))
<1> DEFINE R == Reasons(kind, user, inbox)
<1>1. Range(LinkedChats(kind)) = {user[u].chat : u \in {v \in Users : Gets(kind, user[v])}}
  BY LinkedChatsProperties DEF TypeOK
<1>2. \A c \in Range(LinkedChats(kind)) : <<"user", c>> \in R
  BY <1>1 DEF Reasons, Gets
<1>3. \A c : <<"user", c>> \in R => c \in Range(LinkedChats(kind))
  BY <1>1 DEF Reasons, Gets
<1>4. \A c : <<"user", c>> \in R => c \in Told(R) BY DEF Told
<1> QED BY <1>2, <1>3, <1>4

LEMMA UsersListed ==
  ASSUME TypeInv, ListInv, NEW w \in Workers, LoadUsers(w)
  PROVE  /\ Range(proc'[w].todo) \subseteq proc[w].was
         /\ IsInjective(proc'[w].todo)
         /\ Owed(proc'[w])
<1> DEFINE r == proc[w]
           s == proc'[w]
           new == LinkedChats(r.kind)
           todo == AddNew(r.todo, new)
           R == Reasons(r.kind, user, inbox)
<1>0. TypeOK BY DEF TypeInv
<1>1. At(w, "users") /\ ~At(w, "idle") BY DEF LoadUsers, At
<1>2. r.steady \subseteq R /\ Told(R) \subseteq r.was /\ Listed(r)
  BY <1>1 DEF At, ListInv, Listing
<1>3. s.todo = todo /\ s.due = Told(r.steady)
  BY <1>0, LoadUsersFields DEF Becomes, Edited
<1>4. r.todo \in Seq(Chats) /\ r.steady \in SUBSET Why BY <1>0, <1>1, BusyAt, Fields
<1>5. new \in Seq(Chats) BY <1>0, LinkedChatsProperties DEF TypeOK
<1>6. /\ \A c \in Range(new) : c \in Told(R)
      /\ \A c : <<"user", c>> \in R => c \in Range(new)
  BY <1>0, LinkedReasons
<1> HIDE DEF r, s, new, R
<1>7. /\ Range(todo) = Range(r.todo) \cup Range(new)
      /\ IsInjective(r.todo) => IsInjective(todo)
  BY <1>4, <1>5, AddNewProperties
<1> HIDE DEF todo
<1>8. Range(todo) \subseteq r.was /\ IsInjective(todo)
  BY <1>2, <1>6, <1>7 DEF Listed
<1>9. Told(r.steady) \subseteq Range(todo)
  <2> SUFFICES ASSUME NEW x \in r.steady PROVE x[2] \in Range(todo)
    BY DEF Told
  <2>1. x = <<x[1], x[2]>> /\ (x[1] = "list" \/ x[1] = "user")
    BY <1>4 DEF Why
  <2>2. CASE x[1] = "list"
    <3>1. <<"list", x[2]>> \in r.steady /\ x[2] \in Chats BY <1>4, <2>1, <2>2 DEF Why
    <3> QED BY <1>2, <1>7, <3>1 DEF Listed
  <2>3. CASE x[1] = "user"
    <3>1. <<"user", x[2]>> \in R BY <1>2, <2>1, <2>3
    <3> QED BY <1>6, <1>7, <3>1
  <2> QED BY <2>1, <2>2, <2>3
<1>10. Owed(s) BY <1>3, <1>9 DEF Owed
<1> QED BY <1>3, <1>8, <1>10 DEF r, s

(* A chat leaves the list when it is tried, and the actor's unasked.       *)
LEMMA OwedKept ==
  ASSUME TypeInv, ListInv, NEW w \in Workers,
         Skip(w) \/ Send(w) \/ RegisterMessage(w) \/ \E d \in BOOLEAN : SendFails(w, d)
  PROVE  Owed(proc'[w])
<1> DEFINE r == proc[w]
           s == proc'[w]
<1>0. TypeOK BY DEF TypeInv
<1>1. Owed(r)
  BY DEF ListInv, Skip, Send, SendFails, RegisterMessage, Sending, At
<1>2. Sending(w) => Range(r.todo) = {To(w)} \cup Range(Tail(r.todo))
  BY <1>0, SendingFields
<1>3. CASE Skip(w)
  <2>1. Sending(w) /\ To(w) = r.own BY <1>3 DEF Skip
  <2>2. s.todo = Tail(r.todo) /\ s.due = r.due /\ s.own = r.own
    BY <1>0, <1>3, SkipFields DEF Becomes, Edited
  <2> HIDE DEF r, s
  <2> QED BY <1>1, <1>2, <2>1, <2>2 DEF Owed, s
<1>4. CASE Send(w)
  <2>1. Sending(w) BY <1>4 DEF Send
  <2>2. s.todo = Tail(r.todo) /\ s.due = r.due \ {To(w)} /\ s.own = r.own
    BY <1>0, <1>4, SendFields DEF Becomes, Edited
  <2> HIDE DEF r, s
  <2> QED BY <1>1, <1>2, <2>1, <2>2 DEF Owed, s
<1>5. ASSUME NEW d \in BOOLEAN, SendFails(w, d) PROVE Owed(s)
  <2>1. Sending(w) BY <1>5 DEF SendFails
  <2>2. s.todo = Tail(r.todo) /\ s.due = r.due \ {To(w)} /\ s.own = r.own
    BY <1>0, <1>5, SendFailsFields DEF Becomes, Edited
  <2> HIDE DEF r, s
  <2> QED BY <1>1, <1>2, <2>1, <2>2 DEF Owed
<1>6. CASE RegisterMessage(w)
  <2>1. s.todo = r.todo /\ s.due = r.due /\ s.own = r.own
    BY <1>0, <1>6, RegisterFields DEF Becomes, Edited
  <2> HIDE DEF r, s
  <2> QED BY <1>1, <2>1 DEF Owed, s
<1> QED BY <1>3, <1>4, <1>5, <1>6

LEMMA NotedListed ==
  ASSUME ListInv, NEW w \in Workers, At(w, "inbox") \/ At(w, "users"),
         NEW rows, NEW ids, Noted(w, rows, ids)
  PROVE  /\ proc'[w].pc = proc[w].pc
         /\ Listing(proc'[w], rows, ids)
         /\ proc[w].pc = "users" => Listed(proc'[w])
<1> DEFINE r == proc[w]
           s == proc'[w]
           R == Reasons(r.kind, rows, ids)
<1>1. /\ s.pc = r.pc /\ s.kind = r.kind /\ s.todo = r.todo
      /\ s.was = r.was \cup Told(R) /\ s.steady = r.steady \cap R
  BY DEF Noted, Edited
<1>2. r.pc = "users" => Listed(r) BY DEF ListInv
<1> HIDE DEF r, s
<1>3. Listing(s, rows, ids) BY <1>1 DEF Listing
<1>4. r.pc = "users" => Listed(s) BY <1>1, <1>2 DEF Listed
<1> QED BY <1>1, <1>3, <1>4 DEF r, s

LEMMA ListKept ==
  ASSUME TypeInv, ListInv, [Next]_vars
  PROVE  ListInv'
<1>0. TypeOK BY DEF TypeInv
<1> SUFFICES ASSUME NEW w \in Workers
             PROVE  /\ proc'[w].pc \in {"inbox", "users"} => Listing(proc'[w], user', inbox')
                    /\ proc'[w].pc = "users" => Listed(proc'[w])
                    /\ proc'[w].pc \in {"send", "bind"} => Owed(proc'[w])
  BY DEF ListInv, Listed, Owed, Listing, Reasons, IsStaff, Told, NotifyRoles
<1>1. CASE Acts(w) /\ After(w)
  <2>1. CASE proc'[w].pc = "inbox" BY <1>1, <2>1 DEF After, team
  <2>2. CASE proc'[w].pc = "users"
    <3>1. LoadInbox(w) BY <1>1, <2>2 DEF After
    <3>2. user' = user /\ inbox' = inbox BY <3>1 DEF LoadInbox, team
    <3> QED BY <2>2, <3>1, <3>2, InboxListed
  <2>3. CASE proc'[w].pc = "send"
    BY <1>1, <2>3, UsersListed, OwedKept DEF After
  <2>4. CASE proc'[w].pc = "bind" BY <1>1, <2>4, OwedKept DEF After
  <2> QED BY <2>1, <2>2, <2>3, <2>4
<1>2. CASE /\ proc'[w] = proc[w]
           /\ UNCHANGED team \/ ~(At(w, "inbox") \/ At(w, "users"))
  BY <1>2 DEF ListInv, team, At
<1>3. ASSUME At(w, "inbox") \/ At(w, "users"),
             NEW rows \in [Users -> UserRows], NEW ids \in Seq(Chats),
             Change(rows, ids), Noted(w, rows, ids)
      PROVE  /\ proc'[w].pc \in {"inbox", "users"} => Listing(proc'[w], user', inbox')
             /\ proc'[w].pc = "users" => Listed(proc'[w])
             /\ proc'[w].pc \in {"send", "bind"} => Owed(proc'[w])
  <2>1. user' = rows /\ inbox' = ids BY <1>3 DEF Change
  <2> QED BY <1>3, <2>1, NotedListed DEF At
<1> QED BY <1>1, <1>2, <1>3, Who

LEMMA ListInvariance == Spec => [](TypeInv /\ ListInv)
<1>1. Init => ListInv BY DEF Init, ListInv, Idle
<1>2. TypeInv /\ ListInv /\ [Next]_vars => ListInv' BY ListKept
<1> QED BY <1>1, <1>2, TypeInvariance, PTL DEF Spec

LEMMA ToldStep ==
  ASSUME TypeInv, ListInv, [Next]_vars, NEW w \in Workers,
         At(w, "users"), At(w, "send")'
  PROVE  /\ Range(proc'[w].todo) \subseteq proc[w].was
         /\ IsInjective(proc'[w].todo)
<1>1. proc[w].pc = "users" /\ proc'[w].pc = "send" BY DEF At
<1>2. Acts(w) /\ After(w)
  <2>1. ASSUME NEW rows \in [Users -> UserRows], NEW ids \in Seq(Chats),
               Noted(w, rows, ids)
        PROVE  FALSE
    <3>1. proc'[w].pc = proc[w].pc BY <2>1 DEF Noted, Edited
    <3> QED BY <1>1, <3>1
  <2> QED BY <1>1, <2>1, Who
<1>3. LoadUsers(w)
  BY <1>1, <1>2 DEF After, Skip, RegisterMessage, SendFails, Sending, At
<1> QED BY <1>3, UsersListed

(* Only chats that were to be told since the broadcast began are told, and *)
(* each once, whatever administrators change between the two queries.      *)
THEOREM TeamIsToldOnce == Spec => TeamToldOnce
<1>1. TypeInv /\ ListInv /\ [Next]_vars =>
        [\A w \in Workers :
           At(w, "users") /\ At(w, "send")'
             => /\ Range(proc'[w].todo) \subseteq proc[w].was
                /\ IsInjective(proc'[w].todo)]_vars
  BY ToldStep
<1> QED BY <1>1, ListInvariance, PTL DEF Spec, TeamToldOnce

LEMMA TriedStep ==
  ASSUME TypeInv, ListInv, [Next]_vars, NEW w \in Workers,
         At(w, "send"), (At(w, "idle") \/ At(w, "confirm"))', mishaps' = mishaps
  PROVE  proc[w].due \subseteq {proc[w].own}
<1>0. TypeOK BY DEF TypeInv
<1>1. proc[w].pc = "send" /\ proc'[w].pc \in {"idle", "confirm"} BY DEF At
<1>2. Acts(w) BY <1>1, Who DEF At
<1>3. mishaps + 1 # mishaps
  <2>1. mishaps \in Nat BY <1>0, BoundsAssumption DEF TypeOK
  <2> QED BY <2>1
<1>4. ~Crash(w) /\ \A d \in BOOLEAN : ~SendFails(w, d)
  BY <1>3 DEF Crash, SendFails
<1>5. Skip(w) \/ Send(w) \/ AllSent(w)
  BY <1>1, <1>2, <1>4 DEF Acts, Step, At, LoadInbox, LoadUsers, RegisterMessage,
     FindStaff, Resolve, NoTicket, ApplySignals, Confirm,
     NotifyPortalClaim, NotifyWorkingOn, Deliver
<1>6. ~Skip(w) BY <1>0, <1>1, SkipFields DEF Becomes, Edited
<1>7. ~Send(w)
  <2>1. Send(w) => proc'[w].pc = "bind" BY <1>0, SendFields DEF Becomes, Edited
  <2> QED BY <1>1, <2>1
<1>8. proc[w].todo = <<>> BY <1>5, <1>6, <1>7 DEF AllSent
<1>9. Owed(proc[w]) BY <1>1 DEF ListInv
<1>10. Range(<<>>) = {} BY DEF Range
<1> QED BY <1>8, <1>9, <1>10 DEF Owed

(* Every chat that was to be told while the list was made, and for one and *)
(* the same reason, has been tried when the broadcast ends, whatever       *)
(* failed for the others.                                                  *)
THEOREM SteadyChatsAreTried == Spec => SteadyChatsTried
<1>1. TypeInv /\ ListInv /\ [Next]_vars =>
        [\A w \in Workers :
           At(w, "send") /\ (At(w, "idle") \/ At(w, "confirm"))' /\ mishaps' = mishaps
             => proc[w].due \subseteq {proc[w].own}]_vars
  BY TriedStep
<1> QED BY <1>1, ListInvariance, PTL DEF Spec, SteadyChatsTried
=============================================================================
