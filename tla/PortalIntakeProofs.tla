------------------------- MODULE PortalIntakeProofs -------------------------
(***************************************************************************)
(* Theorems about PortalIntake, for any number of requests and seed runs,  *)
(* any forms and rules, any widths of the columns.                         *)
(***************************************************************************)
EXTENDS PortalIntake, SequenceTheorems, WellFoundedInduction, TLAPS

(* Decimal.quantize is right to half a cent.                               *)
LEMMA CentsNearest ==
  ASSUME NEW n \in Nat
  PROVE  /\ ToCents(n) \in Nat
         /\ 100 * ToCents(n) <= n + 50 /\ n <= 100 * ToCents(n) + 50
<1> DEFINE cents == n \div 100
<1>1. cents \in Nat /\ n % 100 \in 0 .. 99 /\ n = 100 * cents + (n % 100)
  OBVIOUS
<1> HIDE DEF cents
<1>2. CASE n % 100 > 50 \/ (n % 100 = 50 /\ cents % 2 = 1)
  <2>1. ToCents(n) = cents + 1 BY <1>2 DEF ToCents, cents
  <2> QED BY <1>1, <1>2, <2>1
<1>3. CASE ~(n % 100 > 50 \/ (n % 100 = 50 /\ cents % 2 = 1))
  <2>1. ToCents(n) = cents BY <1>3 DEF ToCents, cents
  <2> QED BY <1>1, <1>3, <2>1
<1> QED BY <1>2, <1>3

(* A nonempty set of naturals has its minimum.                             *)
LEMMA MinProperty ==
  ASSUME NEW S \in SUBSET Nat, S # {}
  PROVE  Min(S) \in S /\ \A y \in S : Min(S) <= y
<1> DEFINE less == {ss \in Nat \X Nat : ss[1] < ss[2]}
<1>1. IsWellFoundedOn(less, Nat)
  BY NatLessThanWellFounded DEF OpToRel
<1>2. PICK x \in S : \A y \in S : <<y, x>> \notin less
  BY <1>1, WFMin
<1>3. ASSUME NEW y \in S PROVE x <= y
  <2>1. <<y, x>> \in Nat \X Nat /\ <<y, x>> \notin less BY <1>2
  <2>2. ~(y < x) BY <2>1
  <2> QED BY <2>2
<1> QED BY <1>3 DEF Min
-----------------------------------------------------------------------------
(* Types                                                                   *)

LEMMA TablesAre ==
  /\ Tables = {"product", "batch", "account", "end_customer", "portal_manufacturer"}
  /\ SeedProgram \in Seq(Tables)
  /\ \A t \in Tables : OnMiss(t) \in Seq(Tables)
  /\ \A f \in Forms : PortalProgram(f) \in Seq(Tables)
<1>1. ToSet(SeedProgram) = {"product", "batch", "account", "end_customer"}
  BY DEF ToSet, SeedProgram
<1>2. Tables = {"product", "batch", "account", "end_customer", "portal_manufacturer"}
  BY <1>1 DEF Tables
<1>3. SeedProgram \in Seq(Tables) BY <1>2 DEF SeedProgram
<1>4. ASSUME NEW t \in Tables PROVE OnMiss(t) \in Seq(Tables)
  <2>1. <<"portal_manufacturer", "product">> \in Seq(Tables) BY <1>2
  <2>2. <<t>> \in Seq(Tables) OBVIOUS
  <2> QED BY <2>1, <2>2 DEF OnMiss
<1>5. <<"account", "product">> \in Seq(Tables) /\ <<"batch">> \in Seq(Tables)
      /\ <<>> \in Seq(Tables)
  BY <1>2
<1>6. \A f \in Forms : PortalProgram(f) \in Seq(Tables)
  BY <1>5, ConcatProperties DEF PortalProgram
<1> QED BY <1>2, <1>3, <1>4, <1>6

EarlyPcs == {"catalogue", "create", "submit"}
LatePcs == {"rules", "act", "approve", "alert", "answer"}
Pcs == EarlyPcs \cup LatePcs
Early(p) == proc[p].pc \in EarlyPcs
Late(p) == proc[p].pc \in LatePcs

(* What a request's record keeps from one step to the next, and lemmas on  *)
(* each shape of assignment to it.                                         *)
Kin(s, r) == s \in Busy /\ s.form = r.form /\ s.before = r.before

Edited(s, r, pc, todo, new, n, do) ==
  /\ Kin(s, r)
  /\ s.pc = pc /\ s.todo = todo /\ s.newEnd = new /\ s.ticket = n /\ s.do = do

LEMMA Fields ==
  ASSUME NEW r \in Busy
  PROVE  /\ r.form \in {Unset} \cup Forms /\ r.find \in Seq(Tables)
         /\ r.todo \in Seq(Tables) /\ r.ticket \in Nat
         /\ r.do \in Seq(Actions) /\ r.before \in SUBSET Tables
         /\ r.newEnd \in BOOLEAN /\ r.pc \in Pcs
BY DEF Busy, EarlyPcs, LatePcs, Pcs

LEMMA EditPc ==
  ASSUME NEW r \in Busy, NEW pc \in Pcs
  PROVE  Edited([r EXCEPT !.pc = pc], r,
                pc, r.todo, r.newEnd, r.ticket, r.do)
<1> DEFINE F == {Unset} \cup Forms
           T == Seq(Tables)
           A == Seq(Actions)
           B == SUBSET Tables
<1>1. Busy = [pc : Pcs, form : F, find : T, todo : T, newEnd : BOOLEAN,
              ticket : Nat, do : A, before : B]
  BY DEF Busy, Pcs, EarlyPcs, LatePcs
<1>2. pc \in Pcs
  OBVIOUS
<1> HIDE DEF F, T, A, B
<1> QED BY <1>1, <1>2 DEF Kin, Edited

LEMMA EditTodo ==
  ASSUME NEW r \in Busy, NEW todo \in Seq(Tables)
  PROVE  Edited([r EXCEPT !.todo = todo], r,
                r.pc, todo, r.newEnd, r.ticket, r.do)
<1> DEFINE F == {Unset} \cup Forms
           T == Seq(Tables)
           A == Seq(Actions)
           B == SUBSET Tables
<1>1. Busy = [pc : Pcs, form : F, find : T, todo : T, newEnd : BOOLEAN,
              ticket : Nat, do : A, before : B]
  BY DEF Busy, Pcs, EarlyPcs, LatePcs
<1>2. todo \in T
  OBVIOUS
<1> HIDE DEF F, T, A, B
<1> QED BY <1>1, <1>2 DEF Kin, Edited

LEMMA EditPcTodo ==
  ASSUME NEW r \in Busy, NEW pc \in Pcs, NEW todo \in Seq(Tables)
  PROVE  Edited([r EXCEPT !.pc = pc, !.todo = todo], r,
                pc, todo, r.newEnd, r.ticket, r.do)
<1> DEFINE F == {Unset} \cup Forms
           T == Seq(Tables)
           A == Seq(Actions)
           B == SUBSET Tables
<1>1. Busy = [pc : Pcs, form : F, find : T, todo : T, newEnd : BOOLEAN,
              ticket : Nat, do : A, before : B]
  BY DEF Busy, Pcs, EarlyPcs, LatePcs
<1>2. pc \in Pcs /\ todo \in T
  OBVIOUS
<1> HIDE DEF F, T, A, B
<1> QED BY <1>1, <1>2 DEF Kin, Edited

LEMMA EditFindTodo ==
  ASSUME NEW r \in Busy, NEW find \in Seq(Tables), NEW todo \in Seq(Tables)
  PROVE  Edited([r EXCEPT !.find = find, !.todo = todo], r,
                r.pc, todo, r.newEnd, r.ticket, r.do)
<1> DEFINE F == {Unset} \cup Forms
           T == Seq(Tables)
           A == Seq(Actions)
           B == SUBSET Tables
<1>1. Busy = [pc : Pcs, form : F, find : T, todo : T, newEnd : BOOLEAN,
              ticket : Nat, do : A, before : B]
  BY DEF Busy, Pcs, EarlyPcs, LatePcs
<1>2. find \in T /\ todo \in T
  OBVIOUS
<1> HIDE DEF F, T, A, B
<1> QED BY <1>1, <1>2 DEF Kin, Edited

LEMMA EditPcEnd ==
  ASSUME NEW r \in Busy, NEW pc \in Pcs, NEW new \in BOOLEAN
  PROVE  Edited([r EXCEPT !.pc = pc, !.newEnd = new], r,
                pc, r.todo, new, r.ticket, r.do)
<1> DEFINE F == {Unset} \cup Forms
           T == Seq(Tables)
           A == Seq(Actions)
           B == SUBSET Tables
<1>1. Busy = [pc : Pcs, form : F, find : T, todo : T, newEnd : BOOLEAN,
              ticket : Nat, do : A, before : B]
  BY DEF Busy, Pcs, EarlyPcs, LatePcs
<1>2. pc \in Pcs /\ new \in BOOLEAN
  OBVIOUS
<1> HIDE DEF F, T, A, B
<1> QED BY <1>1, <1>2 DEF Kin, Edited

LEMMA EditPcTicket ==
  ASSUME NEW r \in Busy, NEW pc \in Pcs, NEW n \in Nat
  PROVE  Edited([r EXCEPT !.pc = pc, !.ticket = n], r,
                pc, r.todo, r.newEnd, n, r.do)
<1> DEFINE F == {Unset} \cup Forms
           T == Seq(Tables)
           A == Seq(Actions)
           B == SUBSET Tables
<1>1. Busy = [pc : Pcs, form : F, find : T, todo : T, newEnd : BOOLEAN,
              ticket : Nat, do : A, before : B]
  BY DEF Busy, Pcs, EarlyPcs, LatePcs
<1>2. pc \in Pcs /\ n \in Nat
  OBVIOUS
<1> HIDE DEF F, T, A, B
<1> QED BY <1>1, <1>2 DEF Kin, Edited

LEMMA EditPcDo ==
  ASSUME NEW r \in Busy, NEW pc \in Pcs, NEW do \in Seq(Actions)
  PROVE  Edited([r EXCEPT !.pc = pc, !.do = do], r,
                pc, r.todo, r.newEnd, r.ticket, do)
<1> DEFINE F == {Unset} \cup Forms
           T == Seq(Tables)
           A == Seq(Actions)
           B == SUBSET Tables
<1>1. Busy = [pc : Pcs, form : F, find : T, todo : T, newEnd : BOOLEAN,
              ticket : Nat, do : A, before : B]
  BY DEF Busy, Pcs, EarlyPcs, LatePcs
<1>2. pc \in Pcs /\ do \in A
  OBVIOUS
<1> HIDE DEF F, T, A, B
<1> QED BY <1>1, <1>2 DEF Kin, Edited

LEMMA EditDoPc ==
  ASSUME NEW r \in Busy, NEW do \in Seq(Actions), NEW pc \in Pcs
  PROVE  Edited([r EXCEPT !.do = do, !.pc = pc], r,
                pc, r.todo, r.newEnd, r.ticket, do)
<1> DEFINE F == {Unset} \cup Forms
           T == Seq(Tables)
           A == Seq(Actions)
           B == SUBSET Tables
<1>1. Busy = [pc : Pcs, form : F, find : T, todo : T, newEnd : BOOLEAN,
              ticket : Nat, do : A, before : B]
  BY DEF Busy, Pcs, EarlyPcs, LatePcs
<1>2. do \in A /\ pc \in Pcs
  OBVIOUS
<1> HIDE DEF F, T, A, B
<1> QED BY <1>1, <1>2 DEF Kin, Edited

-----------------------------------------------------------------------------
(* What each step does to the record of its own request.                   *)
Others(p) ==
  /\ \A q \in Procs \ {p} : proc'[q] = proc[q]
  /\ proc' \in [Procs -> {proc'[p], Idle, Failed} \cup Busy]

Moves(p, pc) ==
  /\ proc[p] \in Busy /\ Others(p)
  /\ Kin(proc'[p], proc[p]) /\ proc'[p].pc = pc

Ends(p) == proc[p] \in Busy /\ Others(p) /\ proc'[p] \in {Idle, Failed}

LEMMA Running ==
  ASSUME TypeOK, NEW p \in Procs
  PROVE  /\ proc[p] \in Busy <=> ~At(p, "idle")
         /\ proc[p] \in Busy <=> Early(p) \/ Late(p)
         /\ proc[p] \in {Idle, Failed} <=> At(p, "idle")
         /\ Idle # Failed /\ ~(Early(p) /\ Late(p))
<1>1. Idle.pc = "idle" /\ Failed.pc = "idle" /\ Idle.result # Failed.result
  BY DEF Idle, Failed
<1>2. \A r \in Busy : r.pc \in Pcs BY Fields
<1>3. "idle" \notin Pcs BY DEF Pcs, EarlyPcs, LatePcs
<1>4. proc[p] \in {Idle, Failed} \cup Busy BY DEF TypeOK
<1>5. ~(Early(p) /\ Late(p)) BY DEF Early, Late, EarlyPcs, LatePcs
<1> QED BY <1>1, <1>2, <1>3, <1>4, <1>5 DEF At, Early, Late, Pcs

LEMMA ProcSet ==
  ASSUME TypeOK, NEW p \in Procs, NEW s, proc' = [proc EXCEPT ![p] = s]
  PROVE  proc'[p] = s /\ Others(p)
BY DEF TypeOK, Others

LEMMA FindFields ==
  ASSUME TypeOK, NEW p \in Procs, FindRow(p)
  PROVE  /\ Moves(p, "catalogue") /\ At(p, "catalogue")
         /\ proc'[p].ticket = proc[p].ticket
<1> DEFINE r == proc[p]
           t == Head(r.find)
           todo == IF t \in Lenient /\ rows[t] > 0 THEN <<>> ELSE OnMiss(t)
           s == [r EXCEPT !.find = Tail(r.find), !.todo = todo]
<1>1. At(p, "catalogue") /\ r.find # <<>> /\ proc' = [proc EXCEPT ![p] = s]
  BY DEF FindRow
<1>2. r \in Busy BY <1>1, Running DEF At
<1>3. Tail(r.find) \in Seq(Tables) /\ t \in Tables
  BY <1>1, <1>2, Fields, HeadTailProperties
<1>4. todo \in Seq(Tables)
  <2>1. <<>> \in Seq(Tables) OBVIOUS
  <2> QED BY <1>3, <2>1, TablesAre
<1>5. proc'[p] = s /\ Others(p) BY <1>1, ProcSet
<1> HIDE DEF r, todo
<1>6. Edited(s, r, r.pc, todo, r.newEnd, r.ticket, r.do)
  BY <1>2, <1>3, <1>4, EditFindTodo
<1> HIDE DEF s
<1> QED BY <1>1, <1>2, <1>5, <1>6 DEF Edited, Moves, At, r

LEMMA GetFields ==
  ASSUME TypeOK, NEW p \in Procs, GetRow(p)
  PROVE  /\ At(p, "catalogue") /\ Next1(p) \in Tables
         /\ \/ Ends(p) /\ rows[Next1(p)] > 1
            \/ Moves(p, "catalogue") /\ proc'[p].ticket = proc[p].ticket
            \/ /\ Moves(p, "create") /\ rows[Next1(p)] = 0
               /\ proc'[p].ticket = proc[p].ticket
               /\ proc'[p].todo = proc[p].todo /\ proc[p].todo # <<>>
<1> DEFINE r == proc[p]
           s1 == [r EXCEPT !.pc = "create"]
           s2 == [r EXCEPT !.todo = Tail(r.todo)]
           t == Next1(p)
<1>1. At(p, "catalogue") /\ r.todo # <<>>
  BY DEF GetRow
<1>2. r \in Busy BY <1>1, Running DEF At
<1>3. Tail(r.todo) \in Seq(Tables) /\ t \in Tables
  BY <1>1, <1>2, Fields, HeadTailProperties DEF Next1
<1>4. rows[t] \in Nat BY <1>3 DEF TypeOK
<1>5. \/ proc' = [proc EXCEPT ![p] = s1] /\ rows[t] = 0
      \/ proc' = [proc EXCEPT ![p] = s2]
      \/ proc' = [proc EXCEPT ![p] = Failed] /\ rows[t] # 0 /\ rows[t] # 1
  BY DEF GetRow, Missing
<1>6. \/ proc'[p] = s1 /\ Others(p) /\ rows[t] = 0
      \/ proc'[p] = s2 /\ Others(p)
      \/ proc'[p] = Failed /\ Others(p) /\ rows[t] > 1
  <2> HIDE DEF s1, s2, t
  <2> QED BY <1>4, <1>5, ProcSet
<1>7. "create" \in Pcs BY DEF Pcs, EarlyPcs
<1> HIDE DEF r, t
<1>8. Edited(s1, r, "create", r.todo, r.newEnd, r.ticket, r.do)
  BY <1>2, <1>7, EditPc
<1>9. Edited(s2, r, r.pc, Tail(r.todo), r.newEnd, r.ticket, r.do)
  BY <1>2, <1>3, EditTodo
<1> HIDE DEF s1, s2
<1> QED BY <1>1, <1>2, <1>3, <1>6, <1>8, <1>9 DEF Edited, Moves, Ends, At, r, t

LEMMA CreateFields ==
  ASSUME TypeOK, NEW p \in Procs, CreateRow(p), proc[p].todo # <<>>
  PROVE  /\ Moves(p, "catalogue") /\ At(p, "create") /\ Next1(p) \in Tables
         /\ proc'[p].ticket = proc[p].ticket
<1> DEFINE r == proc[p]
           s == [r EXCEPT !.pc = "catalogue", !.todo = Tail(r.todo)]
<1>1. At(p, "create") /\ proc' = [proc EXCEPT ![p] = s]
  BY DEF CreateRow, AfterCreate
<1>2. r \in Busy BY <1>1, Running DEF At
<1>3. Tail(r.todo) \in Seq(Tables) /\ Next1(p) \in Tables
  BY <1>2, Fields, HeadTailProperties DEF Next1
<1>4. proc'[p] = s /\ Others(p) BY <1>1, ProcSet
<1>5. "catalogue" \in Pcs BY DEF Pcs, EarlyPcs
<1> HIDE DEF r
<1>6. Edited(s, r, "catalogue", Tail(r.todo), r.newEnd, r.ticket, r.do)
  BY <1>2, <1>3, <1>5, EditPcTodo
<1> HIDE DEF s
<1> QED BY <1>1, <1>2, <1>3, <1>4, <1>6 DEF Edited, Moves, r

LEMMA EndCustomerFields ==
  ASSUME TypeOK, NEW p \in Procs, GetEndCustomer(p)
  PROVE  /\ At(p, "catalogue")
         /\ \/ Ends(p) /\ rows["end_customer"] > 1
            \/ /\ Moves(p, "submit") /\ proc'[p].ticket = proc[p].ticket
               /\ proc'[p].newEnd => rows["end_customer"] = 0
<1> DEFINE r == proc[p]
           b == Missing("end_customer")
           s == [r EXCEPT !.pc = "submit", !.newEnd = b]
<1>1. /\ At(p, "catalogue")
      /\ \/ proc' = [proc EXCEPT ![p] = Failed] /\ rows["end_customer"] > 1
         \/ proc' = [proc EXCEPT ![p] = s]
  BY DEF GetEndCustomer, CatalogueDone
<1>2. r \in Busy BY <1>1, Running DEF At
<1>3. b \in BOOLEAN /\ (b => rows["end_customer"] = 0) BY DEF Missing
<1> HIDE DEF b
<1>4. /\ Others(p)
      /\ \/ proc'[p] = Failed /\ rows["end_customer"] > 1
         \/ proc'[p] = s
  <2> HIDE DEF s
  <2> QED BY <1>1, ProcSet
<1>5. "submit" \in Pcs BY DEF Pcs, EarlyPcs
<1> HIDE DEF r
<1>6. Edited(s, r, "submit", r.todo, b, r.ticket, r.do)
  BY <1>2, <1>3, <1>5, EditPcEnd
<1> HIDE DEF s
<1> QED BY <1>1, <1>2, <1>3, <1>4, <1>6 DEF Edited, Moves, Ends, r

LEMMA CommitFields ==
  ASSUME TypeOK, NEW p \in Procs, Commit(p)
  PROVE  /\ Moves(p, "rules") /\ At(p, "submit")
         /\ proc'[p].ticket = Len(tickets) + 1
<1> DEFINE r == proc[p]
           n == Len(tickets) + 1
           s == [r EXCEPT !.pc = "rules", !.ticket = n]
<1>1. At(p, "submit") /\ proc' = [proc EXCEPT ![p] = s]
  BY DEF Commit
<1>2. r \in Busy BY <1>1, Running DEF At
<1>3. n \in Nat BY LenProperties DEF TypeOK
<1>4. proc'[p] = s /\ Others(p) BY <1>1, ProcSet
<1>5. "rules" \in Pcs BY DEF Pcs, LatePcs
<1> HIDE DEF r, n
<1>6. Edited(s, r, "rules", r.todo, r.newEnd, n, r.do)
  BY <1>2, <1>3, <1>5, EditPcTicket
<1> HIDE DEF s
<1> QED BY <1>1, <1>2, <1>4, <1>6 DEF Edited, Moves, r, n

LEMMA ActionsForSeq == \A t : ActionsFor(t) \in Seq(Actions)
<1> SUFFICES ASSUME NEW t PROVE ActionsFor(t) \in Seq(Actions)
  OBVIOUS
<1> DEFINE hits == {i \in DOMAIN Rules : Matches(Rules[i], t)}
<1>1. CASE hits = {} BY <1>1 DEF ActionsFor
<1>2. CASE hits # {}
  <2>1. hits \in SUBSET Nat BY RulesAssumption, LenProperties
  <2>2. Min(hits) \in DOMAIN Rules BY <1>2, <2>1, MinProperty
  <2>3. Rules[Min(hits)] \in RuleType BY <2>2, RulesAssumption, ElementOfSeq, LenProperties
  <2>4. Rules[Min(hits)].do \in Seq(Actions) BY <2>3 DEF RuleType
  <2> QED BY <1>2, <2>4 DEF ActionsFor
<1> QED BY <1>1, <1>2

LEMMA RulesFields ==
  ASSUME TypeOK, NEW p \in Procs, RunAutomation(p)
  PROVE  /\ Moves(p, "act") /\ At(p, "rules")
         /\ proc'[p].ticket = proc[p].ticket
         /\ proc'[p].do = ActionsFor(proc[p].ticket)
<1> DEFINE r == proc[p]
           do == ActionsFor(proc[p].ticket)
           s == [r EXCEPT !.pc = "act", !.do = do]
<1>1. At(p, "rules") /\ proc' = [proc EXCEPT ![p] = s]
  BY DEF RunAutomation
<1>2. r \in Busy BY <1>1, Running DEF At
<1>3. do \in Seq(Actions) BY ActionsForSeq
<1>4. proc'[p] = s /\ Others(p) BY <1>1, ProcSet
<1>5. "act" \in Pcs BY DEF Pcs, LatePcs
<1> HIDE DEF r, do
<1>6. Edited(s, r, "act", r.todo, r.newEnd, r.ticket, do)
  BY <1>2, <1>3, <1>5, EditPcDo
<1> HIDE DEF s
<1> QED BY <1>1, <1>2, <1>4, <1>6 DEF Edited, Moves, r, do

LEMMA ActionFields ==
  ASSUME TypeOK, NEW p \in Procs, ApplyAction(p)
  PROVE  LET auto == Head(proc[p].do) = "auto_approve_reimbursement"
         IN  /\ Moves(p, IF auto THEN "approve" ELSE "act") /\ At(p, "act")
             /\ proc'[p].ticket = proc[p].ticket
             /\ proc[p].do # <<>> /\ proc'[p].do = Tail(proc[p].do)
<1> DEFINE r == proc[p]
           auto == Head(proc[p].do) = "auto_approve_reimbursement"
           pc == IF auto THEN "approve" ELSE "act"
           do == Tail(r.do)
           s == [r EXCEPT !.do = do, !.pc = pc]
<1>1. At(p, "act") /\ r.do # <<>> /\ proc' = [proc EXCEPT ![p] = s]
  BY DEF ApplyAction
<1>2. r \in Busy BY <1>1, Running DEF At
<1>3. do \in Seq(Actions) BY <1>1, <1>2, Fields, HeadTailProperties
<1>4. proc'[p] = s /\ Others(p) BY <1>1, ProcSet
<1>5. pc \in Pcs BY DEF Pcs, LatePcs
<1> HIDE DEF r, do, pc, auto
<1>6. Edited(s, r, pc, r.todo, r.newEnd, r.ticket, do)
  BY <1>2, <1>3, <1>5, EditDoPc
<1> HIDE DEF s
<1> QED BY <1>1, <1>2, <1>4, <1>6 DEF Edited, Moves, r, do, pc, auto

LEMMA GotoFields ==
  ASSUME TypeOK, NEW p \in Procs, NEW pc \in LatePcs, Late(p), Goto(p, pc)
  PROVE  /\ Moves(p, pc) /\ proc'[p].ticket = proc[p].ticket
         /\ proc'[p].do = proc[p].do
<1> DEFINE r == proc[p]
           s == [r EXCEPT !.pc = pc]
<1>1. proc' = [proc EXCEPT ![p] = s] BY DEF Goto
<1>2. r \in Busy BY Running
<1>3. proc'[p] = s /\ Others(p) BY <1>1, ProcSet
<1>4. pc \in Pcs BY DEF Pcs
<1> HIDE DEF r
<1>5. Edited(s, r, pc, r.todo, r.newEnd, r.ticket, r.do)
  BY <1>2, <1>4, EditPc
<1> HIDE DEF s
<1> QED BY <1>2, <1>3, <1>5 DEF Edited, Moves, r

LEMMA EndFields ==
  ASSUME TypeOK, NEW p \in Procs,
         SeedDone(p) \/ RejectNumber(p) \/ Answer(p) \/ Crash(p)
  PROVE  Ends(p)
<1>1. ~At(p, "idle")
  BY DEF SeedDone, RejectNumber, Answer, Crash, CatalogueDone, At
<1>2. proc' = [proc EXCEPT ![p] = Idle] \/ proc' = [proc EXCEPT ![p] = Failed]
  BY DEF SeedDone, RejectNumber, Answer, Crash
<1> QED BY <1>1, <1>2, Running, ProcSet DEF Ends
-----------------------------------------------------------------------------
(* What each step does to the tickets.                                     *)
LEMMA TicketFields ==
  ASSUME TypeOK, NEW t \in DOMAIN tickets
  PROVE  /\ tickets[t] \in TicketRows /\ t \in 1 .. Len(tickets) /\ t \in Nat
         /\ tickets[t].form \in Forms /\ tickets[t].cost \in Nat
         /\ tickets[t].exposure \in Nat
         /\ tickets[t].reimbursement # Unset
              => /\ tickets[t].reimbursement \in Reimbursements
                 /\ tickets[t].reimbursement.requested \in Nat
<1>1. tickets[t] \in TicketRows /\ t \in 1 .. Len(tickets) /\ t \in Nat
  BY ElementOfSeq, LenProperties DEF TypeOK
<1>2. /\ tickets[t].form \in Forms /\ tickets[t].cost \in Nat
      /\ tickets[t].exposure \in Nat
      /\ tickets[t].reimbursement \in {Unset} \cup Reimbursements
  BY <1>1 DEF TicketRows
<1>3. \A m \in Reimbursements : m.requested \in Nat BY DEF Reimbursements
<1> QED BY <1>1, <1>2, <1>3

OtherRows(t) ==
  /\ DOMAIN tickets' = DOMAIN tickets /\ tickets' \in Seq(TicketRows)
  /\ Len(tickets') = Len(tickets)
  /\ \A u \in DOMAIN tickets \ {t} : tickets'[u] = tickets[u]

LEMMA RowSet ==
  ASSUME TypeOK, NEW t \in DOMAIN tickets, NEW s \in TicketRows,
         tickets' = [tickets EXCEPT ![t] = s]
  PROVE  OtherRows(t) /\ tickets'[t] = s
<1>1. tickets \in Seq(TicketRows) /\ t \in 1 .. Len(tickets)
  BY TicketFields DEF TypeOK
<1>2. /\ tickets' \in Seq(TicketRows) /\ Len(tickets') = Len(tickets)
      /\ \A j \in 1 .. Len(tickets) : tickets'[j] = IF j = t THEN s ELSE tickets[j]
  BY <1>1, ExceptSeq
<1>3. DOMAIN tickets' = 1 .. Len(tickets) /\ DOMAIN tickets = 1 .. Len(tickets)
  BY <1>1, <1>2, LenProperties
<1> QED BY <1>1, <1>2, <1>3 DEF OtherRows

(* The fields of the claim, which no step changes, and those of its row.   *)
SameClaim(s, r) == s.form = r.form /\ s.cost = r.cost /\ s.exposure = r.exposure

RowIs(s, r, files, status, logistics, asked, money, handling, chosen, decided) ==
  /\ s \in TicketRows /\ SameClaim(s, r)
  /\ s.files = files /\ s.status = status /\ s.logistics = logistics
  /\ s.asked = asked /\ s.reimbursement = money /\ s.handling = handling
  /\ s.chosen = chosen /\ s.decided = decided

LEMMA StatusesAre ==
  /\ {"new", "pending_info", "investigating", "escalated"} \subseteq Statuses
  /\ StaffStatuses \subseteq Statuses
BY DEF Statuses

Handlings == {"running", "answered", "killed"}
Moneys == {Unset} \cup Reimbursements
Picks == {Unset} \cup StaffStatuses

LEMMA TicketRowsAre ==
  TicketRows =
    [form : Forms, cost : Nat, exposure : Nat, files : BOOLEAN, status : Statuses,
     logistics : BOOLEAN, asked : BOOLEAN, reimbursement : Moneys,
     handling : Handlings, chosen : Picks, decided : BOOLEAN]
BY DEF TicketRows, Handlings, Moneys, Picks

LEMMA RowTyped ==
  ASSUME NEW r \in TicketRows
  PROVE  RowIs(r, r, r.files, r.status, r.logistics, r.asked, r.reimbursement,
               r.handling, r.chosen, r.decided)
BY DEF RowIs, SameClaim

LEMMA RowFiles ==
  ASSUME NEW r \in TicketRows
  PROVE  RowIs([r EXCEPT !.files = TRUE], r, TRUE, r.status, r.logistics, r.asked,
               r.reimbursement, r.handling, r.chosen, r.decided)
BY TicketRowsAre DEF RowIs, SameClaim

LEMMA RowHandling ==
  ASSUME NEW r \in TicketRows, NEW h \in Handlings
  PROVE  RowIs([r EXCEPT !.handling = h], r, r.files, r.status, r.logistics,
               r.asked, r.reimbursement, h, r.chosen, r.decided)
BY TicketRowsAre DEF RowIs, SameClaim

LEMMA RowChoice ==
  ASSUME NEW r \in TicketRows, NEW s \in Statuses, NEW c \in Picks
  PROVE  RowIs([r EXCEPT !.status = s, !.chosen = c], r, r.files, s, r.logistics,
               r.asked, r.reimbursement, r.handling, c, r.decided)
BY TicketRowsAre DEF RowIs, SameClaim

LEMMA RowDecision ==
  ASSUME NEW r \in TicketRows, NEW m \in Moneys, NEW d \in BOOLEAN
  PROVE  RowIs([r EXCEPT !.reimbursement = m, !.decided = d], r, r.files, r.status,
               r.logistics, r.asked, m, r.handling, r.chosen, d)
BY TicketRowsAre DEF RowIs, SameClaim

LEMMA RowMoney ==
  ASSUME NEW r \in TicketRows, NEW m \in Moneys
  PROVE  RowIs([r EXCEPT !.reimbursement = m], r, r.files, r.status,
               r.logistics, r.asked, m, r.handling, r.chosen, r.decided)
BY TicketRowsAre DEF RowIs, SameClaim

LEMMA RowAction ==
  ASSUME NEW r \in TicketRows, NEW s \in Statuses, NEW l \in BOOLEAN,
         NEW a \in BOOLEAN, NEW m \in Moneys
  PROVE  RowIs([r EXCEPT !.status = s, !.logistics = l, !.asked = a,
                         !.reimbursement = m], r,
               r.files, s, l, a, m, r.handling, r.chosen, r.decided)
BY TicketRowsAre DEF RowIs, SameClaim

LEMMA FilesStep ==
  ASSUME TypeOK, NEW t \in DOMAIN tickets, AddFiles(t)
  PROVE  LET r == tickets[t]
         IN  /\ OtherRows(t)
             /\ RowIs(tickets'[t], r, TRUE, r.status, r.logistics, r.asked,
                      r.reimbursement, r.handling, r.chosen, r.decided)
<1> DEFINE r == tickets[t]
           s == [r EXCEPT !.files = TRUE]
<1>1. r \in TicketRows BY TicketFields
<1>2. tickets' = [tickets EXCEPT ![t] = s] BY DEF AddFiles
<1> HIDE DEF r
<1>3. RowIs(s, r, TRUE, r.status, r.logistics, r.asked, r.reimbursement,
            r.handling, r.chosen, r.decided)
  BY <1>1, RowFiles
<1> HIDE DEF s
<1>4. s \in TicketRows BY <1>3 DEF RowIs
<1> QED BY <1>2, <1>3, <1>4, RowSet DEF r

LEMMA StatusStep ==
  ASSUME TypeOK, NEW t \in DOMAIN tickets, NEW w \in StaffStatuses, SetStatus(t, w)
  PROVE  LET r == tickets[t]
         IN  /\ OtherRows(t)
             /\ RowIs(tickets'[t], r, r.files, w, r.logistics, r.asked,
                      r.reimbursement, r.handling,
                      IF r.handling = "running" THEN r.chosen ELSE w, r.decided)
<1> DEFINE r == tickets[t]
           c == IF r.handling = "running" THEN r.chosen ELSE w
           s == [r EXCEPT !.status = w, !.chosen = c]
<1>1. r \in TicketRows BY TicketFields
<1>2. tickets' = [tickets EXCEPT ![t] = s] BY DEF SetStatus
<1>3. r.chosen \in Picks BY <1>1, TicketRowsAre
<1>4. c \in Picks /\ w \in Statuses BY <1>3, StatusesAre DEF Picks
<1> HIDE DEF r, c
<1>5. RowIs(s, r, r.files, w, r.logistics, r.asked, r.reimbursement,
            r.handling, c, r.decided)
  BY <1>1, <1>4, RowChoice
<1> HIDE DEF s
<1>6. s \in TicketRows BY <1>5 DEF RowIs
<1> QED BY <1>2, <1>5, <1>6, RowSet DEF r, c

LEMMA EnteredType ==
  ASSUME NEW amounts \in Amounts, NEW st \in {"approved", "rejected"}
  PROVE  [requested |-> amounts[1], approved |-> amounts[2], status |-> st,
          by |-> "finance"] \in Reimbursements
<1>1. amounts[1] \in Nat /\ amounts[2] \in Nat BY AmountsAssumption
<1> QED BY <1>1 DEF Reimbursements

(* Finance's own row, whatever it enters.                                  *)
ByFinance(m) == m \in Reimbursements /\ m.by = "finance"

LEMMA FinanceStep ==
  ASSUME TypeOK, NEW t \in DOMAIN tickets, NEW amounts \in Amounts,
         NEW st \in {"approved", "rejected"}, SaveReimbursement(t, amounts, st)
  PROVE  LET r == tickets[t]
         IN  /\ OtherRows(t)
             /\ \E m : /\ ByFinance(m)
                       /\ RowIs(tickets'[t], r, r.files, r.status, r.logistics, r.asked,
                                m, r.handling, r.chosen, r.handling # "running")
<1> DEFINE r == tickets[t]
           m == [requested |-> amounts[1], approved |-> amounts[2], status |-> st,
                 by |-> "finance"]
           d == r.handling # "running"
           s == [r EXCEPT !.reimbursement = m, !.decided = d]
<1>1. r \in TicketRows BY TicketFields
<1>2. tickets' = [tickets EXCEPT ![t] = s] BY DEF SaveReimbursement
<1>3. ByFinance(m) BY EnteredType DEF ByFinance
<1>4. m \in Moneys BY <1>3 DEF Moneys, ByFinance
<1>5. d \in BOOLEAN OBVIOUS
<1> HIDE DEF r, m, d
<1>6. RowIs(s, r, r.files, r.status, r.logistics, r.asked, m, r.handling, r.chosen, d)
  BY <1>1, <1>4, <1>5, RowDecision
<1> HIDE DEF s
<1>7. s \in TicketRows BY <1>6 DEF RowIs
<1>8. OtherRows(t) /\ tickets'[t] = s BY <1>2, <1>7, RowSet
<1> QED BY <1>3, <1>6, <1>8 DEF r, d

LEMMA StatusAfterType ==
  ASSUME NEW a, NEW old \in Statuses
  PROVE  StatusAfter(a, old) \in Statuses
BY StatusesAre DEF StatusAfter

LEMMA ApprovedByRuleType ==
  ASSUME TypeOK, NEW t \in DOMAIN tickets
  PROVE  ApprovedByRule(t) \in Reimbursements
BY TicketFields DEF ApprovedByRule, Reimbursements

LEMMA ActionStep ==
  ASSUME TypeOK, NEW p \in Procs, ApplyAction(p), proc[p].ticket \in DOMAIN tickets
  PROVE  LET t == proc[p].ticket
             r == tickets[t]
             a == Head(proc[p].do)
         IN  /\ OtherRows(t)
             /\ RowIs(tickets'[t], r, r.files, StatusAfter(a, r.status),
                      r.logistics \/ a = "route_logistics_queue",
                      r.asked \/ a = "request_evidence",
                      IF a = "auto_approve_reimbursement" /\ r.reimbursement = Unset
                      THEN ApprovedByRule(t) ELSE r.reimbursement,
                      r.handling, r.chosen, r.decided)
<1> DEFINE t == proc[p].ticket
           r == tickets[t]
           a == Head(proc[p].do)
           w == StatusAfter(a, r.status)
           l == r.logistics \/ a = "route_logistics_queue"
           e == r.asked \/ a = "request_evidence"
           m == IF a = "auto_approve_reimbursement" /\ r.reimbursement = Unset
                THEN ApprovedByRule(t) ELSE r.reimbursement
           s == [r EXCEPT !.status = w, !.logistics = l, !.asked = e, !.reimbursement = m]
<1>1. r \in TicketRows /\ t \in DOMAIN tickets BY TicketFields
<1>2. tickets' = [tickets EXCEPT ![t] = s] BY DEF ApplyAction
<1>3. r.reimbursement \in Moneys /\ r.status \in Statuses BY <1>1, TicketRowsAre
<1>4. m \in Moneys BY <1>1, <1>3, ApprovedByRuleType DEF Moneys
<1>5. w \in Statuses BY <1>3, StatusAfterType
<1>6. l \in BOOLEAN /\ e \in BOOLEAN BY <1>1, TicketRowsAre
<1> HIDE DEF r, t, a, w, l, e, m
<1>7. RowIs(s, r, r.files, w, l, e, m, r.handling, r.chosen, r.decided)
  BY <1>1, <1>4, <1>5, <1>6, RowAction
<1> HIDE DEF s
<1>8. s \in TicketRows BY <1>7 DEF RowIs
<1>9. OtherRows(t) /\ tickets'[t] = s BY <1>1, <1>2, <1>8, RowSet
<1> QED BY <1>7, <1>9 DEF r, t, a, w, l, e, m

(* What a rule saves over m, with the amount it got and the exposure.      *)
Approved(m, amount, exposure) ==
  [requested |-> amount, approved |-> IF amount = 0 THEN exposure ELSE amount,
   status |-> "approved", by |-> IF m.by = "rule" THEN "rule" ELSE "both"]

LEMMA ApprovedType ==
  ASSUME NEW m, NEW n \in Nat, NEW x \in Nat
  PROVE  Approved(m, n, x) \in Reimbursements
BY DEF Approved, Reimbursements

LEMMA ApprovalStep ==
  ASSUME TypeOK, NEW p \in Requests, SaveApproval(p), proc[p].ticket \in DOMAIN tickets
  PROVE  LET t == proc[p].ticket
             r == tickets[t]
         IN  /\ OtherRows(t)
             /\ RowIs(tickets'[t], r, r.files, r.status, r.logistics, r.asked,
                      Approved(r.reimbursement, loaded[p], r.exposure),
                      r.handling, r.chosen, r.decided)
<1> DEFINE t == proc[p].ticket
           r == tickets[t]
           n == loaded[p]
           m == Approved(r.reimbursement, n, r.exposure)
           s == [r EXCEPT !.reimbursement = m]
<1>1. r \in TicketRows /\ t \in DOMAIN tickets BY TicketFields
<1>2. tickets' = [tickets EXCEPT ![t] = s] BY DEF SaveApproval, Approved
<1>3. n \in Nat /\ r.exposure \in Nat BY TicketFields DEF TypeOK
<1> HIDE DEF n
<1>4. m \in Moneys BY <1>3, ApprovedType DEF Moneys
<1> HIDE DEF r, t, m
<1>5. RowIs(s, r, r.files, r.status, r.logistics, r.asked, m,
            r.handling, r.chosen, r.decided)
  BY <1>1, <1>4, RowMoney
<1> HIDE DEF s
<1>6. s \in TicketRows BY <1>5 DEF RowIs
<1>7. OtherRows(t) /\ tickets'[t] = s BY <1>1, <1>2, <1>6, RowSet
<1> QED BY <1>5, <1>7 DEF r, t, m, n

Handled(p, h) ==
  LET t == proc[p].ticket
      r == tickets[t]
  IN  /\ OtherRows(t)
      /\ RowIs(tickets'[t], r, r.files, r.status, r.logistics, r.asked,
               r.reimbursement, h, r.chosen, r.decided)

LEMMA HandledStep ==
  ASSUME TypeOK, NEW p \in Procs, NEW h \in Handlings, proc[p].ticket \in DOMAIN tickets,
         tickets' = [tickets EXCEPT ![proc[p].ticket].handling = h]
  PROVE  Handled(p, h)
<1> DEFINE t == proc[p].ticket
           r == tickets[t]
           s == [r EXCEPT !.handling = h]
<1>1. r \in TicketRows /\ t \in DOMAIN tickets BY TicketFields
<1>2. tickets' = [tickets EXCEPT ![t] = s] OBVIOUS
<1> HIDE DEF r, t
<1>5. RowIs(s, r, r.files, r.status, r.logistics, r.asked, r.reimbursement,
            h, r.chosen, r.decided)
  BY <1>1, RowHandling
<1> HIDE DEF s
<1>6. s \in TicketRows BY <1>5 DEF RowIs
<1>7. OtherRows(t) /\ tickets'[t] = s BY <1>1, <1>2, <1>6, RowSet
<1> QED BY <1>5, <1>7 DEF r, t, Handled

LEMMA CrashStep ==
  ASSUME TypeOK, NEW p \in Procs, Crash(p)
  PROVE  /\ proc[p].ticket \notin DOMAIN tickets => tickets' = tickets
         /\ proc[p].ticket \in DOMAIN tickets => Handled(p, "killed")
<1> DEFINE t == proc[p].ticket
           s == [tickets[t] EXCEPT !.handling = "killed"]
<1>1. tickets' = [u \in DOMAIN tickets |-> IF u = t THEN s ELSE tickets[u]]
  BY DEF Crash
<1>2. tickets \in Seq(TicketRows) /\ DOMAIN tickets = 1 .. Len(tickets)
  BY LenProperties DEF TypeOK
<1>3. ASSUME t \notin DOMAIN tickets PROVE tickets' = tickets
  <2>1. tickets' = [u \in DOMAIN tickets |-> tickets[u]]
    <3> HIDE DEF s, t
    <3> QED BY <1>1, <1>3
  <2>2. tickets = [u \in DOMAIN tickets |-> tickets[u]] BY <1>2
  <2> QED BY <2>1, <2>2
<1>4. ASSUME t \in DOMAIN tickets PROVE Handled(p, "killed")
  <2>1. tickets' = [tickets EXCEPT ![t].handling = "killed"]
    <3>1. [tickets EXCEPT ![t] = s]
           = [u \in DOMAIN tickets |-> IF u = t THEN s ELSE tickets[u]]
      <4> HIDE DEF s, t
      <4> QED BY <1>4, <1>2
    <3> QED BY <1>1, <3>1
  <2> QED BY <2>1, <1>4, HandledStep DEF Handlings
<1> QED BY <1>3, <1>4

LEMMA ExposureType ==
  ASSUME NEW f \in Forms, NEW c \in Nat
  PROVE  Exposure(f, c) \in Nat
<1>1. f.claimed \in Nat /\ f.qty \in Nat BY FormsAssumption DEF FormType
<1>2. f.qty * c \in Nat BY <1>1
<1> QED BY <1>1, <1>2, CentsNearest DEF Exposure

LEMMA CommitStep ==
  ASSUME TypeOK, NEW p \in Procs, Commit(p), proc[p].form \in Forms
  PROVE  LET n == Len(tickets) + 1
             r == tickets'[n]
         IN  /\ tickets' \in Seq(TicketRows) /\ Len(tickets') = n /\ n \in Nat
             /\ DOMAIN tickets' = DOMAIN tickets \cup {n} /\ n \notin DOMAIN tickets
             /\ \A u \in DOMAIN tickets : tickets'[u] = tickets[u]
             /\ r.form = proc[p].form /\ r.cost = unitCost
             /\ r.exposure = Exposure(proc[p].form, unitCost)
             /\ RowIs(r, r, r.files, "new", FALSE, FALSE, Unset, "running", Unset, FALSE)
<1> DEFINE n == Len(tickets) + 1
           s == NewTicket(p)
<1>1. tickets' = Append(tickets, s) BY DEF Commit
<1>2. tickets \in Seq(TicketRows) /\ n \in Nat /\ DOMAIN tickets = 1 .. Len(tickets)
  BY LenProperties DEF TypeOK
<1>3. /\ s.form = proc[p].form /\ s.cost = unitCost
      /\ s.exposure = Exposure(proc[p].form, unitCost)
      /\ RowIs(s, s, s.files, "new", FALSE, FALSE, Unset, "running", Unset, FALSE)
  <2> DEFINE f == proc[p].form
             x == Exposure(f, unitCost)
             new == [form |-> f, cost |-> unitCost, exposure |-> x, files |-> f.files,
                     status |-> "new", logistics |-> FALSE, asked |-> FALSE,
                     reimbursement |-> Unset, handling |-> "running",
                     chosen |-> Unset, decided |-> FALSE]
  <2>1. s = new BY DEF NewTicket, ClaimOf
  <2>2. f \in Forms /\ f.files \in BOOLEAN BY FormsAssumption DEF FormType
  <2>3. unitCost \in Nat BY DEF TypeOK
  <2>4. x \in Nat BY <2>2, <2>3, ExposureType
  <2>5. "new" \in Statuses /\ Unset \in Moneys /\ Unset \in Picks /\ "running" \in Handlings
    BY StatusesAre DEF Moneys, Picks, Handlings
  <2> HIDE DEF f, x
  <2>6. new \in TicketRows BY <2>2, <2>3, <2>4, <2>5, TicketRowsAre
  <2>7. /\ new.form = f /\ new.cost = unitCost /\ new.exposure = x /\ new.files = f.files
        /\ new.status = "new" /\ new.logistics = FALSE /\ new.asked = FALSE
        /\ new.reimbursement = Unset /\ new.handling = "running"
        /\ new.chosen = Unset /\ new.decided = FALSE
    OBVIOUS
  <2> HIDE DEF new
  <2> HIDE DEF s
  <2> QED BY <2>1, <2>6, <2>7 DEF RowIs, SameClaim, f, x
<1> HIDE DEF s
<1>4. s \in TicketRows BY <1>3 DEF RowIs
<1>5. /\ tickets' \in Seq(TicketRows) /\ Len(tickets') = n
      /\ \A u \in 1 .. Len(tickets) : tickets'[u] = tickets[u]
      /\ tickets'[n] = s
  BY <1>1, <1>2, <1>4, AppendProperties
<1>6. /\ DOMAIN tickets' = DOMAIN tickets \cup {n} /\ n \notin DOMAIN tickets
  <2>1. DOMAIN tickets' = 1 .. n BY <1>5, LenProperties
  <2> QED BY <1>2, <2>1, LenProperties
<1> QED BY <1>2, <1>3, <1>5, <1>6
-----------------------------------------------------------------------------
(* The inductive invariant.  A request has no ticket before its commit;    *)
(* after it, one of its own which no answer or kill has ended yet.         *)
FormInv == \A r \in Requests : proc[r] \in Busy => proc[r].form \in Forms

TodoInv == \A p \in Procs : At(p, "create") => proc[p].todo # <<>>

OwnInv ==
  \A p \in Procs :
    /\ Early(p) => proc[p].ticket = 0
    /\ Late(p) => /\ proc[p].ticket \in DOMAIN tickets
                  /\ tickets[proc[p].ticket].handling = "running"
    /\ At(p, "approve") => tickets[proc[p].ticket].reimbursement # Unset

SoleInv ==
  \A p, q \in Procs :
    Late(p) /\ Late(q) /\ p # q => proc[p].ticket # proc[q].ticket

IntakeInv == TypeOK /\ FormInv /\ TodoInv /\ OwnInv /\ SoleInv

(* Every step is one of six kinds.                                         *)
Steady ==
  /\ tickets' \in Seq(TicketRows) /\ DOMAIN tickets' = DOMAIN tickets
  /\ \A u \in DOMAIN tickets :
       /\ SameClaim(tickets'[u], tickets[u])
       /\ tickets'[u].handling = tickets[u].handling
       /\ tickets[u].reimbursement # Unset => tickets'[u].reimbursement # Unset

Starting(p) ==
  /\ At(p, "idle") /\ Others(p) /\ UNCHANGED tickets
  /\ proc'[p] \in Busy /\ proc'[p].pc = "catalogue" /\ proc'[p].ticket = 0
  /\ p \in Requests => proc'[p].form \in Forms
  /\ \A t \in proc'[p].before : rows[t] > 0

Searching(p) ==
  /\ Early(p) /\ UNCHANGED tickets
  /\ \/ Ends(p)
     \/ \E pc \in EarlyPcs :
          /\ Moves(p, pc) /\ proc'[p].ticket = proc[p].ticket
          /\ pc = "create" => /\ proc'[p].todo = proc[p].todo /\ proc[p].todo # <<>>
                              /\ rows[Next1(p)] = 0
          /\ pc = "submit" /\ proc'[p].newEnd => rows["end_customer"] = 0

Fresh(r) ==
  /\ RowIs(r, r, r.files, "new", FALSE, FALSE, Unset, "running", Unset, FALSE)
  /\ r.exposure = Exposure(r.form, r.cost)

Committing(p) ==
  /\ p \in Requests /\ Early(p) /\ Moves(p, "rules") /\ proc'[p].ticket = Len(tickets) + 1
  /\ tickets' \in Seq(TicketRows)
  /\ DOMAIN tickets' = DOMAIN tickets \cup {Len(tickets) + 1}
  /\ Len(tickets) + 1 \notin DOMAIN tickets
  /\ \A u \in DOMAIN tickets : tickets'[u] = tickets[u]
  /\ Fresh(tickets'[Len(tickets) + 1])

(* The rules work on the one ticket, and leave what staff decided.         *)
Worked(p) ==
  LET t == proc[p].ticket
      r == tickets[t]
  IN  /\ OtherRows(t)
      /\ \E w, l, a, m : RowIs(tickets'[t], r, r.files, w, l, a, m,
                              r.handling, r.chosen, r.decided)

Working(p) ==
  /\ p \in Requests
  /\ RunAutomation(p) \/ ApplyAction(p) \/ SaveApproval(p) \/ NotifyTeam(p)

Handling(p) ==
  /\ Late(p) /\ Steady /\ Working(p)
  /\ UNCHANGED tickets \/ Worked(p)
  /\ \E pc \in LatePcs :
       /\ Moves(p, pc) /\ proc'[p].ticket = proc[p].ticket
       /\ pc = "approve" => tickets'[proc[p].ticket].reimbursement # Unset

Ending(p) ==
  Late(p) /\ Ends(p) /\ \E h \in Handlings : Handled(p, h)

LEMMA EarlyAt ==
  ASSUME NEW p
  PROVE  /\ At(p, "catalogue") \/ At(p, "create") \/ At(p, "submit") <=> Early(p)
         /\ \/ At(p, "rules") \/ At(p, "act") \/ At(p, "approve")
            \/ At(p, "alert") \/ At(p, "answer")
            <=> Late(p)
BY DEF At, Early, Late, EarlyPcs, LatePcs

LEMMA UnchangedSteady ==
  ASSUME TypeOK, UNCHANGED tickets
  PROVE  Steady
BY DEF TypeOK, Steady, SameClaim

LEMMA RowSteady ==
  ASSUME TypeOK, NEW t \in DOMAIN tickets, OtherRows(t),
         NEW f, NEW w, NEW l, NEW a, NEW m, NEW c, NEW d,
         RowIs(tickets'[t], tickets[t], f, w, l, a, m, tickets[t].handling, c, d),
         tickets[t].reimbursement # Unset => m # Unset
  PROVE  Steady
BY DEF OtherRows, RowIs, Steady, SameClaim

LEMMA BeginStarts ==
  ASSUME TypeOK, NEW p \in Procs, NEW f \in {Unset} \cup Forms, p \in Requests => f \in Forms,
         NEW find \in Seq(Tables), NEW todo \in Seq(Tables), At(p, "idle"),
         proc' = [proc EXCEPT ![p] = Work(f, find, todo)], UNCHANGED tickets
  PROVE  Starting(p)
<1> DEFINE b == {t \in Tables : ~Unique(t) /\ rows[t] > 0}
           w == [pc |-> "catalogue", form |-> f, find |-> find, todo |-> todo,
                 newEnd |-> FALSE, ticket |-> 0, do |-> <<>>, before |-> b]
<1>1. proc'[p] = w /\ Others(p) BY ProcSet DEF Work
<1>2. b \in SUBSET Tables /\ <<>> \in Seq(Actions) OBVIOUS
<1> HIDE DEF b
<1>3. w \in Busy BY <1>2 DEF Busy
<1>4. w.pc = "catalogue" /\ w.ticket = 0 /\ w.form = f /\ w.before = b OBVIOUS
<1> HIDE DEF w
<1> QED BY <1>1, <1>3, <1>4 DEF Starting, b

LEMMA SearchSteps ==
  ASSUME TypeOK, TodoInv, NEW p \in Procs,
         FindRow(p) \/ GetRow(p) \/ CreateRow(p) \/ GetEndCustomer(p)
         \/ SeedDone(p) \/ RejectNumber(p)
  PROVE  Searching(p)
<1>0. {"catalogue", "create", "submit"} = EarlyPcs BY DEF EarlyPcs
<1>1. CASE FindRow(p)
  BY <1>0, <1>1, FindFields, EarlyAt DEF FindRow, Searching
<1>2. CASE GetRow(p)
  BY <1>0, <1>2, GetFields, EarlyAt DEF GetRow, Searching
<1>3. CASE CreateRow(p)
  <2>1. At(p, "create") BY <1>3 DEF CreateRow
  <2>2. proc[p].todo # <<>> BY <2>1 DEF TodoInv
  <2> QED BY <1>0, <1>3, <2>1, <2>2, CreateFields, EarlyAt DEF CreateRow, Searching
<1>4. CASE GetEndCustomer(p)
  BY <1>0, <1>4, EndCustomerFields, EarlyAt DEF GetEndCustomer, Searching
<1>5. CASE SeedDone(p) \/ RejectNumber(p)
  <2>1. Ends(p) BY <1>5, EndFields
  <2>2. Early(p) /\ UNCHANGED tickets
    BY <1>5, EarlyAt DEF SeedDone, RejectNumber, CatalogueDone
  <2> QED BY <2>1, <2>2 DEF Searching
<1> QED BY <1>1, <1>2, <1>3, <1>4, <1>5

LEMMA CommitSteps ==
  ASSUME TypeOK, FormInv, NEW p \in Requests, Commit(p)
  PROVE  Committing(p)
<1>1. p \in Procs BY DEF Procs
<1>2. Moves(p, "rules") /\ At(p, "submit") /\ proc'[p].ticket = Len(tickets) + 1
  BY <1>1, CommitFields
<1>3. proc[p].form \in Forms BY <1>2 DEF Moves, FormInv
<1> DEFINE n == Len(tickets) + 1
<1>4. /\ tickets' \in Seq(TicketRows)
      /\ DOMAIN tickets' = DOMAIN tickets \cup {n} /\ n \notin DOMAIN tickets
      /\ \A u \in DOMAIN tickets : tickets'[u] = tickets[u]
      /\ RowIs(tickets'[n], tickets'[n], tickets'[n].files, "new", FALSE, FALSE,
               Unset, "running", Unset, FALSE)
      /\ tickets'[n].exposure = Exposure(tickets'[n].form, tickets'[n].cost)
  BY <1>1, <1>3, CommitStep
<1>5. Fresh(tickets'[n]) BY <1>4 DEF Fresh
<1>6. Early(p) BY <1>2, EarlyAt
<1> QED BY <1>2, <1>4, <1>5, <1>6 DEF Committing

LEMMA HandleSteps ==
  ASSUME TypeOK, OwnInv, NEW p \in Procs, Working(p)
  PROVE  Handling(p)
<1> DEFINE t == proc[p].ticket
<1>0. {"rules", "act", "approve", "alert", "answer"} = LatePcs BY DEF LatePcs
<1>1. Late(p)
  BY EarlyAt DEF Working, RunAutomation, ApplyAction, SaveApproval, NotifyTeam, RulesDone
<1>2. t \in DOMAIN tickets BY <1>1 DEF OwnInv
<1>3. CASE RunAutomation(p)
  <2>1. Steady BY <1>3, UnchangedSteady DEF RunAutomation
  <2>2. UNCHANGED tickets BY <1>3 DEF RunAutomation
  <2> QED BY <1>0, <1>1, <1>3, <2>1, <2>2, RulesFields DEF Handling
<1>4. CASE ApplyAction(p)
  <2> DEFINE auto == Head(proc[p].do) = "auto_approve_reimbursement"
             pc == IF auto THEN "approve" ELSE "act"
             m == IF auto /\ tickets[t].reimbursement = Unset
                  THEN ApprovedByRule(t) ELSE tickets[t].reimbursement
  <2>1. Moves(p, pc) /\ proc'[p].ticket = t BY <1>4, ActionFields
  <2>2. PICK w, l, a :
          /\ OtherRows(t)
          /\ RowIs(tickets'[t], tickets[t], tickets[t].files, w, l, a, m,
                   tickets[t].handling, tickets[t].chosen, tickets[t].decided)
    BY <1>2, <1>4, ActionStep
  <2>3. ApprovedByRule(t) # Unset
    BY <1>2, ApprovedByRuleType, UnsetAssumption
  <2>4. tickets[t].reimbursement # Unset => m # Unset OBVIOUS
  <2>5. auto => m # Unset BY <2>3
  <2>6. tickets'[t].reimbursement = m BY <2>2 DEF RowIs
  <2> HIDE DEF m, t
  <2>7. Steady BY <1>2, <2>2, <2>4, RowSteady
  <2>8. pc \in LatePcs /\ (pc = "approve" => auto) BY <1>0
  <2>9. Worked(p) BY <2>2 DEF Worked, t
  <2> HIDE DEF pc
  <2> QED BY <1>1, <2>1, <2>5, <2>6, <2>7, <2>8, <2>9 DEF Handling, t
<1>5. CASE SaveApproval(p)
  <2> DEFINE m == Approved(tickets[t].reimbursement, loaded[p], tickets[t].exposure)
  <2>0. p \in Requests BY DEF Working
  <2>1. At(p, "approve") /\ Goto(p, "act") BY <1>5 DEF SaveApproval
  <2>2. Moves(p, "act") /\ proc'[p].ticket = t BY <1>0, <1>1, <2>1, GotoFields
  <2>4. /\ OtherRows(t)
        /\ RowIs(tickets'[t], tickets[t], tickets[t].files, tickets[t].status,
                 tickets[t].logistics, tickets[t].asked, m,
                 tickets[t].handling, tickets[t].chosen, tickets[t].decided)
    BY <1>2, <1>5, <2>0, ApprovalStep
  <2>5. m \in Reimbursements
    <3>1. loaded[p] \in Nat /\ tickets[t].exposure \in Nat
      BY <1>2, <2>0, TicketFields DEF TypeOK
    <3> QED BY <3>1, ApprovedType
  <2>6. m # Unset BY <2>5, UnsetAssumption
  <2> HIDE DEF m, t
  <2>7. Steady BY <1>2, <2>4, <2>6, RowSteady
  <2>8. Worked(p) BY <2>4 DEF Worked, t
  <2> QED BY <1>0, <1>1, <2>2, <2>7, <2>8 DEF Handling, t
<1>6. CASE NotifyTeam(p)
  <2>1. Steady BY <1>6, UnchangedSteady DEF NotifyTeam
  <2>2. Goto(p, "answer") BY <1>6 DEF NotifyTeam
  <2>3. Moves(p, "answer") /\ proc'[p].ticket = t BY <1>0, <1>1, <2>2, GotoFields
  <2>4. UNCHANGED tickets BY <1>6 DEF NotifyTeam
  <2> QED BY <1>0, <1>1, <2>1, <2>3, <2>4 DEF Handling
<1> QED BY <1>3, <1>4, <1>5, <1>6 DEF Working

LEMMA EndSteps ==
  ASSUME TypeOK, OwnInv, NEW p \in Procs, Answer(p) \/ Crash(p)
  PROVE  Searching(p) \/ Ending(p)
<1>1. Ends(p) BY EndFields
<1>2. CASE Answer(p)
  <2>1. Late(p) BY <1>2, EarlyAt DEF Answer
  <2>2. proc[p].ticket \in DOMAIN tickets BY <2>1 DEF OwnInv
  <2>3. "answered" \in Handlings BY DEF Handlings
  <2>4. tickets' = [tickets EXCEPT ![proc[p].ticket].handling = "answered"]
    BY <1>2 DEF Answer
  <2>5. Handled(p, "answered") BY <2>2, <2>3, <2>4, HandledStep
  <2> QED BY <1>1, <2>1, <2>3, <2>5 DEF Ending
<1>3. CASE Crash(p)
  <2>1. Early(p) \/ Late(p) BY <1>1, Running DEF Ends
  <2>2. CASE Early(p)
    <3>1. proc[p].ticket = 0 BY <2>2 DEF OwnInv
    <3>2. 0 \notin DOMAIN tickets BY LenProperties DEF TypeOK
    <3>3. tickets' = tickets BY <1>3, <3>1, <3>2, CrashStep
    <3> QED BY <1>1, <2>2, <3>3 DEF Searching
  <2>3. CASE Late(p)
    <3>1. proc[p].ticket \in DOMAIN tickets BY <2>3 DEF OwnInv
    <3>2. Handled(p, "killed") BY <1>3, <3>1, CrashStep
    <3>3. "killed" \in Handlings BY DEF Handlings
    <3> QED BY <1>1, <2>3, <3>2, <3>3 DEF Ending
  <2> QED BY <2>1, <2>2, <2>3
<1> QED BY <1>2, <1>3

(* What people do to a ticket: files, a status, or a reimbursement.        *)
Touched(t) ==
  LET r == tickets[t]
  IN  /\ OtherRows(t)
      /\ \/ RowIs(tickets'[t], r, TRUE, r.status, r.logistics, r.asked,
                  r.reimbursement, r.handling, r.chosen, r.decided)
         \/ \E w : RowIs(tickets'[t], r, r.files, w, r.logistics, r.asked,
                         r.reimbursement, r.handling,
                         IF r.handling = "running" THEN r.chosen ELSE w, r.decided)
         \/ \E m : /\ ByFinance(m)
                   /\ RowIs(tickets'[t], r, r.files, r.status, r.logistics, r.asked,
                            m, r.handling, r.chosen, r.handling # "running")

LEMMA PeopleSteady ==
  ASSUME TypeOK, People
  PROVE  Steady /\ UNCHANGED proc /\ \E t \in DOMAIN tickets : Touched(t)
<1>1. UNCHANGED proc BY DEF People
<1>2. PICK t \in DOMAIN tickets :
        \/ AddFiles(t)
        \/ \E s \in StaffStatuses : SetStatus(t, s)
        \/ \E amounts \in Amounts, st \in {"approved", "rejected"} :
             SaveReimbursement(t, amounts, st)
  BY DEF People
<1>3. Touched(t)
  <2>1. CASE AddFiles(t) BY <2>1, FilesStep DEF Touched
  <2>2. ASSUME NEW s \in StaffStatuses, SetStatus(t, s) PROVE Touched(t)
    BY <2>2, StatusStep DEF Touched
  <2>3. ASSUME NEW amounts \in Amounts, NEW st \in {"approved", "rejected"},
               SaveReimbursement(t, amounts, st)
        PROVE  Touched(t)
    BY <2>3, FinanceStep DEF Touched
  <2> QED BY <1>2, <2>1, <2>2, <2>3
<1>4. PICK f, w, m, c, d :
        /\ OtherRows(t)
        /\ RowIs(tickets'[t], tickets[t], f, w, tickets[t].logistics, tickets[t].asked,
                 m, tickets[t].handling, c, d)
        /\ m = tickets[t].reimbursement \/ ByFinance(m)
  BY <1>3 DEF Touched
<1>5. tickets[t].reimbursement # Unset => m # Unset
  BY <1>4, UnsetAssumption DEF ByFinance
<1>6. Steady BY <1>4, <1>5, RowSteady
<1> QED BY <1>1, <1>3, <1>6

Kinds ==
  \/ \E p \in Procs : \/ Starting(p) \/ Searching(p) \/ Committing(p)
                      \/ Handling(p) \/ Ending(p)
  \/ /\ Steady /\ UNCHANGED proc
     /\ UNCHANGED tickets \/ \E t \in DOMAIN tickets : Touched(t)

LEMMA StepKinds ==
  ASSUME TypeOK, FormInv, TodoInv, OwnInv, [Next]_vars
  PROVE  Kinds
<1>1. ASSUME NEW p \in Procs, Step(p) PROVE Kinds
  <2>1. CASE FindRow(p) \/ GetRow(p) \/ CreateRow(p) \/ GetEndCustomer(p)
             \/ SeedDone(p) \/ RejectNumber(p)
    BY <2>1, SearchSteps DEF Kinds
  <2>2. CASE p \in Requests /\ Commit(p)
    BY <2>2, CommitSteps DEF Kinds
  <2>3. CASE Working(p)
    BY <2>3, HandleSteps DEF Kinds
  <2>4. CASE Answer(p) BY <2>4, EndSteps DEF Kinds
  <2> QED BY <1>1, <2>1, <2>2, <2>3, <2>4 DEF Step, Working
<1>2. ASSUME NEW p \in Procs, Crash(p) PROVE Kinds
  BY <1>2, EndSteps DEF Kinds
<1>3. ASSUME NEW r \in Requests, NEW f \in Forms, Submit(r, f) PROVE Kinds
  <2>1. r \in Procs BY DEF Procs
  <2>2. PortalProgram(f) \in Seq(Tables) /\ <<>> \in Seq(Tables) BY TablesAre
  <2>3. /\ At(r, "idle") /\ UNCHANGED tickets
        /\ proc' = [proc EXCEPT ![r] = Work(f, PortalProgram(f), <<>>)]
    BY <1>3 DEF Submit
  <2>4. Starting(r) BY <2>1, <2>2, <2>3, BeginStarts
  <2> QED BY <2>1, <2>4 DEF Kinds
<1>4. ASSUME NEW s \in Seeds, StartSeed(s) PROVE Kinds
  <2>1. s \in Procs /\ s \notin Requests BY ActorsAssumption DEF Procs
  <2>2. SeedProgram \in Seq(Tables) /\ <<>> \in Seq(Tables) BY TablesAre
  <2>3. /\ At(s, "idle") /\ UNCHANGED tickets
        /\ proc' = [proc EXCEPT ![s] = Work(Unset, <<>>, SeedProgram)]
    BY <1>4 DEF StartSeed
  <2>4. Starting(s) BY <2>1, <2>2, <2>3, BeginStarts
  <2> QED BY <2>1, <2>4 DEF Kinds
<1>5. CASE People BY <1>5, PeopleSteady DEF Kinds
<1>6. CASE UNCHANGED vars BY <1>6, UnchangedSteady DEF vars, Kinds
<1> QED BY <1>1, <1>2, <1>3, <1>4, <1>5, <1>6 DEF Next
-----------------------------------------------------------------------------
(* The invariant is kept.                                                  *)
bounds == <<submissions, disturbances>>

LEMMA TableSteps ==
  ASSUME [Next]_vars
  PROVE  \/ UNCHANGED <<rows, unitCost, bounds>>
         \/ \E p \in Procs : CreateRow(p) \/ Commit(p)
         \/ /\ submissions < MaxSubmissions /\ submissions' = submissions + 1
            /\ UNCHANGED <<rows, unitCost, disturbances>>
         \/ /\ disturbances < MaxDisturbances /\ disturbances' = disturbances + 1
            /\ UNCHANGED <<rows, unitCost, submissions>>
<1>1. ASSUME NEW p \in Procs, Step(p)
      PROVE  CreateRow(p) \/ Commit(p) \/ UNCHANGED <<rows, unitCost, bounds>>
  <2>1. FindRow(p) \/ GetRow(p) \/ SeedDone(p) \/ GetEndCustomer(p)
        => UNCHANGED <<rows, unitCost, bounds>>
    BY DEF FindRow, GetRow, SeedDone, GetEndCustomer, count, bounds
  <2>2. RejectNumber(p) \/ RunAutomation(p) \/ NotifyTeam(p) \/ Answer(p)
        => UNCHANGED <<rows, unitCost, bounds>>
    BY DEF RejectNumber, RunAutomation, NotifyTeam, Answer, count, bounds
  <2>3. ApplyAction(p) => UNCHANGED <<rows, unitCost, bounds>>
    BY DEF ApplyAction, bounds
  <2>4. SaveApproval(p) => UNCHANGED <<rows, unitCost, bounds>>
    BY DEF SaveApproval, bounds
  <2> QED BY <1>1, <2>1, <2>2, <2>3, <2>4 DEF Step
<1>2. ASSUME NEW p \in Procs, Crash(p)
      PROVE  /\ disturbances < MaxDisturbances /\ disturbances' = disturbances + 1
             /\ UNCHANGED <<rows, unitCost, submissions>>
  BY <1>2 DEF Crash
<1>3. ASSUME NEW r, NEW f, Submit(r, f) \/ StartSeed(r)
      PROVE  /\ submissions < MaxSubmissions /\ submissions' = submissions + 1
             /\ UNCHANGED <<rows, unitCost, disturbances>>
  BY <1>3 DEF Submit, StartSeed
<1>4. ASSUME People
      PROVE  /\ disturbances < MaxDisturbances /\ disturbances' = disturbances + 1
             /\ UNCHANGED <<rows, unitCost, submissions>>
  BY <1>4 DEF People
<1>5. ASSUME UNCHANGED vars PROVE UNCHANGED <<rows, unitCost, bounds>>
  BY <1>5 DEF vars, count, bounds
<1> QED BY <1>1, <1>2, <1>3, <1>4, <1>5 DEF Next

LEMMA TableTypes ==
  ASSUME TypeOK, TodoInv, [Next]_vars
  PROVE  /\ rows' \in [Tables -> Nat] /\ unitCost' \in Nat
         /\ submissions' \in 0 .. MaxSubmissions
         /\ disturbances' \in 0 .. MaxDisturbances
<1>0. /\ MaxSubmissions \in Nat /\ MaxDisturbances \in Nat
      /\ rows \in [Tables -> Nat] /\ unitCost \in Nat
      /\ submissions \in 0 .. MaxSubmissions /\ disturbances \in 0 .. MaxDisturbances
  BY BoundsAssumption DEF TypeOK
<1>1. CASE UNCHANGED <<rows, unitCost, bounds>>
  BY <1>0, <1>1 DEF bounds
<1>2. ASSUME NEW p \in Procs, CreateRow(p)
      PROVE  UNCHANGED count /\ rows' \in [Tables -> Nat] /\ unitCost' \in Nat
  <2>1. At(p, "create") BY <1>2 DEF CreateRow
  <2>2. Next1(p) \in Tables BY <1>2, <2>1, CreateFields DEF TodoInv
  <2> DEFINE t == Next1(p)
             n == IF ~(Unique(t) /\ rows[t] > 0) THEN rows[t] + 1 ELSE rows[t]
  <2>3. rows' = [rows EXCEPT ![t] = n] /\ unitCost' \in {SeedCost, unitCost}
        /\ UNCHANGED count
    BY <1>2 DEF CreateRow
  <2>4. n \in Nat BY <1>0, <2>2
  <2> HIDE DEF n, t
  <2> QED BY <1>0, <2>3, <2>4, CostAssumption DEF count
<1>3. ASSUME NEW p \in Procs, Commit(p)
      PROVE  UNCHANGED <<count, unitCost>> /\ rows' \in [Tables -> Nat]
  <2> DEFINE n == IF proc[p].newEnd THEN rows["end_customer"] + 1
                  ELSE rows["end_customer"]
  <2>1. rows' = [rows EXCEPT !["end_customer"] = n] /\ UNCHANGED <<count, unitCost>>
    BY <1>3 DEF Commit
  <2>2. n \in Nat BY <1>0, TablesAre
  <2> HIDE DEF n
  <2> QED BY <1>0, <2>1, <2>2
<1>4. ASSUME submissions < MaxSubmissions, submissions' = submissions + 1,
             UNCHANGED <<rows, unitCost, disturbances>>
      PROVE  rows' \in [Tables -> Nat] /\ unitCost' \in Nat
             /\ submissions' \in 0 .. MaxSubmissions
             /\ disturbances' \in 0 .. MaxDisturbances
  BY <1>0, <1>4
<1>5. ASSUME disturbances < MaxDisturbances, disturbances' = disturbances + 1,
             UNCHANGED <<rows, unitCost, submissions>>
      PROVE  rows' \in [Tables -> Nat] /\ unitCost' \in Nat
             /\ submissions' \in 0 .. MaxSubmissions
             /\ disturbances' \in 0 .. MaxDisturbances
  BY <1>0, <1>5
<1>6. CASE \E p \in Procs : CreateRow(p) \/ Commit(p)
  BY <1>0, <1>2, <1>3, <1>6 DEF count
<1> QED BY <1>1, <1>4, <1>5, <1>6, TableSteps

(* Only a request's own rules change the amount it holds.                  *)
LEMMA LoadedSteps ==
  ASSUME [Next]_vars
  PROVE  \/ UNCHANGED loaded
         \/ \E p \in Requests : ApplyAction(p) \/ SaveApproval(p)
<1>1. ASSUME NEW p \in Procs, Step(p), ~(p \in Requests /\ ApplyAction(p)),
             ~(p \in Requests /\ SaveApproval(p))
      PROVE  UNCHANGED loaded
  <2>1. FindRow(p) \/ GetRow(p) \/ SeedDone(p) \/ GetEndCustomer(p) \/ CreateRow(p)
        => UNCHANGED loaded
    BY DEF FindRow, GetRow, SeedDone, GetEndCustomer, CreateRow, count
  <2>2. Commit(p) \/ RejectNumber(p) \/ RunAutomation(p) \/ NotifyTeam(p) \/ Answer(p)
        => UNCHANGED loaded
    BY DEF Commit, RejectNumber, RunAutomation, NotifyTeam, Answer, count
  <2> QED BY <1>1, <2>1, <2>2 DEF Step
<1>2. ASSUME NEW p, NEW f, Crash(p) \/ Submit(p, f) \/ StartSeed(p) \/ People
      PROVE  UNCHANGED loaded
  BY <1>2 DEF Crash, Submit, StartSeed, People
<1>3. ASSUME UNCHANGED vars PROVE UNCHANGED loaded BY <1>3 DEF vars, count
<1> QED BY <1>1, <1>2, <1>3 DEF Next

LEMMA LoadedTypes ==
  ASSUME TypeOK, OwnInv, [Next]_vars
  PROVE  loaded' \in [Requests -> Nat]
<1>0. loaded \in [Requests -> Nat] BY DEF TypeOK
<1>1. ASSUME NEW p \in Requests, ApplyAction(p) PROVE loaded' \in [Requests -> Nat]
  <2> DEFINE t == proc[p].ticket
             approve == Head(proc[p].do) = "auto_approve_reimbursement"
             m == IF approve /\ tickets[t].reimbursement = Unset
                  THEN ApprovedByRule(t) ELSE tickets[t].reimbursement
             n == IF approve THEN m.requested ELSE loaded[p]
  <2>1. p \in Procs /\ Late(p) BY <1>1, EarlyAt DEF Procs, ApplyAction
  <2>2. t \in DOMAIN tickets BY <2>1 DEF OwnInv
  <2>3. approve => m.requested \in Nat
    <3>1. ApprovedByRule(t) \in Reimbursements BY <2>2, ApprovedByRuleType
    <3>2. ApprovedByRule(t).requested \in Nat BY <3>1 DEF Reimbursements
    <3> QED BY <2>2, <3>2, TicketFields
  <2>4. n \in Nat
    <3> HIDE DEF m, approve
    <3> QED BY <1>0, <2>3
  <2>5. loaded' = [loaded EXCEPT ![p] = n] BY <1>1 DEF ApplyAction
  <2> HIDE DEF n
  <2> QED BY <1>0, <2>4, <2>5
<1>2. ASSUME NEW p \in Requests, SaveApproval(p) PROVE loaded' \in [Requests -> Nat]
  BY <1>0, <1>2 DEF SaveApproval
<1> QED BY <1>0, <1>1, <1>2, LoadedSteps

LEMMA KindTypes ==
  ASSUME TypeOK, Kinds
  PROVE  tickets' \in Seq(TicketRows) /\ proc' \in [Procs -> {Idle, Failed} \cup Busy]
<1>1. ASSUME NEW p \in Procs, Others(p), proc'[p] \in {Idle, Failed} \cup Busy
      PROVE  proc' \in [Procs -> {Idle, Failed} \cup Busy]
  <2>1. {proc'[p], Idle, Failed} \cup Busy = {Idle, Failed} \cup Busy BY <1>1
  <2> QED BY <1>1, <2>1 DEF Others
<1>2. ASSUME NEW p \in Procs, Starting(p) \/ Searching(p) \/ Committing(p)
                              \/ Handling(p) \/ Ending(p)
      PROVE  Others(p) /\ proc'[p] \in {Idle, Failed} \cup Busy
  BY <1>2 DEF Starting, Searching, Committing, Handling, Ending, Moves, Ends, Kin
<1>3. ASSUME NEW p \in Procs, Starting(p) \/ Searching(p) \/ Committing(p)
                              \/ Handling(p) \/ Ending(p)
      PROVE  tickets' \in Seq(TicketRows)
  BY <1>3 DEF Starting, Searching, Committing, Handling, Steady, Ending, Handled,
              OtherRows, TypeOK
<1>4. ASSUME Steady, UNCHANGED proc
      PROVE  tickets' \in Seq(TicketRows) /\ proc' \in [Procs -> {Idle, Failed} \cup Busy]
  BY <1>4 DEF Steady, TypeOK
<1> QED BY <1>1, <1>2, <1>3, <1>4 DEF Kinds

LEMMA FormKept ==
  ASSUME TypeOK, FormInv, Kinds
  PROVE  FormInv'
<1> SUFFICES ASSUME NEW r \in Requests, proc'[r] \in Busy PROVE proc'[r].form \in Forms
  BY DEF FormInv
<1>0. r \in Procs BY DEF Procs
<1>1. Idle.pc = "idle" /\ Failed.pc = "idle" /\ \A b \in Busy : b.pc # "idle"
  BY DEF Idle, Failed, Busy
<1>2. Idle \notin Busy /\ Failed \notin Busy BY <1>1
<1>3. CASE proc'[r] = proc[r] BY <1>3 DEF FormInv
<1>4. ASSUME NEW p \in Procs, Starting(p) \/ Searching(p) \/ Committing(p)
                              \/ Handling(p) \/ Ending(p), p = r
      PROVE  proc'[r].form \in Forms
  BY <1>2, <1>4 DEF Starting, Searching, Committing, Handling, Ending, Moves, Ends,
                    Kin, FormInv
<1>5. ASSUME NEW p \in Procs, Starting(p) \/ Searching(p) \/ Committing(p)
                              \/ Handling(p) \/ Ending(p), p # r
      PROVE  proc'[r] = proc[r]
  BY <1>0, <1>5 DEF Starting, Searching, Committing, Handling, Ending, Moves, Ends, Others
<1> QED BY <1>3, <1>4, <1>5 DEF Kinds

LEMMA TodoKept ==
  ASSUME TypeOK, TodoInv, Kinds
  PROVE  TodoInv'
<1> SUFFICES ASSUME NEW q \in Procs, proc'[q].pc = "create" PROVE proc'[q].todo # <<>>
  BY DEF TodoInv, At
<1>1. Idle.pc = "idle" /\ Failed.pc = "idle" BY DEF Idle, Failed
<1>2. CASE proc'[q] = proc[q] BY <1>2 DEF TodoInv, At
<1>3. ASSUME Starting(q) \/ Searching(q) \/ Committing(q) \/ Handling(q) \/ Ending(q)
      PROVE  proc'[q].todo # <<>>
  BY <1>1, <1>3 DEF Starting, Searching, Committing, Handling, Ending, Moves, Ends, LatePcs
<1>4. ASSUME NEW p \in Procs, Starting(p) \/ Searching(p) \/ Committing(p)
                              \/ Handling(p) \/ Ending(p), p # q
      PROVE  proc'[q] = proc[q]
  BY <1>4 DEF Starting, Searching, Committing, Handling, Ending, Moves, Ends, Others
<1> QED BY <1>2, <1>3, <1>4 DEF Kinds

(* What OwnInv and SoleInv say of a request, in the state after the step.  *)
OwnNext(q) ==
  /\ proc'[q].pc \in EarlyPcs => proc'[q].ticket = 0
  /\ proc'[q].pc \in LatePcs => /\ proc'[q].ticket \in DOMAIN tickets'
                                /\ tickets'[proc'[q].ticket].handling = "running"
  /\ proc'[q].pc = "approve" => tickets'[proc'[q].ticket].reimbursement # Unset

LEMMA EndedNext ==
  ASSUME NEW q, proc'[q] \in {Idle, Failed}
  PROVE  OwnNext(q) /\ proc'[q].pc \notin LatePcs
<1>1. Idle.pc = "idle" /\ Failed.pc = "idle" BY DEF Idle, Failed
<1> QED BY <1>1 DEF OwnNext, EarlyPcs, LatePcs

LEMMA OwnKept ==
  ASSUME TypeOK, OwnInv, SoleInv, Kinds, NEW q \in Procs
  PROVE  OwnNext(q)
<1>0. "approve" \in LatePcs /\ LatePcs \cap EarlyPcs = {} BY DEF EarlyPcs, LatePcs
<1>1. /\ proc[q].pc \in EarlyPcs => proc[q].ticket = 0
      /\ proc[q].pc \in LatePcs => /\ proc[q].ticket \in DOMAIN tickets
                                   /\ tickets[proc[q].ticket].handling = "running"
      /\ proc[q].pc = "approve" => tickets[proc[q].ticket].reimbursement # Unset
  BY DEF OwnInv, Early, Late, At
<1>2. ASSUME NEW p \in Procs, Starting(p) \/ Searching(p) PROVE OwnNext(q)
  <2>1. UNCHANGED tickets /\ Others(p)
    BY <1>2 DEF Starting, Searching, Moves, Ends
  <2>2. CASE p # q
    <3>1. proc'[q] = proc[q] BY <2>1, <2>2 DEF Others
    <3> QED BY <1>1, <2>1, <3>1 DEF OwnNext
  <2>3. CASE p = q /\ Starting(p)
    BY <1>0, <2>3 DEF OwnNext, Starting, EarlyPcs, LatePcs
  <2>4. CASE p = q /\ Searching(p)
    <3>1. CASE Ends(p) BY <2>4, <3>1, EndedNext DEF Ends
    <3>2. CASE ~Ends(p)
      <4>1. Early(p) /\ proc'[p].pc \in EarlyPcs /\ proc'[p].ticket = proc[p].ticket
        BY <2>4, <3>2 DEF Searching, Moves
      <4> QED BY <1>0, <1>1, <2>4, <4>1 DEF OwnNext, Early
    <3> QED BY <3>1, <3>2
  <2> QED BY <1>2, <2>2, <2>3, <2>4
<1>3. ASSUME NEW p \in Procs, Committing(p) PROVE OwnNext(q)
  <2>1. CASE p # q
    <3>1. proc'[q] = proc[q] BY <1>3, <2>1 DEF Committing, Moves, Others
    <3> QED BY <1>0, <1>1, <1>3, <3>1 DEF OwnNext, Committing
  <2>2. CASE p = q
    <3>1. proc'[q].pc = "rules" BY <1>3, <2>2 DEF Committing, Moves
    <3>2. "rules" \notin EarlyPcs BY DEF EarlyPcs
    <3>3. tickets'[Len(tickets) + 1].handling = "running"
      BY <1>3 DEF Committing, Fresh, RowIs
    <3> QED BY <1>3, <2>2, <3>1, <3>2, <3>3 DEF OwnNext, Committing
  <2> QED BY <2>1, <2>2
<1>4. ASSUME Steady, proc'[q].ticket = proc[q].ticket,
             (proc[q].pc \in LatePcs /\ proc'[q].pc \in LatePcs) \/ proc'[q] = proc[q],
             proc'[q].pc = "approve" /\ proc[q].pc # "approve"
               => tickets'[proc[q].ticket].reimbursement # Unset
      PROVE  OwnNext(q)
  BY <1>0, <1>1, <1>4 DEF OwnNext, Steady
<1>5. ASSUME NEW p \in Procs, Handling(p) PROVE OwnNext(q)
  <2>1. Steady /\ Others(p) BY <1>5 DEF Handling, Moves
  <2>2. CASE p # q
    <3>1. proc'[q] = proc[q] BY <2>1, <2>2 DEF Others
    <3> QED BY <1>4, <2>1, <3>1
  <2>3. CASE p = q
    <3>1. /\ proc'[q].ticket = proc[q].ticket
          /\ proc[q].pc \in LatePcs /\ proc'[q].pc \in LatePcs
          /\ proc'[q].pc = "approve" => tickets'[proc[q].ticket].reimbursement # Unset
      BY <1>5, <2>3 DEF Handling, Moves, Late
    <3> QED BY <1>4, <2>1, <3>1
  <2> QED BY <2>2, <2>3
<1>6. ASSUME NEW p \in Procs, Ending(p) PROVE OwnNext(q)
  <2>1. OtherRows(proc[p].ticket) /\ Ends(p) /\ Late(p)
    BY <1>6 DEF Ending, Handled
  <2>2. CASE p # q
    <3>1. proc'[q] = proc[q] BY <2>1, <2>2 DEF Ends, Others
    <3>2. Late(q) => proc[p].ticket # proc[q].ticket BY <2>1, <2>2 DEF SoleInv
    <3> QED BY <1>0, <1>1, <2>1, <3>1, <3>2 DEF OwnNext, OtherRows, Late
  <2>3. CASE p = q BY <2>1, <2>3, EndedNext DEF Ends
  <2> QED BY <2>2, <2>3
<1>7. ASSUME Steady, UNCHANGED proc PROVE OwnNext(q)
  BY <1>4, <1>7
<1> QED BY <1>2, <1>3, <1>5, <1>6, <1>7 DEF Kinds

LEMMA SoleKept ==
  ASSUME TypeOK, OwnInv, SoleInv, Kinds
  PROVE  SoleInv'
<1> SUFFICES ASSUME NEW a \in Procs, NEW b \in Procs, a # b,
                    proc'[a].pc \in LatePcs, proc'[b].pc \in LatePcs
             PROVE  proc'[a].ticket # proc'[b].ticket
  BY DEF SoleInv, Late
<1>0. Idle.pc \notin LatePcs /\ Failed.pc \notin LatePcs /\ LatePcs \cap EarlyPcs = {}
      /\ "catalogue" \notin LatePcs
  BY DEF Idle, Failed, LatePcs, EarlyPcs
<1>1. ASSUME Late(a), Late(b) PROVE proc[a].ticket # proc[b].ticket
  BY <1>1 DEF SoleInv
<1>2. ASSUME NEW q \in Procs, Late(q) PROVE proc[q].ticket \in DOMAIN tickets
  BY <1>2 DEF OwnInv
<1>3. ASSUME NEW p \in Procs, Starting(p) \/ Searching(p) \/ Ending(p), p \in {a, b}
      PROVE  FALSE
  <2>1. proc'[p].pc \notin LatePcs
    BY <1>0, <1>3 DEF Starting, Searching, Ending, Ends, Moves
  <2> QED BY <1>3, <2>1
<1>4. ASSUME NEW p \in Procs, Starting(p) \/ Searching(p) \/ Ending(p) \/ Handling(p)
                              \/ Committing(p),
             NEW q \in {a, b}, q # p
      PROVE  proc'[q] = proc[q]
  BY <1>4 DEF Starting, Searching, Ending, Ends, Moves, Handling, Committing, Others
<1>5. ASSUME NEW p \in Procs, Handling(p), p \in {a, b}
      PROVE  proc'[p].ticket = proc[p].ticket /\ Late(p)
  BY <1>5 DEF Handling
<1>6. ASSUME NEW p \in Procs, Committing(p), p \in {a, b}
      PROVE  proc'[p].ticket \notin DOMAIN tickets
  BY <1>6 DEF Committing
<1>7. ASSUME NEW p \in Procs, Starting(p) \/ Searching(p) \/ Ending(p) \/ Handling(p)
      PROVE  proc'[a].ticket # proc'[b].ticket
  BY <1>1, <1>3, <1>4, <1>5, <1>7 DEF Late
<1>8. ASSUME NEW p \in Procs, Committing(p)
      PROVE  proc'[a].ticket # proc'[b].ticket
  BY <1>1, <1>2, <1>4, <1>6, <1>8 DEF Late
<1>9. ASSUME UNCHANGED proc PROVE proc'[a].ticket # proc'[b].ticket
  BY <1>1, <1>9 DEF Late
<1> QED BY <1>7, <1>8, <1>9 DEF Kinds

LEMMA IntakeInit == Init => IntakeInv
<1> SUFFICES ASSUME Init PROVE IntakeInv
  OBVIOUS
<1>1. Idle.pc = "idle" BY DEF Idle
<1>2. \A p \in Procs : proc[p] = Idle /\ proc[p].pc = "idle" BY <1>1 DEF Init
<1>3. "idle" \notin EarlyPcs \cup LatePcs /\ \A b \in Busy : b.pc # "idle"
  BY DEF EarlyPcs, LatePcs, Busy
<1>4. TypeOK
  <2>1. rows \in [Tables -> Nat] BY DEF Init
  <2>2. unitCost \in Nat BY CostAssumption DEF Init
  <2>3. tickets \in Seq(TicketRows) BY DEF Init
  <2>4. proc \in [Procs -> {Idle, Failed} \cup Busy] BY DEF Init
  <2>5. submissions \in 0 .. MaxSubmissions /\ disturbances \in 0 .. MaxDisturbances
    BY BoundsAssumption DEF Init
  <2>6. loaded \in [Requests -> Nat] BY DEF Init
  <2> QED BY <2>1, <2>2, <2>3, <2>4, <2>5, <2>6 DEF TypeOK
<1>5. FormInv BY <1>2, <1>3 DEF FormInv, Procs
<1>6. TodoInv /\ OwnInv /\ SoleInv
  BY <1>2, <1>3 DEF TodoInv, OwnInv, SoleInv, At, Early, Late
<1> QED BY <1>4, <1>5, <1>6 DEF IntakeInv

LEMMA IntakeStep == IntakeInv /\ [Next]_vars => IntakeInv'
<1> SUFFICES ASSUME IntakeInv, [Next]_vars PROVE IntakeInv'
  OBVIOUS
<1> USE DEF IntakeInv
<1>1. Kinds BY StepKinds
<1>2. TypeOK' BY <1>1, TableTypes, LoadedTypes, KindTypes DEF TypeOK
<1>3. FormInv' /\ TodoInv' BY <1>1, FormKept, TodoKept
<1>4. OwnInv'
  <2>1. \A q \in Procs : OwnNext(q) BY <1>1, OwnKept
  <2> QED BY <2>1 DEF OwnNext, OwnInv, Early, Late, At
<1>5. SoleInv' BY <1>1, SoleKept
<1> QED BY <1>2, <1>3, <1>4, <1>5

(* Tables, tickets and requests hold values of their types.                *)
THEOREM TypeCorrect == Spec => []TypeOK
<1>1. IntakeInv => TypeOK BY DEF IntakeInv
<1> QED BY IntakeInit, IntakeStep, <1>1, PTL DEF Spec
-----------------------------------------------------------------------------
(* The claim's numbers and what staff decide.                              *)
ExposureInv ==
  \A t \in DOMAIN tickets :
    tickets[t].exposure = Exposure(tickets[t].form, tickets[t].cost)

LEMMA HandledClaims ==
  ASSUME NEW p, NEW h, Handled(p, h)
  PROVE  /\ DOMAIN tickets' = DOMAIN tickets
         /\ \A u \in DOMAIN tickets : SameClaim(tickets'[u], tickets[u])
BY DEF Handled, OtherRows, RowIs, SameClaim

LEMMA ExposureKept ==
  ASSUME ExposureInv, Kinds
  PROVE  ExposureInv'
<1>1. ASSUME DOMAIN tickets' = DOMAIN tickets,
             \A u \in DOMAIN tickets : SameClaim(tickets'[u], tickets[u])
      PROVE  ExposureInv'
  BY <1>1 DEF ExposureInv, SameClaim
<1>2. ASSUME NEW p, Committing(p) PROVE ExposureInv'
  BY <1>2 DEF Committing, Fresh, ExposureInv
<1>3. ASSUME UNCHANGED tickets PROVE ExposureInv'
  BY <1>3 DEF ExposureInv
<1>4. ASSUME Steady PROVE ExposureInv' BY <1>1, <1>4 DEF Steady
<1>5. ASSUME NEW p, Ending(p) PROVE ExposureInv'
  BY <1>1, <1>5, HandledClaims DEF Ending
<1> QED BY <1>2, <1>3, <1>4, <1>5 DEF Kinds, Starting, Searching, Handling

(* An exposure not entered is quantity times unit cost to half a cent,     *)
(* whatever the quantity and the cost.                                     *)
THEOREM NearestCent == Spec => []ExposureNearest
<1>1. Init => ExposureInv BY DEF Init, ExposureInv
<1>2. IntakeInv /\ ExposureInv /\ [Next]_vars => ExposureInv'
  BY StepKinds, ExposureKept DEF IntakeInv
<1>3. IntakeInv /\ ExposureInv => ExposureNearest
  <2> SUFFICES ASSUME IntakeInv, ExposureInv, NEW t \in DOMAIN tickets,
                      tickets[t].form.claimed = 0
               PROVE  /\ 100 * tickets[t].exposure
                           <= tickets[t].form.qty * tickets[t].cost + 50
                      /\ tickets[t].form.qty * tickets[t].cost
                           <= 100 * tickets[t].exposure + 50
    BY DEF ExposureNearest
  <2>1. tickets[t].form \in Forms /\ tickets[t].cost \in Nat
    BY TicketFields DEF IntakeInv
  <2>2. tickets[t].form.qty \in Nat BY <2>1, FormsAssumption DEF FormType
  <2> DEFINE n == tickets[t].form.qty * tickets[t].cost
  <2>3. n \in Nat BY <2>1, <2>2
  <2>4. tickets[t].exposure = ToCents(n) BY DEF ExposureInv, Exposure
  <2> HIDE DEF n
  <2>5. 100 * tickets[t].exposure <= n + 50 /\ n <= 100 * tickets[t].exposure + 50
    BY <2>3, <2>4, CentsNearest
  <2> QED BY <2>5 DEF n
<1> QED BY IntakeInit, IntakeStep, <1>1, <1>2, <1>3, PTL DEF Spec

(* Nothing is final before the page is answered.                           *)
StaffRow(r) ==
  /\ r.handling = "running" => r.chosen = Unset /\ ~r.decided
  /\ r.chosen # Unset => r.status = r.chosen
  /\ r.decided => r.reimbursement.by = "finance"

StaffInv == \A t \in DOMAIN tickets : StaffRow(tickets[t])

LEMMA StaffKept ==
  ASSUME TypeOK, OwnInv, StaffInv, Kinds
  PROVE  StaffInv'
<1>1. ASSUME NEW t \in DOMAIN tickets, OtherRows(t), StaffRow(tickets'[t])
      PROVE  StaffInv'
  BY <1>1 DEF OtherRows, StaffInv
<1>2. ASSUME NEW p \in Procs, Late(p)
      PROVE  /\ proc[p].ticket \in DOMAIN tickets
             /\ tickets[proc[p].ticket].handling = "running"
             /\ StaffRow(tickets[proc[p].ticket])
  BY <1>2 DEF OwnInv, StaffInv
<1>3. ASSUME NEW p \in Procs, Committing(p) PROVE StaffInv'
  <2>1. StaffRow(tickets'[Len(tickets) + 1])
    BY <1>3 DEF Committing, Fresh, RowIs, StaffRow
  <2> QED BY <1>3, <2>1 DEF Committing, StaffInv
<1>4. ASSUME UNCHANGED tickets PROVE StaffInv' BY <1>4 DEF StaffInv
<1>5. ASSUME NEW p \in Procs, Late(p), Worked(p) PROVE StaffInv'
  <2>1. StaffRow(tickets'[proc[p].ticket])
    BY <1>2, <1>5 DEF Worked, RowIs, StaffRow
  <2>2. OtherRows(proc[p].ticket) BY <1>5 DEF Worked
  <2> QED BY <1>1, <1>2, <1>5, <2>1, <2>2
<1>6. ASSUME NEW p \in Procs, Ending(p) PROVE StaffInv'
  <2>1. PICK h \in Handlings : Handled(p, h) BY <1>6 DEF Ending
  <2>2. Late(p) BY <1>6 DEF Ending
  <2>3. StaffRow(tickets'[proc[p].ticket]) /\ OtherRows(proc[p].ticket)
    BY <1>2, <2>1, <2>2 DEF Handled, RowIs, StaffRow
  <2> QED BY <1>1, <1>2, <2>2, <2>3
<1>7. ASSUME NEW t \in DOMAIN tickets, Touched(t) PROVE StaffInv'
  <2>1. StaffRow(tickets[t]) BY DEF StaffInv
  <2>2. StaffRow(tickets'[t])
    BY <1>7, <2>1 DEF Touched, RowIs, StaffRow, ByFinance
  <2> QED BY <1>1, <1>7, <2>2 DEF Touched
<1> QED BY <1>3, <1>4, <1>5, <1>6, <1>7 DEF Kinds, Starting, Searching, Handling

(* What staff decide after the page was answered, about the status or the  *)
(* money, no rule overwrites: every write of a request's rules comes       *)
(* before its answer, and it has one ticket to itself.                     *)
THEOREM StaffDecides == Spec => []StaffHasLastWord
<1>1. Init => StaffInv BY DEF Init, StaffInv
<1>2. IntakeInv /\ StaffInv /\ [Next]_vars => StaffInv'
  BY StepKinds, StaffKept DEF IntakeInv
<1>3. StaffInv => StaffHasLastWord BY DEF StaffInv, StaffRow, StaffHasLastWord
<1> QED BY IntakeInit, IntakeStep, <1>1, <1>2, <1>3, PTL DEF Spec
-----------------------------------------------------------------------------
(* The rules' break.  It keeps the three decisions apart only where no     *)
(* rule takes two of them by itself and approval is for small claims, of   *)
(* which a rule on photos comes first: so do the rules seed_nexus enters.  *)
Does(i) == {Rules[i].do[k] : k \in DOMAIN Rules[i].do}
Deciding == {"request_evidence", "route_logistics_queue", "auto_approve_reimbursement"}

SeparateRules ==
  \A i \in DOMAIN Rules :
    /\ \A a, b \in Does(i) \cap Deciding : a = b
    /\ "auto_approve_reimbursement" \in Does(i) =>
         /\ Rules[i].type = "small_claim_amount"
         /\ \E j \in 1 .. i - 1 : Rules[j].type = "missing_attachments"

Small(x) ==
  \E i \in DOMAIN Rules : Rules[i].type = "small_claim_amount" /\ x <= Rules[i].bound

(* All that was decided of a ticket is in D, the actions of one rule.      *)
Granted(r, D) ==
  /\ \A a, b \in D \cap Deciding : a = b
  /\ "auto_approve_reimbursement" \in D => r.files /\ Small(r.exposure)
  /\ r.asked => "request_evidence" \in D
  /\ r.logistics => "route_logistics_queue" \in D
  /\ LET money == r.reimbursement
     IN  money # Unset =>
           /\ money.by # "finance" => "auto_approve_reimbursement" \in D
           /\ money.by = "rule"
                => money.requested = r.exposure /\ money.approved = r.exposure

(* What a request has still to do is in D too, and before its rules ran D  *)
(* is empty.                                                               *)
Within(r, D) ==
  /\ r.pc = "rules" => D = {}
  /\ r.pc # "rules" => \A k \in DOMAIN r.do : r.do[k] \in D
  /\ r.pc = "approve" => "auto_approve_reimbursement" \in D

GovernInv ==
  \A t \in DOMAIN tickets : \E D \in SUBSET Actions :
    /\ Granted(tickets[t], D)
    /\ \A p \in Procs : Late(p) /\ proc[p].ticket = t => Within(proc[p], D)

(* The amount a request is about to save over a rule's own row is the      *)
(* claim's exposure.                                                       *)
LoadedInv ==
  \A p \in Requests :
    LET r == tickets[proc[p].ticket]
    IN  At(p, "approve") /\ r.reimbursement.by = "rule" => loaded[p] = r.exposure

(* The first rule that matches: its actions are of one rule, and if they   *)
(* approve then no rule on photos matched and the claim is small.          *)
LEMMA FirstRule ==
  ASSUME SeparateRules, TypeOK, NEW t \in DOMAIN tickets
  PROVE  LET do == ActionsFor(t)
             D == {do[k] : k \in DOMAIN do}
         IN  /\ D \in SUBSET Actions
             /\ \A a, b \in D \cap Deciding : a = b
             /\ "auto_approve_reimbursement" \in D
                  => tickets[t].files /\ Small(tickets[t].exposure)
<1> DEFINE do == ActionsFor(t)
           D == {do[k] : k \in DOMAIN do}
           hits == {i \in DOMAIN Rules : Matches(Rules[i], t)}
<1>1. D \in SUBSET Actions
  <2>1. do \in Seq(Actions) BY ActionsForSeq
  <2> HIDE DEF do
  <2> QED BY <2>1, LenProperties, ElementOfSeq
<1>2. CASE hits = {}
  <2>1. do = <<>> BY <1>2 DEF ActionsFor
  <2>2. D = {} BY <2>1
  <2> HIDE DEF D
  <2>3. /\ D \in SUBSET Actions
        /\ \A a, b \in D \cap Deciding : a = b
        /\ "auto_approve_reimbursement" \notin D
    BY <2>2
  <2> QED BY <2>3 DEF D
<1>3. CASE hits # {}
  <2> DEFINE i == Min(hits)
  <2>1. DOMAIN Rules \in SUBSET Nat /\ DOMAIN Rules = 1 .. Len(Rules) /\ Len(Rules) \in Nat
    BY RulesAssumption, LenProperties
  <2>2. hits \in SUBSET Nat BY <2>1
  <2>3. i \in hits /\ \A y \in hits : i <= y BY <1>3, <2>2, MinProperty
  <2>4. D = Does(i)
    <3>1. do = Rules[i].do BY <1>3 DEF ActionsFor
    <3> QED BY <3>1 DEF Does
  <2> HIDE DEF D, i
  <2>5. i \in DOMAIN Rules BY <2>3
  <2>6. \A a, b \in D \cap Deciding : a = b BY <2>4, <2>5 DEF SeparateRules
  <2>7. ASSUME "auto_approve_reimbursement" \in D
        PROVE  tickets[t].files /\ Small(tickets[t].exposure)
    <3>1. /\ Rules[i].type = "small_claim_amount"
          /\ \E j \in 1 .. i - 1 : Rules[j].type = "missing_attachments"
      BY <2>4, <2>5, <2>7 DEF SeparateRules
    <3>2. PICK j \in 1 .. i - 1 : Rules[j].type = "missing_attachments" BY <3>1
    <3>3. j \in DOMAIN Rules /\ ~(i <= j) BY <2>1, <2>5, <3>2
    <3>4. ~Matches(Rules[j], t) BY <2>3, <3>3
    <3>5. tickets[t].files BY <3>2, <3>4 DEF Matches
    <3>6. Matches(Rules[i], t) BY <2>3
    <3>7. tickets[t].exposure <= Rules[i].bound
      BY <3>1, <3>6 DEF Matches, SmallEnough
    <3> QED BY <2>5, <3>1, <3>5, <3>7 DEF Small
  <2> QED BY <1>1, <2>6, <2>7 DEF D
<1> QED BY <1>2, <1>3

GovernNext(t) ==
  \E D \in SUBSET Actions :
    /\ Granted(tickets'[t], D)
    /\ \A p \in Procs :
         proc'[p].pc \in LatePcs /\ proc'[p].ticket = t => Within(proc'[p], D)

(* A ticket whose request does not move keeps its rule.                    *)
LEMMA GovernOther ==
  ASSUME GovernInv, NEW p \in Procs, Others(p), NEW t \in DOMAIN tickets,
         proc'[p].pc \in LatePcs => proc'[p].ticket # t,
         \A D \in SUBSET Actions : Granted(tickets[t], D) => Granted(tickets'[t], D)
  PROVE  GovernNext(t)
<1>1. PICK D \in SUBSET Actions :
        /\ Granted(tickets[t], D)
        /\ \A q \in Procs : Late(q) /\ proc[q].ticket = t => Within(proc[q], D)
  BY DEF GovernInv
<1>2. Granted(tickets'[t], D) BY <1>1
<1>3. ASSUME NEW q \in Procs, proc'[q].pc \in LatePcs, proc'[q].ticket = t
      PROVE  Within(proc'[q], D)
  <2>1. q # p BY <1>3
  <2>2. proc'[q] = proc[q] BY <2>1 DEF Others
  <2> QED BY <1>1, <1>3, <2>2 DEF Late
<1> QED BY <1>2, <1>3 DEF GovernNext

(* A ticket on which only p works.                                         *)
LEMMA GovernOwn ==
  ASSUME SoleInv, NEW p \in Procs, Late(p), Others(p), NEW D \in SUBSET Actions,
         Granted(tickets'[proc[p].ticket], D), Within(proc'[p], D)
  PROVE  GovernNext(proc[p].ticket)
<1> SUFFICES ASSUME NEW q \in Procs, proc'[q].pc \in LatePcs,
                    proc'[q].ticket = proc[p].ticket, q # p
             PROVE  FALSE
  BY DEF GovernNext
<1>1. proc'[q] = proc[q] BY DEF Others
<1> QED BY <1>1 DEF SoleInv, Late

LEMMA GovernWorking ==
  ASSUME SeparateRules, IntakeInv, GovernInv, LoadedInv, NEW p \in Procs, Handling(p)
  PROVE  GovernNext(proc[p].ticket)
<1> DEFINE t == proc[p].ticket
           r == tickets[t]
<1>1. Late(p) /\ Others(p) /\ Working(p) /\ p \in Requests
  BY DEF Handling, Moves, Working
<1>2. t \in DOMAIN tickets BY <1>1 DEF IntakeInv, OwnInv
<1>3. PICK D \in SUBSET Actions : Granted(r, D) /\ Within(proc[p], D)
  BY <1>1, <1>2 DEF GovernInv
<1>4. r \in TicketRows /\ r.exposure \in Nat
  BY <1>2, TicketFields DEF IntakeInv
<1>5. CASE RunAutomation(p)
  <2> DEFINE do == ActionsFor(t)
             E == {do[k] : k \in DOMAIN do}
  <2>1. /\ E \in SUBSET Actions
        /\ \A a, b \in E \cap Deciding : a = b
        /\ "auto_approve_reimbursement" \in E => r.files /\ Small(r.exposure)
    BY <1>2, FirstRule DEF IntakeInv
  <2>2. D = {} BY <1>3, <1>5 DEF RunAutomation, Within, At
  <2>3. proc'[p].pc = "act" /\ proc'[p].do = do
    BY <1>5, RulesFields DEF IntakeInv, Moves
  <2>4. tickets'[t] = r BY <1>5 DEF RunAutomation
  <2> HIDE DEF r
  <2>5. Within(proc'[p], E) BY <2>3 DEF Within
  <2> HIDE DEF E
  <2>6. Granted(r, E) BY <1>3, <2>1, <2>2 DEF Granted
  <2> QED BY <1>1, <2>1, <2>4, <2>5, <2>6, GovernOwn DEF IntakeInv
<1>6. CASE ApplyAction(p)
  <2> DEFINE a == Head(proc[p].do)
             m == IF a = "auto_approve_reimbursement" /\ r.reimbursement = Unset
                  THEN ApprovedByRule(t) ELSE r.reimbursement
  <2>1. /\ proc'[p].pc = IF a = "auto_approve_reimbursement" THEN "approve" ELSE "act"
        /\ At(p, "act") /\ proc[p].do # <<>> /\ proc'[p].do = Tail(proc[p].do)
        /\ proc[p] \in Busy
    BY <1>6, ActionFields DEF IntakeInv, Moves
  <2>2. proc[p].do \in Seq(Actions) BY <2>1, Fields
  <2>3. \A k \in DOMAIN proc[p].do : proc[p].do[k] \in D
    BY <1>3, <2>1 DEF Within, At
  <2>4. a \in D /\ \A k \in DOMAIN Tail(proc[p].do) : Tail(proc[p].do)[k] \in D
    BY <2>1, <2>2, <2>3, HeadTailProperties, LenProperties
  <2>5. PICK w :
          RowIs(tickets'[t], r, r.files, w, r.logistics \/ a = "route_logistics_queue",
                r.asked \/ a = "request_evidence", m, r.handling, r.chosen, r.decided)
    BY <1>2, <1>6, ActionStep DEF IntakeInv
  <2>6. Within(proc'[p], D)
    <3> HIDE DEF a
    <3> QED BY <2>1, <2>4 DEF Within
  <2>7. m # r.reimbursement =>
          /\ "auto_approve_reimbursement" \in D
          /\ m.requested = r.exposure /\ m.approved = r.exposure
    BY <2>4 DEF ApprovedByRule
  <2> HIDE DEF a, m, r
  <2>8. Granted(tickets'[t], D)
    BY <1>3, <2>4, <2>5, <2>7 DEF Granted, RowIs, SameClaim
  <2> QED BY <1>1, <2>6, <2>8, GovernOwn DEF IntakeInv
<1>7. CASE SaveApproval(p)
  <2> DEFINE m == Approved(r.reimbursement, loaded[p], r.exposure)
  <2>1. At(p, "approve") /\ Goto(p, "act") BY <1>7 DEF SaveApproval
  <2>2. loaded[p] \in Nat BY <1>1 DEF IntakeInv, TypeOK
  <2>3. r.reimbursement.by = "rule" => loaded[p] = r.exposure
    BY <1>1, <2>1 DEF LoadedInv
  <2>4. proc'[p].pc = "act" /\ proc'[p].do = proc[p].do
    BY <1>1, <2>1, GotoFields DEF IntakeInv, Moves, LatePcs
  <2>5. "auto_approve_reimbursement" \in D /\ Within(proc'[p], D)
    BY <1>3, <2>1, <2>4 DEF Within, At
  <2>6. RowIs(tickets'[t], r, r.files, r.status, r.logistics, r.asked, m,
              r.handling, r.chosen, r.decided)
    BY <1>1, <1>2, <1>7, ApprovalStep DEF IntakeInv
  <2>7. m.by = "rule" => m.requested = r.exposure /\ m.approved = r.exposure
    <3>1. /\ m.requested = loaded[p]
          /\ m.approved = IF loaded[p] = 0 THEN r.exposure ELSE loaded[p]
          /\ m.by = "rule" => r.reimbursement.by = "rule"
      <4> HIDE DEF r
      <4> QED BY DEF Approved
    <3> HIDE DEF m, r
    <3> QED BY <2>3, <3>1
  <2> HIDE DEF m, r
  <2>8. Granted(tickets'[t], D)
    BY <1>3, <2>5, <2>6, <2>7 DEF Granted, RowIs, SameClaim
  <2> QED BY <1>1, <2>5, <2>8, GovernOwn DEF IntakeInv
<1>8. CASE NotifyTeam(p)
  <2>1. At(p, "act") /\ Goto(p, "answer") /\ tickets' = tickets
    BY <1>8 DEF NotifyTeam, RulesDone
  <2>2. proc'[p].pc = "answer" /\ proc'[p].do = proc[p].do
    BY <1>1, <2>1, GotoFields DEF IntakeInv, Moves, LatePcs
  <2>3. Within(proc'[p], D) BY <1>3, <2>1, <2>2 DEF Within, At
  <2> QED BY <1>1, <1>3, <2>1, <2>3, GovernOwn DEF IntakeInv
<1> QED BY <1>1, <1>5, <1>6, <1>7, <1>8 DEF Working

LEMMA GovernKept ==
  ASSUME SeparateRules, IntakeInv, GovernInv, LoadedInv, Kinds
  PROVE  GovernInv'
<1> SUFFICES ASSUME NEW t \in DOMAIN tickets' PROVE GovernNext(t)
  BY DEF GovernInv, GovernNext, Late
<1>0. /\ Idle.pc \notin LatePcs /\ Failed.pc \notin LatePcs
      /\ "catalogue" \notin LatePcs /\ LatePcs \cap EarlyPcs = {}
  BY DEF Idle, Failed, LatePcs, EarlyPcs
<1>1. ASSUME NEW p \in Procs, Starting(p) \/ Searching(p) PROVE GovernNext(t)
  <2>1. Others(p) /\ UNCHANGED tickets /\ proc'[p].pc \notin LatePcs
    BY <1>0, <1>1 DEF Starting, Searching, Moves, Ends
  <2> QED BY <2>1, GovernOther
<1>2. ASSUME NEW p \in Procs, Committing(p) PROVE GovernNext(t)
  <2> DEFINE n == Len(tickets) + 1
  <2>1. /\ Others(p) /\ proc'[p].pc = "rules" /\ proc'[p].ticket = n
        /\ DOMAIN tickets' = DOMAIN tickets \cup {n} /\ n \notin DOMAIN tickets
        /\ \A u \in DOMAIN tickets : tickets'[u] = tickets[u]
        /\ Fresh(tickets'[n])
    BY <1>2 DEF Committing, Moves
  <2> HIDE DEF n
  <2>2. CASE t # n
    <3>1. t \in DOMAIN tickets /\ tickets'[t] = tickets[t] BY <2>1, <2>2
    <3> QED BY <2>1, <2>2, <3>1, GovernOther
  <2>3. CASE t = n
    <3>1. Granted(tickets'[n], {})
      BY <2>1 DEF Fresh, RowIs, Granted
    <3>2. ASSUME NEW q \in Procs, proc'[q].pc \in LatePcs, proc'[q].ticket = n
          PROVE  Within(proc'[q], {})
      <4>1. CASE q = p BY <2>1, <4>1 DEF Within
      <4>2. CASE q # p
        <5>1. proc'[q] = proc[q] BY <2>1, <4>2 DEF Others
        <5> QED BY <2>1, <3>2, <5>1 DEF IntakeInv, OwnInv, Late
      <4> QED BY <4>1, <4>2
    <3> QED BY <2>3, <3>1, <3>2 DEF GovernNext
  <2> QED BY <2>2, <2>3
<1>3. ASSUME NEW p \in Procs, Handling(p) PROVE GovernNext(t)
  <2>1. /\ Others(p) /\ Late(p) /\ proc'[p].ticket = proc[p].ticket
        /\ UNCHANGED tickets \/ OtherRows(proc[p].ticket)
        /\ t \in DOMAIN tickets
    BY <1>3 DEF Handling, Moves, Worked, Steady
  <2>2. CASE t = proc[p].ticket BY <1>3, <2>2, GovernWorking
  <2>3. CASE t # proc[p].ticket
    <3>1. tickets'[t] = tickets[t] BY <2>1, <2>3 DEF OtherRows
    <3> QED BY <2>1, <2>3, <3>1, GovernOther
  <2> QED BY <2>2, <2>3
<1>4. ASSUME NEW p \in Procs, Ending(p) PROVE GovernNext(t)
  <2>1. PICK h \in Handlings : Handled(p, h) BY <1>4 DEF Ending
  <2>2. Others(p) /\ proc'[p].pc \notin LatePcs BY <1>0, <1>4 DEF Ending, Ends
  <2>3. t \in DOMAIN tickets BY <2>1 DEF Handled, OtherRows
  <2>4. \A D \in SUBSET Actions : Granted(tickets[t], D) => Granted(tickets'[t], D)
    <3>1. CASE t = proc[p].ticket
      <4> DEFINE r == tickets[t]
                 s == tickets'[t]
      <4>1. /\ s.reimbursement = r.reimbursement /\ s.asked = r.asked
            /\ s.logistics = r.logistics /\ s.files = r.files /\ s.exposure = r.exposure
        BY <2>1, <3>1 DEF Handled, RowIs, SameClaim
      <4> HIDE DEF r, s
      <4>2. \A D \in SUBSET Actions : Granted(r, D) => Granted(s, D)
        BY <4>1 DEF Granted
      <4> QED BY <4>2 DEF r, s
    <3>2. CASE t # proc[p].ticket
      <4>1. tickets'[t] = tickets[t] BY <2>1, <2>3, <3>2 DEF Handled, OtherRows
      <4> QED BY <4>1
    <3> QED BY <3>1, <3>2
  <2> QED BY <2>2, <2>3, <2>4, GovernOther
<1>5. ASSUME NEW u \in DOMAIN tickets, Touched(u), UNCHANGED proc PROVE GovernNext(t)
  <2>1. OtherRows(u) /\ t \in DOMAIN tickets BY <1>5 DEF Touched, OtherRows
  <2>2. ASSUME NEW D \in SUBSET Actions, Granted(tickets[t], D)
        PROVE  Granted(tickets'[t], D)
    <3>1. CASE t # u
      <4>1. tickets'[t] = tickets[t] BY <2>1, <3>1 DEF OtherRows
      <4> QED BY <2>2, <4>1
    <3>2. CASE t = u
      <4> DEFINE r == tickets[t]
                 s == tickets'[t]
      <4>1. CASE RowIs(s, r, TRUE, r.status, r.logistics, r.asked,
                       r.reimbursement, r.handling, r.chosen, r.decided)
        BY <2>2, <4>1 DEF RowIs, SameClaim, Granted
      <4>2. ASSUME NEW w,
                   RowIs(s, r, r.files, w, r.logistics, r.asked, r.reimbursement,
                         r.handling, IF r.handling = "running" THEN r.chosen ELSE w,
                         r.decided)
            PROVE  Granted(s, D)
        BY <2>2, <4>2 DEF RowIs, SameClaim, Granted
      <4>3. ASSUME NEW m, ByFinance(m),
                   RowIs(s, r, r.files, r.status, r.logistics, r.asked, m,
                         r.handling, r.chosen, r.handling # "running")
            PROVE  Granted(s, D)
        <5>1. m.by = "finance" BY <4>3 DEF ByFinance
        <5>2. /\ s.reimbursement = m /\ s.asked = r.asked /\ s.logistics = r.logistics
              /\ s.files = r.files /\ s.exposure = r.exposure
          BY <4>3 DEF RowIs, SameClaim
        <5>3. Granted(r, D) BY <2>2
        <5> HIDE DEF r, s
        <5> QED BY <5>1, <5>2, <5>3 DEF Granted
      <4> QED BY <1>5, <3>2, <4>1, <4>2, <4>3 DEF Touched
    <3> QED BY <3>1, <3>2
  <2>3. PICK D \in SUBSET Actions :
          /\ Granted(tickets[t], D)
          /\ \A q \in Procs : Late(q) /\ proc[q].ticket = t => Within(proc[q], D)
    BY <2>1 DEF GovernInv
  <2> QED BY <1>5, <2>2, <2>3 DEF GovernNext, Late
<1>6. ASSUME UNCHANGED <<tickets, proc>> PROVE GovernNext(t)
  BY <1>6 DEF GovernInv, GovernNext, Late
<1> QED BY <1>1, <1>2, <1>3, <1>4, <1>5, <1>6 DEF Kinds

(* A request comes to its approval by getting the row; after that only     *)
(* finance changes the row, and takes it from the rule.                    *)
LEMMA LoadedKept ==
  ASSUME IntakeInv, GovernInv, LoadedInv, Kinds, [Next]_vars
  PROVE  LoadedInv'
<1> SUFFICES ASSUME NEW p \in Requests, proc'[p].pc = "approve",
                    tickets'[proc'[p].ticket].reimbursement.by = "rule"
             PROVE  loaded'[p] = tickets'[proc'[p].ticket].exposure
  BY DEF LoadedInv, At
<1>0. p \in Procs /\ TypeOK /\ OwnInv /\ SoleInv BY DEF Procs, IntakeInv
<1> DEFINE t == proc[p].ticket
           r == tickets[t]
           s == tickets'[t]
<1>1. CASE ApplyAction(p)
  <2> DEFINE a == Head(proc[p].do)
             approve == a = "auto_approve_reimbursement"
             m == IF approve /\ r.reimbursement = Unset
                  THEN ApprovedByRule(t) ELSE r.reimbursement
  <2>1. approve /\ proc'[p].ticket = t BY <1>0, <1>1, ActionFields DEF Moves
  <2>2. Late(p) BY <1>1, EarlyAt DEF ApplyAction
  <2>3. t \in DOMAIN tickets BY <1>0, <2>2 DEF OwnInv
  <2>4. s.reimbursement = m /\ s.exposure = r.exposure
    BY <1>0, <1>1, <2>3, ActionStep DEF RowIs, SameClaim
  <2>5. m.by = "rule" => m.requested = r.exposure
    <3>1. PICK D \in SUBSET Actions : Granted(r, D) BY <2>3 DEF GovernInv
    <3>2. ApprovedByRule(t).requested = r.exposure BY DEF ApprovedByRule
    <3> HIDE DEF r, a
    <3> QED BY <2>1, <3>1, <3>2 DEF Granted
  <2>6. loaded'[p] = m.requested
    <3>1. loaded \in [Requests -> Nat] BY <1>0 DEF TypeOK
    <3>2. loaded' = [loaded EXCEPT ![p] = m.requested] BY <1>1, <2>1 DEF ApplyAction
    <3> HIDE DEF m
    <3> QED BY <3>1, <3>2
  <2> HIDE DEF m
  <2> QED BY <2>1, <2>4, <2>5, <2>6
<1>2. CASE ~ApplyAction(p)
  <2>0. Idle.pc = "idle" /\ Failed.pc = "idle" /\ "approve" \notin EarlyPcs
    BY DEF Idle, Failed, EarlyPcs
  <2>1. ASSUME Starting(p) \/ Searching(p) \/ Committing(p) \/ Ending(p) PROVE FALSE
    BY <2>0, <2>1 DEF Starting, Searching, Committing, Ending, Moves, Ends
  <2>2. ASSUME Handling(p) PROVE FALSE
    <3>1. CASE RunAutomation(p) BY <1>0, <3>1, RulesFields DEF Moves
    <3>2. CASE SaveApproval(p) \/ NotifyTeam(p)
      <4>1. Goto(p, "act") \/ Goto(p, "answer") BY <3>2 DEF SaveApproval, NotifyTeam
      <4> QED BY <1>0, <2>2, <4>1, GotoFields DEF Handling, Moves, LatePcs
    <3> QED BY <1>2, <2>2, <3>1, <3>2 DEF Handling, Working
  <2>3. ~SaveApproval(p)
    <3>1. ASSUME SaveApproval(p) PROVE Handling(p)
      BY <1>0, <3>1, HandleSteps DEF Working
    <3> QED BY <2>2, <3>1
  <2>4. loaded'[p] = loaded[p]
    <3>1. loaded \in [Requests -> Nat] BY <1>0 DEF TypeOK
    <3>2. ASSUME NEW q \in Requests, q # p, ApplyAction(q) \/ SaveApproval(q)
          PROVE  loaded'[p] = loaded[p]
      <4>1. \E n : loaded' = [loaded EXCEPT ![q] = n]
        BY <3>2 DEF ApplyAction, SaveApproval
      <4> QED BY <3>1, <3>2, <4>1
    <3> QED BY <1>2, <2>3, <3>2, LoadedSteps
  <2>5. ASSUME NEW q \in Procs, Starting(q) \/ Searching(q) \/ Committing(q)
                                \/ Handling(q) \/ Ending(q)
        PROVE  q # p /\ Others(q)
    BY <2>1, <2>2, <2>5
       DEF Starting, Searching, Committing, Handling, Ending, Moves, Ends
  <2>6. proc'[p] = proc[p]
    BY <1>0, <2>5 DEF Kinds, Others
  <2>7. Late(p) /\ At(p, "approve") BY <2>6 DEF Late, At, LatePcs
  <2>8. t \in DOMAIN tickets BY <1>0, <2>7 DEF OwnInv
  <2>9. s.exposure = r.exposure /\ (s.reimbursement.by = "rule"
                                     => s.reimbursement = r.reimbursement)
    <3>1. ASSUME NEW q \in Procs, Starting(q) \/ Searching(q) \/ Committing(q)
          PROVE  s = r
      BY <2>8, <3>1 DEF Starting, Searching, Committing
    <3>2. ASSUME NEW q \in Procs, Handling(q) \/ Ending(q) PROVE s = r
      <4>1. q # p /\ Late(q) BY <2>5, <3>2 DEF Handling, Ending
      <4>2. proc[q].ticket # t BY <1>0, <2>7, <4>1 DEF SoleInv
      <4> QED BY <2>8, <3>2, <4>2 DEF Handling, Ending, Worked, Handled, OtherRows
    <3>3. ASSUME NEW u \in DOMAIN tickets, Touched(u)
          PROVE  s.exposure = r.exposure /\ (s.reimbursement.by = "rule"
                                              => s.reimbursement = r.reimbursement)
      <4>1. CASE u # t BY <2>8, <3>3, <4>1 DEF Touched, OtherRows
      <4>2. CASE u = t
        BY <3>3, <4>2 DEF Touched, RowIs, SameClaim, ByFinance
      <4> QED BY <4>1, <4>2
    <3> QED BY <3>1, <3>2, <3>3 DEF Kinds
  <2>10. s.reimbursement.by = "rule" BY <2>6
  <2>11. loaded[p] = r.exposure BY <2>7, <2>9, <2>10 DEF LoadedInv
  <2> QED BY <2>4, <2>6, <2>9, <2>11
<1> QED BY <1>1, <1>2

(* One rule decides: a claim asked for evidence went neither to logistics  *)
(* nor was approved by a rule, whatever finance approved or rejected       *)
(* before or after; a rule approves only claims with photos, small ones,   *)
(* and no amount above their limit unless finance had entered one.         *)
THEOREM OneRule ==
  ASSUME SeparateRules
  PROVE  Spec => []OneRuleApplied
<1>0. "request_evidence" \in Deciding /\ "route_logistics_queue" \in Deciding
      /\ "auto_approve_reimbursement" \in Deciding
  BY DEF Deciding
<1>1. Init => GovernInv /\ LoadedInv
  <2> SUFFICES ASSUME Init PROVE GovernInv /\ LoadedInv
    OBVIOUS
  <2>1. Idle.pc = "idle" BY DEF Idle
  <2>2. \A p \in Requests : proc[p].pc = "idle" BY <2>1 DEF Init, Procs
  <2> QED BY <2>2 DEF Init, GovernInv, LoadedInv, At
<1>2. IntakeInv /\ GovernInv /\ LoadedInv /\ [Next]_vars => GovernInv' /\ LoadedInv'
  BY StepKinds, GovernKept, LoadedKept DEF IntakeInv
<1>3. IntakeInv /\ GovernInv => OneRuleApplied
  <2> SUFFICES ASSUME IntakeInv, GovernInv, NEW t \in DOMAIN tickets
               PROVE  LET money == tickets[t].reimbursement
                      IN /\ ~(tickets[t].asked /\ tickets[t].logistics)
                         /\ money # Unset /\ money.by # "finance" =>
                              /\ ~tickets[t].asked /\ ~tickets[t].logistics
                              /\ tickets[t].files
                              /\ Small(tickets[t].exposure)
                         /\ money # Unset /\ money.by = "rule"
                              => Small(money.approved)
    BY DEF OneRuleApplied, Small
  <2>1. PICK D \in SUBSET Actions : Granted(tickets[t], D) BY DEF GovernInv
  <2> QED BY <1>0, <2>1 DEF Granted
<1> QED BY IntakeInit, IntakeStep, <1>1, <1>2, <1>3, PTL DEF Spec
-----------------------------------------------------------------------------
(* Rows of the catalogue.  No unique name is there twice, what was there   *)
(* when a request began is there still, and it inserts no row without      *)
(* constraint that it saw then.                                            *)
RowsInv ==
  /\ \A t \in Tables : Unique(t) => rows[t] <= 1
  /\ \A p \in Procs :
       /\ Early(p) => \A t \in proc[p].before : rows[t] > 0
       /\ At(p, "create") => Unique(Next1(p)) \/ Next1(p) \notin proc[p].before
       /\ At(p, "submit") /\ proc[p].newEnd => "end_customer" \notin proc[p].before

(* A table only grows, by an insert or by a commit.                        *)
Inserts(p, t) ==
  /\ CreateRow(p) /\ At(p, "create") /\ t = Next1(p)
  /\ Unique(t) => rows[t] = 0
  /\ rows'[t] = rows[t] + 1

CommitsEnd(p, t) ==
  Commit(p) /\ At(p, "submit") /\ proc[p].newEnd /\ t = "end_customer"

LEMMA RowsGrow ==
  ASSUME IntakeInv, [Next]_vars, NEW t \in Tables
  PROVE  /\ rows[t] \in Nat /\ rows'[t] \in Nat /\ rows'[t] >= rows[t]
         /\ rows'[t] > rows[t] => \E p \in Procs : Inserts(p, t) \/ CommitsEnd(p, t)
<1>0. rows \in [Tables -> Nat] /\ rows[t] \in Nat BY DEF IntakeInv, TypeOK
<1>1. CASE UNCHANGED rows BY <1>0, <1>1
<1>2. ASSUME NEW p \in Procs, CreateRow(p)
      PROVE  rows'[t] = rows[t] \/ Inserts(p, t)
  <2> DEFINE u == Next1(p)
             n == IF ~(Unique(u) /\ rows[u] > 0) THEN rows[u] + 1 ELSE rows[u]
  <2>1. At(p, "create") /\ rows' = [rows EXCEPT ![u] = n] BY <1>2 DEF CreateRow
  <2>2. CASE t # u
    <3> HIDE DEF n, u
    <3> QED BY <1>0, <2>1, <2>2
  <2>3. CASE t = u
    <3>1. rows'[t] = n
      <4> HIDE DEF n, u
      <4> QED BY <1>0, <2>1, <2>3
    <3>2. n = rows[t] \/ (n = rows[t] + 1 /\ (Unique(t) => rows[t] = 0))
      BY <1>0, <2>3
    <3> QED BY <1>2, <2>1, <2>3, <3>1, <3>2 DEF Inserts
  <2> QED BY <2>2, <2>3
<1>3. ASSUME NEW p \in Procs, Commit(p)
      PROVE  rows'[t] = rows[t] \/ (rows'[t] = rows[t] + 1 /\ CommitsEnd(p, t))
  <2> DEFINE n == IF proc[p].newEnd THEN rows["end_customer"] + 1
                  ELSE rows["end_customer"]
  <2>1. At(p, "submit") /\ rows' = [rows EXCEPT !["end_customer"] = n]
    BY <1>3 DEF Commit
  <2>2. rows'[t] = IF t = "end_customer" THEN n ELSE rows[t]
    <3> HIDE DEF n
    <3> QED BY <1>0, <2>1
  <2> QED BY <1>3, <2>1, <2>2 DEF CommitsEnd
<1>4. UNCHANGED rows \/ \E p \in Procs : CreateRow(p) \/ Commit(p)
  BY TableSteps
<1> QED BY <1>0, <1>1, <1>2, <1>3, <1>4 DEF Inserts

LEMMA RowsKept ==
  ASSUME IntakeInv, RowsInv, Kinds, [Next]_vars
  PROVE  RowsInv'
<1>1. ASSUME NEW t \in Tables, Unique(t) PROVE rows'[t] <= 1
  <2>1. /\ rows[t] \in Nat /\ rows'[t] \in Nat /\ rows'[t] >= rows[t]
        /\ rows'[t] > rows[t] => \E p \in Procs : Inserts(p, t) \/ CommitsEnd(p, t)
    BY RowsGrow
  <2>2. rows[t] <= 1 BY <1>1 DEF RowsInv
  <2>3. t # "end_customer" BY <1>1 DEF Unique
  <2> QED BY <1>1, <2>1, <2>2, <2>3 DEF Inserts, CommitsEnd
<1> DEFINE OneRow(q) ==
      /\ proc'[q].pc \in EarlyPcs => \A t \in proc'[q].before : rows'[t] > 0
      /\ proc'[q].pc = "create" =>
           Unique(Next1(q)') \/ Next1(q)' \notin proc'[q].before
      /\ proc'[q].pc = "submit" /\ proc'[q].newEnd
           => "end_customer" \notin proc'[q].before
<1>2. ASSUME NEW q \in Procs PROVE OneRow(q)
  <2>0. Idle.pc = "idle" /\ Failed.pc = "idle" /\ "idle" \notin EarlyPcs
        /\ "create" \in EarlyPcs /\ "submit" \in EarlyPcs /\ "catalogue" \in EarlyPcs
        /\ EarlyPcs \cap LatePcs = {} /\ "rules" \in LatePcs
    BY DEF Idle, Failed, EarlyPcs, LatePcs
  <2>1. /\ proc[q].pc \in EarlyPcs => \A t \in proc[q].before : rows[t] > 0
        /\ proc[q].pc = "create" => Unique(Next1(q)) \/ Next1(q) \notin proc[q].before
        /\ proc[q].pc = "submit" /\ proc[q].newEnd
             => "end_customer" \notin proc[q].before
    BY DEF RowsInv, Early, At
  <2>2. \A t \in Tables : rows[t] > 0 => rows'[t] > 0
    BY RowsGrow
  <2>3. proc'[q] \in Busy => proc'[q].before \in SUBSET Tables
    BY Fields
  <2>4. proc[q] \in Busy => proc[q].before \in SUBSET Tables
    BY Fields
  <2>5. proc[q].pc \in EarlyPcs => proc[q] \in Busy
    BY Running DEF Early, IntakeInv
  <2>6. CASE proc'[q] = proc[q]
    <3>1. Next1(q)' = Next1(q) BY <2>6 DEF Next1
    <3> QED BY <2>0, <2>1, <2>2, <2>4, <2>5, <2>6, <3>1
  <2>7. CASE Starting(q)
    BY <2>0, <2>2, <2>3, <2>7 DEF Starting
  <2>8. CASE Searching(q)
    <3>1. CASE Ends(q) BY <2>0, <3>1 DEF Ends
    <3>2. CASE ~Ends(q)
      <4>1. /\ proc'[q].before = proc[q].before /\ proc[q].pc \in EarlyPcs
            /\ proc'[q].pc = "create" => /\ proc'[q].todo = proc[q].todo
                                         /\ rows[Next1(q)] = 0
            /\ proc'[q].pc = "submit" /\ proc'[q].newEnd => rows["end_customer"] = 0
        BY <2>8, <3>2 DEF Searching, Moves, Kin, Early
      <4>2. \A t \in proc'[q].before : rows[t] > 0 /\ rows'[t] > 0
        BY <2>1, <2>2, <2>4, <2>5, <4>1
      <4>3. proc'[q].pc = "create" => Next1(q)' = Next1(q)
        BY <4>1 DEF Next1
      <4> QED BY <4>1, <4>2, <4>3
    <3> QED BY <3>1, <3>2
  <2>9. CASE Committing(q) \/ Handling(q) \/ Ending(q)
    <3>1. proc'[q].pc \notin EarlyPcs
      BY <2>0, <2>9 DEF Committing, Handling, Ending, Moves, Ends
    <3> QED BY <2>0, <3>1
  <2>10. ASSUME NEW p \in Procs, Starting(p) \/ Searching(p) \/ Committing(p)
                                 \/ Handling(p) \/ Ending(p), p # q
         PROVE  proc'[q] = proc[q]
    BY <2>10 DEF Starting, Searching, Committing, Handling, Ending, Moves, Ends, Others
  <2> QED BY <2>6, <2>7, <2>8, <2>9, <2>10 DEF Kinds
<1> QED BY <1>1, <1>2 DEF RowsInv, Early, At

LEMMA RowsStart == Init => RowsInv
<1> SUFFICES ASSUME Init PROVE RowsInv
  OBVIOUS
<1>1. \A p \in Procs : proc[p].pc = "idle" BY DEF Init, Idle
<1>2. \A t \in Tables : rows[t] \in {0, 1} BY DEF Init
<1> QED BY <1>1, <1>2 DEF RowsInv, Early, At, EarlyPcs

LEMMA RowsStep == IntakeInv /\ RowsInv /\ [Next]_vars => RowsInv'
BY StepKinds, RowsKept DEF IntakeInv

DuplicateStep ==
  \A t \in Tables :
    ~Unique(t) /\ rows'[t] > rows[t]
      => \E p \in Procs : /\ proc'[p] # proc[p] /\ ~At(p, "idle")
                          /\ t \notin proc[p].before

(* A second account or end customer comes from overlap alone: whoever      *)
(* inserts one began when there was none.                                  *)
THEOREM OverlapOnly == Spec => DuplicatesFromOverlap
<1>1. IntakeInv /\ RowsInv /\ [Next]_vars => DuplicateStep
  <2> SUFFICES ASSUME IntakeInv, RowsInv, [Next]_vars, NEW t \in Tables,
                      ~Unique(t), rows'[t] > rows[t]
               PROVE  \E p \in Procs : /\ proc'[p] # proc[p] /\ ~At(p, "idle")
                                       /\ t \notin proc[p].before
    BY DEF DuplicateStep
  <2>1. PICK p \in Procs : Inserts(p, t) \/ CommitsEnd(p, t) BY RowsGrow
  <2>2. CASE Inserts(p, t)
    <3>1. CreateRow(p) /\ At(p, "create") /\ t = Next1(p) BY <2>2 DEF Inserts
    <3>2. proc[p].todo # <<>> BY <3>1 DEF IntakeInv, TodoInv
    <3>3. proc'[p].pc = "catalogue" BY <3>1, <3>2, CreateFields DEF IntakeInv, Moves
    <3>4. t \notin proc[p].before BY <3>1 DEF RowsInv
    <3> QED BY <3>1, <3>3, <3>4 DEF At
  <2>3. CASE CommitsEnd(p, t)
    <3>1. Commit(p) /\ At(p, "submit") /\ proc[p].newEnd /\ t = "end_customer"
      BY <2>3 DEF CommitsEnd
    <3>2. proc'[p].pc = "rules" BY <3>1, CommitFields DEF IntakeInv, Moves
    <3>3. t \notin proc[p].before BY <3>1 DEF RowsInv
    <3> QED BY <3>1, <3>2, <3>3 DEF At
  <2> QED BY <2>1, <2>2, <2>3
<1>2. IntakeInv /\ RowsInv /\ [Next]_vars => [DuplicateStep]_vars
  BY <1>1
<1> QED BY IntakeInit, IntakeStep, RowsStart, RowsStep, <1>2, PTL
        DEF Spec, DuplicatesFromOverlap, DuplicateStep

ErrorStep ==
  \A p \in Procs :
    ~At(p, "idle") /\ proc'[p] = Failed
      => \/ \E t \in {"account", "end_customer"} : rows[t] > 1
         \/ At(p, "submit") /\ TooLarge(p)
         \/ disturbances' > disturbances

LEMMA FailsOwnStep ==
  ASSUME IntakeInv, RowsInv, NEW p \in Procs, Step(p), proc'[p] = Failed
  PROVE  \/ \E t \in {"account", "end_customer"} : rows[t] > 1
         \/ At(p, "submit") /\ TooLarge(p)
<1>0. Idle # Failed /\ Failed \notin Busy
  <2>1. Idle.result = "none" /\ Failed.result = "error" BY DEF Idle, Failed
  <2>2. Failed.pc = "idle" /\ \A b \in Busy : b.pc # "idle" BY DEF Failed, Busy
  <2> QED BY <2>1, <2>2
<1>1. ASSUME NEW pc, Moves(p, pc) PROVE FALSE
  BY <1>0, <1>1 DEF Moves, Kin
<1>2. TypeOK /\ OwnInv /\ FormInv /\ TodoInv BY DEF IntakeInv
<1>3. CASE GetRow(p)
  <2>1. Next1(p) \in Tables /\ rows[Next1(p)] > 1 BY <1>1, <1>2, <1>3, GetFields
  <2>2. ~Unique(Next1(p))
    <3>1. rows[Next1(p)] \in Nat BY <1>2, <2>1 DEF TypeOK
    <3> QED BY <2>1, <3>1 DEF RowsInv
  <2> QED BY <2>1, <2>2 DEF Unique
<1>4. CASE GetEndCustomer(p)
  BY <1>1, <1>2, <1>4, EndCustomerFields
<1>5. CASE RejectNumber(p) BY <1>5 DEF RejectNumber
<1>6. CASE FindRow(p) BY <1>1, <1>2, <1>6, FindFields
<1>7. CASE CreateRow(p)
  <2>1. proc[p].todo # <<>> BY <1>2, <1>7 DEF CreateRow, TodoInv
  <2> QED BY <1>1, <1>2, <1>7, <2>1, CreateFields
<1>8. CASE Commit(p) BY <1>1, <1>2, <1>8, CommitFields
<1>9. CASE Working(p) BY <1>1, <1>2, <1>9, HandleSteps DEF Handling
<1>10. CASE SeedDone(p) \/ Answer(p)
  <2>1. proc' = [proc EXCEPT ![p] = Idle] BY <1>10 DEF SeedDone, Answer
  <2> QED BY <1>0, <1>2, <2>1, ProcSet
<1> QED BY <1>3, <1>4, <1>5, <1>6, <1>7, <1>8, <1>9, <1>10 DEF Step, Working

(* A submission or seed run fails only on a row that exists twice, on a    *)
(* number too large or killed: two that race for a unique row both go on.  *)
THEOREM ErrorsHaveCauses == Spec => ErrorsExplained
<1>1. IntakeInv /\ RowsInv /\ [Next]_vars => ErrorStep
  <2> SUFFICES ASSUME IntakeInv, RowsInv, [Next]_vars, NEW p \in Procs,
                      ~At(p, "idle"), proc'[p] = Failed
               PROVE  \/ \E t \in {"account", "end_customer"} : rows[t] > 1
                      \/ At(p, "submit") /\ TooLarge(p)
                      \/ disturbances' > disturbances
    BY DEF ErrorStep
  <2>0. proc'[p] # proc[p]
    <3>1. Failed.pc = "idle" BY DEF Failed
    <3> QED BY <3>1 DEF At
  <2>1. ASSUME NEW q \in Procs, Step(q), q # p PROVE FALSE
    <3>1. TypeOK /\ OwnInv /\ FormInv /\ TodoInv BY DEF IntakeInv
    <3>2. Others(q)
      <4>1. CASE Working(q) BY <3>1, <4>1, HandleSteps DEF Handling, Moves
      <4>2. CASE q \in Requests /\ Commit(q)
        BY <3>1, <4>2, CommitSteps DEF Committing, Moves
      <4>3. CASE Answer(q) \/ SeedDone(q) \/ RejectNumber(q)
        BY <3>1, <4>3, EndFields DEF Ends
      <4>4. CASE FindRow(q) \/ GetRow(q) \/ CreateRow(q) \/ GetEndCustomer(q)
        BY <3>1, <4>4, SearchSteps DEF Searching, Ends, Moves
      <4> QED BY <2>1, <4>1, <4>2, <4>3, <4>4 DEF Step, Working
    <3> QED BY <2>0, <2>1, <3>2 DEF Others
  <2>2. ASSUME NEW q \in Procs, Crash(q) PROVE disturbances' > disturbances
    <3>1. disturbances \in Nat /\ disturbances' = disturbances + 1
      BY <2>2, BoundsAssumption DEF Crash, IntakeInv, TypeOK
    <3> QED BY <3>1
  <2>3. ASSUME NEW q \in Procs, NEW s, At(q, "idle"), proc' = [proc EXCEPT ![q] = s]
        PROVE  FALSE
    <3>1. q # p BY <2>3
    <3> QED BY <2>0, <2>3, <3>1 DEF IntakeInv, TypeOK
  <2>4. ASSUME NEW r \in Requests, NEW f \in Forms, Submit(r, f) PROVE FALSE
    <3>1. r \in Procs BY DEF Procs
    <3> QED BY <2>3, <2>4, <3>1 DEF Submit
  <2>5. ASSUME NEW s \in Seeds, StartSeed(s) PROVE FALSE
    <3>1. s \in Procs BY DEF Procs
    <3> QED BY <2>3, <2>5, <3>1 DEF StartSeed
  <2>6. ASSUME People \/ UNCHANGED vars PROVE FALSE
    BY <2>0, <2>6 DEF People, vars
  <2> QED BY <2>1, <2>2, <2>4, <2>5, <2>6, FailsOwnStep DEF Next
<1>2. IntakeInv /\ RowsInv /\ [Next]_vars => [ErrorStep]_vars
  BY <1>1
<1> QED BY IntakeInit, IntakeStep, RowsStart, RowsStep, <1>2, PTL
        DEF Spec, ErrorsExplained, ErrorStep
=============================================================================
