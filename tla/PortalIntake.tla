----------------------------- MODULE PortalIntake -----------------------------
(***************************************************************************)
(* A distributor submits a claim (ClaimSubmissionForm.clean, form_valid).  *)
(* Catalogue rows are found or created one autocommitted statement at a    *)
(* time; end customer, ticket and claim are written in one transaction;    *)
(* the automation rules and the alert run after it, on the ticket as it    *)
(* was created.  seed_nexus creates some of the same rows.  All requests   *)
(* here name the same account, product, batch and retailer: others share   *)
(* no row.  Money is counted in cents, unit cost in hundredths of a cent.  *)
(***************************************************************************)
EXTENDS Naturals, Sequences, FiniteSets, FiniteSetsExt, SequencesExt

CONSTANTS
  Requests,       \* portal requests
  Seeds,          \* runs of seed_nexus
  Forms,          \* what distributors send
  Rules,          \* active automation rules by priority
  Costs,          \* Product.unit_cost, 0 where it is not known
  SeedCost,       \* the unit cost seed_nexus gives its product
  MaxExposure,    \* what Claim.estimated_exposure holds
  MaxQuantity,    \* what Claim.quantity_affected holds
  StaffStatuses,  \* statuses staff pick in the workspace
  Unset,          \* no row, no form, no choice
  Amounts,        \* requested and approved amounts finance enters
  MaxSubmissions, \* bound on the submissions and seed runs
  MaxDisturbances \* bound on changes by people and requests killed

FormType == [lot : BOOLEAN, files : BOOLEAN, defect : {"shipping", "other"},
             claimed : Nat, qty : Nat]
Conditions == {"missing_attachments", "shipping_damage", "small_claim_amount",
               "repeat_batch"}
Actions == {"auto_approve_reimbursement", "request_evidence", "set_pending_info",
            "route_logistics_queue", "escalate_quality"}
RuleType == [type : Conditions, bound : Nat, do : Seq(Actions)]

ASSUME FormsAssumption == Forms \subseteq FormType
ASSUME RulesAssumption == Rules \in Seq(RuleType)
ASSUME CostAssumption == Costs \subseteq Nat /\ SeedCost \in Nat
ASSUME WidthAssumption == MaxExposure \in Nat /\ MaxQuantity \in Nat
ASSUME BoundsAssumption == {MaxSubmissions, MaxDisturbances} \subseteq Nat
ASSUME ActorsAssumption == Requests \cap Seeds = {}
ASSUME AmountsAssumption == Amounts \subseteq Nat \X Nat

Procs == Requests \cup Seeds

VARIABLES
  rows,        \* committed rows of each table with the name all share
  unitCost,    \* Product.unit_cost of the product, if there is one
  tickets,     \* committed tickets, each with its claim
  proc,        \* what each request or seed run is doing
  loaded,      \* the requested amount of the reimbursement a request holds
  submissions, \* submissions and seed runs begun
  disturbances \* changes by people and requests killed

count == <<loaded, submissions, disturbances>>
vars == <<rows, unitCost, tickets, proc, count>>
-----------------------------------------------------------------------------
(* seed_nexus in order; what it creates that nobody else touches (users,   *)
(* queues, a macro, the rules, an order, a claim) is left out.             *)
SeedProgram == <<"product", "batch", "account", "end_customer">>

PortalProgram(f) == <<"account", "product">> \o IF f.lot THEN <<"batch">> ELSE <<>>

Tables == ToSet(SeedProgram) \cup {"portal_manufacturer"}

Unique(t) == t \notin {"account", "end_customer"}

(* Rows the form looks for with filter(...).first() before get_or_create.  *)
Lenient == {"account", "product"}

Statuses == {"new", "pending_info", "investigating", "escalated"} \cup StaffStatuses

(* The status is free text: "rejected" stands for all but "approved".  by  *)
(* is history: rules alone wrote the row, finance wrote it last, or a rule *)
(* saved over what finance had entered.                                    *)
Reimbursements ==
  [requested : Nat, approved : Nat, status : {"approved", "rejected"},
   by : {"rule", "finance", "both"}]

TicketRows ==
  [form : Forms, cost : Nat, exposure : Nat, files : BOOLEAN,
   status : Statuses, logistics : BOOLEAN, asked : BOOLEAN,
   reimbursement : {Unset} \cup Reimbursements,
   handling : {"running", "answered", "killed"},
   chosen : {Unset} \cup StaffStatuses, decided : BOOLEAN]

ASSUME UnsetAssumption == Unset \notin Reimbursements \cup Forms \cup StaffStatuses

Idle == [pc |-> "idle", result |-> "none"]
Failed == [pc |-> "idle", result |-> "error"]
Busy ==
  [pc : {"catalogue", "create", "submit", "rules", "act", "approve", "alert", "answer"},
   form : {Unset} \cup Forms, find : Seq(Tables), todo : Seq(Tables),
   newEnd : BOOLEAN, ticket : Nat, do : Seq(Actions), before : SUBSET Tables]

(* Tables, tickets and requests hold values of their types.                *)
TypeOK ==
  /\ rows \in [Tables -> Nat]
  /\ unitCost \in Nat
  /\ tickets \in Seq(TicketRows)
  /\ proc \in [Procs -> {Idle, Failed} \cup Busy]
  /\ loaded \in [Requests -> Nat]
  /\ submissions \in 0 .. MaxSubmissions
  /\ disturbances \in 0 .. MaxDisturbances

(* An empty catalogue, or one that has the product already.                *)
Init ==
  /\ \E has \in {0, 1} :
       /\ rows = [t \in Tables |-> IF t = "product" THEN has ELSE 0]
       /\ unitCost \in IF has = 1 THEN Costs ELSE {0}
  /\ tickets = <<>>
  /\ proc = [p \in Procs |-> Idle]
  /\ loaded = [r \in Requests |-> 0]
  /\ submissions = 0 /\ disturbances = 0
-----------------------------------------------------------------------------
At(p, pc) == proc[p].pc = pc
Goto(p, pc) == proc' = [proc EXCEPT ![p].pc = pc]
Next1(p) == Head(proc[p].todo)

Work(form, find, todo) ==
  [pc |-> "catalogue", form |-> form, find |-> find, todo |-> todo,
   newEnd |-> FALSE, ticket |-> 0, do |-> <<>>,
   before |-> {t \in Tables : ~Unique(t) /\ rows[t] > 0}]

Submit(r, f) ==
  /\ At(r, "idle") /\ submissions < MaxSubmissions
  /\ submissions' = submissions + 1
  /\ proc' = [proc EXCEPT ![r] = Work(f, PortalProgram(f), <<>>)]
  /\ UNCHANGED <<rows, unitCost, tickets, loaded, disturbances>>

StartSeed(s) ==
  /\ At(s, "idle") /\ submissions < MaxSubmissions
  /\ submissions' = submissions + 1
  /\ proc' = [proc EXCEPT ![s] = Work(Unset, <<>>, SeedProgram)]
  /\ UNCHANGED <<rows, unitCost, tickets, loaded, disturbances>>

OnMiss(t) == IF t = "product" THEN <<"portal_manufacturer", "product">> ELSE <<t>>

(* The first row that matches is taken, whatever their number.             *)
FindRow(p) ==
  /\ At(p, "catalogue") /\ proc[p].todo = <<>> /\ proc[p].find # <<>>
  /\ LET t == Head(proc[p].find)
         hit == t \in Lenient /\ rows[t] > 0
     IN proc' = [proc EXCEPT ![p].find = Tail(@),
                             ![p].todo = IF hit THEN <<>> ELSE OnMiss(t)]
  /\ UNCHANGED <<rows, unitCost, tickets, count>>

(* Mutant: no look before the insert.                                      *)
AlwaysMissing(t) == TRUE

Missing(t) == rows[t] = 0

(* get_or_create, its get: one row is returned, two are an exception.      *)
GetRow(p) ==
  /\ At(p, "catalogue") /\ proc[p].todo # <<>>
  /\ LET t == Next1(p)
         create == [proc[p] EXCEPT !.pc = "create"]
         found == [proc[p] EXCEPT !.todo = Tail(@)]
     IN proc' = [proc EXCEPT ![p] = IF Missing(t) THEN create
                                    ELSE IF rows[t] = 1 THEN found ELSE Failed]
  /\ UNCHANGED <<rows, unitCost, tickets, count>>

(* Mutant: an insert that meets the unique constraint is an error.         *)
NoSecondGet(p) ==
  IF Unique(Next1(p)) /\ rows[Next1(p)] = 1 THEN Failed
  ELSE [proc[p] EXCEPT !.pc = "catalogue", !.todo = Tail(@)]

AfterCreate(p) == [proc[p] EXCEPT !.pc = "catalogue", !.todo = Tail(@)]

(* Its create: a unique constraint turns the insert into a second get.     *)
CreateRow(p) ==
  /\ At(p, "create")
  /\ LET t == Next1(p)
         inserted == ~(Unique(t) /\ rows[t] > 0)
     IN /\ rows' = [rows EXCEPT ![t] = IF inserted THEN @ + 1 ELSE @]
        /\ unitCost' = IF t = "product" /\ inserted /\ p \in Seeds
                       THEN SeedCost ELSE unitCost
  /\ proc' = [proc EXCEPT ![p] = AfterCreate(p)]
  /\ UNCHANGED <<tickets, count>>

CatalogueDone(p) ==
  At(p, "catalogue") /\ proc[p].find = <<>> /\ proc[p].todo = <<>>

SeedDone(s) ==
  /\ CatalogueDone(s)
  /\ proc' = [proc EXCEPT ![s] = Idle]
  /\ UNCHANGED <<rows, unitCost, tickets, count>>

(* The transaction begins with get_or_create of the end customer, whose    *)
(* insert nobody sees before the commit.                                   *)
GetEndCustomer(r) ==
  /\ CatalogueDone(r)
  /\ proc' = [proc EXCEPT ![r] =
       IF ~Missing("end_customer") /\ rows["end_customer"] > 1 THEN Failed
       ELSE [@ EXCEPT !.pc = "submit", !.newEnd = Missing("end_customer")]]
  /\ UNCHANGED <<rows, unitCost, tickets, count>>
-----------------------------------------------------------------------------
(* Mutant: fractions of a cent are cut off.                                *)
CutToCents(n) == n \div 100

(* Decimal.quantize: to the nearest cent, a tie to the even one.           *)
ToCents(n) ==
  LET cents == n \div 100
      up == n % 100 > 50 \/ (n % 100 = 50 /\ cents % 2 = 1)
  IN IF up THEN cents + 1 ELSE cents

(* The amount entered, else quantity times unit cost where it is known.    *)
Exposure(f, cost) == IF f.claimed > 0 THEN f.claimed ELSE ToCents(f.qty * cost)

(* A number the column cannot hold ends the transaction.                   *)
TooLarge(r) ==
  \/ Exposure(proc[r].form, unitCost) > MaxExposure
  \/ proc[r].form.qty > MaxQuantity

ClaimOf(r) ==
  [form |-> proc[r].form, cost |-> unitCost,
   exposure |-> Exposure(proc[r].form, unitCost), files |-> proc[r].form.files,
   status |-> "new", logistics |-> FALSE, asked |-> FALSE, reimbursement |-> Unset,
   handling |-> "running", chosen |-> Unset, decided |-> FALSE]

(* Mutant: the page is answered with the commit, and the rules run later.  *)
AnsweredTicket(r) == [ClaimOf(r) EXCEPT !.handling = "answered"]

NewTicket(r) == ClaimOf(r)

(* End customer, ticket, claim, attachments and message, and COMMIT.       *)
Commit(r) ==
  /\ At(r, "submit") /\ ~TooLarge(r)
  /\ rows' = [rows EXCEPT !["end_customer"] = IF proc[r].newEnd THEN @ + 1 ELSE @]
  /\ tickets' = Append(tickets, NewTicket(r))
  /\ proc' = [proc EXCEPT ![r].pc = "rules", ![r].ticket = Len(tickets) + 1]
  /\ UNCHANGED <<unitCost, count>>

RejectNumber(r) ==
  /\ At(r, "submit") /\ TooLarge(r)
  /\ proc' = [proc EXCEPT ![r] = Failed]
  /\ UNCHANGED <<rows, unitCost, tickets, count>>
-----------------------------------------------------------------------------
SmallEnough(rule, t) ==
  rule.type = "small_claim_amount" /\ tickets[t].exposure <= rule.bound

Matches(rule, t) ==
  \/ rule.type = "missing_attachments" /\ ~tickets[t].files
  \/ rule.type = "shipping_damage" /\ tickets[t].form.defect = "shipping"
  \/ SmallEnough(rule, t)
  \/ /\ rule.type = "repeat_batch" /\ tickets[t].form.lot
     /\ Cardinality({u \in DOMAIN tickets : tickets[u].form.lot}) >= rule.bound

(* Mutant: no break after the first rule that matches.                     *)
AllRules(t) ==
  FlattenSeq([i \in DOMAIN Rules |-> IF Matches(Rules[i], t) THEN Rules[i].do ELSE <<>>])

ActionsFor(t) ==
  LET hits == {i \in DOMAIN Rules : Matches(Rules[i], t)}
  IN IF hits = {} THEN <<>> ELSE Rules[Min(hits)].do

(* Rules are tried in turn, but what they read (attachments, claims of the *)
(* batch) only grows, so the last read decides like all of them together.  *)
RunAutomation(r) ==
  /\ At(r, "rules")
  /\ proc' = [proc EXCEPT ![r].pc = "act", ![r].do = ActionsFor(proc[r].ticket)]
  /\ UNCHANGED <<rows, unitCost, tickets, count>>

(* Mutant: the queue's slug lands in the status.                           *)
QueueAsStatus(a, old) == IF a = "route_logistics_queue" THEN "logistics" ELSE old

StatusAfter(a, old) ==
  CASE a = "set_pending_info" -> "pending_info"
    [] a = "route_logistics_queue" -> "investigating"
    [] a = "escalate_quality" -> "escalated"
    [] OTHER -> old

ApprovedByRule(t) ==
  [requested |-> tickets[t].exposure, approved |-> tickets[t].exposure,
   status |-> "approved", by |-> "rule"]

(* One action; a status is saved over whatever the row holds by now.  The  *)
(* reimbursement is got, or created, and held in memory.                   *)
ApplyAction(r) ==
  /\ At(r, "act") /\ proc[r].do # <<>>
  /\ LET a == Head(proc[r].do)
         t == proc[r].ticket
         approve == a = "auto_approve_reimbursement"
         money == IF approve /\ tickets[t].reimbursement = Unset
                  THEN ApprovedByRule(t) ELSE tickets[t].reimbursement
     IN /\ tickets' = [tickets EXCEPT
             ![t].status = StatusAfter(a, @),
             ![t].logistics = @ \/ a = "route_logistics_queue",
             ![t].asked = @ \/ a = "request_evidence",
             ![t].reimbursement = money]
        /\ proc' = [proc EXCEPT ![r].do = Tail(@),
                                ![r].pc = IF approve THEN "approve" ELSE "act"]
        /\ loaded' = [loaded EXCEPT ![r] = IF approve THEN money.requested ELSE @]
  /\ UNCHANGED <<rows, unitCost, submissions, disturbances>>

(* The amount requested as it was got is saved again, and approved: over   *)
(* whatever finance saved meanwhile.                                       *)
SaveApproval(r) ==
  /\ At(r, "approve")
  /\ LET t == proc[r].ticket
         amount == loaded[r]
     IN tickets' = [tickets EXCEPT
          ![t].reimbursement =
            [requested |-> amount,
             approved |-> IF amount = 0 THEN tickets[t].exposure ELSE amount,
             status |-> "approved", by |-> IF @.by = "rule" THEN "rule" ELSE "both"]]
  /\ Goto(r, "act")
  /\ loaded' = [loaded EXCEPT ![r] = 0]
  /\ UNCHANGED <<rows, unitCost, submissions, disturbances>>

(* The alert of TelegramAlerts.                                            *)
RulesDone(r) == At(r, "act") /\ proc[r].do = <<>>

NotifyTeam(r) ==
  /\ RulesDone(r)
  /\ Goto(r, "answer")
  /\ UNCHANGED <<rows, unitCost, tickets, count>>

(* "Claim ... submitted."                                                  *)
Answer(r) ==
  /\ At(r, "answer")
  /\ tickets' = [tickets EXCEPT ![proc[r].ticket].handling = "answered"]
  /\ proc' = [proc EXCEPT ![r] = Idle]
  /\ UNCHANGED <<rows, unitCost, count>>
-----------------------------------------------------------------------------
(* The claim is in the distributor's list from the commit on, and its      *)
(* thread takes more files.                                                *)
AddFiles(t) ==
  /\ ~tickets[t].files
  /\ tickets' = [tickets EXCEPT ![t].files = TRUE]

(* The drop-down of the workspace.                                         *)
SetStatus(t, s) ==
  /\ tickets' = [tickets EXCEPT
       ![t].status = s,
       ![t].chosen = IF tickets[t].handling = "running" THEN @ ELSE s]

(* Finance saves a reimbursement in the admin site, one of its own or the  *)
(* one it finds: every field of the form, whatever it showed.              *)
SaveReimbursement(t, amounts, status) ==
  /\ tickets' = [tickets EXCEPT
       ![t].reimbursement = [requested |-> amounts[1], approved |-> amounts[2],
                             status |-> status, by |-> "finance"],
       ![t].decided = tickets[t].handling # "running"]

(* A worker is killed, or a call outside the transaction raises.           *)
Crash(p) ==
  /\ ~At(p, "idle") /\ disturbances < MaxDisturbances
  /\ disturbances' = disturbances + 1
  /\ tickets' = [t \in DOMAIN tickets |->
       IF t = proc[p].ticket THEN [tickets[t] EXCEPT !.handling = "killed"]
       ELSE tickets[t]]
  /\ proc' = [proc EXCEPT ![p] = Failed]
  /\ UNCHANGED <<rows, unitCost, loaded, submissions>>

Step(p) ==
  \/ FindRow(p) \/ GetRow(p) \/ CreateRow(p)
  \/ p \in Seeds /\ SeedDone(p)
  \/ /\ p \in Requests
     /\ \/ GetEndCustomer(p) \/ Commit(p) \/ RejectNumber(p)
        \/ RunAutomation(p) \/ ApplyAction(p) \/ SaveApproval(p)
        \/ NotifyTeam(p) \/ Answer(p)

People ==
  /\ disturbances < MaxDisturbances
  /\ disturbances' = disturbances + 1
  /\ \E t \in DOMAIN tickets :
       \/ AddFiles(t)
       \/ \E s \in StaffStatuses : SetStatus(t, s)
       \/ \E amounts \in Amounts, status \in {"approved", "rejected"} :
            SaveReimbursement(t, amounts, status)
  /\ UNCHANGED <<rows, unitCost, proc, loaded, submissions>>

Next ==
  \/ \E p \in Procs : Step(p) \/ Crash(p)
  \/ \E r \in Requests, f \in Forms : Submit(r, f)
  \/ \E s \in Seeds : StartSeed(s)
  \/ People

Spec == Init /\ [][Next]_vars
-----------------------------------------------------------------------------
(* Accounts and end customers have no unique constraint, but a second row  *)
(* comes from overlap alone: who began when there was one creates none.    *)
DuplicatesFromOverlap ==
  [][\A t \in Tables :
       ~Unique(t) /\ rows'[t] > rows[t]
         => \E p \in Procs : /\ proc'[p] # proc[p] /\ ~At(p, "idle")
                             /\ t \notin proc[p].before]_vars

(* The rules' `break`: a claim asked for evidence was neither sent to the  *)
(* logistics queue nor approved by a rule, and none was both of these.     *)
(* What a rule approved was a small claim, with photos, and no more than   *)
(* the limit of small claims unless finance had entered an amount.         *)
OneRuleApplied ==
  \A t \in DOMAIN tickets :
    LET money == tickets[t].reimbursement
        small(n) == \E i \in DOMAIN Rules :
          Rules[i].type = "small_claim_amount" /\ n <= Rules[i].bound
    IN /\ ~(tickets[t].asked /\ tickets[t].logistics)
       /\ money # Unset /\ money.by # "finance" =>
            /\ ~tickets[t].asked /\ ~tickets[t].logistics
            /\ tickets[t].files
            /\ small(tickets[t].exposure)
       /\ money # Unset /\ money.by = "rule" => small(money.approved)

(* The rules save over what staff and finance did, but only until the page *)
(* is answered: what these save later about status or money stays.         *)
StaffHasLastWord ==
  \A t \in DOMAIN tickets :
    /\ tickets[t].chosen # Unset => tickets[t].status = tickets[t].chosen
    /\ tickets[t].decided => tickets[t].reimbursement.by = "finance"

(* An exposure not entered is quantity times unit cost to half a cent.     *)
ExposureNearest ==
  \A t \in DOMAIN tickets :
    LET exact == tickets[t].form.qty * tickets[t].cost
        shown == 100 * tickets[t].exposure
    IN tickets[t].form.claimed = 0
         => shown <= exact + 50 /\ exact <= shown + 50

(* A submission or seed run fails only on a row that exists twice, on a    *)
(* number too large or killed: racing for a unique row is never an error.  *)
ErrorsExplained ==
  [][\A p \in Procs :
       ~At(p, "idle") /\ proc'[p] = Failed
         => \/ \E t \in {"account", "end_customer"} : rows[t] > 1
            \/ At(p, "submit") /\ TooLarge(p)
            \/ disturbances' > disturbances]_vars
=============================================================================
