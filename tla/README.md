# Nexus Resolve: verification project

TLA+ models of the concurrent core of Nexus Resolve (the Django portal in
`src/`), TLC configurations that check them on small instances, and TLAPS proofs
of every safety property the passing runs check. Paths are relative to the
repository root.

## 1. The system

Nexus Resolve is a Django application on PostgreSQL (READ COMMITTED, autocommit
unless a function says `transaction.atomic`), Redis as cache, several Gunicorn
workers and Celery. Nothing in it takes a lock explicitly (`select_for_update`
is never used): what serialises two requests is a unique constraint or the row
lock of an `UPDATE`, and every decision is made on objects loaded earlier in the
request. It talks to two external services: Zoho Inventory (one HTTP POST
creates a sales order) and the Telegram bot API (webhook in, messages out).

| Component | State | Operations | Talks to | What is hard |
|---|---|---|---|---|
| Replacement order (`apps/zoho_integration`) | `Claim.zoho_replacement_so_number`, `Ticket.status`, `Approval`, `ZohoPushDedupe`, `ZohoSyncLog`, the internal note, audit rows; orders in Zoho | push, undo of a simulated push, retry task | workspace, API, Zoho, audit log | an external effect inside a transaction; rollback of what was meant to stay; lost replies; stale reads |
| Hot batch watch (`apps/claims/signals.py`, `apps/quality`) | `Batch.hot_flag`, `QualityIncident` | `post_save` of every claim | portal intake, every later save of a claim | runs inside the caller's transaction; count, flag and incident are three statements |
| Working-on signals (`apps/support/working_on.py`) | two cache keys, internal notes, `Ticket.status`, `Ticket.assignee` | "I'm on it" from the workspace or the bot | Telegram alerts | nothing is atomic; get-then-set on the cache; stale ticket |
| Telegram linking (`portal/telegram_link.py`, `telegram_webhook.py`, `telegram_pages.py`) | token in the cache, `User.telegram_chat_id` (unique) | mint, consume, link, unlink | Telegram | redelivery, concurrent deliveries, two updates that are not atomic |
| Telegram webhook dispatch | reply bindings in the cache | resolve a reaction, a reply or a token in the text to a ticket; save the team inbox | working-on signals | redelivery; order of "message sent" and "binding stored" |
| Telegram alerts (`portal/telegram_notify.py`) | reply bindings, team inbox settings, users' chats | collect recipients, send to each, bind the message | portal intake, working-on | two queries; a send that fails or is not answered; changes in between |
| Ticket workspace (`support/staff_views.py`) | `Ticket`, `TicketMessage` | notes, deletion of notes, status drop-down | push, undo, working-on | blind writes over concurrent changes |
| Claims and approvals (`apps/claims`) | `Claim`, `Approval`, RMA, reimbursement | admin forms | push gate | a form writes back every field it showed |
| Portal intake (`portal/views.py`, `forms.py`) | claim, ticket, attachments, end customer | submission | hot batch watch, automation, alerts | shared rows created by concurrent submissions without unique constraints; work after the commit |
| Automation (`apps/automation`) | rules; the ticket and reimbursement they change | first matching rule after a submission | intake | runs after the commit, on a stale ticket |
| Accounts and roles (`apps/accounts`, `api/permissions.py`), guards of the pages | `User.role`, `is_superuser`, `is_active`, the session | routing after login and logout, access tests | every view | redirect chains while roles and sessions change |
| Seed command (`seed_nexus.py`) | catalogue rows, rules | one run after the other | portal intake | races with submissions for the same rows |
| CRM (`apps/crm`) | catalogue, `Batch` | admin forms | hot batch watch | - |
| API (`apps/api`) | - | `zoho_replacement_so`, read-only lists | push | - |
| Audit log (`apps/auditlog`) | append-only rows | `log_event` | push | atomic with the push |
| Health checks, configuration, deployment | - | - | - | - |

The properties that make each component correct:

* *Replacement order*: never two orders for one fingerprint; an order over the
  threshold was authorised; number, dedupe row, log and note agree; an order
  Zoho has is on file; a refused or failed push leaves the trace the messages
  promise; only a simulated number is undone; every push is answered.
* *Hot batch watch*: one open incident a batch; a save that counted the
  threshold leaves an incident, unless the flag had been ticked by hand; a count
  that is of committed claims; a batch over the threshold has an incident; saves
  do not wait for ever.
* *Working-on*: notes and announcements are limited; who is assigned accepted
  in a note; an assignee is not replaced.
* *Telegram linking*: a chat has one user, who asked for it with a token of
  their own; a token is used once; every start message is answered.
* *Telegram alerts*: each chat that should be told is tried once, whatever fails
  for the others, and nobody else is told; a pick-up is for the ticket the
  person meant, and a reaction to an alert finds its ticket.
* *Portal intake and automation*: a submission fails only for a reason; it
  creates no row twice unless it overlaps with another; the exposure is the
  nearest cent; only the first matching rule acts, within its limit; a rule never
  overrides a decision staff made after the page was answered.
* *Workspaces*: every navigation ends with a page, in the user's own workspace;
  nobody is shown a post that is not for them; an open thread catches up with
  the ticket's status.

`PROJECT.json` lists the components with their status, and under `hazards` what
can go wrong in each, at the line where it bites and with the properties that
would catch it.

## 2. Modules

| Module | Models |
|---|---|
| `ReplacementOrder` | push, undo, workspace drop-down, admin forms, restart with credentials |
| `OrderLedger` | abstract: what the machinery promises of a claim's order |
| `ReplacementOrderImpl` | the refinement mapping from the first to the second |
| `ReplacementOrderProofs` | proofs about `ReplacementOrder` that hold whatever is undone, edited, lost or killed, and `NoDuplicateOrder` |
| `ReplacementOrderImplProofs` | proofs where one deletion runs at a time and no form edits a claim, among them the refinement |
| `HotBatch` | the post_save watch on one batch |
| `WorkingOn` | the emoji signal on one ticket |
| `TelegramLink` | minting, delivery and consumption of tokens |
| `PortalIntake` | a submission statement by statement, the seed command, the automation rules, people changing the claim |
| `TelegramAlerts` | broadcasts, reply bindings, reactions and replies, the team inbox and users' chats |
| `Workspaces` | guards, redirects, login and logout of one browser, and the polling thread |
| `HotBatchProofs`, `WorkingOnProofs`, `TelegramLinkProofs`, `PortalIntakeProofs`, `TelegramAlertsProofs`, `WorkspacesProofs` | proofs about the module they are named for |
| `MC*` | values and symmetry sets for TLC |

### How state and actions correspond to the code

One convention holds in all modules: a variable named after a table or field is
its **committed** content; what an open transaction has written lives in the
record of the request that wrote it, and reaches the table at its commit step,
so a rollback simply drops the record. A request is a record with a `pc` naming
the next statement. Statements are separate steps when another request can tell:
when they read committed rows, when they wait for a lock that is held across
another step, or when the outside world sees them. Formatting, wording and
logging are left out.

**`ReplacementOrder`** (`zoho_integration/services.py`). A push goes through
`dedupe` (the `exists` test), `gate` (exposure, approvals, role), `insert` (the
sync log with the unique `idempotency_key`, which waits for an open transaction
that inserted or deleted the same key), `calling` (no lock but that one, for as
long as Zoho takes), `accepted` (Zoho has the order, the reply is on its way)
and `apply` (every write after the reply, and COMMIT). `RefuseUnapproved` and
`ZohoFails` perform the write the code performs and then its rollback
(`AfterRollback`), since the exception leaves the atomic block. The undo goes
through the page's ticket (`load`), the prefetched claim (`find`), the note and
the decision (`FindNote`), the two deletions, the commit, and the deletion of
the note in a transaction of its own. An administrator's page may be old, so
`BeginDelete` takes any note ever written; the audit table, which has a row for
each, says which those are.

Choices made there:

* `Apply` is one step although it is six statements. Its row locks are taken
  and released without any other wait, except one: it may hold the claim row
  and wait for a dedupe row an undo has deleted, while the undo waits for the
  claim row. PostgreSQL ends that deadlock by aborting either; `Deadlocked`
  names the state, and `ApplyConflict` and `CrashDelete` are its two outcomes.
* Numbers are `""`, `"sim"` or `"real"`. The simulated number depends on the
  claim alone, so two simulated pushes of a claim are indistinguishable, and
  the test whether the number occurs in the note's text is what it does on
  these values (the empty string is in every text).
* A message's body is not modelled beyond that; hand-typed notes have no
  effect on the records followed here.
* Settings are read at start-up, so credentials change only with a restart
  (`Configure`), which ends all requests. Open browser forms survive.
* The claim form of the admin site saves every field, as it was shown, perhaps
  long ago, or as somebody typed it: `SaveForm` sets quantity, exposure and
  number to any of their values. The quantity is part of the fingerprint.
* Approvals are decided in the admin site, and taken back there:
  `DecideApproval` sets a row from any state to any other, or adds one.
* `authorised`, `typed` and `edits` are a history and a counter. `authorised`
  collects the attempts that `MayOrder` at some moment (`NoteAuthority` is in
  every step that changes what `MayOrder` reads), `typed` what forms put on a
  claim by hand.
* Left out of the admin site: deleting an approval (to the gate that is a
  rejection), editing or deleting sync logs, dedupe rows and messages there,
  and giving a claim another product or ticket. A user's role does not change
  while a push of theirs runs.

**`HotBatch`** (`claims/signals.py`). `Submit` and `Resave` load the batch as
the entry point does (form validation before the transaction, `select_related`
with the page, or lazily); `SaveClaim`, `CountClaims`, `ReadFlag`, `SetHotFlag`,
`IncidentAlreadyOpen` or `OpenIncident`, and `Commit` are the statements. `Abort`
stands for any later failure in the surrounding transaction. `SaveBatchForm(flag)`
is the Batch form of the admin site, which ticks the flag or unticks it. A flag
ticked on a batch without an incident ends the watch (`ReadFlag` takes it for its
own); `ticked` and `excused` record that for the properties: whether the flag was
set so, and which claims were filed by saves that went by it (`WentByTick`).
Different batches share no row, so the module follows one; moving a claim to
another batch or deleting it, and creating, reopening or deleting an incident by
hand, are left out.

**`WorkingOn`** (`support/working_on.py`, `telegram_notify.py`). The two cache
keys are read and set in separate steps. `window` counts the ten-minute windows
of each key and exists only to state the limits. `SaveTicket` decides on
`seenStatus` and `seenAssignee`, loaded in `Begin`. `OtherStatuses` stands for
what pushes, rules and the drop-down write; somebody setting a ticket back to
new, or clearing its assignee in the admin site, is left out.

**`TelegramLink`** (`telegram_link.py`, `telegram_webhook.py`). `Deliver` may
hand one message to several workers at once; a message is delivered until
`Answer` (HTTP 200). `UnlinkOthers` and `LinkUser` are the two updates; the
unique constraint fails the second with an exception (`LinkConflict`), and the
500 makes Telegram redeliver. `Send` is external: the user taps Start.

**`PortalIntake`** (`portal/forms.py`, `portal/views.py`, `automation/engine.py`,
`seed_nexus.py`). A request works off the tables of `PortalProgram`: `FindRow` is
`filter(...).first()`, `GetRow` and `CreateRow` are the two halves of
`get_or_create`, each an autocommitted statement; a unique constraint turns the
insert into a second get, and without one (`CustomerAccount`, `EndCustomer`) a
second row is made, at which a later `get` raises. The seed command does the same
with `SeedProgram`. The end customer is looked up in the transaction
(`GetEndCustomer`) and appears with `Commit`, which writes end customer, ticket,
claim, attachments and message. After it come `RunAutomation`, one `ApplyAction`
for each action of the rule, the alert (`NotifyTeam`: to whom is the business of
`TelegramAlerts`) and the `Answer`. The approving action gets or creates the
reimbursement (`ApplyAction`, which keeps the requested amount in `loaded`) and
saves it (`SaveApproval`), over what finance may have saved meanwhile.
`SaveReimbursement` is finance in the admin site: a row of its own or the one it
finds, with any amounts, approved or not (the status is free text, and "rejected"
stands for all of it but "approved"); deleting a row there is left out. `by` is
history: rules alone wrote the row, finance wrote it last, or a rule saved over
what finance had entered. All requests name the same rows, for others
share nothing; a product that a seed run created has a unit cost, one that the
portal created has none. Money is an integer number of cents. The fields
`chosen`, `decided` and `handling` of a ticket record what people did after the
page was answered and exist only for the properties. The hot batch watch inside
the same transaction is `HotBatch`'s.

**`TelegramAlerts`** (`telegram_notify.py`, `telegram_webhook.py`,
`telegram_pages.py`). `LoadInbox` and `LoadUsers` are the two queries, `Send`,
`SendFails` and `RegisterMessage` the loop over the chats; a failed send was
delivered or not. An update is pending until a delivery answers it, and may be
delivered to two workers at once. `FindStaff`, `Resolve` or `NoTicket`,
`ApplySignals` (with or without a broadcast of its own) and `Confirm` are the
webhook. The `add` of the collecting functions, which keeps a set of what is on
the list, is `AddNew`: the list, and then the first occurrences of what it
lacked (`Picked`, the elements at a set of positions in their order). Messages are numbered anew in every chat, as Telegram does in private
chats and groups. `due`, `was`, `steady` and `unbound` are history for the
properties. What a pick-up writes to the ticket is `WorkingOn`'s.

**`Workspaces`** (`staff_views.py`, `portal/views.py`, `accounts/views.py`,
`permissions.py`, the script of `portal/ticket_thread.html`). One browser: `page`
is what it shows and `going` the request it waits for. `Follow` is one request
and its answer, with the user's row as it is then; `Login` and `Post` are forms
sent from a page that may be out of date. `Poll`, `ServePoll`, `ReadPoll` and
`LosePoll` are the script's requests, of which several may be on their way.
`SetRow` is the user form of the admin site, `OtherTab` another tab that logs in
or out. Pages with the same guard are represented by one of them: the claim list
and the claim form by the portal's home page, the other staff pages by the
workspace.

## 3. Runs

Passing runs. TLC explores every state within the bounds.

| Run | Question | Bounds and why they are enough |
|---|---|---|
| `RO_race` | Without faults, can two pushes and an undo give Zoho a second order, or one that is on no file? Do number, dedupe row, log and note agree over three pushes? Do they implement `OrderLedger`? Is every push answered? | One claim, below the approval threshold or at it, an agent and a finance user, two pushers, one deleter, three pushes (simulated, undone, and two competing for the real order), or fewer and approvals given and taken back: `MaxActs` is 3 |
| `RO_edits` | Is every order authorised, and every number audited or typed, when requests are killed, answers are lost, approvals come and go and an old claim form is saved? Do number, dedupe row, log and note agree on claims no form touched? | One claim, two quantities, amounts below and at the threshold, an agent who needs the approval, two pushers, one deleter, one open form; crashes and lost answers without limit; two pushes and two saves in the admin site, or fewer pushes and more saves: an approval and its withdrawal, or an amount lowered and raised again, around two pushes. `RO_race` has the third push |
| `HB_race` | All of the hot batch properties | Three claims, two requests, threshold 2: one below, one at and one above it, with two saves overlapping at each; the flag ticked or cleared by hand once, at any moment |
| `WO_team` | All of the working-on properties | Three signals for two requests, so that one signal always follows another; two users; one crash |
| `IN_race` | All of the intake and automation properties | Two portal requests and a seed run, three submissions in all: two that overlap and one that comes after them; two forms that between them meet all four conditions; unit costs below and above the limit of a small claim and one too large for the column; one crash or one change by people, who may approve or reject nothing at all or more than a small claim |
| `AL_team` | All of the alert properties | Two users, a group that is listed twice and in the inbox, two tickets, two broadcasts at once, one update, and one mishap: a change of user or inbox between the queries, a failed send, an expired key or a killed worker |
| `WS_visits` | All of the workspace properties | Two users with five rows between them (distributor, agent, superuser, deactivated), every page and every `?next=`, two polls on their way, two statuses; unlimited in length |
| `TL_race` | All of the linking properties | Two users and tokens compete for one chat with two deliveries; messages sent again without limit; one crash. `LinkConflict` needs two users and one chat |

`RO_race` and `RO_edits` have one deletion of notes at a time. With two
(`TwoDeleters` in `RO_edits`) `RecordsAgree` is false: two deletions of one note
that both loaded the simulated number interleave with a new push, one deleting the
dedupe row too early and the other the number too late. The claim is then blocked
as a duplicate and shows no number. `RO_stale_undo` below shows the worse outcome
of the same stale read.

Some properties hold in a weaker form than one would hope, and say so.
`OrdersAuthorised` says that an order had its authority at some single moment
since its push began, not that it still has it when it is placed: the gate reads
an amount loaded before and approvals queried then, and nothing looks again
before the call. `AuditCoversFile` lets people type a number, and is about what a
claim shows, not about what a stale form erased. `RecordsAgree` sets aside the
claims whose form was saved in the admin site. `CommitNotices` and
`ThresholdNoticed` except the saves that went by a flag ticked by hand on a batch
without an incident, for these return before they look for one;
`ThresholdNoticed` also allows one claim fewer than the number of requests to be
missed, because overlapping submissions count without each other;
`SignalsLimited` and `TokenShared` allow as many as there are requests, because
only requests that overlap share a cache key's absence or a token.
`AssignedHasNote` names its one exception, a request killed right after it set
the key. `AssigneeSettles` allows an assignee to be replaced by requests that
loaded the ticket unassigned. `DuplicatesFromOverlap` blames a duplicate on two
requests that overlapped, and `ErrorsExplained` admits the exception that a
duplicate causes ever after. `OneRuleApplied` speaks of what a rule wrote, for
finance may approve anything: a claim whose evidence came, or an amount over the
limit; if finance entered an amount before the rule did, the rule approves that
amount, so the limit is claimed of rows that rules alone wrote. `StaffHasLastWord`
holds from the answer on: before it, a rule may write over what staff or finance
did. `AlertsAnswered` names the alerts whose
reactions are lost: the send was not answered, the worker was killed before it
bound the message, the key has expired, or the reaction came just before the
key. `LandsInWorkspace` excepts staff who asked for the portal.

Runs that find the code disagreeing with its own documentation:

| Run | Disagreement |
|---|---|
| `RO_refusal` | The PENDING approval "Auto-created: exceeds replacement threshold" is rolled back with the refusal that follows it: finance never sees it |
| `RO_failure` | The sync log saved as FAILED is rolled back by the re-raise: the "see sync logs" of `staff_views.py:152` finds nothing, and there is nothing to retry |
| `RO_lost_reply` | A reply lost after Zoho took the order rolls back the key too; the next push places a second order for the same fingerprint |
| `RO_stale_undo` | A deletion that loaded the claim with a simulated number takes a real number off it, with its dedupe row and logs |

Of the same kind, noted while modelling and left without a run of their own:

* `working_on.py:28` says "Set assignee when still unassigned", tested on the
  ticket as loaded: the later of two overlapping signals replaces the assignee.
* `telegram_link.py:23` says "one-time token", but two overlapping deliveries are
  both given the user.
* `accounts/views.py:12` says "Send staff to the support inbox", but logging out
  leads by way of the portal to a login with `?next=/portal/`, so staff who log
  in again from there are told that their account needs a role.
* A changed quantity is a new fingerprint and may bring a second order; the undo
  reopens a ticket closed after it was loaded; two overlapping signals write two
  notes; a ticket resolved meanwhile is set to open by a signal.

`CHECK_DEADLOCK FALSE` appears where the number of pushes, signals, submissions
or alerts is bounded: when they are used up and nobody has a note to delete or a
key to expire, the system rests. In `WS_visits` it is there because a user is
free to do nothing more; in fact some visit is always possible.

### Bounds

`MaxAttempts`, `MaxSignals`, `MaxTokens`, `MaxCrashes` and `MaxForms` bound the
pushes, signals, tokens, killed requests and saves of the batch form in a run.
They are in the guards of `BeginPush`, `Begin`, `Mint`, `Crash` and
`SaveBatchForm`. `MaxActs` bounds pushes and saves of approval and claim forms
together (`BeginPush` and, through `CountEdit`, `DecideApproval` and `SaveForm`).
`MaxSubmissions` bounds the submissions and seed runs of `PortalIntake` (`Submit`,
`StartSeed`), `MaxDisturbances` the crashes and changes by people there (`Crash`,
`People`); `MaxAlerts`, `MaxUpdates` and `MaxMishaps` bound the broadcasts, what
people write, and the faults and changes of `TelegramAlerts` (`NotifyPortalClaim`,
`NotifyWorkingOn`, `ApplySignals`; `Ask`; `SendFails`, `Crash`, `KeyExpires`,
`Change`). `Polls` bounds the answers a browser waits for in `Workspaces`.
`MaxExposure` and `MaxQuantity` are the widths of two columns, scaled down.
Everything else (repeated messages, saves and aborts, crashes in `RO_edits`) is
unlimited and closes in a finite state space by itself.

### Fairness

* Weak fairness of a request's own steps: a Gunicorn worker goes on with what
  it runs. In `ReplacementOrder` this includes `RequestTimesOut`, for the HTTP
  client sets a timeout; it excludes `ZohoAccepts` and `ZohoFails`, for Zoho
  owes no answer. `PushAnswered` rests on the timeout: a mutant without it
  fails. Its premise sets aside undos that are begun and killed for
  ever, since each may take the awaited key before it dies.
* Strong fairness of a save's steps in `HotBatch`: PostgreSQL queues the waiters
  of a row, so a waiter is served although others take the row in turn.
* Strong fairness of `Deliver` for each message in `TelegramLink`: Telegram
  repeats an update that was not answered, and workers become free again.
* In `Workspaces`, weak fairness of `Follow`, `Poll` and `ServePoll`: a browser
  follows redirects, its timer fires every eight seconds while the thread is
  open, and the server answers. Strong fairness of `ReadPoll`: the network does
  not lose every answer. `PortalIntake` and `TelegramAlerts` state no liveness:
  a killed request is not repeated, so there is nothing that must happen.
* Nobody owes a click, a submission or a decision: no fairness for people.

## 4. Proofs

Every invariant and every action property of the passing runs is a theorem, for
all values of the constants that meet the named assumptions: any number of
requests, users, claims, tokens, messages, crashes. TLC checked each inductive
invariant on its run before it was proved.

### Replacement order

| Theorem | States | Argument |
|---|---|---|
| `TypeCorrect` | `[]TypeOK` | inductive by itself; a lemma per group of actions |
| `Exclusion` | `[]PushExclusive` | inductive with `TypeOK`. It speaks of open transactions and committed logs at once because neither half is inductive alone: a commit turns the one into the other. Most steps are *quiet* (they move no push past the insert and change no key) and are handled by one lemma |
| `AuditTrail` | `[]AuditCoversFile` | strengthened with the same statement for every open admin form, which may write its number back; a number typed instead is noted as typed |
| `Authorised` | `[]OrdersAuthorised` | `AuthorityInv`: whoever may order now is noted, and so is every attempt whose loaded amount needs nobody or that is past the gate. An amount, an approval or a push's start changes only in a step that notes who has the authority after it; at the gate the amount loaded was below the threshold when it was loaded, or the approval is there now |
| `NoDuplicateOrder` | `[]OneOrderPerFingerprint` when no answer is lost, no request is killed and no note is deleted | `OrderInv`: an order has left a sync log with its key, or its push still holds the key; orders exist only with credentials; a dedupe row has a log. With `PushExclusive`, no second push of the key can call Zoho. Admin edits are allowed |
| `Agreement` | `[]RecordsAgree`, with one deletion at a time and no edits | `FileInv` |
| `RealStays` | `RealNumberStays`, likewise | `FileInv`: what an undo found simulated is simulated when it commits |
| `Accounted` | `[]OrdersAccountedFor`, without faults too | `PlacedInv`: an order is under its attempt's audit row and its claim has a real number, or its push holds the key |
| `NoDuplicateWithUndo` | `[]OneOrderPerFingerprint`, likewise | `PlacedInv`; it allows the deletions that `NoDuplicateOrder` excludes, and excludes the edits that that one allows |
| `Refinement` | `ImplementsLedger`, likewise | `Init` maps to `LedgerInit`; `ZohoAccepts` is `Place`, `Apply` is `RecordReal` or `RecordSimulated`, `CommitClear` is `Undo`, and every other step leaves the ledger alone |

`FileInv` has five parts, each needed for the next: fingerprints are those the
claims have now (`KeysInv`); attempts are told apart and a deleter's note was
written (`AttemptInv`); what an undo has read is still so when it commits, and
the rows it will remove are the claim's (`UndoInv`); number, dedupe row and log
come and go together (`AgreeInv`); a simulated number has a note that nobody is
about to delete without undoing the number first (`NotesInv`).

The hypotheses are named operators of `ReplacementOrderImplProofs`.
`DeletersTakeTurns` allows one deletion of a note at a time: the code does not
enforce it, and `RO_stale_undo` and `TwoDeleters` above show what two do.
`NoEdits` keeps the claim's form in the admin site closed: the form writes back
the number it showed, so it can of course break any agreement. `NoFaults` (no
lost answer, no killed worker) is what `RO_lost_reply` shows to be needed for the
theorems that have it; `Agreement` and `RealStays` do not. `RO_race` is an
instance of all the hypotheses. In `RO_edits` a form is saved, so `NoEdits` does
not hold there; what TLC checks there is `RecordsAgree` on the claims no form
touched, with crashes and lost answers.

### The other components

| Module | Theorem | States | Argument |
|---|---|---|---|
| `HotBatch` | `TypeCorrect` | `[]TypeOK` | with the finiteness of the incidents (`TypeInv`) |
| | `OneIncident` | `[]OneOpenIncident` | `IncidentInv`: saving the flag takes the batch's row lock, held to the commit, and comes before the look for an open incident; so whoever has one to commit found none, and nobody else can have one |
| | `HonestCounts` | `[]CountsAreFiled` | `CountInv`: what a save counted is at most the filed claims and its own |
| | `NoticedAtCommit` | `CommitNotices` | `NoticeInv`: a flag, also one a save only saw, means an incident or was ticked by hand, and a flag the watch wrote comes with its incident, so skipping the look is harmless but for a tick |
| | `NoticedInTime` | `[]ThresholdNoticed` | `MissInv`: without an incident, the claims filed and not `excused` and those that saves below the threshold are about to file are at most `Threshold + Cardinality(Requests) - 2`; each step compares cardinalities (`ClaimsOf`: requests save no more claims than they are) |
| `WorkingOn` | `TypeCorrect` | `[]TypeOK` | inductive by itself |
| | `AcceptedInNote` | `[]AssignedHasNote` | `NoteInv`: the user of a key, of a request past its note and of the assignment has a note, is about to, or lost it |
| | `AssigneeStays` | `AssigneeSettles` | only `SaveTicket` assigns, on the assignee it loaded |
| | `TenMinuteLimit` | `[]SignalsLimited` | `LimitInv`: in each window, signals posted and still to be posted are no more than the requests there were when the key was first set; nothing is posted in a fresh window |
| `TelegramLink` | `TypeCorrect` | `[]TypeOK` | with `ReqInv`: a delivery is for the user its token was minted for |
| | `OwnToken` | `[]LinkedByOwnToken` | `ReqInv` and the unique constraint |
| | `SharedByOverlap` | `[]TokenShared` | `ShareInv`: those who took a token and those about to are never more than the requests, and nobody took one that can still be read |
| `PortalIntake` | `TypeCorrect` | `[]TypeOK` | `IntakeInv`: with the form and the table a request works on, and one ticket for each request past its commit |
| | `NearestCent` | `[]ExposureNearest` | `CentsNearest`: `quantize` with ROUND_HALF_EVEN is within half a cent, for all naturals |
| | `StaffDecides` | `[]StaffHasLastWord` | `StaffInv`: nothing is final before the page is answered, and no rule acts after: a row decided later is finance's |
| | `OneRule` | `[]OneRuleApplied`, for `SeparateRules` | `GovernInv`: all that was decided of a ticket, and all its request has still to do, is in the actions of one rule, the first that matches; what finance saves is not among it. `LoadedInv`: a request about to save over a rule's own row holds the claim's exposure |
| | `OverlapOnly` | `DuplicatesFromOverlap` | `RowsInv`: a request inserts no unconstrained row that was there when it began, for rows are never removed |
| | `ErrorsHaveCauses` | `ErrorsExplained` | each step that answers with an error |
| `TelegramAlerts` | `TypeCorrect` | `[]TypeOK` | with `FormInv`: a request has the ticket, update or message id its next step needs |
| | `TeamIsToldOnce` | `TeamToldOnce` | `ListInv`: while the list is made, all on it were to be told at some moment, each is on it once, and whoever was to be told throughout as an entry is on it. Rests on `AddNewProperties`: what `AddNew` lists, in what order, and that it repeats nothing |
| | `SteadyChatsAreTried` | `SteadyChatsTried` | `ListInv`: whoever is still owed the alert is on the rest of the list, or is the actor |
| | `PickupsAreMeant` | `[]PickupsMeant` | `BoundInv`: a key, and the id a request is about to bind, name a message about that ticket; messages are only added (`Grown`); `AskedInv`: people answer messages that exist |
| | `AlertsAreAnswered` | `AlertsAnswered` | `AlertInv`: every alert has its key, is about to get it from the request that sent it, or is known to have none |
| `Workspaces` | `TypeCorrect` | `[]TypeOK` | inductive by itself |
| | `EveryoneLands` | `[]LandsInWorkspace` | `WayInv`: while the row has not changed, a redirect leads to that page only those who are excused, and to the portal only who asked for it or may use it |
| | `OnlyReadersRead` | `ReaderMayRead` | the guard and the answer are one step |

`SeparateRules` says that no rule takes two of the three decisions (ask for
evidence, send to logistics, approve) and that a rule that approves is for small
claims and comes after one on missing photos. Rules are rows that administrators
enter, and the engine does not check this; it holds of the rules `seed_nexus.py`
enters and of those in the run. Without it the property fails for a reason that
is the administrator's, not the engine's.

The assumptions on constants, named where the constants are declared, are of four
kinds:

* bounds, amounts and thresholds are naturals (a batch's threshold is not zero);
* the sets the code ranges over are of their types: forms, rules, costs, rows,
  statuses, the environment's and administrators' chat ids (`TeamsAssumption`:
  the rows and the inbox to begin with are typed, and no two users share a chat,
  which the unique constraint on `telegram_chat_id` ensures);
* markers such as `Nothing`, `Unset` or `None` differ from what they mark, and
  seed runs are not portal requests;
* claims and requests in progress are finitely many (`RequestsAssumption`: there
  are so many workers), for the properties count them. `HotBatch` has at least
  one request: with none, and a threshold of one, `ThresholdNoticed` would ask
  for an incident although nothing is filed.

### Only model-checked

* Liveness: `PushAnswered`, `SaveEnds`, `StartAnswered`, `VisitEnds` and
  `StatusCatchesUp`. They rest on fairness, so on `ENABLED`, for which the prover
  has no support.
* That the hypotheses are needed: the runs that expect a violation.

## 5. Plan

What the proofs have left:

1. `NoEdits` is stronger than `Agreement` needs: in `RO_edits` TLC finds the
   records of the claims without a saved form in agreement, and even a form
   opened and saved between two pushes leaves number, key and log in step. A
   weaker hypothesis on forms would say which edits are safe.
2. Invariants behind the liveness properties: that a request that waits waits for
   somebody who can move, as a safety property of `ReplacementOrder` and
   `HotBatch`, so that what TLC adds is fairness alone.
3. An abstract specification of what a claim's intake promises, refined by
   `PortalIntake`.

Not modelled: health checks (stateless), the queries of read-only pages and API
lists, deployment and migrations (run once, offline), the webhook-registration
command (one call to Telegram), addresses and user agents of audit rows, public
ids (random, and unique by constraint), RMAs (created in the admin site, without
transitions), and the other forms of the admin site.
