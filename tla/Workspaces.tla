------------------------------ MODULE Workspaces ------------------------------
(***************************************************************************)
(* What a browser is shown: the guards of the staff pages, the portal, the *)
(* Telegram page and the API, the redirects between them, login and logout *)
(* with ?next=, and a portal thread that asks for the ticket's status over *)
(* and over.  Every request reads its user's row anew, while roles change  *)
(* and another tab logs in or out.  One ticket; claim list and forms of    *)
(* the portal are guarded like its home page, the other staff pages like   *)
(* the workspace.                                                          *)
(***************************************************************************)
EXTENDS Naturals, FiniteSets

CONSTANTS
  Users,
  Requester,  \* who filed the ticket
  Rows,       \* rows that administrators give each user
  Statuses,   \* statuses of the ticket
  Polls,      \* requests for the status that may be on their way together
  Nobody,     \* no user
  None        \* no page, no request, no answer

AllRoles == {"distributor", "agent", "quality", "finance", "admin"}

ASSUME RowsAssumption ==
  \A u \in Users : Rows[u] \subseteq [role : AllRoles, super : BOOLEAN, active : BOOLEAN]
ASSUME RequesterAssumption == Requester \in Users
ASSUME NobodyAssumption == Nobody \notin Users

Portal == {"portal_home", "portal_ticket"}
Nexts == Portal \cup {"inbox", "workspace", "telegram", "api", None}
Urls == Portal \cup {"inbox", "workspace", "telegram", "api", "login", "logout",
                     "no_workspace"}

ASSUME NoneAssumption ==
  /\ None \notin Statuses \cup Urls \cup {"refused", "asked"}
  /\ None \notin [url : Urls, next : Nexts]
ASSUME StatusesAssumption == "refused" \notin Statuses /\ "asked" \notin Statuses

VARIABLES
  user,     \* committed rows of the users
  status,   \* Ticket.status
  posts,    \* kinds of messages in the ticket
  session,  \* the user the browser is logged in as
  page,     \* what the browser shows
  going,    \* the request it waits for
  visit,    \* what the last navigation was for
  poll      \* requests for the status on their way

vars == <<user, status, posts, session, page, going, visit, poll>>

Shown == [url : Urls \cup {"refused"}, next : Nexts,
          posts : SUBSET {"public", "internal"}, status : Statuses \cup {None}]

(* Rows, pages, requests and answers hold values of their types.           *)
TypeOK ==
  /\ user \in [Users -> UNION {Rows[u] : u \in Users}]
  /\ \A u \in Users : user[u] \in Rows[u]
  /\ status \in Statuses
  /\ posts \subseteq {"public", "internal"}
  /\ session \in Users \cup {Nobody}
  /\ page \in Shown
  /\ going \in {None} \cup [url : Urls, next : Nexts]
  /\ visit \in [origin : {"portal", "no_workspace", "logout", "other"},
                steady : BOOLEAN]
  /\ poll \in [Polls -> {None, "asked", "refused"} \cup Statuses]

Blank(url, next) == [url |-> url, next |-> next, posts |-> {}, status |-> None]
Quiet == [i \in Polls |-> None]

Init ==
  /\ user \in [Users -> UNION {Rows[u] : u \in Users}]
  /\ \A u \in Users : user[u] \in Rows[u]
  /\ status \in Statuses /\ posts = {}
  /\ session = Nobody
  /\ page = Blank("login", None) /\ going = None
  /\ visit = [origin |-> "other", steady |-> TRUE]
  /\ poll = Quiet
-----------------------------------------------------------------------------
(* A user who was deactivated is anonymous.                                *)
LoggedIn == session # Nobody /\ user[session].active

HasRole(row, roles) == row.super \/ row.role \in roles \cup {"admin"}

Staff(row) == HasRole(row, {"agent", "quality", "finance"})

CanUsePortal(row) == HasRole(row, {"distributor"})

CanAccessTicket(u) == HasRole(user[u], {}) \/ u = Requester

(* Mutant: who is no staff is told that the account needs a role.          *)
NoPortal(row) == IF Staff(row) THEN "inbox" ELSE "no_workspace"

(* Where the inbox, staff pages and the login send a user.                 *)
HomeOf(row) ==
  IF Staff(row) THEN "inbox"
  ELSE IF CanUsePortal(row) THEN "portal_home" ELSE "no_workspace"

(* Mutant: staff who try the portal are sent to their inbox.               *)
BackToInbox(row) == "inbox"

NotForPortal(row) == "no_workspace"

Redirect(url, next) == [to |-> url, next |-> next]
Page(url) == [to |-> None, shows |-> url]

(* The answer to a request of a logged-in user, by the guard of its page.  *)
Guarded(url) ==
  LET row == user[session]
  IN  CASE url = "inbox" \/ url = "workspace" ->
             IF Staff(row) THEN Page(url) ELSE Redirect(HomeOf(row), None)
        [] url = "portal_home" ->
             IF CanUsePortal(row) THEN Page(url) ELSE Redirect(NotForPortal(row), None)
        [] url = "portal_ticket" ->
             IF ~CanUsePortal(row) THEN Redirect(NotForPortal(row), None)
             ELSE IF CanAccessTicket(session) THEN Page(url) ELSE Page("refused")
        [] url = "telegram" ->
             IF row.role = "distributor" THEN Redirect("portal_home", None) ELSE Page(url)
        [] url = "api" -> IF Staff(row) THEN Page(url) ELSE Page("refused")

Response(url, next) ==
  CASE url = "logout" -> Redirect("portal_home", None)
    [] url \in {"login", "no_workspace"} -> Page(url)
    [] OTHER -> IF LoggedIn THEN Guarded(url)
                ELSE IF url = "api" THEN Page("refused") ELSE Redirect("login", url)

(* Mutant: the template shows notes too.                                   *)
AllPosts(url) == posts

PostsOn(url) ==
  CASE url \in {"workspace", "api"} -> posts
    [] url = "portal_ticket" -> posts \ {"internal"}
    [] OTHER -> {}

Rendered(url, next) ==
  [url |-> url, next |-> IF url = "login" THEN next ELSE None, posts |-> PostsOn(url),
   status |-> IF url = "portal_ticket" THEN status ELSE None]

(* What the properties ask of a navigation: where it was meant to go.      *)
Origin(url) ==
  IF url \in Portal THEN "portal"
  ELSE IF url \in {"no_workspace", "logout"} THEN url ELSE "other"
-----------------------------------------------------------------------------
(* A link is followed or an address typed, ?next= of a login too.  Nobody  *)
(* looks at the page that is left, so its polls end here.                  *)
Visit(url, next) ==
  /\ going = None
  /\ next # None => url = "login"
  /\ going' = [url |-> url, next |-> next]
  /\ visit' = [origin |-> Origin(url), steady |-> TRUE]
  /\ poll' = Quiet
  /\ UNCHANGED <<user, status, posts, session, page>>

(* The server answers; a redirect is followed.                             *)
Follow ==
  /\ going # None
  /\ LET r == Response(going.url, going.next)
     IN  IF r.to # None
         THEN /\ going' = [url |-> r.to, next |-> r.next]
              /\ UNCHANGED page
         ELSE /\ going' = None
              /\ page' = Rendered(r.shows, going.next)
  /\ session' = IF going.url = "logout" THEN Nobody ELSE session
  /\ UNCHANGED <<user, status, posts, visit, poll>>

(* get_success_url: ?next=, but who is no staff stays within the portal.   *)
SuccessUrl(u, next) ==
  IF next # None /\ (Staff(user[u]) \/ next \in Portal) THEN next ELSE HomeOf(user[u])

Login(u) ==
  /\ going = None /\ page.url = "login" /\ user[u].active
  /\ session' = u
  /\ going' = [url |-> SuccessUrl(u, page.next), next |-> None]
  /\ visit' = [origin |-> IF visit.origin = "logout" THEN "logout" ELSE Origin(page.next),
               steady |-> TRUE]
  /\ UNCHANGED <<user, status, posts, page, poll>>

(* A post from a page that is open, perhaps longer than it is allowed.     *)
(* Redirected by the guard, it writes nothing; else the page is shown anew.*)
Post(kind, s) ==
  /\ going = None
  /\ \/ page.url = "workspace"
     \/ page.url = "portal_ticket" /\ kind = "public" /\ s = status
  /\ LET r == Response(page.url, None)
         allowed == r.to = None /\ r.shows = page.url
     IN  /\ going' = [url |-> page.url, next |-> None]
         /\ posts' = IF allowed THEN posts \cup {kind} ELSE posts
         /\ status' = IF allowed THEN s ELSE status
  /\ visit' = [origin |-> Origin(page.url), steady |-> TRUE]
  /\ poll' = Quiet
  /\ UNCHANGED <<user, session, page>>
-----------------------------------------------------------------------------
OnThread == page.url = "portal_ticket" /\ going = None

(* Every eight seconds, whatever became of the last request.               *)
Poll(i) ==
  /\ OnThread /\ poll[i] = None
  /\ poll' = [poll EXCEPT ![i] = "asked"]
  /\ UNCHANGED <<user, status, posts, session, page, going, visit>>

MayPoll == LoggedIn /\ CanUsePortal(user[session]) /\ CanAccessTicket(session)

ServePoll(i) ==
  /\ poll[i] = "asked"
  /\ poll' = [poll EXCEPT ![i] = IF MayPoll THEN status ELSE "refused"]
  /\ UNCHANGED <<user, status, posts, session, page, going, visit>>

(* Mutants: a status other than the one shown is taken for an old answer;  *)
(* any answer is shown.                                                    *)
KeepShown(i) == page.status
AnyAnswer(i) == poll[i]

StatusShown(i) == IF poll[i] \in Statuses THEN poll[i] ELSE page.status

(* Answers come in any order; a login page or an error changes nothing.    *)
ReadPoll(i) ==
  /\ poll[i] \notin {None, "asked"}
  /\ page' = [page EXCEPT !.status = StatusShown(i)]
  /\ poll' = [poll EXCEPT ![i] = None]
  /\ UNCHANGED <<user, status, posts, session, going, visit>>

LosePoll(i) ==
  /\ poll[i] \notin {None, "asked"}
  /\ poll' = [poll EXCEPT ![i] = None]
  /\ UNCHANGED <<user, status, posts, session, page, going, visit>>
-----------------------------------------------------------------------------
SetRow(u, row) ==
  /\ user[u] # row
  /\ user' = [user EXCEPT ![u] = row]
  /\ visit' = [visit EXCEPT !.steady = FALSE]
  /\ UNCHANGED <<status, posts, session, page, going, poll>>

OtherTab(u) ==
  /\ session' = u /\ u # session
  /\ visit' = [visit EXCEPT !.steady = FALSE]
  /\ UNCHANGED <<user, status, posts, page, going, poll>>

(* Other staff, rules and pushes.                                          *)
SetStatus(s) ==
  /\ status' = s /\ s # status
  /\ UNCHANGED <<user, posts, session, page, going, visit, poll>>

Next ==
  \/ \E url \in Urls, next \in Nexts : Visit(url, next)
  \/ Follow
  \/ \E u \in Users : Login(u)
  \/ \E kind \in {"public", "internal"}, s \in Statuses : Post(kind, s)
  \/ \E i \in Polls : Poll(i) \/ ServePoll(i) \/ ReadPoll(i) \/ LosePoll(i)
  \/ \E u \in Users : \E row \in Rows[u] : SetRow(u, row)
  \/ \E u \in Users \cup {Nobody} : OtherTab(u)
  \/ \E s \in Statuses : SetStatus(s)

Spec == Init /\ [][Next]_vars

(* The browser follows redirects and its timer goes off; the network does  *)
(* not lose every answer.                                                  *)
FairSpec ==
  /\ Spec
  /\ WF_vars(Follow)
  /\ \A i \in Polls : /\ WF_vars(Poll(i)) /\ WF_vars(ServePoll(i))
                      /\ SF_vars(ReadPoll(i))
-----------------------------------------------------------------------------
(* "Break redirect loops": however roles and sessions change between the   *)
(* requests, every navigation ends with a page.                            *)
VisitEnds == going # None ~> going = None

(* "Account needs a role" is shown to nobody whose row has been what it is *)
(* throughout, save to staff who asked for the portal (as whoever logs out *)
(* does: logging in again leads back there), or for that very page.        *)
LandsInWorkspace ==
  page.url = "no_workspace" /\ going = None /\ LoggedIn /\ visit.steady =>
    \/ visit.origin = "no_workspace"
    \/ /\ visit.origin \in {"portal", "logout"}
       /\ user[session].role # "distributor" /\ ~HasRole(user[session], {})

(* Who is shown the ticket may see it then: a portal thread is its         *)
(* requester's or an administrator's, internal notes are for staff.        *)
ReaderMayRead ==
  [][page' # page /\ going' = None /\ going # None =>
       /\ page'.url = "portal_ticket" =>
            \/ session = Requester
            \/ user[session].super \/ user[session].role = "admin"
       /\ "internal" \in page'.posts =>
            user[session].super \/ user[session].role # "distributor"]_vars

(* "Status updates when your Nexus team changes the ticket": a thread that *)
(* stays open and readable shows the status in the end, though answers     *)
(* overtake each other and some are lost.                                  *)
StatusCatchesUp ==
  <>[](OnThread /\ MayPoll) /\ <>[][status' = status]_status
    => <>[](page.status = status)
=============================================================================
