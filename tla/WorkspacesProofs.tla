--------------------------- MODULE WorkspacesProofs ---------------------------
(***************************************************************************)
(* Theorems about Workspaces, for every set of users and statuses, every   *)
(* rows administrators may give them and any number of polls.              *)
(***************************************************************************)
EXTENDS Workspaces, TLAPS

(* The row of the user who is logged in.                                   *)
LEMMA RowOfSession ==
  ASSUME TypeOK, LoggedIn
  PROVE  /\ session \in Users
         /\ user[session] \in [role : AllRoles, super : BOOLEAN, active : BOOLEAN]
BY RowsAssumption DEF TypeOK, LoggedIn

(* Everyone has a home: there is no role that is neither staff nor portal. *)
LEMMA EveryoneHasHome ==
  ASSUME NEW row \in [role : AllRoles, super : BOOLEAN, active : BOOLEAN]
  PROVE  \/ HomeOf(row) = "inbox" /\ Staff(row)
         \/ HomeOf(row) = "portal_home" /\ CanUsePortal(row)
<1>1. row.role \in AllRoles OBVIOUS
<1>2. CASE Staff(row) BY <1>2 DEF HomeOf
<1>3. CASE ~Staff(row)
  <2>1. row.role = "distributor" BY <1>1, <1>3 DEF Staff, HasRole, AllRoles
  <2>2. CanUsePortal(row) BY <2>1 DEF CanUsePortal, HasRole
  <2> QED BY <1>3, <2>2 DEF HomeOf
<1> QED BY <1>2, <1>3

(* A request is answered by a redirect or by a page.                       *)
LEMMA ResponseShape ==
  ASSUME TypeOK, NEW url \in Urls, NEW next \in Nexts
  PROVE  LET r == Response(url, next)
         IN  \/ r.to \in Urls /\ r.to # None /\ r.next \in Nexts
             \/ r.to = None /\ r.shows \in {url, "refused"}
<1> USE DEF Response, Redirect, Page, Urls, Nexts, Portal
<1>1. CASE url \in {"logout", "login", "no_workspace"}
  BY <1>1, NoneAssumption
<1>2. CASE url \notin {"logout", "login", "no_workspace"} /\ ~LoggedIn
  BY <1>2, NoneAssumption
<1>3. CASE url \notin {"logout", "login", "no_workspace"} /\ LoggedIn
  <2>1. user[session] \in [role : AllRoles, super : BOOLEAN, active : BOOLEAN]
    BY <1>3, RowOfSession
  <2>2. HomeOf(user[session]) \in {"inbox", "portal_home"}
    BY <2>1, EveryoneHasHome
  <2>3. Response(url, next) = Guarded(url) BY <1>3
  <2>4. \/ /\ Guarded(url).to \in {"inbox", "portal_home", "no_workspace"}
           /\ Guarded(url).next = None
        \/ Guarded(url).to = None /\ Guarded(url).shows \in {url, "refused"}
    BY <1>3, <2>2 DEF Guarded, NotForPortal
  <2> QED BY <2>3, <2>4, NoneAssumption
<1> QED BY <1>1, <1>2, <1>3

LEMMA TypeStep ==
  ASSUME TypeOK, [Next]_vars
  PROVE  TypeOK'
<1>1. ASSUME NEW url \in Urls, NEW next \in Nexts, Visit(url, next) PROVE TypeOK'
  BY <1>1 DEF Visit, Origin, Quiet, TypeOK
<1>2. CASE Follow
  <2> DEFINE r == Response(going.url, going.next)
  <2>1. going.url \in Urls /\ going.next \in Nexts
    BY <1>2 DEF Follow, TypeOK
  <2>2. \/ r.to \in Urls /\ r.to # None /\ r.next \in Nexts
        \/ r.to = None /\ r.shows \in {going.url, "refused"}
    BY <2>1, ResponseShape
  <2>3. session' \in Users \cup {Nobody} BY <1>2 DEF Follow, TypeOK
  <2>4. CASE r.to # None
    <3>1. going' \in [url : Urls, next : Nexts] /\ page' = page
      BY <1>2, <2>2, <2>4 DEF Follow
    <3> QED BY <1>2, <2>3, <3>1 DEF Follow, TypeOK
  <2>5. CASE r.to = None
    <3>1. r.shows \in Urls \cup {"refused"} BY <2>1, <2>2, <2>5
    <3>2. Rendered(r.shows, going.next) \in Shown
      BY <2>1, <3>1 DEF Rendered, PostsOn, Shown, Nexts, TypeOK
    <3>3. page' \in Shown /\ going' = None BY <1>2, <2>5, <3>2 DEF Follow
    <3> QED BY <1>2, <2>3, <3>3 DEF Follow, TypeOK
  <2> QED BY <2>4, <2>5
<1>3. ASSUME NEW u \in Users, Login(u) PROVE TypeOK'
  <2>1. page.next \in Nexts BY DEF TypeOK, Shown
  <2>2. user[u] \in [role : AllRoles, super : BOOLEAN, active : BOOLEAN]
    BY RowsAssumption DEF TypeOK
  <2>3. SuccessUrl(u, page.next) \in Urls
    BY <2>1, <2>2, EveryoneHasHome DEF SuccessUrl, Urls, Nexts, Portal
  <2>4. going' \in [url : Urls, next : Nexts]
    BY <1>3, <2>3 DEF Login, Nexts
  <2>5. visit' \in [origin : {"portal", "no_workspace", "logout", "other"},
                    steady : BOOLEAN]
    BY <1>3 DEF Login, Origin
  <2> QED BY <1>3, <2>4, <2>5 DEF Login, TypeOK
<1>4. ASSUME NEW kind \in {"public", "internal"}, NEW s \in Statuses, Post(kind, s)
      PROVE  TypeOK'
  <2>1. going' \in [url : Urls, next : Nexts]
    BY <1>4 DEF Post, Urls, Portal, Nexts
  <2>2. visit' \in [origin : {"portal", "no_workspace", "logout", "other"},
                    steady : BOOLEAN]
    BY <1>4 DEF Post, Origin
  <2>3. posts' \in {posts, posts \cup {kind}} /\ status' \in {status, s}
    BY <1>4 DEF Post
  <2>4. poll' \in [Polls -> {None, "asked", "refused"} \cup Statuses]
    BY <1>4 DEF Post, Quiet
  <2>5. UNCHANGED <<user, session, page>> BY <1>4 DEF Post
  <2> QED BY <2>1, <2>2, <2>3, <2>4, <2>5 DEF TypeOK
<1>5. ASSUME NEW i \in Polls, Poll(i) \/ ServePoll(i) \/ LosePoll(i) PROVE TypeOK'
  BY <1>5 DEF Poll, ServePoll, LosePoll, TypeOK
<1>6. ASSUME NEW i \in Polls, ReadPoll(i) PROVE TypeOK'
  <2>1. page' \in Shown BY <1>6 DEF ReadPoll, StatusShown, Shown, TypeOK
  <2> QED BY <1>6, <2>1 DEF ReadPoll, TypeOK
<1>7. ASSUME NEW u \in Users, NEW row \in Rows[u], SetRow(u, row) PROVE TypeOK'
  BY <1>7 DEF SetRow, TypeOK
<1>8. ASSUME NEW u \in Users \cup {Nobody}, OtherTab(u) PROVE TypeOK'
  BY <1>8 DEF OtherTab, TypeOK
<1>9. ASSUME NEW s \in Statuses, SetStatus(s) PROVE TypeOK'
  BY <1>9 DEF SetStatus, TypeOK
<1>10. CASE UNCHANGED vars BY <1>10 DEF vars, TypeOK
<1> QED BY <1>1, <1>2, <1>3, <1>4, <1>5, <1>6, <1>7, <1>8, <1>9, <1>10 DEF Next

(* Rows, pages, requests and answers hold values of their types.           *)
THEOREM TypeCorrect == Spec => []TypeOK
<1>1. Init => TypeOK
  BY DEF Init, TypeOK, Blank, Quiet, Shown, Urls, Nexts
<1>2. TypeOK /\ [Next]_vars => TypeOK' BY TypeStep
<1> QED BY <1>1, <1>2, PTL DEF Spec
-----------------------------------------------------------------------------
(* Who may be told that the account needs a role.                          *)
Excused ==
  \/ visit.origin = "no_workspace"
  \/ /\ visit.origin \in {"portal", "logout"}
     /\ user[session].role # "distributor" /\ ~HasRole(user[session], {})

(* On the way: only those are led to that page, and to the portal only who *)
(* asked for it or may use it.                                             *)
OnTheWay ==
  going # None /\ LoggedIn /\ visit.steady =>
    /\ going.url = "no_workspace" => Excused
    /\ going.url \in Portal =>
         visit.origin \in {"portal", "logout"} \/ CanUsePortal(user[session])

WayInv == OnTheWay /\ LandsInWorkspace

LEMMA WayStep ==
  ASSUME TypeOK, WayInv, [Next]_vars
  PROVE  WayInv'
<1> USE DEF WayInv, OnTheWay, LandsInWorkspace, Excused, LoggedIn
<1>1. ASSUME NEW url \in Urls, NEW next \in Nexts, Visit(url, next) PROVE WayInv'
  <2>1. /\ going' = [url |-> url, next |-> next] /\ going' # None
        /\ visit'.origin = Origin(url)
    BY <1>1, NoneAssumption DEF Visit
  <2>2. /\ url = "no_workspace" => Origin(url) = "no_workspace"
        /\ url \in Portal => Origin(url) = "portal"
    BY DEF Origin, Portal
  <2> QED BY <2>1, <2>2
<1>2. CASE Follow
  <2> DEFINE r == Response(going.url, going.next)
  <2>1. going.url \in Urls /\ going.next \in Nexts /\ going # None
    BY <1>2 DEF Follow, TypeOK
  <2>2. user' = user /\ visit' = visit BY <1>2 DEF Follow
  <2>3. CASE going.url = "logout"
    <3>1. session' = Nobody BY <1>2, <2>3 DEF Follow
    <3> QED BY <3>1
  <2>4. CASE going.url # "logout" /\ ~LoggedIn
    <3>1. session' = session BY <1>2, <2>4 DEF Follow
    <3> QED BY <2>2, <2>4, <3>1
  <2>5. CASE going.url # "logout" /\ LoggedIn
    <3>1. session' = session BY <1>2, <2>5 DEF Follow
    <3>2. user[session] \in [role : AllRoles, super : BOOLEAN, active : BOOLEAN]
      BY <2>5, RowOfSession
    <3>3. CASE going.url \in {"login", "no_workspace"}
      <4>1. r.to = None /\ r.shows = going.url
        BY <3>3 DEF Response, Page
      <4>2. going' = None /\ page'.url = going.url
        BY <1>2, <4>1 DEF Follow, Rendered
      <4> QED BY <2>1, <2>2, <2>5, <3>1, <4>2
    <3>4. CASE going.url \notin {"login", "no_workspace"}
      <4>1. r = Guarded(going.url) BY <2>5, <3>4 DEF Response
      <4>2. CASE r.to = None
        <5>1. r.shows \in {going.url, "refused"}
          BY <2>1, <4>2, ResponseShape
        <5>2. going' = None /\ page'.url = r.shows
          BY <1>2, <4>2 DEF Follow, Rendered
        <5> QED BY <3>4, <5>1, <5>2
      <4>3. CASE r.to # None
        <5>1. going' = [url |-> r.to, next |-> r.next] /\ going' # None
          <6>1. r.to \in Urls /\ r.next \in Nexts BY <2>1, <4>3, ResponseShape
          <6> QED BY <1>2, <4>3, <6>1, NoneAssumption DEF Follow
        <5>2. \/ r.to = "no_workspace" /\ ~CanUsePortal(user[session])
                 /\ going.url \in Portal
              \/ r.to = "portal_home" /\ CanUsePortal(user[session])
              \/ r.to = "inbox"
          <6>1. \/ HomeOf(user[session]) = "inbox"
                \/ /\ HomeOf(user[session]) = "portal_home"
                   /\ CanUsePortal(user[session])
            BY <3>2, EveryoneHasHome
          <6>2. user[session].role = "distributor" => CanUsePortal(user[session])
            BY DEF CanUsePortal, HasRole
          <6>3. going.url \in {"inbox", "workspace", "portal_home",
                               "portal_ticket", "telegram", "api"}
            BY <2>1, <2>5, <3>4 DEF Urls, Portal
          <6> QED BY <4>1, <4>3, <6>1, <6>2, <6>3
               DEF Guarded, Redirect, Page, NotForPortal, Portal
        <5>3. ~CanUsePortal(user[session]) =>
                user[session].role # "distributor" /\ ~HasRole(user[session], {})
          BY <3>2 DEF CanUsePortal, HasRole
        <5>4. /\ r.to = "no_workspace" /\ visit.steady => Excused
              /\ r.to \in Portal => CanUsePortal(user[session])
          BY <2>1, <2>5, <5>2, <5>3 DEF Portal
        <5>5. going'.url = r.to BY <5>1
        <5> QED BY <2>2, <2>5, <3>1, <5>1, <5>4, <5>5
      <4> QED BY <4>2, <4>3
    <3> QED BY <3>3, <3>4
  <2> QED BY <2>3, <2>4, <2>5
<1>3. ASSUME NEW u \in Users, Login(u) PROVE WayInv'
  <2> DEFINE to == SuccessUrl(u, page.next)
  <2>1. page.next \in Nexts /\ user' = user /\ session' = u
    BY <1>3 DEF Login, TypeOK, Shown
  <2>2. user[u] \in [role : AllRoles, super : BOOLEAN, active : BOOLEAN]
    BY RowsAssumption DEF TypeOK
  <2>3. /\ to \in Urls /\ to # "no_workspace"
        /\ to \in Portal => page.next \in Portal \/ CanUsePortal(user[u])
    BY <2>1, <2>2, EveryoneHasHome DEF SuccessUrl, Urls, Nexts, Portal
  <2>4. going' = [url |-> to, next |-> None] /\ going' # None
    BY <1>3, <2>3, NoneAssumption DEF Login, Nexts
  <2>5. page.next \in Portal => visit'.origin \in {"portal", "logout"}
    BY <1>3 DEF Login, Origin
  <2> HIDE DEF to
  <2> QED BY <2>1, <2>3, <2>4, <2>5
<1>4. ASSUME NEW kind \in {"public", "internal"}, NEW s \in Statuses, Post(kind, s)
      PROVE  WayInv'
  <2>1. /\ going' = [url |-> page.url, next |-> None]
        /\ page.url \in {"workspace", "portal_ticket"}
        /\ visit'.origin = Origin(page.url)
    BY <1>4 DEF Post
  <2>2. going' # None BY <2>1, NoneAssumption DEF Urls, Portal, Nexts
  <2>3. page.url \in Portal => Origin(page.url) = "portal" BY DEF Origin
  <2> QED BY <2>1, <2>2, <2>3
<1>5. ASSUME NEW i \in Polls, Poll(i) \/ ServePoll(i) \/ ReadPoll(i) \/ LosePoll(i)
      PROVE  WayInv'
  <2>1. page'.url = page.url /\ UNCHANGED <<user, session, going, visit>>
    BY <1>5 DEF Poll, ServePoll, ReadPoll, LosePoll, TypeOK, Shown
  <2> QED BY <2>1
<1>6. CASE \/ \E u \in Users : \E row \in Rows[u] : SetRow(u, row)
           \/ \E u \in Users \cup {Nobody} : OtherTab(u)
  <2>1. visit'.steady = FALSE BY <1>6 DEF SetRow, OtherTab, TypeOK
  <2> QED BY <2>1
<1>7. CASE UNCHANGED vars \/ \E s \in Statuses : SetStatus(s)
  BY <1>7 DEF vars, SetStatus
<1> QED BY <1>1, <1>2, <1>3, <1>4, <1>5, <1>6, <1>7 DEF Next

(* A user whose row has not changed since the navigation began is told     *)
(* that the account needs a role only after asking for the portal without  *)
(* being its user, or for that page.                                       *)
THEOREM EveryoneLands == Spec => []LandsInWorkspace
<1>1. Init => WayInv
  BY DEF Init, WayInv, OnTheWay, LandsInWorkspace, Blank, LoggedIn
<1>2. TypeOK /\ WayInv /\ [Next]_vars => WayInv' BY WayStep
<1> QED BY <1>1, <1>2, TypeCorrect, PTL DEF Spec, WayInv
-----------------------------------------------------------------------------
(* Who is shown the ticket may see it at that moment, and internal notes   *)
(* are shown to staff, whatever the user was when the page was asked for.  *)
THEOREM OnlyReadersRead == Spec => ReaderMayRead
<1> DEFINE Reads ==
      page' # page /\ going' = None /\ going # None =>
        /\ page'.url = "portal_ticket" =>
             \/ session = Requester
             \/ user[session].super \/ user[session].role = "admin"
        /\ "internal" \in page'.posts =>
             user[session].super \/ user[session].role # "distributor"
<1>1. TypeOK /\ [Next]_vars => [Reads]_vars
  <2> SUFFICES ASSUME TypeOK, [Next]_vars, page' # page, going' = None,
                      going # None
               PROVE  Reads
    OBVIOUS
  <2> DEFINE r == Response(going.url, going.next)
             seen == Rendered(r.shows, going.next)
  <2>1. Follow
    BY DEF Next, vars, Visit, Login, Post, Poll, ServePoll, ReadPoll, LosePoll,
       SetRow, OtherTab, SetStatus
  <2>2. going.url \in Urls /\ going.next \in Nexts BY DEF TypeOK
  <2>3. r.to = None /\ page' = seen
    BY <2>1 DEF Follow
  <2>4. r.shows \in {going.url, "refused"} BY <2>2, <2>3, ResponseShape
  <2>5. /\ seen.url = r.shows
        /\ "internal" \in seen.posts => r.shows \in {"workspace", "api"}
    BY DEF Rendered, PostsOn
  <2>6. ASSUME r.shows \in {"portal_ticket", "workspace", "api"}
        PROVE  LoggedIn /\ r = Guarded(r.shows) /\ going.url = r.shows
    <3>1. going.url = r.shows BY <2>4, <2>6
    <3>2. LoggedIn
      BY <2>3, <2>6, <3>1, NoneAssumption DEF Response, Redirect, Page, Urls
    <3>3. r = Guarded(r.shows) BY <2>6, <3>1, <3>2 DEF Response
    <3> QED BY <3>1, <3>2, <3>3
  <2>7. r.shows = "portal_ticket" => CanAccessTicket(session)
    BY <2>3, <2>6, NoneAssumption DEF Guarded, Redirect, Page, NotForPortal, Urls
  <2>8. r.shows \in {"workspace", "api"} => Staff(user[session])
    <3> SUFFICES ASSUME r.shows \in {"workspace", "api"}, ~Staff(user[session])
                 PROVE  FALSE
      OBVIOUS
    <3>1. HomeOf(user[session]) \in {"inbox", "portal_home"}
      BY <2>6, RowOfSession, EveryoneHasHome
    <3> QED BY <2>3, <2>6, <3>1, NoneAssumption
         DEF Guarded, Redirect, Page, Urls, Portal
  <2> QED BY <2>3, <2>5, <2>7, <2>8
       DEF CanAccessTicket, Staff, HasRole
<1> QED BY <1>1, TypeCorrect, PTL DEF Spec, ReaderMayRead
=============================================================================
