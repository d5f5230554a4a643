------------------------------- MODULE Routes -------------------------------
(***************************************************************************)
(* The routes, in the order they are registered, and who is let in.  The   *)
(* first route whose method and path fit a request serves it; a segment    *)
(* with a colon (in braces in the code) fits whatever stands there, "/"    *)
(* stands for a path that ends there.  A caller is nobody, or an account   *)
(* with or without a verified address, with roles and perhaps the          *)
(* administrator's flag.                                                   *)
(***************************************************************************)
EXTENDS Sequences, Integers, FiniteSets

VARIABLES
  caller,   \* who calls
  asked,    \* the request under way: the route it is meant for, method and path
  reply     \* [status, route that served it]

routeVars == <<caller, asked, reply>>

Parameters == {":id", ":type", ":direction", ":name", ":path"}

Route(method, path, needs) == [method |-> method, path |-> path, needs |-> needs]
Get(path, needs) == Route("GET", path, needs)
Post(path, needs) == Route("POST", path, needs)
Put(path, needs) == Route("PUT", path, needs)
Delete_(path, needs) == Route("DELETE", path, needs)

-----------------------------------------------------------------------------
(* The routers.  A route needs nothing, a session, a verified account or a *)
(* permission.                                                             *)

AuthRouter ==
  << Post(<<"login">>, "nothing"), Post(<<"refresh">>, "nothing"), Post(<<"logout">>, "session"),
     Get(<<"me">>, "session"), Post(<<"register">>, "nothing"),
     Post(<<"resend-verification-email">>, "session"), Post(<<"verify-email">>, "nothing"),
     Post(<<"forgot-password">>, "nothing"), Post(<<"reset-password">>, "nothing"),
     Post(<<"google", "callback">>, "nothing"), Post(<<"google", "link">>, "nothing"),
     Delete_(<<"oauth2", ":id">>, "verified") >>

\* The type decides on the permission.
CoreelementRouter ==
  << Get(<<":type">>, "typed"), Post(<<":type">>, "typed"), Put(<<":type", ":id">>, "typed"),
     Delete_(<<":type", ":id">>, "typed"),
     Post(<<":type", ":id", "move", ":direction">>, "typed") >>

ArtistRouter ==
  << Get(<<"search">>, "artistMaintain"), Post(<< >>, "artistMaintain"),
     Get(<<"composers">>, "artistMaintain"), Get(<<":id">>, "artistMaintain"),
     Put(<<":id">>, "artistMaintain"), Delete_(<<":id">>, "artistMaintain") >>

OrdinariumworkRouter ==
  << Get(<<"search">>, "ordinariumworkMaintain"), Post(<< >>, "ordinariumworkMaintain"),
     Get(<<"available-positions">>, "ordinariumworkMaintain"),
     Get(<<":id">>, "ordinariumworkMaintain"), Get(<<":id", "setup">>, "ordinariumworkMaintain"),
     Put(<<":id">>, "ordinariumworkMaintain"), Delete_(<<":id">>, "ordinariumworkMaintain") >>

PropriumworkRouter ==
  << Get(<<"search">>, "propriumworkMaintain"), Post(<< >>, "propriumworkMaintain"),
     Get(<<":id">>, "propriumworkMaintain"), Put(<<":id">>, "propriumworkMaintain"),
     Delete_(<<":id">>, "propriumworkMaintain") >>

PerformanceRouter ==
  << Get(<< >>, "verified"), Get(<<"available">>, "performanceMaintain"),
     Get(<<":id">>, "verified"), Get(<<":id", "form">>, "performanceMaintain"),
     Post(<< >>, "performanceMaintain"), Put(<<":id">>, "performanceMaintain"),
     Delete_(<<":id">>, "performanceMaintain") >>

BookingRouter ==
  << Get(<<":id", "cast">>, "performanceCast"), Post(<<":id", "cast">>, "performanceCast"),
     Post(<<":id", "booking-status">>, "performanceChangeUserStatus"),
     Get(<<":id", "my-booking-status">>, "performanceChangeUserStatus"),
     Get(<<":id", "billing">>, "performanceBilling"),
     Get(<<":id", "requests-and-bookings">>, "performanceMaintain"),
     Get(<<":id", "message-to-cast">>, "performanceMaintain"),
     Get(<<":id", "message-to-cast", "recipients">>, "performanceMaintain"),
     Post(<<":id", "message-to-cast", "send">>, "performanceMaintain") >>

FeeRouter ==
  << Get(<< >>, "feeMaintain"), Post(<< >>, "feeMaintain"), Put(<<":id">>, "feeMaintain"),
     Delete_(<<":id">>, "feeMaintain") >>

\* Mutant: an account is looked up before the literal paths.
UserRouterById ==
  << Get(<<":id">>, "userMaintain"),
     Get(<<"search">>, "userMaintain"), Get(<<"form-options">>, "userMaintain"),
     Get(<<":id", "requests-and-bookings">>, "userMaintain"),
     Post(<< >>, "userMaintain"), Put(<<":id">>, "userMaintain"),
     Delete_(<<":id">>, "userMaintain") >>

UserRouter ==
  << Get(<<"search">>, "userMaintain"), Get(<<"form-options">>, "userMaintain"),
     Get(<<":id">>, "userMaintain"), Get(<<":id", "requests-and-bookings">>, "userMaintain"),
     Post(<< >>, "userMaintain"), Put(<<":id">>, "userMaintain"),
     Delete_(<<":id">>, "userMaintain") >>

UserdirectoryRouter == << Get(<<"abilities">>, "userMaintain"), Get(<< >>, "userMaintain") >>

UserAdministrationRouter ==
  << Get(<<"search">>, "userAdministrate"), Get(<<"deleted">>, "userAdministrate"),
     Get(<<":id">>, "userAdministrate"), Post(<<":id", "restore">>, "userAdministrate"),
     Post(<<":id", "unlock">>, "userAdministrate"),
     Post(<<":id", "set-password">>, "userAdministrate"),
     Delete_(<<":id">>, "userAdministrate") >>

ProfileRouter == << Get(<< >>, "verified"), Put(<< >>, "verified") >>

SupportRouter ==
  << Get(<<"requests-and-bookings">>, "verified"), Get(<<"contactpersons">>, "verified"),
     Post(<<"message-to-contactperson">>, "verified") >>

SentEmailRouter == << Get(<< >>, "sentEmailView"), Get(<<":id">>, "sentEmailView") >>

RequestLogRouter ==
  << Get(<< >>, "requestLogView"), Get(<<"users", ":id">>, "requestLogView"),
     Get(<<":id">>, "requestLogView") >>

SqlInspectorRouter ==
  << Get(<<"tables">>, "sqlInspectorView"), Get(<<"tables", ":name">>, "sqlInspectorView") >>

SchedulerRouter ==
  << Get(<<"jobs">>, "schedulerView"), Post(<<"backup", "trigger">>, "schedulerView"),
     Post(<<"downsync", "trigger">>, "schedulerView") >>

StatisticsRouter == << Get(<< >>, "verified") >>

EnvironmentRouter == << Get(<<"environment">>, "verified") >>

ShorturlRouter ==
  << Get(<< >>, "shorturlMaintain"), Post(<< >>, "shorturlMaintain"),
     Put(<<":id">>, "shorturlMaintain"), Delete_(<<":id">>, "shorturlMaintain") >>

ScoreRouter ==
  << Get(<<"fields-config">>, "scoreMaintain"), Get(<<"defaults">>, "scoreMaintain"),
     Get(<<"search">>, "scoreMaintain"), Get(<<":id">>, "scoreMaintain"),
     Post(<< >>, "scoreMaintain"), Put(<<":id">>, "scoreMaintain") >>

GoRouter == << Get(<<"/">>, "nothing"), Get(<<":path">>, "nothing") >>

RootRouter == << Get(<<"/">>, "nothing") >>

Under(prefix, router) == [i \in DOMAIN router |-> [router[i] EXCEPT !.path = prefix \o @]]

ApiRouter ==
  Under(<<"auth">>, AuthRouter) \o Under(<<"coreelements">>, CoreelementRouter)
    \o Under(<<"artists">>, ArtistRouter) \o Under(<<"ordinariumworks">>, OrdinariumworkRouter)
    \o Under(<<"propriumworks">>, PropriumworkRouter)
    \o Under(<<"performances">>, PerformanceRouter) \o Under(<<"performances">>, BookingRouter)
    \o Under(<<"fees">>, FeeRouter) \o Under(<<"users">>, UserRouter)
    \o Under(<<"userdirectory">>, UserdirectoryRouter)
    \o Under(<<"administrator", "users">>, UserAdministrationRouter)
    \o Under(<<"profile">>, ProfileRouter) \o Under(<<"support">>, SupportRouter)
    \o Under(<<"administrator", "sent-emails">>, SentEmailRouter)
    \o Under(<<"administrator", "request-logs">>, RequestLogRouter)
    \o Under(<<"administrator", "sql-inspector">>, SqlInspectorRouter)
    \o Under(<<"administrator", "scheduler">>, SchedulerRouter)
    \o Under(<<"statistics">>, StatisticsRouter) \o Under(<<"system">>, EnvironmentRouter)
    \o Under(<<"shorturls">>, ShorturlRouter) \o Under(<<"scores">>, ScoreRouter)

Routes == RootRouter \o ApiRouter \o Under(<<"go">>, GoRouter)

-----------------------------------------------------------------------------
(* Permissions.                                                            *)

Roles == {"planner", "disponent", "billing", "scores", "shorturls"}

CoreelementTypes == {"instrument", "voice", "choirjob", "location", "propriumelement", "role"}

\* The permission each type of core elements takes.
PermissionByType ==
  [t \in CoreelementTypes |->
     CASE t = "instrument" -> "instrumentMaintain" [] t = "voice" -> "voiceMaintain"
       [] t = "choirjob" -> "choirjobMaintain" [] t = "location" -> "locationMaintain"
       [] t = "propriumelement" -> "propriumelementMaintain" [] t = "role" -> "roleMaintain"]

Permissions(roles, administrator) ==
  (IF administrator
     THEN {"userAdministrate", "roleMaintain", "propriumelementMaintain", "instrumentMaintain",
           "voiceMaintain", "choirjobMaintain", "locationMaintain", "requestLogView",
           "sentEmailView", "sqlInspectorView", "schedulerView"} ELSE {})
  \cup (IF "disponent" \in roles \/ administrator THEN {"userMaintain"} ELSE {})
  \cup (IF roles \cap {"planner", "disponent"} # {}
          THEN {"artistMaintain", "propriumworkMaintain", "ordinariumworkMaintain",
                "performanceMaintain"} ELSE {})
  \cup (IF "disponent" \in roles THEN {"feeMaintain", "performanceCast"} ELSE {})
  \cup (IF "scores" \in roles THEN {"scoreMaintain"} ELSE {})
  \cup (IF "shorturls" \in roles THEN {"shorturlMaintain"} ELSE {})
  \cup (IF "billing" \in roles THEN {"performanceBilling"} ELSE {})
  \cup {"performanceChangeUserStatus"}

\* get_current_user, get_verified_user, require_permission, ensure_permission.
LetsIn(who, needs, path) ==
  CASE needs = "nothing"  -> TRUE
    [] needs = "session"  -> who.account # "none"
    [] needs = "verified" -> who.account = "verified"
    [] needs = "typed"    -> /\ who.account = "verified"
                             /\ PermissionByType[path[2]] \in Permissions(who.roles, who.administrator)
    [] OTHER              -> /\ who.account = "verified"
                             /\ needs \in Permissions(who.roles, who.administrator)

-----------------------------------------------------------------------------
(* Dispatch.                                                               *)

Fits(route, method, path) ==
  /\ route.method = method
  /\ Len(route.path) = Len(path)
  /\ \A i \in DOMAIN path : route.path[i] \in Parameters \/ route.path[i] = path[i]

\* The paths a request meant for the route may have.
Concrete(path) ==
  {[i \in DOMAIN path |-> CASE path[i] = ":type" -> t
                            [] path[i] \in Parameters \ {":type"} -> "any"
                            [] OTHER -> path[i]] : t \in CoreelementTypes}

Dispatch(method, path) ==
  CHOOSE i \in DOMAIN Routes :
    /\ Fits(Routes[i], method, path)
    /\ \A j \in 1..i - 1 : ~Fits(Routes[j], method, path)

NoRequest == [route |-> 0]
NoReply == [status |-> "none"]

RoutesInit ==
  /\ caller \in {[account |-> "none", roles |-> {}, administrator |-> FALSE]} \cup
       [account : {"unverified", "verified"}, roles : SUBSET Roles, administrator : BOOLEAN]
  /\ asked = NoRequest
  /\ reply = NoReply

Ask ==
  /\ asked = NoRequest
  /\ \E i \in DOMAIN Routes : \E path \in Concrete(Routes[i].path) :
       asked' = [route |-> i, method |-> Routes[i].method, path |-> path]
  /\ UNCHANGED <<caller, reply>>

Reply ==
  /\ asked # NoRequest /\ reply = NoReply
  /\ LET i == Dispatch(asked.method, asked.path)
     IN reply' = [status |-> IF LetsIn(caller, Routes[i].needs, asked.path) THEN "served"
                             ELSE "refused",
                  route |-> i]
  /\ UNCHANGED <<caller, asked>>

RoutesNext == Ask \/ Reply

-----------------------------------------------------------------------------
RoutesOK ==
  /\ asked.route \in {0} \cup DOMAIN Routes
  /\ reply.status \in {"none", "served", "refused"}

\* No route hides another: "/search" and its like are registered before the
\* "/{id}" that would take them for an id, and the routers that share a
\* prefix do not get into each other's way.
EveryRouteReached == reply # NoReply => reply.route = asked.route

\* Whoever has no account, or one whose address is not verified, is served
\* by the routes of auth, the redirects and the liveness check alone, and
\* an unverified account can have its mail sent again.
OutsideUntilVerified ==
  reply.status = "served" /\ caller.account # "verified" =>
    Routes[reply.route].path[1] \in {"auth", "go", "/"}

\* Whoever may change something may also load what the form is filled from:
\* the lists, searches and details under the same prefix, the composers for
\* works and the accounts an administrator maintains.
FormsLoad ==
  \A r \in DOMAIN Routes :
    reply.status = "served" /\ asked.method # "GET" /\ Len(asked.path) >= 1
      /\ Routes[r].method = "GET"
      /\ \/ Routes[r].path[1] = asked.path[1]
              /\ asked.path[1] \in {"artists", "ordinariumworks", "propriumworks", "fees", "users",
                                    "shorturls", "scores"}
         \/ Routes[r].path = <<"artists", "composers">>
              /\ asked.path[1] \in {"ordinariumworks", "propriumworks"}
         \/ Routes[r].path[1] = "users" /\ asked.path[1] = "administrator" /\ asked.path[2] = "users"
      => LetsIn(caller, Routes[r].needs, Routes[r].path)

\* The table of routes serves every request where it is meant to be served,
\* and lets in who is meant to come in.
RoutesSafe == RoutesOK /\ EveryRouteReached /\ OutsideUntilVerified /\ FormsLoad
=============================================================================
