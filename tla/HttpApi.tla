------------------------------- MODULE HttpApi -------------------------------
(***************************************************************************)
(* The HTTP interface: which handler a request reaches, as whom it runs,   *)
(* and its composition with Invitation, whose acceptances make the         *)
(* accounts that later requests present.                                   *)
(*                                                                         *)
(* A request is dispatched to the first matching route, passes AuthGuard   *)
(* (parse the header, find the user, compare the password, check the role) *)
(* and then the pipes and the handler.  Every await is a step.             *)
(*                                                                         *)
(* A text is the sequence of its parts between colons, so that joining two *)
(* texts by a colon is \o and splitting at colons is the identity.         *)
(***************************************************************************)
EXTENDS Invitation, Sequences

CONSTANTS
  Connections,    \* each carries one request at a time
  Passwords,      \* what people choose and present
  Root,           \* login and password of the seeded administrator,
  RootPassword,   \*   the only one: accounts made here are plain users
  Asked           \* the routes clients ask for, by their place in Routes

ASSUME RootAssumption == Root \notin Logins

\* A text has at least one part.  @MinLength(6): a password is never empty; a
\* login may be, @IsString() is all AcceptInvitationByPublicIdRequest asks of it.
Texts == Seq(STRING) \ {<< >>}
ASSUME TextAssumption ==
  /\ Logins \cup {Root} \cup Passwords \cup {RootPassword} \subseteq Texts
  /\ \A p \in Passwords : Len(p) = 1 => p[1] # ""
ASSUME NoPasswordAssumption == None \notin Passwords

VARIABLES
  secret,   \* secret[l]: the password user l was made with (its hash), or None
  http      \* http[h]: how far the request on connection h is

api == <<secret, http>>
apivars == <<vars, api>>

-----------------------------------------------------------------------------
(***************************************************************************)
(* The routes, controller by controller in the order of AppModule's        *)
(* imports.  "*" is a parameter; all begin with /api/v1.                   *)
(***************************************************************************)
Open(method, path, handler) ==
  [method |-> method, path |-> path, guard |-> "NONE", handler |-> handler]
Guarded(method, path, handler) == [Open(method, path, handler) EXCEPT !.guard = "USER"]
AdminOnly(method, path, handler) == [Open(method, path, handler) EXCEPT !.guard = "ADMIN"]

UserRoutes == <<
  AdminOnly("GET", <<"users">>, "getAll"),
  Guarded("PATCH", <<"users", "notifications">>, "updateNotificationsStatus") >>

AuthRoutes == << Open("POST", <<"auth", "sign-in">>, "signIn") >>

InvitationRoutes == <<
  AdminOnly("POST", <<"invitations">>, "createInvitation"),
  Open("GET", <<"invitations", "*">>, "getInvitation"),
  Open("POST", <<"invitations", "*", "accept">>, "acceptInvitation") >>

ChatRoutes == <<
  AdminOnly("POST", <<"chat", "conversations">>, "createConversation"),
  Guarded("GET", <<"chat", "conversations">>, "getConversations"),
  Guarded("GET", <<"chat", "conversations", "*">>, "getConversation"),
  Guarded("POST", <<"chat", "conversations", "*", "participants">>, "addParticipants"),
  Guarded("DELETE", <<"chat", "conversations", "*", "participants", "*">>,
          "removeParticipant") >>

PushSubscriptionRoutes == <<
  Guarded("GET", <<"push-subscriptions", "vapid-public-key">>, "getVapidPublicKey"),
  Guarded("POST", <<"push-subscriptions">>, "subscribe"),
  Guarded("GET", <<"push-subscriptions">>, "getActiveSubscriptions"),
  Guarded("GET", <<"push-subscriptions">>, "getByData"),
  Open("PATCH", <<"push-subscriptions", "mark-as-unsubscribed">>, "unsubscribe") >>

Routes ==
  UserRoutes \o AuthRoutes \o InvitationRoutes \o ChatRoutes \o PushSubscriptionRoutes

ASSUME AskedAssumption == Asked \subseteq DOMAIN Routes

\* The path a client sends to reach a route, and the routes that take a path.
Sample(route) == [i \in DOMAIN route.path |-> IF route.path[i] = "*" THEN "id" ELSE route.path[i]]

Matches(route, method, path) ==
  /\ route.method = method
  /\ DOMAIN route.path = DOMAIN path
  /\ \A i \in DOMAIN path : route.path[i] \in {"*", path[i]}

\* Express runs the first that matches; it answers, so no other is tried.
Dispatch(method, path) ==
  LET n == CHOOSE n \in DOMAIN Routes :
             /\ Matches(Routes[n], method, path)
             /\ \A m \in DOMAIN Routes : m < n => ~Matches(Routes[m], method, path)
  IN Routes[n]

-----------------------------------------------------------------------------
(***************************************************************************)
(* Credentials.                                                            *)
(***************************************************************************)
NoCredentials == [login |-> << >>, password |-> << >>]

\* const [login, password] = header.split(':'), null if one is missing or empty;
\* further parts are dropped.
ParseAuthorizationHeader(text) ==
  IF Len(text) < 2 \/ text[1] = "" \/ text[2] = "" THEN NoCredentials
  ELSE [login |-> <<text[1]>>, password |-> <<text[2]>>]

People == Logins \cup {Root}
Exists(l) == l = Root \/ (l \in Logins /\ account[l] # None)
PasswordOf(l) == IF l = Root THEN RootPassword ELSE secret[l]

\* A guarded request: its route, its step, what the client presents, and what
\* the server makes of it.  known is history: it was right on arrival.
Stages == {"idle", "finding", "comparing", "running", "refused"}
Credentials == [login : Seq(STRING), password : Seq(STRING)]
Handlers == {Routes[n].handler : n \in DOMAIN Routes} \cup {""}
Request == [step : Stages, wanted : Handlers, handler : Handlers, guard : {"NONE", "USER", "ADMIN"},
            given : Credentials, read : Credentials, known : BOOLEAN]
NoRequest == [step |-> "idle", wanted |-> "", handler |-> "", guard |-> "NONE",
              given |-> NoCredentials, read |-> NoCredentials, known |-> FALSE]

ApiInit ==
  /\ Init
  /\ secret = [l \in Logins |-> None]
  /\ http = [h \in Connections |-> NoRequest]

Turns(h, step) == http' = [http EXCEPT ![h].step = step]
Asks(h, step) == http[h].step = step

\* signIn takes its credentials from the body, the guard from the header.
CredentialsRead(handler, given) ==
  IF handler = "signIn" THEN given
  ELSE ParseAuthorizationHeader(given.login \o given.password)

\* A request arrives and is dispatched.  Without a guard it runs at once;
\* without a header that can be parsed it is answered 401.
Receive(h) ==
  /\ Asks(h, "idle")
  /\ \E n \in Asked, l \in People, p \in Passwords :
       LET route == Dispatch(Routes[n].method, Sample(Routes[n]))
           given == [login |-> l, password |-> p]
           read == CredentialsRead(route.handler, given)
           checked == route.guard # "NONE" \/ route.handler = "signIn"
       IN http' = [http EXCEPT ![h] =
            [step    |-> IF ~checked THEN "running"
                         ELSE IF read = NoCredentials THEN "refused" ELSE "finding",
             wanted  |-> Routes[n].handler,
             handler |-> route.handler,
             guard   |-> route.guard,
             given   |-> IF checked THEN given ELSE NoCredentials,
             read    |-> IF checked THEN read ELSE NoCredentials,
             known   |-> checked /\ Exists(l) /\ PasswordOf(l) = p]]
  /\ UNCHANGED <<vars, secret>>

\* getByCredentials: findFirst by login; nobody is answered 403, or 400 by signIn.
FindUser(h) ==
  /\ Asks(h, "finding")
  /\ Turns(h, IF Exists(http[h].read.login) THEN "comparing" ELSE "refused")
  /\ UNCHANGED <<vars, secret>>

\* Mutated forms: the role is not asked for, or every route asks for it.
Admits_AnyRole(q) == PasswordOf(q.read.login) = q.read.password
Admits_AdminsOnly(q) ==
  /\ PasswordOf(q.read.login) = q.read.password
  /\ q.read.login = Root

\* compare with the hash of the row found, then checkAdminRole.
Admits(q) ==
  /\ PasswordOf(q.read.login) = q.read.password
  /\ q.guard = "ADMIN" => q.read.login = Root

Compare(h) ==
  /\ Asks(h, "comparing")
  /\ Turns(h, IF Admits(http[h]) THEN "running" ELSE "refused")
  /\ UNCHANGED <<vars, secret>>

\* The pipes refuse the arguments, the handler only reads, or what it changes is
\* another module's; or it is one of Invitation's.
Handle(h) ==
  /\ Asks(h, "running")
  /\ http' = [http EXCEPT ![h] = NoRequest]
  /\ \/ UNCHANGED vars
     \/ http[h].handler = "createInvitation" /\ (\E i \in Invitations : Create(i))
     \/ http[h].handler = "acceptInvitation" /\ (\E a \in Calls : Find(a))
  /\ UNCHANGED secret

Refuse(h) ==
  /\ Asks(h, "refused")
  /\ http' = [http EXCEPT ![h] = NoRequest]
  /\ UNCHANGED <<vars, secret>>

\* Mutated forms: the password is written for a login that is taken, too, or
\* is not written at all.
Accept_KeepsAnyway(a) ==
  /\ InsertUser(a)
  /\ \E p \in Passwords : secret' = [secret EXCEPT ![call[a].login] = p]
  /\ UNCHANGED http
Accept_NoPassword(a) == InsertUser(a) /\ UNCHANGED api

\* An acceptance goes on; an account it makes has the password it was given.
Accept(a) ==
  /\ InsertUser(a)
  /\ \E p \in Passwords :
       secret' = IF account' = account THEN secret
                 ELSE [secret EXCEPT ![call[a].login] = p]
  /\ UNCHANGED http

ApiNext ==
  \/ \E h \in Connections :
       Receive(h) \/ FindUser(h) \/ Compare(h) \/ Handle(h) \/ Refuse(h)
  \/ \E a \in Calls :
       \/ Accept(a)
       \/ MarkAccepted(a) /\ UNCHANGED api
       \/ Abort(a) /\ UNCHANGED api

ApiSpec == ApiInit /\ [][ApiNext]_apivars

-----------------------------------------------------------------------------
(***************************************************************************)
(* Properties.                                                             *)
(***************************************************************************)
\* Requests, what is read from them and passwords keep their types.
ApiTypeOK ==
  /\ secret \in [Logins -> Passwords \cup {None}]
  /\ \A l \in Logins : secret[l] = None <=> account[l] = None
  /\ http \in [Connections -> Request]

\* An account keeps its origin and its password: an acceptance that chooses a
\* login someone has, however it overlaps theirs, leaves their account alone.
CredentialsStay ==
  [][\A l \in Logins : account[l] # None =>
       account'[l] = account[l] /\ secret'[l] = secret[l]]_apivars

\* A handler behind the guard runs for an account that exists, whose password
\* is the one read from the request, and for an administrator where the route
\* asks for one: nothing between the look-up, the comparison and the role check
\* can be skipped or become stale.
RunsAsCaller ==
  \A h \in Connections :
    LET q == http[h] IN
    Asks(h, "running") /\ q.guard # "NONE" =>
      /\ Exists(q.read.login) /\ PasswordOf(q.read.login) = q.read.password
      /\ q.handler \in {"getAll", "createInvitation", "createConversation"} =>
           q.read.login = Root

\* What basic credentials can carry: no colon, and no empty login.
Portable(c) == Len(c.login) = 1 /\ Len(c.password) = 1 /\ c.login[1] # ""

\* Whoever presents the login and password of an account that existed when the
\* request arrived is only refused for want of the role, or because a colon or an
\* empty login does not survive the header: signing in has no such limit.
EntitledAreAdmitted ==
  \A h \in Connections :
    LET q == http[h] IN
    Asks(h, "refused") /\ q.known =>
      \/ q.guard = "ADMIN" /\ q.given.login # Root
      \/ q.handler # "signIn" /\ ~Portable(q.given)

\* CHANGELOG 1.20.0 added an endpoint for a subscription by its data: a request
\* reaches the handler it is meant for.
ReachesHandler ==
  \A h \in Connections : Asks(h, "running") => http[h].handler = http[h].wanted
=============================================================================
