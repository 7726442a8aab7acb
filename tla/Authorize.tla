----------------------------- MODULE Authorize -----------------------------
(***************************************************************************)
(* The browser's side of the targets of one process: GET and POST          *)
(* /authorize in the three login modes, and GET /end_session.  Between two *)
(* of these requests the server keeps nothing but the codes it issues; the *)
(* rest lives in the browser, in the pages it shows and in its cookies,    *)
(* which its tabs share and all the targets of the origin see.  A request  *)
(* carries the cookies of the moment it is sent; it is handled, and its    *)
(* response reaches the browser, in one later step.                        *)
(***************************************************************************)
EXTENDS Integers, GoMaps

CONSTANTS
  Targets, Clients, Subjects,
  InjectedClaims,  \* what an authside_claims payload may carry beside sub
  Payloads,        \* bound: the payloads a test injects
  NoClaims,        \* the nil claims of an identity that is not injected
  RedirectURIs,
  Challenges,      \* code_challenge values
  Scopes,          \* scope values
  Flows,           \* browser tabs, one authorization request each
  Logouts,         \* calls of /end_session
  Queries,         \* bound: the queries applications send, but state and nonce
  LogoutQueries,   \* bound: the queries of /end_session
  MaxSubmits,      \* bound: how often a tab submits the page it shows
  Configs,         \* the configurations of this instance
  Root,            \* the cookie Path "/"; a target stands for its mount,
                   \* which is not "/"
  CookiePaths,     \* the Paths a test sets its cookies at
  Malformed,       \* an authside_claims value that does not decode
  Blank,           \* Go's "": an absent parameter, field or cookie
  None             \* no value at all

\* What config.Validate lets an errors: entry say, beside a bare status; and
\* the codes LookupErrorCode knows.
ErrorCodes ==
  {"invalid_request", "invalid_client", "invalid_grant", "unauthorized_client",
   "unsupported_grant_type", "invalid_scope", "access_denied",
   "unsupported_response_type", "server_error", "temporarily_unavailable"}
KnownCodes ==
  (ErrorCodes \ {"unsupported_response_type"})
    \cup {"interaction_required", "login_required"}
ErrorSpecs == ErrorCodes \cup {"503"}

\* Values of code_challenge_method.
Methods == {"S256", "plain", Blank}

\* A target config.Validate accepts.  Clients share one space of names: one a
\* target does not have is one without redirect_uris.
Config ==
  {c \in [login : {"auto", "picker", "form"},
          clients : [Clients -> SUBSET RedirectURIs],
          requirePKCE : SUBSET Clients,
          users : SUBSET (Subjects \ {Blank}), defaultUser : Subjects,
          anyUsername : BOOLEAN, injected : BOOLEAN,
          authorizeError : ErrorSpecs \cup {None},
          endSessionError : ErrorSpecs \cup {None}] :
     /\ \E k \in Clients : c.clients[k] # {}
     /\ c.defaultUser \in c.users \cup {Blank}
     /\ c.users # {} \/ c.anyUsername \/ c.injected
     /\ c.injected => c.login = "auto"}

ASSUME AuthorizeAssumption ==
  /\ Blank \in Subjects
  /\ Configs \subseteq [Targets -> Config]
  /\ Payloads \subseteq [sub : Subjects \ {Blank}, claims : InjectedClaims]
  /\ Queries \subseteq [client : Clients \cup {Blank}, redirect : RedirectURIs,
                        type : {"code", "token"}, scope : Scopes \cup {Blank},
                        challenge : Challenges \cup {Blank}, method : Methods]
  /\ LogoutQueries \subseteq [client : Clients \cup {Blank},
                              hint : Clients \cup {Blank},
                              uri : RedirectURIs \cup {Blank}]
  /\ Blank \notin Clients \cup RedirectURIs \cup Challenges \cup Flows
  /\ CookiePaths \subseteq {Root} \cup Targets
  /\ NoClaims \notin InjectedClaims
  /\ MaxSubmits \in Nat

VARIABLES
  config,     \* the targets' configurations
  jar,        \* the browser's cookies for the origin, by name and Path
  signedOut,  \* history: a logout has been answered, no cookie set since
  asked,      \* the authorization request each tab started with
  wire,       \* the request each tab has in flight
  page,       \* the login page each tab shows
  submits,    \* how often it has submitted it
  landed,     \* where the last response has left each tab
  issued,     \* the codes codeStore.issue has stored
  logout,     \* the call of /end_session each logout makes
  left        \* where each logout has left its tab

vars == <<config, jar, signedOut, asked, wire, page, submits, landed, issued,
          logout, left>>

\* The parameters of an authorization request, which are the eight hidden fields
\* of a page: state and nonce are fresh for each flow.
Params ==
  [client : Clients \cup {Blank}, redirect : RedirectURIs,
   type : {"code", "token", Blank}, scope : Scopes \cup {Blank},
   challenge : Challenges \cup {Blank}, method : Methods,
   state : Flows, nonce : Flows \cup {Blank}]

\* A page is known by the target of its URL and by its hidden fields.
Place == [at : Targets, params : Params]

\* The values of the two login cookies.
CookieValues ==
  [sub |-> Subjects, claims |-> Payloads \cup {Malformed, Blank}]
Cookies == [sub : CookieValues.sub, claims : CookieValues.claims]

Identity == [subject : Subjects, claims : InjectedClaims \cup {NoClaims}]

\* sub is the picker's sub or the form's username.
Request ==
  [at : Targets, post : BOOLEAN, params : Params, sub : Subjects,
   cookies : Cookies, signedOut : BOOLEAN]

Reply ==
  [kind : {"page", "rendered", "redirect"}, uri : RedirectURIs \cup {None},
   state : Flows \cup {Blank}, error : ErrorSpecs \cup KnownCodes \cup {None}]

\* An authCode; flow, n and request are history: where it comes from.
Code ==
  [flow : Flows, n : 0 .. MaxSubmits, identity : Identity, client : Clients,
   redirect : RedirectURIs, scope : Scopes \cup {Blank},
   challenge : Challenges \cup {Blank}, method : Methods, nonce : Flows,
   request : Request]

LogoutRequest ==
  {[at |-> t, client |-> q.client, hint |-> q.hint, uri |-> q.uri] :
     t \in Targets, q \in LogoutQueries}

\* None is not a value of any of these.
ASSUME NoneAssumption == None \notin Place \cup Request \cup Reply \cup KnownCodes

TypeOK ==
  /\ config \in Configs
  /\ \A k \in DOMAIN jar :
       k \in {"sub", "claims"} \X CookiePaths /\ jar[k] \in CookieValues[k[1]]
  /\ signedOut \in BOOLEAN
  /\ asked \in [Flows -> Place \cup {None}]
  /\ wire \in [Flows -> Request \cup {None}]
  /\ page \in [Flows -> Place \cup {None}]
  /\ submits \in [Flows -> 0 .. MaxSubmits]
  /\ landed \in [Flows -> Reply \cup {None}]
  /\ issued \subseteq Code
  /\ logout \in [Logouts -> LogoutRequest \cup {None}]
  /\ left \in [Logouts -> Reply \cup {None}]

Init ==
  /\ config \in Configs
  /\ jar = EmptyMap
  /\ signedOut = FALSE
  /\ asked = [f \in Flows |-> None]
  /\ wire = [f \in Flows |-> None]
  /\ page = [f \in Flows |-> None]
  /\ submits = [f \in Flows |-> 0]
  /\ landed = [f \in Flows |-> None]
  /\ issued = {}
  /\ logout = [l \in Logouts |-> None]
  /\ left = [l \in Logouts |-> None]

-----------------------------------------------------------------------------
(* The browser.                                                            *)

\* A browser sends the cookie with the longer Path first, and Request.Cookie
\* returns the first of a name.
CookieSent(t, name) ==
  IF <<name, t>> \in DOMAIN jar THEN jar[<<name, t>>]
  ELSE IF <<name, Root>> \in DOMAIN jar THEN jar[<<name, Root>>]
  ELSE Blank

\* No POST handler reads a cookie, so a POST's are left out.
Send(f, place, isPost, sub) ==
  wire' = [wire EXCEPT ![f] =
             [at |-> place.at, post |-> isPost, params |-> place.params,
              sub |-> sub,
              cookies |-> IF isPost THEN [sub |-> Blank, claims |-> Blank]
                          ELSE [sub |-> CookieSent(place.at, "sub"),
                                claims |-> CookieSent(place.at, "claims")],
              signedOut |-> ~isPost /\ signedOut]]

\* The test chooses who logs in next.
SetCookie ==
  /\ \E name \in {"sub", "claims"}, path \in CookiePaths :
       \E v \in CookieValues[name] : jar' = MapPut(jar, <<name, path>>, v)
  /\ signedOut' = FALSE
  /\ UNCHANGED <<config, asked, wire, page, submits, landed, issued, logout, left>>

Asks(f) ==
  {[client |-> q.client, redirect |-> q.redirect, type |-> q.type,
    scope |-> q.scope, challenge |-> q.challenge, method |-> q.method,
    state |-> f, nonce |-> f] : q \in Queries}

\* The application under test sends the browser to /authorize.
Navigate(f) ==
  /\ asked[f] = None
  /\ \E t \in Targets, q \in Asks(f) :
       LET place == [at |-> t, params |-> q]
       IN /\ asked' = [asked EXCEPT ![f] = place]
          /\ Send(f, place, FALSE, Blank)
  /\ UNCHANGED <<config, jar, signedOut, page, submits, landed, issued, logout, left>>

\* A click in the picker, which has a button for every configured user, or a
\* username typed into the form; the page stays in the tab's history.
Submit(f) ==
  /\ page[f] # None /\ wire[f] = None
  /\ submits[f] < MaxSubmits
  /\ LET c == config[page[f].at]
     IN \E sub \in (IF c.login = "picker" THEN c.users ELSE Subjects) :
          Send(f, page[f], TRUE, sub)
  /\ submits' = [submits EXCEPT ![f] = @ + 1]
  /\ UNCHANGED <<config, jar, signedOut, asked, page, landed, issued, logout, left>>

\* A test posts a login by hand, for a user no page lists, and may leave
\* response_type out.  A login: auto target has no POST route.
PostByHand(f) ==
  /\ asked[f] = None
  /\ \E t \in Targets, q \in Asks(f), sub \in Subjects :
       \E type \in {q.type, Blank} :
         LET place == [at |-> t, params |-> [q EXCEPT !.type = type]]
         IN /\ config[t].login # "auto"
            /\ asked' = [asked EXCEPT ![f] = place]
            /\ Send(f, place, TRUE, sub)
  /\ UNCHANGED <<config, jar, signedOut, page, submits, landed, issued, logout, left>>

-----------------------------------------------------------------------------
(* GET and POST /authorize.                                                *)

Rendered(error) ==
  [kind |-> "rendered", uri |-> None, state |-> Blank, error |-> error]
Page == [kind |-> "page", uri |-> None, state |-> Blank, error |-> None]
Redirect(q, error) ==
  [kind |-> "redirect", uri |-> q.redirect, state |-> q.state, error |-> error]

\* configuredError: a code LookupErrorCode does not know is a server_error.
ConfiguredError(spec) ==
  IF spec \in KnownCodes \cup {"503"} THEN spec ELSE "server_error"

\* A bare status is no error to redirect with.
AuthorizeConfiguredError(spec, q) ==
  IF spec = "503" THEN Rendered(spec) ELSE Redirect(q, ConfiguredError(spec))

RedirectURIRegistered(t, client, uri) ==
  client \in Clients /\ uri \in config[t].clients[client]

\* The checks of a request, which each handler makes in a copy of its own:
\* validateClientAndRedirectURI, the errors: entry, response_type, require_pkce.
ClientIsRegistered(w) == RedirectURIRegistered(w.at, w.params.client, w.params.redirect)
FailsOnDemand(w) == config[w.at].authorizeError # None
LacksChallenge(w) ==
  w.params.client \in config[w.at].requirePKCE /\ w.params.challenge = Blank

\* GET /authorize.
AuthorizeRefusal(w) ==
  IF ~ClientIsRegistered(w) THEN Rendered("invalid_request")
  ELSE IF FailsOnDemand(w)
    THEN AuthorizeConfiguredError(config[w.at].authorizeError, w.params)
  ELSE IF w.params.type # "code" THEN Redirect(w.params, "unsupported_response_type")
  ELSE IF LacksChallenge(w) THEN Redirect(w.params, "invalid_request")
  ELSE None

\* POST /authorize; only a POST may leave response_type out.
PickerRefusal(w) ==
  IF ~ClientIsRegistered(w) THEN Rendered("invalid_request")
  ELSE IF FailsOnDemand(w)
    THEN AuthorizeConfiguredError(config[w.at].authorizeError, w.params)
  ELSE IF w.params.type \notin {Blank, "code"}
    THEN Redirect(w.params, "unsupported_response_type")
  ELSE IF LacksChallenge(w) THEN Redirect(w.params, "invalid_request")
  ELSE None

\* Mutant: the check of require_pkce is missing from one of the three copies.
FormRefusalWithoutPKCE(w) ==
  IF ~ClientIsRegistered(w) THEN Rendered("invalid_request")
  ELSE IF FailsOnDemand(w)
    THEN AuthorizeConfiguredError(config[w.at].authorizeError, w.params)
  ELSE IF w.params.type \notin {Blank, "code"}
    THEN Redirect(w.params, "unsupported_response_type")
  ELSE None

FormRefusal(w) ==
  IF ~ClientIsRegistered(w) THEN Rendered("invalid_request")
  ELSE IF FailsOnDemand(w)
    THEN AuthorizeConfiguredError(config[w.at].authorizeError, w.params)
  ELSE IF w.params.type \notin {Blank, "code"}
    THEN Redirect(w.params, "unsupported_response_type")
  ELSE IF LacksChallenge(w) THEN Redirect(w.params, "invalid_request")
  ELSE None

\* A target has the one POST route of its login mode.
Refusal(w) ==
  IF ~w.post THEN AuthorizeRefusal(w)
  ELSE IF config[w.at].login = "picker" THEN PickerRefusal(w)
  ELSE FormRefusal(w)

\* Blank is nobody's sub, but accept_any_username takes it.
LookupUser(t, sub) == sub \in config[t].users \/ config[t].anyUsername

Land(f, reply) ==
  /\ landed' = [landed EXCEPT ![f] = reply]
  /\ wire' = [wire EXCEPT ![f] = None]

\* completeLogin: codeStore.issue, then the redirect.
CompleteLogin(f, subject, claims) ==
  LET w == wire[f]
      q == w.params
  IN /\ issued' = issued \cup
          {[flow |-> f, n |-> submits[f],
            identity |-> [subject |-> subject, claims |-> claims],
            client |-> q.client, redirect |-> q.redirect, scope |-> q.scope,
            challenge |-> q.challenge, method |-> q.method, nonce |-> q.nonce,
            request |-> w]}
     /\ Land(f, Redirect(q, None))

\* A request past the checks, at a target with the given login mode.
Accepted(f, isPost, mode) ==
  /\ wire[f] # None
  /\ Refusal(wire[f]) = None
  /\ wire[f].post = isPost
  /\ config[wire[f].at].login = mode

Refuse(f) ==
  /\ wire[f] # None
  /\ Refusal(wire[f]) # None
  /\ Land(f, Refusal(wire[f]))
  /\ UNCHANGED <<config, jar, signedOut, asked, page, submits, issued, logout, left>>

\* Mutant: a subset of the hidden fields.
HiddenWithoutMethod(w) ==
  [at |-> w.at, params |-> [w.params EXCEPT !.method = Blank]]

\* The hidden fields, and the URL, of the page a request is answered with.
Hidden(w) == [at |-> w.at, params |-> w.params]

\* newPickerPage, and newFormPage on the GET.
ShowPage(f) ==
  /\ Accepted(f, FALSE, "picker") \/ Accepted(f, FALSE, "form")
  /\ page' = [page EXCEPT ![f] = Hidden(wire[f])]
  /\ Land(f, Page)
  /\ UNCHANGED <<config, jar, signedOut, asked, submits, issued, logout, left>>

\* Mutant: a cookie that does not decode is no cookie.
ReadsWellFormedClaims(w) ==
  config[w.at].injected /\ w.cookies.claims \notin {Blank, Malformed}

\* injectedIdentityFrom: the target reads the cookie, and there is one.
ReadsClaims(w) == config[w.at].injected /\ w.cookies.claims # Blank

SubjectForAuto(w) ==
  IF w.cookies.sub # Blank THEN w.cookies.sub ELSE config[w.at].defaultUser

\* identityForAuto's errors.
AutoRefusal(w) ==
  IF ReadsClaims(w)
    THEN IF w.cookies.claims = Malformed THEN "invalid_request" ELSE None
  ELSE IF SubjectForAuto(w) = Blank THEN "login_required"
  ELSE IF ~LookupUser(w.at, SubjectForAuto(w)) THEN "access_denied"
  ELSE None

AutoRefuses(f) ==
  /\ Accepted(f, FALSE, "auto")
  /\ AutoRefusal(wire[f]) # None
  /\ Land(f, Redirect(wire[f].params, AutoRefusal(wire[f])))
  /\ UNCHANGED <<config, jar, signedOut, asked, page, submits, issued, logout, left>>

AutoLogin(f) ==
  LET w == wire[f]
  IN /\ Accepted(f, FALSE, "auto")
     /\ AutoRefusal(w) = None
     /\ \/ /\ ReadsClaims(w)
           /\ CompleteLogin(f, w.cookies.claims.sub, w.cookies.claims.claims)
        \/ /\ ~ReadsClaims(w)
           /\ CompleteLogin(f, SubjectForAuto(w), NoClaims)
     /\ UNCHANGED <<config, jar, signedOut, asked, page, submits, logout, left>>

PickerSubmit(f) ==
  LET w == wire[f]
  IN /\ Accepted(f, TRUE, "picker")
     /\ \/ /\ LookupUser(w.at, w.sub)
           /\ CompleteLogin(f, w.sub, NoClaims)
        \/ /\ ~LookupUser(w.at, w.sub)
           /\ Land(f, Redirect(w.params, "access_denied"))
           /\ UNCHANGED issued
     /\ UNCHANGED <<config, jar, signedOut, asked, page, submits, logout, left>>

\* A form that fails is shown again, with every hidden field.
FormSubmit(f) ==
  LET w == wire[f]
      ok == w.sub # Blank /\ LookupUser(w.at, w.sub)
  IN /\ Accepted(f, TRUE, "form")
     /\ \/ /\ ok
           /\ CompleteLogin(f, w.sub, NoClaims)
           /\ UNCHANGED page
        \/ /\ ~ok
           /\ page' = [page EXCEPT ![f] = Hidden(w)]
           /\ Land(f, Page)
           /\ UNCHANGED issued
     /\ UNCHANGED <<config, jar, signedOut, asked, submits, logout, left>>

-----------------------------------------------------------------------------
(* GET /end_session.                                                       *)

SendLogout(l) ==
  /\ logout[l] = None
  /\ \E q \in LogoutRequest : logout' = [logout EXCEPT ![l] = q]
  /\ UNCHANGED <<config, jar, signedOut, asked, wire, page, submits, landed, issued, left>>

\* Mutant: a target clears the cookies it reads itself.
ClearCookiesRead(t) ==
  LET cleared == MapDelete(jar, <<"sub", Root>>)
  IN IF config[t].injected THEN MapDelete(cleared, <<"claims", Root>>) ELSE cleared

\* Both cookies, whatever the target reads, at Path "/".
ClearLoginCookies(t) == MapDelete(MapDelete(jar, <<"sub", Root>>), <<"claims", Root>>)

\* Mutant: the hint vouches for a client whose list is not consulted.
SignedOutAtHinted(q) ==
  LET client == IF q.client # Blank THEN q.client ELSE q.hint
  IN IF q.uri # Blank /\ client \in Clients
       THEN [Page EXCEPT !.kind = "redirect", !.uri = q.uri]
       ELSE Page

\* Where a signed-out browser goes: the client is client_id's, else the one
\* the id_token_hint was issued to.
SignedOutAt(q) ==
  LET client == IF q.client # Blank THEN q.client ELSE q.hint
  IN IF RedirectURIRegistered(q.at, client, q.uri)
       THEN [Page EXCEPT !.kind = "redirect", !.uri = q.uri]
       ELSE Page

EndSession(l) ==
  LET q == logout[l]
      failure == config[q.at].endSessionError
  IN /\ q # None /\ left[l] = None
     /\ \/ /\ failure # None
           /\ left' = [left EXCEPT ![l] = Rendered(ConfiguredError(failure))]
           /\ UNCHANGED <<jar, signedOut>>
        \/ /\ failure = None
           /\ left' = [left EXCEPT ![l] = SignedOutAt(q)]
           /\ jar' = ClearLoginCookies(q.at)
           /\ signedOut' = TRUE
     /\ UNCHANGED <<config, asked, wire, page, submits, landed, issued, logout>>

-----------------------------------------------------------------------------
Next ==
  \/ SetCookie
  \/ \E f \in Flows :
       \/ Navigate(f) \/ Submit(f) \/ PostByHand(f)
       \/ Refuse(f) \/ ShowPage(f)
       \/ AutoRefuses(f) \/ AutoLogin(f)
       \/ PickerSubmit(f) \/ FormSubmit(f)
  \/ \E l \in Logouts : SendLogout(l) \/ EndSession(l)

Spec == Init /\ [][Next]_vars

-----------------------------------------------------------------------------
(* Properties.                                                             *)

\* Between /authorize and the code stand a page, clicks, typing errors and the
\* retries they cause; the code is bound to the client, redirect_uri, scope, challenge,
\* method and nonce the application asked with, and every redirect carries its state
\* (authorize_html.go on hiddenAuthParams).
ParamsSurvive ==
  /\ \A c \in issued :
       LET q == asked[c.flow].params
       IN /\ c.client = q.client /\ c.redirect = q.redirect
          /\ c.scope = q.scope /\ c.nonce = q.nonce
          /\ c.challenge = q.challenge /\ c.method = q.method
          /\ c.request.at = asked[c.flow].at
  /\ \A f \in Flows :
       /\ page[f] # None => page[f] = asked[f]
       /\ landed[f] # None /\ landed[f].kind = "redirect"
            => landed[f].uri = asked[f].params.redirect /\ landed[f].state = f

\* The cookies a login: auto request was sent with decide who logs in, and not
\* those set or cleared since: the payload where the target reads one,
\* never a fall-through from one that does not decode, and no claims out of a
\* cookie meant for another target (identityForAuto, injectedIdentityFrom).
CookiesDecide ==
  \A c \in issued :
    LET t == c.request.at
        k == c.request.cookies
    IN CASE config[t].injected /\ k.claims # Blank ->
              /\ k.claims # Malformed
              /\ c.identity = [subject |-> k.claims.sub, claims |-> k.claims.claims]
         [] config[t].login = "auto" /\ (~config[t].injected \/ k.claims = Blank) ->
              /\ c.identity.claims = NoClaims
              /\ c.identity.subject =
                   (IF k.sub # Blank THEN k.sub ELSE config[t].defaultUser)
         [] OTHER -> c.identity = [subject |-> c.request.sub, claims |-> NoClaims]

\* Once a logout has been answered, at whichever target, and until a test sets
\* a cookie again, login: auto means default_user at every target of the origin
\* (clearLoginCookies).
LogoutForgets ==
  \A c \in issued :
    LET conf == config[c.request.at]
    IN c.request.signedOut /\ conf.login = "auto"
         => c.identity = [subject |-> conf.defaultUser, claims |-> NoClaims]

\* What Target's CompleteLogin takes for granted of every login, whichever
\* handler completed it: each of the three has its own copy of the checks.
OnlyAdmissibleLogins ==
  \A c \in issued :
    LET conf == config[c.request.at]
    IN /\ \/ c.identity.claims # NoClaims /\ conf.injected
          \/ c.identity.claims = NoClaims /\ LookupUser(c.request.at, c.identity.subject)
       /\ c.redirect \in conf.clients[c.client]
       /\ c.client \in conf.requirePKCE => c.challenge # Blank

\* No response, an error's or a logout's included, sends the browser to a
\* place no client of the target registered (RFC 6749 4.1.2.1; the open
\* redirect endSessionHandler's comment rules out).
RedirectsOnlyToRegistered ==
  /\ \A f \in Flows :
       landed[f] # None /\ landed[f].kind = "redirect"
         => RedirectURIRegistered(asked[f].at, asked[f].params.client, landed[f].uri)
  /\ \A l \in Logouts :
       left[l] # None /\ left[l].kind = "redirect"
         => \E c \in {logout[l].client, logout[l].hint} :
              RedirectURIRegistered(logout[l].at, c, left[l].uri)

\* A target whose errors: names a code for /authorize fails there with that
\* code: config.Validate guarantees it is a known one (errors.go).
ConfiguredErrorIsAnswered ==
  \A f \in Flows :
    LET spec == config[asked[f].at].authorizeError
    IN landed[f] # None /\ spec # None /\ landed[f].kind = "redirect"
         => landed[f].error = spec
=============================================================================
