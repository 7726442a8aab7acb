# authside in TLA+

authside is a fake OpenID Connect provider for test suites: one process serves any
number of *targets* (provider configurations), each with its own authorization
codes, access token sessions, refresh token families and keys, all of them sharing
a clock, a request log and, in the browser, an origin. This directory models the
parts of it that keep state or meet concurrency, checks them with TLC on small
instances, and proves the central results with TLAPS for every instance.

All paths below are relative to the repository; `oidcop/` is `internal/oidcop/`.

## 1. The system

| Component | State | Operations | Talks to |
|---|---|---|---|
| Authorization codes, `oidcop/codes.go` | `mu`, map code -> `authCode` (identity, client, redirect_uri, PKCE, consumed, expiry) | `issue`, `consume` | written by `/authorize`, spent by `/token` |
| Access token sessions, `oidcop/sessions.go` | `mu`, map token -> session | `put`, `lookup`, `find`, `revoke` | `/token`, `/userinfo`, `/revocation`, refresh store |
| Refresh tokens, `oidcop/refresh.go` | `mu`, map token -> (family, retired), families (access tokens, revoked) | `issue`, `trackAccessToken`, `refresh`, `revokeByRefreshToken`; nested calls of the session store under its mutex | `/token`, `/revocation` |
| Token endpoint, `oidcop/token.go`, `pkce.go` | none of its own | both grants, a sequence of critical sections in the stores above | all stores, clock, JWT, request log fields |
| Revocation, userinfo, `oidcop/revocation.go`, `userinfo.go` | none | lookup and deletion, two critical sections; lookup | stores, clock |
| Authorize and the login modes, `oidcop/authorize*.go`, `inject.go` | hidden form fields and cookies, held by the browser | GET in `auto`, `picker`, `form`; POST in the last two | code store, the browser |
| End session, `oidcop/endsession.go` | clears cookies | GET | the browser |
| Configured errors, `oidcop/errors.go`, `httpx/error.go` | the `errors:` map | first step of every handler | config |
| Identities and claims, `oidcop/claims.go`, `internal/tmpl` | none | `claimsFor`, `lookupUser`, template rendering | handlers |
| JWTs and keys, `oidcop/jwt.go`, `tamper.go`, `internal/keys` | each target's key set, for the life of a process | building, tampering with and signing tokens; publishing a key | token endpoint, JWKS |
| Headless mint, `oidcop/mint.go`, `cmd/authside/token.go` | none; a process of its own | `authside token` | config, keys |
| Clock, `internal/clock` | the test clock's reading | `Now`, `Advance`, `Set` | everything |
| Request log, `internal/reqlog` | `mu`, ring of records, the output | `Middleware`, `Fields`, `statusWriter`, `emit`, `Records` | wraps every target's router |
| Discovery and routing, `oidcop/discovery*.go`, `router.go` | each target's per-subject routes, computed once | enumeration at start, GET | config, templates, the request's host |
| Configuration, `config/` | none | load, default, validate | everything at start |
| Assembly, `authside.go` | none | build and mount the targets, one recorder and one clock | everything |
| Command, `cmd/authside/main.go`, `probe.go` | the listener, the channel of `Serve`'s error, the signal's context, the probe | start, serve, shut down, probe | net/http, the operating system |
| Test helper, `authsidetest` | none of the provider's | runs a server inside a test | everything |

What makes it hard: each request is a goroutine, a grant is *several* critical
sections of three stores with nothing held in between, one store calls another with
its mutex held, JWT access tokens are keys that two requests may both mint, the
clock may be moved in either direction by a test, and the identity of a login is
carried by hand through pages, cookies, codes, families and sessions. The process
itself races a signal, a failing listener, a deadline, a probe and the requests in
flight; two processes (a restarted server, or the command beside it) share a
configuration but not necessarily a key; and what is served where is computed from
templates, mounts and the request's own address.
`PROJECT.json` lists the hazards at their lines.

What makes the components correct, in a line each: a code buys tokens once and only
its owner can spend it; a rotating chain has one live refresh token, which reaches
the client; reuse and revocation kill the whole family, in-flight grants included,
and nothing else kills anything; every token and `/userinfo` answer speaks of the
identity that logged in; every request is answered; every answered request has one
faithful log line and the recorder holds the latest ones; a login page loses no
parameter; the cookies of the moment decide a `login: auto`, and a logout makes
them forgotten everywhere; every issuer has its own document, which lists endpoints that
reach its target; a token is defective exactly where the configuration asks for it; the
process drains what is in flight, frees its port, ends on a signal and says in its exit
status what happened.

## 2. The modules

**The stores.** `GoMaps` is Go's map. `CodeStore`, `SessionStore` and `RefreshStore`
declare the maps as variables and each store method as an operator; a method holds
its mutex for its whole body, so it is one step, except `revokeFamilyLocked`, whose
loop of `sessions.revoke` calls is a step per call with `refreshMu` held (the only
mutex a model step leaves held). `PKCE` is `checkPKCE`; `Identity` is `loginIdentity`,
`lookupUser`, `claimsFor`, the issuer and `Mintable`, whether tokens can be made of an
identity at all: its issuer must render and its claims must have a JSON encoding,
which a configured `.nan` has not (`Unencodable`). A random token is the name of the
request that minted it, hence fresh; a JWT is the record of its claims, `tamper` of iss,
aud and exp included, hence equal when they are (`SessionStore.JWTToken`): signing
with RS256 is deterministic.

**`Target`** composes them: a request is a process with a program counter `pc`, its
form `req`, its local variables `local` and its reply `resp`. The actions are the
handlers cut at the critical sections:

| Handler | Steps |
|---|---|
| `issueFromCode` | `Exchange` (checks, `Now`), `Consume` / `ConsumeRefuses`, `Put`, `Issue`, `Track` |
| `issueFromRefresh` | `Refresh`, `UseRefresh` / `RefreshRefuses` / `RefreshDetectsReuse` + `Sweep`..`EndSweep`, `Mint`, `Put`, `Track` |
| `revocationHandler` | `Revocation`, `Find`, `Delete`, `RevokeFamily` + `Sweep`..`EndSweep` / `RevokeFamilyRefuses` |
| `userinfoHandler` | `Userinfo`, `Lookup` |

A client presents only what a reply has given it, a code that was issued, or (by
`Mistakes`) an unknown value, a missing one, a wrong secret or a wrong grant type.
An exchange whose tokens cannot be minted has spent its code. `CompleteLogin` is a
successful pass through `/authorize`; `MoveClock` moves the clock either way.
`TargetSafety` has the properties, `LoginContract` the abstract promise of one login
(no stores, tokens or locks), `TargetContract` the refinement mapping, `MCTarget` the
instances. The theorems are in three modules, each on top of the one before:

| Module | Invariants | Theorems |
|---|---|---|
| `TargetProofs` | `Inv`, `RedeemedOnce`, responsibility for sessions | `TypeCorrect`, `CodesAreSingleUse`, `NoTokenIsOrphaned` |
| `TargetChainProofs` | `Owned`, `Chained`, `CauseOK`, `OnlyLive` | `NobodyElseEnds`, and seven about what a chain carries and how it ends |
| `TargetContractProofs` | `Tracked`, `Sticks`, `Reused`, `Tells`, `Told`, and `Facts`, which joins what the refinement needs | `RevokedFamiliesAreDead`, `RevocationsStick`, `ReuseEndsTheFamily`, `UserinfoTellsALogin`, `UserinfoMatchesIDToken`, and `ImplementsContract`, the refinement |

**`RequestLog`** is `internal/reqlog` around a handler that sets fields, writes a status and
bodies in any order, an informational status (1xx) among them, which `statusWriter` takes
for final and net/http does not: the `statusWriter`, the clock reading taken outside the
recorder's mutex, and `emit` (line and ring under one mutex). `RecentRecords` is what
`Records` promises, a bounded queue of the latest records; `RequestLogProofs` proves that
the ring implements it and that the lines are faithful; `MCRequestLog` instantiates it.

**`Authorize`** is the browser's side: the pages and cookies the server keeps its state
in. A tab navigates, is shown a picker or form, submits it, submits it again; a test
sets cookies; the application logs out. Several targets share the cookie jar, as
they share the origin. The checks of a request stand in the code three times, in the
authorize handler and in the handlers of the two pages, and so they do here
(`AuthorizeRefusal`, `PickerRefusal`, `FormRefusal`); a page carries all eight hidden
fields. Its `OnlyAdmissibleLogins` is what `Target!CompleteLogin` takes
for granted, so the two modules meet at the code store. `MCAuthorize` instantiates it
with pairs of target configurations, each one `config.Validate` accepts (an
assumption TLC evaluates); `AuthorizeProofs` has its theorems.

**`Discovery`** is where requests go. It validates a sequence of targets (the collision of
mounts), builds them in order, refusing templates, keys and logins it cannot read or render,
enumerates the (user, client) pairs of a `per_issuer` target one at a time as
`newPerIssuerEndpoints` does, with its refusals (an issuer that is no URL, is outside the
mount, has a pattern character or collides with another's route; no issuer at all), and then
answers GETs of discovery documents through both routers. A path is the sequence of its
segments, so that prefixes of strings that end at a slash are prefixes of sequences.
`MCDiscovery` enumerates configurations; `TrailingSlash` is an instance of its own;
`DiscoveryProofs` has the theorems.

**`Minting`** is what is inside the tokens. `Target` decides who gets tokens and when;
here a login is one step, and what counts is the key set of the process that signs, the
order in which claims are copied, overwritten and tampered with, and the two ways a
token comes about, a server's and the command's (`mint.go`), on the same configuration.
A custom claim is a text, a number or something without JSON, from the configuration
or from an injected identity.
Servers restart; a verifier may have cached a key set of an earlier process.
`MCMinting` instantiates it, `MintingProofs` has its theorems.

**`Command`** is the process: `run` from its arguments to `serve`, `serve`'s goroutine and
its `select`, net/http's `Serve` and `Shutdown` as far as `serve` relies on them
(external), connections with requests in flight, the probe's goroutine, and a signal or a
failing listener at any moment. `CommandProofs` has its theorems, `MCCommand` its
instance.

The modules meet where the code does: `Authorize`'s code is `Target`'s login, `Target`'s
JWT is `Minting`'s access token cut to the claims the stores tell apart, `RequestLog`
wraps what `Discovery` routes, and `Command` starts what `Discovery` builds.

Every module's definitions are mapped to source lines in `PROJECT.json`. Operators
commented *Mutant* are plausible bugs, one for each checked property; replacing the
definition they stand beside by them makes TLC find that property violated.

## 3. The runs

| Run | Instance | Shows |
|---|---|---|
| `Exchange` | 3 token requests, 2 clients, 2 redirect URIs, 1 login, wrong secrets, verifiers and grant types, missing parameters, a code that expires meanwhile | `TypeOK`, `SingleUse`, `SpentByOwner` |
| `Rotate` | 4 requests of any kind, 1 login, rotating opaque tokens, an identity without issuer and one that cannot be encoded; goroutines scheduled fairly | the chain neither forks nor ends, reuse and revocation are final and only for cause, `FailsAtExchangeOrNever`; `KeepsContract`, `EveryRequestAnswered`, `KeepsFairContract` |
| `StaticJWT` | 3 requests, 2 clients, 2 logins with one sub, each of the configured user or with injected claims; JWTs that may coincide, a tampered aud, a clock of thirds of a second | no orphaned token, identity kept verbatim, `/userinfo` answers a login the token belongs to, sessions agree with the JWT, nobody ends another client's session |
| `Log` | 3 requests, statuses 103 and 503, retention -1 (taken for 0), 1, 2 | the ring, the lines and their stamps |
| `Login` | 2 targets in 6 pairs of configurations, a tab, a logout | the login pages, cookies and redirects |
| `Command` | every way to start, one client connection, the probe's own, 2 requests each | requests are drained, results earned, the port freed, exposure asked for, the probe answered, `SignalEndsProcess` |
| `Discovery` | one target with every pair of issuers for 2 users or 2 clients, two targets at every pair of mounts, paths of 2 segments, unreadable templates, keys and issuers | every issuer has its own document and nothing else has one, mounts are disjoint, refusals have a cause, endpoints reach their target |
| `Minting` | each tampering alone and together, claims of clashing names and every kind of value, injected identities, negative lifetimes, supplied, generated and bad keys; 3 processes | defects are the ones asked for, keys verify where they should, the command mints what a login of the same user gets |
| `JWTRevocation`, `SharedJWT`, `ErrorCode`, `TrailingSlash` | | a disagreement each, section 6 |

**Bounds.** Requests are the one resource: everything a grant mints is named after its
request, so a bound on requests bounds the chain. Four is the smallest number in which a
code is exchanged, refreshed, and its old token replayed while a further refresh,
revocation or `/userinfo` is between its steps; three suffice for a race for a code,
since a third party to the race changes nothing for the first two, and for two grants
that share a JWT with a request that ends or reads it between them. The theorems
have no such bound. Clients, logins and requests are symmetric where a run uses SYMMETRY
(never with a liveness property). The clock has the readings a property tells apart: before, at and after an expiry, and
within one second of it; with thirds of a second two JWTs coincide whose sessions expire
at different readings. In `Log` retentions -1 (taken for 0), 1 and 2 with three requests
wrap the ring; one target suffices because targets share only the recorder, and
`OneOfEach` lets one request at a time set an informational status, attach a field or
read the clock, since what it sees of the others is only their place in the ring. In `Login`
`MaxSubmits` 2 lets a failed form be retried; tabs share nothing but the cookies, which
`SetCookie` and `EndSession` change at every moment, so one tab stands for all of them;
`Queries` has each client's right query and the wrong ones with one fault each.
In `Command` one connection stands for all, since connections share only the listener
and the shutdown, which any one of them holds up; a second request on it meets a
shutdown between the two; a probe meets `self` at most once (`CommandAssumption`), as its
one connection would be reused. `Discovery`'s paths have at most two segments before the
well-known ones: enough for a mount, something below it and something beside it; two
users and two clients make every clash of two pairs, and clashes are pairwise; each GET
is answered by itself. In `Minting` two mints compare a login with the command or two
processes with each other, three processes are a server, its restart and a command, the
clock has half seconds up to 1.5 s and the leeway of a verifier is half a second.
CHECK_DEADLOCK is off where every request has been made and the system rests.

**Fairness.** `FairSpec` assumes weak fairness of `Serve(r)`, the steps of an accepted
request: the Go runtime keeps scheduling a runnable goroutine. A step that waits for
`refreshMu` is then fair as soon as the mutex stays free; nothing in `Rotate` needs strong
fairness, because finitely many requests hold it finitely often. Nothing is assumed of
clients, browsers or the clock. `Command`'s `FairSpec` assumes the same of the process's
goroutines (main, `Serve`'s, the probe's), that its timers fire, and, strongly, that
`Shutdown`'s `select` does not overlook a passed deadline for ever when its ticker is ready
too, which the random choice of Go's `select` gives; nothing is assumed of clients, of
handlers, which may never return, or of whoever sends signals. `KeepsFairContract` turns
that into the promise that an ended login really loses all its access tokens.

## 4. What is proved

For all values of the constants, under the assumptions the modules name
(`IdentityAssumption`, `DryRunAssumption`, `SessionAssumption`, `RefreshAssumption`,
`TargetAssumption`, `Target`'s `NoneAssumption`; `LogAssumption`; `CommandAssumption`;
`AuthorizeAssumption` and `Authorize`'s `NoneAssumption`; `DiscoveryAssumption`;
`MintingAssumption`), which TLC evaluates in the runs. They say what `config.Validate` and
the construction of a target have checked, and that the model's constants are told
apart. Every safety property of the passing runs is the conclusion of a theorem.

* **Type correctness** of `Target`, `RequestLog`, `Command`, `Authorize` and
  `Discovery`. For a target it is not inductive by itself: that `local[r].family` names
  a family when `Track` uses it depends on where the handler is. `Inv` adds `HandlerOK`
  (the program counter determines the kind of request and which locals are set),
  `RedeemedOK` (a code being redeemed is marked consumed) and `FamiliesOK` (every
  refresh token has a family; a family's exchange has passed `Issue`).
* **Codes** (`CodesAreSingleUse`, `CodesAreSpentByTheirOwner`): two exchanges past
  `Consume` hold different codes, since the one step that adds a redeeming exchange needs
  the code unconsumed and every earlier one left it consumed; and the step that consumes
  has checked the owner, and the exchange read the clock before the code expired.
* **Sessions** (`NoTokenIsOrphaned`, `SessionsMatchTokens`): a hand-over of responsibility,
  `Put` to the grant in flight, `Track` to the live family (or deletion, when it has been
  revoked meanwhile), `MarkRevoked` to the sweep, and the sweep deletes. The interesting
  case is a JWT two grants share. The first holds for both token formats; the second is
  about JWTs, and names the two claims that `tamper` may make differ.
* **Ownership** (`NobodyElseEnds`): `Owned` says that every token a grant, a family or a
  sweep holds belongs to the client of the request that holds it; then the three steps
  that end something end what is their own.
* **Chains** (`ChainsKeepTheirIdentity`, `RefreshesNeverFail`, `LiveTokensReachTheirClient`,
  `OneRefreshTokenLives`, `FamiliesAreRevokedForCause`): `Chained` says that every grant
  under way, family and reply goes back to the login of its family and carries that login's
  identity, and that tokens could be minted of it (`Mintable`): what made an identity fail
  would have made it fail at the exchange, before there was a family, so `Mint` after a
  rotation cannot fail, which is what the chain's last live token depends on. `OnlyLive`
  keeps exactly one refresh token unretired, `CauseOK` remembers why a family was revoked.
* **Reuse** (`ReuseEndsTheFamily`), both formats: `Reused` follows the two refreshes of one
  token from the moment they ask: the one that comes second finds the token retired, and
  the refusal is answered only when the family is marked.
* **Revocation** (`RevokedFamiliesAreDead`, `RevocationsStick`), opaque tokens: `Tracked`
  says that every access token in a family's set, or waiting for a sweep to delete it, was
  delivered to that very family by the grant it is named after, so that a revocation misses
  none and a deleted token is not stored again; `Sticks` adds that a revocation answered
  with 200 has been through the lookup that finds its token. With JWTs the first is false
  (section 6).
* **Userinfo** (`UserinfoTellsALogin`, `UserinfoMatchesIDToken`): for opaque tokens `Tells`
  and `Told` say that an access token's session and the reply that carries it have one
  identity, from `Put` on, so `/userinfo` answers what the ID token says. With JWTs that
  is false (section 6); what holds is `StoredOK` and `SaidOK`: whatever is stored under a
  string is the identity of a login that minted this string, whole, and of its sub.
* **The refinement** (`ImplementsContract`), opaque tokens: with `Facts`, the conjunction of
  the invariants above, every step maps to a step of `LoginContract` or a stutter. A login
  has at most one family (`OneFamily`), `PhaseOf` moves only where `Complete`, `Consume`,
  `Issue` and `MarkRevoked` act, and `UsableOf` grows by one when a reply is sent, shrinks
  by one when a session goes. A grant that reaches `Track` after its family was revoked
  delivers a token `Track` itself has deleted, and by `Tracked` a deletion withdraws the
  token of one login only.
* **The request log** (`KeepsTheMostRecent`, `AnswersAreLogged`, `LinesFollowMinting`): the ring
  implements the bounded queue by an argument about windows of a ring (storing at the end
  of a window extends it, storing over its start and moving head slides it); `Agreed` says
  that `statusWriter` and net/http have the same status in mind, `Logged` that there is
  exactly one line of a request past `emit`, which nothing still to come changes. The line
  has the status the client got unless the handler's first one was informational.
* **The command** (`ResultsAreEarned`, `PortsAreFreed`, `ExposureIsAskedFor`,
  `ProbesFindTheListener`, `InFlightRequestsAreDrained`): the inductive invariant `IInv`
  joins `TypeOK` with `Phases` (what exists from which line of `serve` on), `Signalled` (only
  a signal leads into `Shutdown`), `Served` (what `Serve`'s goroutine holds and has said at
  each of its lines, and why the socket is closed when it is) and `Drained` (once
  `Shutdown` has waited for the listeners nothing is accepted, and once it has found
  nothing busy nothing becomes busy again).
* **The login pages** (`RequestsSurvive`, `LoginsFollowTheCookies`, `LoginsAreAdmissible`,
  `NoOpenRedirects`): `Carried` ties the request in flight, the page and the redirect of a
  tab to what the tab asked with, `CopiesAgree` that the three copies of the checks refuse
  the same requests, `Earned` every code to a request of its flow that passed
  every check and to the way it logged in, `LeftOK` the place a logout leads to to a
  client it named. None of the properties is inductive: that a posted form carries
  checked parameters depends on the page it comes from, which only the checked GET
  or a failed submission makes.
* **Logouts** (`LogoutsForget`), for cookies set at Path `/`: while signed out the jar is
  empty, and every request sent since says so, whenever it is handled. With a cookie
  at a mount it is false (section 6), hence the hypothesis.
* **Keys and tokens** (`KeysVerifyWhereTheyShould`, `OnlyDefectsAskedFor`,
  `MintsAreLogins`): `PairOK` says that every pair of tokens ever issued is
  `BuildIDToken` of the keys of its process and of an input that its login determines.
  The rest is about that function: which of its claims are the custom ones, the
  protocol's or corrupted, that generated keys of two processes or targets differ, and
  that cutting to seconds keeps the order of times. `AnswerOK` is the
  command's part: it mints for exactly the users who could log in without a cookie.
* **Discovery** (`NoPathHasTwoTargets`, `OnlyKnownTenants`, `VanillaDiscoveryWorks`,
  `EndpointsLeadBack`, `NoRefusalWithoutCause`): `Enumerating` says what the routes of the
  target being built are after some of its pairs, `Built` that those of a finished one are
  exactly the ones its logins render to, `RoutesOK` where a route leads, `Disjoint` that no
  two mounts collide and `Cause` what stood behind a refusal: a mount, a template, a key, an
  issuer that is no URL, or what `RefusedForCause` names. The rest is about prefixes of
  sequences and trailing slashes: two mounts that do not collide have no path in common,
  mounts being literal (section 5). The last theorem has two hypotheses. No mount ends in
  two slashes: `normalizeMount` trims one only, so that `//` is compared as the root and
  refused beside every other mount, though no path would be shared. And clients may try a
  path below each mount, because the property speaks of the paths they try.

Proofs run a step lemma per action; effect lemmas say what a step changes and frame
lemmas what a step of one request leaves alone in the others.

**Model-checked only:** liveness (`EveryRequestAnswered`, `KeepsFairContract`,
`SignalEndsProcess`), since fairness is outside the prover. Of the properties of
the runs that expect a violation, `RevokedFamilyIsDead` and `UserinfoEchoesIDToken` are
false with JWTs and proved for opaque tokens; the other two are just false.

## 5. What is not modelled

* Cryptography and encoding: signatures are injective, a key verifies what it signed, and
  signing does not fail, since `keys.go:236-244` lets a target have no key RS256 cannot use;
  a PEM block without a usable RSA key is one value, and so is a template that does not
  parse and an issuer that is no URL; the codec, the JSON of log lines and
  documents, the text of templates, pages and error descriptions are left out.
* `randomToken` failing (the system's entropy source does not), writes to the log failing.
* Configuration: the loading of YAML, defaults, durations and most single-field checks of
  `config.Validate`, which enter as assumptions on the configurations.
* Paths as escaped strings: `Discovery`'s segments are decoded, a `%2F` is not told from a
  slash, and an issuer has no query; mounts with chi's pattern characters, which
  `config.Validate` accepts (`validate.go:133-139` asks for a leading slash only) and which
  may share paths with mounts they do not collide with, so `MountsAreDisjoint` says
  nothing of them; ingresses that rewrite paths.
* Informational statuses (1xx) in `Authorize`; `RequestLog` has them.
* In `Target`, a configured claim called `nonce` without JSON encoding: the exchange,
  whose own nonce replaces it, succeeds, and a refresh, which has none, answers
  `server_error` after rotating. `Minting` has the replacement and the failure;
  `Mintable` assumes that what fails does not depend on the nonce.
* In net/http: reading a request and marking its connection active are one step, and the
  five seconds after which `Shutdown` closes a connection that never sent anything are
  merged with the `ReadHeaderTimeout`, which ends it as well.
* The test helper `authsidetest`, a client of the server without state of the provider.

`PROJECT.json` says so component by component.

## 6. Findings

Each of these has a run that shows it:

1. **JWTRevocation** (`oidcop/refresh.go:229`): with `access_token: jwt`, a second login of
   the same user at the same client within a second mints the very string a revocation
   has just withdrawn, and it is accepted again. The token has no `jti`.
2. **SharedJWT** (`oidcop/sessions.go:43`): with `access_token: jwt`, two logins that inject
   one sub with different claims at one client within a second share a JWT and hence a
   session; `/userinfo` answers the first with the claims of the second, although
   `inject.go:40-44` says the payload "is exactly what comes back in the ID token and at
   /userinfo".
3. **ErrorCode** (`oidcop/errors.go:95`): `config.Validate` accepts
   `errors: {...: unsupported_response_type}`, which the run-time table does not know, so
   the target fails with `server_error`.
4. **TrailingSlash** (`oidcop/discovery.go:181`): a target mounted at `/oidc/`, which
   `config.Validate` accepts, publishes endpoints like `/oidc//authorize`, which no route
   answers.

These were read in the code while modelling it; the models contain the behaviour, or
section 5 says why they cannot, but no run is spent on them:

* `codes.go:40-43` says consume makes the PKCE check under its lock; it is made after the
  code is spent (`SpentByOwner` states what holds).
* `token.go:222-226`: the log's `pkce` field goes by the stored method, which may be there
  without a challenge.
* `endsession.go:98-116`: clearing a cookie at Path `/` does not clear one set at a target's
  mount, although the comment says "regardless of which path".
* `mint.go:57-59`: "No nonce claim" is true of the protocol's; a configured claim called
  `nonce` or `nbf` stays in a token for which the protocol has none, a refreshed or a
  command's one, and a numeric `nbf` in the future makes the token too early though no
  `nbf_skew` asks for it (`DefectsAreAskedFor` says exactly when).
* `mint.go:42-50`: the command knows configured users only. A server with
  `accept_injected_claims` lets in a sub that `mint.go:76-79` refuses, and an injected
  payload under a configured sub gets other claims than the command mints.
* `token.go:267-278`: a claim that has no JSON encoding (`.nan` in YAML) is accepted by
  `config.Validate` and by the dry run (`target.go:205-213`), and answered with
  `server_error` when the code has been spent.
* `validate.go:314`: `errors:` may configure a 103, which net/http sends as an informational
  response and follows with a 200; `middleware.go:131-136` takes it as final, and the log
  says 103 of a client that got 200.
* `mint.go:60`: a JWT the command mints with a configured key in the second of a login is
  the login's string and does resolve at `/userinfo`.
* `authorize_picker.go:166`: the picker lets an empty subject through where the form refuses
  it, with `accept_any_username`.
* `discovery_periss.go:123`: a per-subject route is made from the decoded path, so one with
  `%2F` in a segment is not reached.

## 7. Plan

Done, in this order: the stores and `Target` with its contract; `RequestLog`; `Authorize`;
`Command`; `Discovery`; `Minting`; the proofs of every safety property of each of them and
of the refinements.

Open:
* Escaped paths in `Discovery`; statuses below 200 in `Authorize`.
* `Target` and `Minting` composed over one session store and two processes, for the token
  the command mints in the second of a login.
* Loading and defaults of the configuration.
