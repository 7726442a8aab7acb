------------------------------- MODULE Target -------------------------------
(***************************************************************************)
(* One authside target: the stores of CodeStore, SessionStore and          *)
(* RefreshStore, and the handlers of POST /token, POST /revocation and     *)
(* GET /userinfo that run over them, each request in a goroutine of its    *)
(* own.  A request is a process that goes through its handler once; a step *)
(* is one critical section of a store, together with the local computation *)
(* on either side of it.  A login is one successful pass through           *)
(* /authorize, whose only effect on the stores is to issue a code.         *)
(***************************************************************************)
EXTENDS CodeStore, RefreshStore, FiniteSets

CONSTANTS
  Registered,   \* [Clients -> SUBSET RedirectURIs]: redirect_uris
  RequirePKCE,  \* the clients with require_pkce
  Errors,       \* the endpoints with a canned failure under errors:
  Time,         \* the readings the clock may give
  Unknown,      \* a token or code value this target never issued
  Missing,      \* an absent form field or header
  Operations,   \* the kinds of request made in this instance
  Mistakes      \* what clients get wrong: "secret", "unknown", "missing", "grant"

ASSUME TargetAssumption ==
  /\ Registered \in [Clients -> SUBSET RedirectURIs]
  /\ RequirePKCE \subseteq Clients
  /\ Time \subseteq Int
  /\ CodeTTL \in Int
  /\ Operations \subseteq {"exchange", "refresh", "revoke", "userinfo"}
  /\ Unknown \notin Logins \cup RefreshToken \cup AccessToken
  /\ Missing \notin Logins \cup RefreshToken \cup AccessToken

VARIABLES
  now,    \* the target's clock; a test may move it either way
  pc,     \* where each request's handler is
  req,    \* what each request asked for
  local,  \* the handler's local variables
  resp    \* the reply, and the request log fields the properties are about

stores == <<codes, sessions, tokens, families, refreshMu>>
vars == <<stores, now, pc, req, local, resp>>

-----------------------------------------------------------------------------

Token == Logins \cup RefreshToken \cup AccessToken \cup {Unknown, Missing}

\* A request's form: token is its code, refresh_token, token or bearer token;
\* client and authentic are who it claims to be and whether its secret proves
\* that (nobody at /userinfo); hint is token_type_hint = access_token; grant is
\* whether /token knows its grant_type.
Request ==
  [op : Operations, client : Clients \cup {None}, authentic : BOOLEAN, token : Token,
   redirect : RedirectURIs \cup {None}, verifier : MaybeVerifier,
   hint : BOOLEAN, grant : {"known", "unsupported", "missing"}]

\* What has not asked for anything is told from what has.
ASSUME NoneAssumption == None \notin Request

Form(op, client, authentic, token) ==
  [op |-> op, client |-> client, authentic |-> authentic, token |-> token,
   redirect |-> None, verifier |-> None, hint |-> FALSE, grant |-> "known"]

Local ==
  [readAt : Int, identity : LoginIdentity \cup {None},
   family : Requests \cup {None}, next : RefreshToken \cup {None},
   at : AccessToken \cup {None}, doomed : SUBSET AccessToken]

NoLocal ==
  [readAt |-> 0, identity |-> None, family |-> None, next |-> None,
   at |-> None, doomed |-> {}]

Reply ==
  [status : {"none", "ok", "configured_error", "invalid_client",
             "invalid_request", "unsupported_grant_type", "invalid_grant",
             "invalid_token", "server_error"},
   subject : Subjects \cup {None}, claims : Claims \cup {None},
   at : AccessToken \cup {None}, rt : RefreshToken \cup {None},
   pkce : MaybeMethod]

NoReply ==
  [status |-> "none", subject |-> None, claims |-> None, at |-> None,
   rt |-> None, pkce |-> None]

Status(s) == [NoReply EXCEPT !.status = s]

Labels ==
  {"idle", "consume", "refresh", "mint", "put", "issue", "track", "find",
   "delete", "revokeFamily", "sweep", "lookup", "done"}

TypeOK ==
  /\ CodesTypeOK
  /\ SessionsTypeOK
  /\ RefreshTypeOK
  /\ now \in Time
  /\ pc \in [Requests -> Labels]
  /\ req \in [Requests -> Request \cup {None}]
  /\ local \in [Requests -> Local]
  /\ resp \in [Requests -> Reply]

Init ==
  /\ CodesInit
  /\ SessionsInit
  /\ RefreshInit
  /\ now \in Time
  /\ pc = [r \in Requests |-> "idle"]
  /\ req = [r \in Requests |-> None]
  /\ local = [r \in Requests |-> NoLocal]
  /\ resp = [r \in Requests |-> NoReply]

-----------------------------------------------------------------------------
(* Helpers for the steps of a request.                                     *)

At(r, label) == pc[r] = label

Continue(r, label, l) ==
  /\ pc' = [pc EXCEPT ![r] = label]
  /\ local' = [local EXCEPT ![r] = l]
  /\ UNCHANGED resp

Answer(r, reply) ==
  /\ pc' = [pc EXCEPT ![r] = "done"]
  /\ local' = [local EXCEPT ![r] = NoLocal]
  /\ resp' = [resp EXCEPT ![r] = reply]

\* A client can only present what a reply or a redirect has given it, or a
\* value the target never issued.
Delivered(field) == {resp[r][field] : r \in Requests} \ {None}
Guesses ==
  (IF "unknown" \in Mistakes THEN {Unknown} ELSE {})
    \cup (IF "missing" \in Mistakes THEN {Missing} ELSE {})
Credentials == IF "secret" \in Mistakes THEN BOOLEAN ELSE {TRUE}
GrantTypes ==
  {"known"} \cup (IF "grant" \in Mistakes THEN {"unsupported", "missing"} ELSE {})

\* The checks every handler makes before it touches a store: errors:, then
\* client authentication (a bearer token at /userinfo), then the grant_type of
\* a token request and the mandatory parameter.
Endpoint(op) ==
  CASE op \in {"exchange", "refresh"} -> "token"
    [] op = "revoke" -> "revocation"
    [] op = "userinfo" -> "userinfo"
Refusal(q) ==
  IF Endpoint(q.op) \in Errors THEN "configured_error"
  ELSE IF q.op # "userinfo" /\ ~q.authentic THEN "invalid_client"
  ELSE IF q.grant = "unsupported" THEN "unsupported_grant_type"
  ELSE IF q.grant = "known" /\ q.token # Missing THEN "none"
  ELSE IF q.op = "userinfo" THEN "invalid_token"
  ELSE "invalid_request"

Arrive(r, q, label, l) ==
  /\ At(r, "idle")
  /\ q.op \in Operations
  /\ req' = [req EXCEPT ![r] = q]
  /\ IF Refusal(q) = "none"
       THEN Continue(r, label, l)
       ELSE Answer(r, Status(Refusal(q)))
  /\ UNCHANGED <<stores, now>>

-----------------------------------------------------------------------------
(* The browser and the clock.                                              *)

\* completeLogin, at the end of every login mode, once the request has passed
\* the checks of authorizeHandler (or of the mode's submit handler).  Nobody
\* knows the code before the redirect, so reading the clock and storing the
\* code are one step.
CompleteLogin(l) ==
  /\ l \notin DOMAIN codes
  /\ "authorize" \notin Errors
  /\ \E id \in LoginIdentity, c \in Clients, ch \in MaybeChallenge,
        m \in MaybeMethod : \E uri \in Registered[c] :
       /\ MayLogIn(id)
       /\ c \in RequirePKCE => ch # None
       /\ IssueCode(l, [identity |-> id, client |-> c, redirect |-> uri,
                        challenge |-> ch, method |-> m], now)
  /\ UNCHANGED <<sessions, tokens, families, refreshMu, now, pc, req, local,
                 resp>>

\* clock.Test's Advance and Set; time passing, for the system clock.
MoveClock ==
  /\ now' \in Time \ {now}
  /\ UNCHANGED <<stores, pc, req, local, resp>>

-----------------------------------------------------------------------------
(* POST /token with grant_type=authorization_code: issueFromCode.          *)

\* Up to and including the reading of the clock.
Exchange(r) ==
  \E c \in Clients, auth \in Credentials, code \in DOMAIN codes \cup Guesses,
     uri \in RedirectURIs, v \in MaybeVerifier :
    Arrive(r, [Form("exchange", c, auth, code) EXCEPT !.redirect = uri,
                                                      !.verifier = v],
           "consume", [NoLocal EXCEPT !.readAt = now])

\* consume refuses, and leaves the code as it is.
ConsumeRefuses(r) ==
  /\ At(r, "consume")
  /\ ~Consumable(req[r].token, req[r].client, req[r].redirect, local[r].readAt)
  /\ Answer(r, Status("invalid_grant"))
  /\ UNCHANGED <<stores, now, req>>

\* Mutant: the issuer of an identity is not looked at before the tokens are
\* minted.
CodeFailureButIssuer(ac, q) ==
  IF CheckPKCE(ac.challenge, ac.method, q.verifier)
    THEN NoReply ELSE Status("invalid_grant")

\* What issueFromCode makes of a code it has just consumed, before it touches
\* a store again: checkPKCE, claimsFor, the issuer, and the two tokens, which
\* have to be encoded.
CodeFailure(ac, q) ==
  IF ~CheckPKCE(ac.challenge, ac.method, q.verifier)
    THEN Status("invalid_grant")
  ELSE IF ~Mintable(ac.identity, q.client)
    THEN [Status("server_error") EXCEPT !.pkce = ac.method]
  ELSE NoReply

\* consume succeeds: the code is spent whatever comes next, which is an error
\* reply or the minting of the tokens.
Consume(r) ==
  LET q == req[r]
      ac == codes[q.token]
      failure == CodeFailure(ac, q)
  IN /\ At(r, "consume")
     /\ Consumable(q.token, q.client, q.redirect, local[r].readAt)
     /\ MarkConsumed(q.token)
     /\ IF failure # NoReply
          THEN Answer(r, failure)
          ELSE Continue(r, "put",
                 [local[r] EXCEPT
                    !.identity = ac.identity,
                    !.at = MintAccessToken(r, ac.identity, q.client,
                                           local[r].readAt)])
     /\ UNCHANGED <<sessions, tokens, families, refreshMu, now, req>>

\* Mutant: the session expires an access_token_ttl after it is stored, not
\* after the reading of the clock its token was minted with.
PutWithLateClock(r) ==
  LET l == local[r]
  IN /\ At(r, "put")
     /\ PutSession(l.at, [subject |-> l.identity.subject,
                          claims |-> ClaimsFor(l.identity, req[r].client),
                          client |-> req[r].client,
                          expiresAt |-> now + AccessTokenTTL])
     /\ Continue(r, IF req[r].op = "exchange" THEN "issue" ELSE "track", l)
     /\ UNCHANGED <<codes, tokens, families, refreshMu, now, req>>

\* Mutant: the session gets the claims of the configured user.
PutWithUserClaims(r) ==
  LET l == local[r]
  IN /\ At(r, "put")
     /\ PutSession(l.at, [subject |-> l.identity.subject,
                          claims |-> ResolveClaims(l.identity.subject, req[r].client),
                          client |-> req[r].client,
                          expiresAt |-> l.readAt + AccessTokenTTL])
     /\ Continue(r, IF req[r].op = "exchange" THEN "issue" ELSE "track", l)
     /\ UNCHANGED <<codes, tokens, families, refreshMu, now, req>>

\* Both grants: t.sessions.put.
Put(r) ==
  LET l == local[r]
  IN /\ At(r, "put")
     /\ PutSession(l.at, [subject |-> l.identity.subject,
                          claims |-> ClaimsFor(l.identity, req[r].client),
                          client |-> req[r].client,
                          expiresAt |-> l.readAt + AccessTokenTTL])
     /\ Continue(r, IF req[r].op = "exchange" THEN "issue" ELSE "track", l)
     /\ UNCHANGED <<codes, tokens, families, refreshMu, now, req>>

\* refreshTokens.issue.
Issue(r) ==
  /\ At(r, "issue")
  /\ refreshMu = Free
  /\ IssueFamily(r, req[r].client, local[r].identity)
  /\ Continue(r, "track", [local[r] EXCEPT !.family = r,
                                           !.next = NewRefreshToken(r)])
  /\ UNCHANGED <<codes, sessions, refreshMu, now, req>>

\* Both grants: trackAccessToken, then the reply.  Its ID token carries the
\* subject and the claims; the log has pkce when the code recorded a method.
Track(r) ==
  LET q == req[r]
      l == local[r]
  IN /\ At(r, "track")
     /\ refreshMu = Free
     /\ TrackAccessToken(l.family, l.at)
     /\ Answer(r, [status |-> "ok", subject |-> l.identity.subject,
                   claims |-> ClaimsFor(l.identity, q.client),
                   at |-> l.at, rt |-> l.next,
                   pkce |-> IF q.op = "exchange" THEN codes[q.token].method
                                                 ELSE None])
     /\ UNCHANGED <<codes, tokens, refreshMu, now, req>>

-----------------------------------------------------------------------------
(* POST /token with grant_type=refresh_token: issueFromRefresh.            *)

\* A request whose grant_type is none of the two is counted among these.
Refresh(r) ==
  \E c \in Clients, auth \in Credentials, t \in Delivered("rt") \cup Guesses,
     grant \in GrantTypes :
    Arrive(r, [Form("refresh", c, auth, t) EXCEPT !.grant = grant], "refresh", NoLocal)

\* refreshStore.refresh on an unknown token, another client's, or one of a
\* revoked family.
RefreshRefuses(r) ==
  /\ At(r, "refresh")
  /\ refreshMu = Free
  /\ ~Presentable(req[r].token, req[r].client)
  /\ Answer(r, Status("invalid_grant"))
  /\ UNCHANGED <<stores, now, req>>

\* Reuse detection: the presented token was rotated away before, so its
\* family is revoked.
RefreshDetectsReuse(r) ==
  LET t == req[r].token
      family == tokens[t].family
  IN /\ At(r, "refresh")
     /\ refreshMu = Free
     /\ Presentable(t, req[r].client)
     /\ tokens[t].retired
     /\ MarkRevoked(r, family)
     /\ Continue(r, "sweep", [local[r] EXCEPT
                                !.doomed = families[family].accessTokens])
     /\ UNCHANGED <<codes, sessions, tokens, now, req>>

UseRefresh(r) ==
  LET t == req[r].token
  IN /\ At(r, "refresh")
     /\ refreshMu = Free
     /\ Presentable(t, req[r].client)
     /\ ~tokens[t].retired
     /\ Rotate(r, t)
     /\ Continue(r, "mint", [local[r] EXCEPT !.identity = tokens[t].identity,
                                             !.family = tokens[t].family,
                                             !.next = Successor(r, t)])
     /\ UNCHANGED <<codes, sessions, families, refreshMu, now, req>>

\* claimsFor, the issuer, the clock, mintAccessToken and buildIDToken: the
\* refresh token is already rotated when any of them fails.
Mint(r) ==
  LET id == local[r].identity
      q == req[r]
  IN /\ At(r, "mint")
     /\ IF ~Mintable(id, q.client)
          THEN Answer(r, Status("server_error"))
          ELSE Continue(r, "put",
                 [local[r] EXCEPT
                    !.readAt = now,
                    !.at = MintAccessToken(r, id, q.client, now)])
     /\ UNCHANGED <<stores, now, req>>

-----------------------------------------------------------------------------
(* POST /revocation.                                                       *)

\* token_type_hint decides which lookup comes first.
Revocation(r) ==
  \E c \in Clients, auth \in Credentials, hint \in BOOLEAN,
     t \in Delivered("rt") \cup Delivered("at") \cup Guesses :
    Arrive(r, [Form("revoke", c, auth, t) EXCEPT !.hint = hint],
           IF hint THEN "find" ELSE "revokeFamily", NoLocal)

\* tryAccessToken's find and ownership check.
Find(r) ==
  /\ At(r, "find")
  /\ IF FindOK(req[r].token, req[r].client) THEN Continue(r, "delete", local[r])
     ELSE IF req[r].hint THEN Continue(r, "revokeFamily", local[r])
     ELSE Answer(r, Status("ok"))
  /\ UNCHANGED <<stores, now, req>>

\* Mutant: revoking an access token revokes its family too.
DeleteCascades(r) ==
  /\ At(r, "delete")
  /\ RevokeSession(req[r].token)
  /\ families' = [f \in DOMAIN families |->
                    [families[f] EXCEPT
                       !.revoked = @ \/ req[r].token \in families[f].accessTokens]]
  /\ Answer(r, Status("ok"))
  /\ UNCHANGED <<codes, tokens, refreshMu, now, req>>

\* tryAccessToken's revoke, in a critical section of its own.
Delete(r) ==
  /\ At(r, "delete")
  /\ RevokeSession(req[r].token)
  /\ Answer(r, Status("ok"))
  /\ UNCHANGED <<codes, tokens, families, refreshMu, now, req>>

\* Mutant: revoking a refresh token leaves the access tokens of its family.
RevokeFamilyOnly(r) ==
  LET t == req[r].token
  IN /\ At(r, "revokeFamily")
     /\ refreshMu = Free
     /\ Revocable(t, req[r].client)
     /\ MarkRevoked(r, tokens[t].family)
     /\ Continue(r, "sweep", local[r])
     /\ UNCHANGED <<codes, sessions, tokens, now, req>>

\* tryRefreshToken, when the token is a refresh token of this client.
RevokeFamily(r) ==
  LET t == req[r].token
      family == tokens[t].family
  IN /\ At(r, "revokeFamily")
     /\ refreshMu = Free
     /\ Revocable(t, req[r].client)
     /\ MarkRevoked(r, family)
     /\ Continue(r, "sweep", [local[r] EXCEPT
                                !.doomed = families[family].accessTokens])
     /\ UNCHANGED <<codes, sessions, tokens, now, req>>

\* Mutant: an unknown refresh token is not tried as an access token.
RevokeFamilyGivesUp(r) ==
  /\ At(r, "revokeFamily")
  /\ refreshMu = Free
  /\ ~Revocable(req[r].token, req[r].client)
  /\ Answer(r, Status("ok"))
  /\ UNCHANGED <<stores, now, req>>

\* tryRefreshToken, when it is not.
RevokeFamilyRefuses(r) ==
  /\ At(r, "revokeFamily")
  /\ refreshMu = Free
  /\ ~Revocable(req[r].token, req[r].client)
  /\ IF req[r].hint THEN Answer(r, Status("ok"))
                    ELSE Continue(r, "find", local[r])
  /\ UNCHANGED <<stores, now, req>>

\* revokeFamilyLocked's loop, in the order of a Go map iteration.
Sweep(r) ==
  /\ At(r, "sweep")
  /\ \E at \in local[r].doomed :
       /\ RevokeSession(at)
       /\ Continue(r, "sweep", [local[r] EXCEPT !.doomed = @ \ {at}])
  /\ UNCHANGED <<codes, tokens, families, refreshMu, now, req>>

\* Mutant: the mutex is not released.
EndSweepKeepsLock(r) ==
  /\ At(r, "sweep")
  /\ local[r].doomed = {}
  /\ Answer(r, Status(IF req[r].op = "refresh" THEN "invalid_grant" ELSE "ok"))
  /\ UNCHANGED <<stores, now, req>>

\* The loop is over: the mutex is released and the request answered.
EndSweep(r) ==
  /\ At(r, "sweep")
  /\ local[r].doomed = {}
  /\ refreshMu' = Free
  /\ Answer(r, Status(IF req[r].op = "refresh" THEN "invalid_grant" ELSE "ok"))
  /\ UNCHANGED <<codes, sessions, tokens, families, now, req>>

-----------------------------------------------------------------------------
(* GET /userinfo.                                                          *)

\* The clock is read before the session store is locked.
Userinfo(r) ==
  \E t \in Delivered("at") \cup Guesses :
    Arrive(r, Form("userinfo", None, TRUE, t), "lookup",
           [NoLocal EXCEPT !.readAt = now])

Lookup(r) ==
  LET t == req[r].token
  IN /\ At(r, "lookup")
     /\ Answer(r, IF LookupOK(local[r].readAt, t)
                    THEN [Status("ok") EXCEPT !.subject = sessions[t].subject,
                                              !.claims = sessions[t].claims]
                    ELSE Status("invalid_token"))
     /\ UNCHANGED <<stores, now, req>>

-----------------------------------------------------------------------------

\* The steps the server takes for a request it has accepted.
Serve(r) ==
  \/ ConsumeRefuses(r)
  \/ Consume(r)
  \/ Put(r)
  \/ Issue(r)
  \/ Track(r)
  \/ RefreshRefuses(r)
  \/ RefreshDetectsReuse(r)
  \/ UseRefresh(r)
  \/ Mint(r)
  \/ Find(r)
  \/ Delete(r)
  \/ RevokeFamily(r)
  \/ RevokeFamilyRefuses(r)
  \/ Sweep(r)
  \/ EndSweep(r)
  \/ Lookup(r)

Next ==
  \/ \E l \in Logins : CompleteLogin(l)
  \/ MoveClock
  \/ \E r \in Requests :
       Exchange(r) \/ Refresh(r) \/ Revocation(r) \/ Userinfo(r) \/ Serve(r)

Spec == Init /\ [][Next]_vars

\* The runtime keeps scheduling the goroutine of every accepted request.
\* Nothing makes a client, a browser or the clock act.
FairSpec == Spec /\ \A r \in Requests : WF_vars(Serve(r))
=============================================================================
