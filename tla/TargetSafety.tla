---------------------------- MODULE TargetSafety ----------------------------
(***************************************************************************)
(* What the target promises about the codes, tokens and families it hands  *)
(* out, whatever the order in which concurrent requests reach its stores.  *)
(***************************************************************************)
EXTENDS Target

\* Exchange r got past consume and PKCE: it holds, or has delivered, tokens.
Won(r) ==
  /\ req[r] # None
  /\ req[r].op = "exchange"
  /\ \/ pc[r] \in {"put", "issue", "track"}
     \/ pc[r] = "done" /\ resp[r].status = "ok"

\* Request r has been granted tokens, by either grant.
Granted(r) == pc[r] = "done" /\ resp[r].at # None

\* The family a granted request's tokens belong to.
FamilyOf(r) == tokens[resp[r].rt].family

Sweeping(f) ==
  \E r \in Requests : /\ pc[r] = "sweep"
                      /\ req[r].token \in DOMAIN tokens
                      /\ tokens[req[r].token].family = f

\* An authorization code buys tokens at most once, however many exchanges of
\* it are in flight (codeStore.consume: checks and mutation under one lock).
SingleUse ==
  \A r1, r2 \in Requests :
    r1 # r2 /\ Won(r1) /\ Won(r2) => req[r1].token # req[r2].token

\* A spent code was spent by its own client, authenticated, with its own
\* redirect_uri: a failed client authentication, which x/oauth2 retries with
\* the same code, leaves it exchangeable (authenticateClient).  What has bought
\* anything read the clock in time and passed PKCE, which is checked when the
\* code is spent already.
SpentByOwner ==
  /\ \A l \in DOMAIN codes :
       codes[l].consumed =>
         \E r \in Requests :
           /\ req[r] # None
           /\ req[r].op = "exchange"
           /\ req[r].token = l
           /\ req[r].authentic
           /\ req[r].client = codes[l].client
           /\ req[r].redirect = codes[l].redirect
  /\ \A r \in Requests :
       Won(r) => LET code == codes[req[r].token]
                 IN /\ CheckPKCE(code.challenge, code.method, req[r].verifier)
                    /\ pc[r] # "done" => local[r].readAt <= code.expiresAt

\* Rotation never forks and never ends a chain: every family has exactly one
\* refresh token that is not retired (refreshStore.refresh, rotate).
OneLiveRefreshToken ==
  RefreshMode = "rotate" =>
    \A f \in DOMAIN families :
      \E t \in DOMAIN tokens :
        \A u \in DOMAIN tokens :
          tokens[u].family = f /\ ~tokens[u].retired <=> u = t

\* The refresh token a family is left with is on its way to the client or has
\* been delivered to it: no error after rotation swallows it
\* (issueFromRefresh mints after it has rotated).
LiveTokenReachesClient ==
  \A t \in DOMAIN tokens :
    tokens[t].retired \/ \E r \in Requests : resp[r].rt = t \/ local[r].next = t

\* Of two refreshes with one refresh token at most one is served; when one is
\* served and the other refused, the family is revoked (refresh's reuse
\* detection, with the race of two first uses included).
ReuseRevokesFamily ==
  RefreshMode = "rotate" =>
    \A r1, r2 \in Requests :
      /\ r1 # r2
      /\ Granted(r1) /\ pc[r2] = "done"
      /\ req[r1].op = "refresh" /\ req[r2].op = "refresh"
      /\ req[r1].token = req[r2].token
      /\ req[r1].client = req[r2].client
      /\ req[r2].authentic /\ req[r2].grant = "known"
      => /\ ~Granted(r2)
         /\ families[FamilyOf(r1)].revoked

\* A family is revoked for a reason only: its owner asked /revocation to
\* revoke one of its tokens, or presented one of them twice.  Races between
\* honest requests log nobody out.
RevokedForCause ==
  \A f \in DOMAIN families :
    families[f].revoked =>
      \E r1, r2 \in Requests :
        /\ req[r1] # None /\ req[r2] # None
        /\ req[r1].token = req[r2].token
        /\ req[r1].token \in DOMAIN tokens
        /\ tokens[req[r1].token].family = f
        /\ req[r1].client = families[f].client
        /\ req[r1].authentic
        /\ \/ req[r1].op = "revoke"
           \/ /\ RefreshMode = "rotate"
              /\ r1 # r2
              /\ req[r1].op = "refresh" /\ req[r2].op = "refresh"

\* Somebody is responsible for an access token that /userinfo accepts: the
\* grant that is about to track it, a live family that tracks it, or the
\* revocation that is about to delete it.  A token nobody is responsible for
\* would survive every later revocation (the window trackAccessToken closes).
Kept(at) ==
  \/ \E r \in Requests : pc[r] \in {"issue", "track"} /\ local[r].at = at
  \/ \E f \in DOMAIN families :
       ~families[f].revoked /\ at \in families[f].accessTokens
  \/ \E r \in Requests : pc[r] = "sweep" /\ at \in local[r].doomed

NoOrphanAccessToken == \A at \in DOMAIN sessions : Kept(at)

\* Once a revocation is over, no access token the family ever delivered is
\* accepted, the ones whose grant was in flight during the revocation
\* included (refreshStore.refresh, trackAccessToken, revokeFamilyLocked).
RevokedFamilyIsDead ==
  \A r \in Requests :
    /\ Granted(r)
    /\ families[FamilyOf(r)].revoked
    /\ ~Sweeping(FamilyOf(r))
    => resp[r].at \notin DOMAIN sessions

\* A token its own client has revoked stays revoked: an access token is never
\* accepted again, a refresh token takes its family with it, whichever type
\* the request hinted at (revocationHandler).
RevocationSticks ==
  \A r, q \in Requests :
    /\ pc[r] = "done" /\ req[r].op = "revoke" /\ resp[r].status = "ok"
    /\ Granted(q)
    /\ req[q].client = req[r].client
    => /\ req[r].token = resp[q].at => resp[q].at \notin DOMAIN sessions
       /\ req[r].token = resp[q].rt => families[FamilyOf(q)].revoked

\* The identity of the login a granted request goes back to.
OriginOf(r) == codes[req[FamilyOf(r)].token].identity

\* Every token of a chain is for the identity that logged in, with the claims
\* of that identity, an injected one verbatim, at the first exchange and at
\* every refresh since (loginIdentity: "what makes an injected identity survive
\* a refresh").
ChainKeepsIdentity ==
  \A r \in Requests :
    Granted(r) =>
      /\ resp[r].subject = OriginOf(r).subject
      /\ resp[r].claims = IF OriginOf(r).injected THEN OriginOf(r).claims
                          ELSE ResolveClaims(OriginOf(r).subject, req[r].client)
      /\ req[r].client = codes[req[FamilyOf(r)].token].client

\* Request r asked /userinfo with the access token delivered to q, and was served.
AnsweredFor(r, q) ==
  /\ Granted(q)
  /\ pc[r] = "done" /\ req[r].op = "userinfo" /\ resp[r].status = "ok"
  /\ req[r].token = resp[q].at

\* Request p minted an access token for a login with these claims.
MintedFor(p, at, claims) ==
  \/ local[p].at = at /\ ClaimsFor(local[p].identity, req[p].client) = claims
  \/ resp[p].at = at /\ resp[p].claims = claims

\* /userinfo answers an access token with the subject it was delivered for and
\* with the claims of a login that minted this very token, even while its JWT
\* is stored over by others (userinfoHandler, sessions.put).
UserinfoAnswersLogin ==
  \A r, q \in Requests :
    AnsweredFor(r, q) =>
      /\ resp[r].subject = resp[q].subject
      /\ \E p \in Requests : MintedFor(p, resp[q].at, resp[r].claims)

\* "What a test writes in the payload is exactly what comes back in the ID token
\* and at /userinfo" (injectedIdentity): /userinfo has the claims of the ID token
\* that was delivered beside the access token.
UserinfoEchoesIDToken ==
  \A r, q \in Requests :
    AnsweredFor(r, q) => resp[r].subject = resp[q].subject
                         /\ resp[r].claims = resp[q].claims

\* A 500 answers the first exchange of a login no token can be minted for, or
\* nothing at all: the branches token.go calls unreachable are, a login that has
\* got tokens once can always be refreshed, and no refresh fails so after it has
\* rotated (issueFromCode, issueFromRefresh).
FailsAtExchangeOrNever ==
  \A r \in Requests :
    resp[r].status = "server_error" =>
      /\ req[r].op = "exchange"
      /\ ~Mintable(codes[req[r].token].identity, req[r].client)
      /\ \A f \in DOMAIN families : req[f].token # req[r].token

\* What a resource server reads off a JWT access token is what /userinfo goes
\* by: its subject, its client and, to the second, its expiry, although requests
\* with different clock readings may have minted the string and all have stored
\* a session under it.  Only the claims tamper: names disagree, and they always
\* do (buildAccessToken, sessions.put).
Reads(at, claim, value) == at[claim] = value /\ claim \notin at.tampered
SessionMatchesToken ==
  \A at \in DOMAIN sessions :
    at.kind = "jwt" =>
      /\ sessions[at].subject = at.sub
      /\ sessions[at].client = at.client_id
      /\ Reads(at, "aud", sessions[at].client) <=> "aud" \notin Tamper
      /\ Reads(at, "exp", Unix(sessions[at].expiresAt)) <=> "exp" \notin Tamper

-----------------------------------------------------------------------------

\* A step only ever ends a session, or a family, on behalf of a request of
\* the client it belongs to (find's ownership check, revokeByRefreshToken).
EndedByOwner ==
  [][ /\ \A f \in DOMAIN families :
           families'[f].revoked /\ ~families[f].revoked =>
             \E r \in Requests : /\ pc'[r] # pc[r]
                                 /\ req[r].authentic
                                 /\ req[r].client = families[f].client
      /\ \A at \in DOMAIN sessions \ DOMAIN sessions' :
           \E r \in Requests : /\ local'[r] # local[r] \/ pc'[r] # pc[r]
                               /\ req[r].authentic
                               /\ req[r].client = sessions[at].client
    ]_<<families, sessions>>

\* Every accepted request is answered: nobody keeps refreshMu, whose holder
\* takes the session lock again and again.
EveryRequestAnswered ==
  \A r \in Requests : pc[r] # "idle" ~> pc[r] = "done"

=============================================================================
