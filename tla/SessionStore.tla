---------------------------- MODULE SessionStore ----------------------------
(***************************************************************************)
(* sessions.go: the map from an access token to the session it represents. *)
(* Every method takes the store's mutex for its whole body and calls       *)
(* nothing else, so each is one step.  Expired sessions are never removed. *)
(*                                                                         *)
(* jwt.go, token.go: what an access token is.  An opaque one is 32 random  *)
(* bytes, named by the request that minted it.  A JWT is a deterministic   *)
(* RS256 signature over claims that carry whole seconds and no jti, so it  *)
(* is the record of those claims: two requests that agree on all of them   *)
(* mint one and the same string.  All logins ask for the same scope.  A    *)
(* claim that tamper: names carries a marker beside the value it would     *)
(* have had, so it is not that value any more and still tells it.          *)
(***************************************************************************)
EXTENDS Integers, GoMaps, Identity

CONSTANTS
  Requests,         \* the back-channel requests, each made at most once
  AccessTokenFormat,\* access_token: "jwt" or "opaque"
  AccessTokenTTL,   \* access_token_ttl in clock ticks; may be negative
  Tamper,           \* the values of tamper: that an access token has a claim for
  Second            \* clock ticks per second

ASSUME SessionAssumption ==
  /\ AccessTokenFormat \in {"jwt", "opaque"}
  /\ AccessTokenTTL \in Int
  /\ Tamper \subseteq {"iss", "aud", "exp"}
  /\ Second \in Nat \ {0}

VARIABLE sessions   \* sessionStore.sessions: map[string]*accessTokenSession

\* time.Time.Unix
Unix(t) == t \div Second

OpaqueToken(r) == [kind |-> "opaque", by |-> r]
JWTToken(iss, sub, client, at) ==
  [kind |-> "jwt", iss |-> iss, sub |-> sub, aud |-> client, client_id |-> client,
   iat |-> Unix(at), exp |-> Unix(at + AccessTokenTTL), tampered |-> Tamper]

AccessToken ==
  [kind : {"opaque"}, by : Requests]
    \cup [kind : {"jwt"}, iss : Issuers, sub : Subjects, aud : Clients,
          client_id : Clients, iat : Int, exp : Int, tampered : {Tamper}]

\* mintAccessToken for request r, at clock reading `at`.
MintAccessToken(r, id, client, at) ==
  IF AccessTokenFormat = "opaque"
    THEN OpaqueToken(r)
    ELSE JWTToken(IssuerFor(id, client), id.subject, client, at)

Session ==
  [subject : Subjects, claims : Claims, client : Clients, expiresAt : Int]

SessionsTypeOK == IsMap(sessions, AccessToken, Session)
SessionsInit == sessions = EmptyMap

\* put overwrites whatever the token named before.
PutSession(token, session) == sessions' = MapPut(sessions, token, session)

\* lookup's ok: the token is known and has not expired as of now.
LookupOK(now, token) ==
  /\ token \in DOMAIN sessions
  /\ now <= sessions[token].expiresAt

\* Mutant: no ownership check.
FindOKForAnyone(token, client) == token \in DOMAIN sessions

\* find's ok, joined with its only caller's ownership check: expiry plays no
\* part here.
FindOK(token, client) ==
  /\ token \in DOMAIN sessions
  /\ sessions[token].client = client

\* revoke is idempotent.
RevokeSession(token) == sessions' = MapDelete(sessions, token)
=============================================================================
