---------------------------- MODULE RefreshStore ----------------------------
(***************************************************************************)
(* refresh.go: the refresh tokens and refresh families of one target.  All *)
(* methods hold the store's mutex for their whole body.  Those that make a *)
(* single call into the session store are one step; revokeFamilyLocked     *)
(* deletes a family's access tokens one call at a time, with other         *)
(* requests' session calls in between, so the mutex is a variable here and *)
(* revokeFamilyLocked a loop of its holder's (see Target).                 *)
(*                                                                         *)
(* Token and family identifiers are random: a refresh token is named by    *)
(* the request that minted it, a family by the exchange that created it.   *)
(* Neither is ever removed.                                                *)
(***************************************************************************)
EXTENDS SessionStore

CONSTANTS
  RefreshMode,  \* refresh_token: "rotate" or "static"
  Free          \* refreshMu's value while nobody holds it

ASSUME RefreshAssumption ==
  /\ RefreshMode \in {"rotate", "static"}
  /\ Free \notin Requests

VARIABLES
  tokens,     \* refreshStore.tokens: map[string]*refreshRecord
  families,   \* refreshStore.families: map[string]*refreshFamily
  refreshMu   \* refreshStore.mu: the request that holds it between steps

\* Mutant: both kinds of token are named alike.
NewRefreshTokenBare(r) == [kind |-> "opaque", by |-> r]

RefreshToken == [kind : {"refresh"}, by : Requests]
NewRefreshToken(r) == [kind |-> "refresh", by |-> r]

Record ==
  [identity : LoginIdentity, family : Requests, client : Clients,
   retired : BOOLEAN]

Family ==
  [identity : LoginIdentity, client : Clients, revoked : BOOLEAN,
   accessTokens : SUBSET AccessToken]

RefreshTypeOK ==
  /\ IsMap(tokens, RefreshToken, Record)
  /\ IsMap(families, Requests, Family)
  /\ refreshMu \in Requests \cup {Free}

RefreshInit ==
  /\ tokens = EmptyMap
  /\ families = EmptyMap
  /\ refreshMu = Free

\* Mutant: only the subject of an injected identity is kept.
NewRecordOfSubject(family, identity, client) ==
  [identity |-> [identity EXCEPT !.injected = FALSE, !.claims = NoClaims],
   family |-> family, client |-> client, retired |-> FALSE]

NewRecord(family, identity, client) ==
  [identity |-> identity, family |-> family, client |-> client,
   retired |-> FALSE]

\* issue, called by exchange r: a new family and its first token.
IssueFamily(r, client, identity) ==
  /\ families' = MapPut(families, r,
                   [identity |-> identity, client |-> client,
                    revoked |-> FALSE, accessTokens |-> {}])
  /\ tokens' = MapPut(tokens, NewRefreshToken(r),
                      NewRecord(r, identity, client))

\* Mutant: the family is not looked at again.
TrackBlindly(family, token) ==
  /\ families' = [families EXCEPT ![family].accessTokens = @ \cup {token}]
  /\ UNCHANGED sessions

\* trackAccessToken re-checks the family under the lock: a family revoked
\* since the caller looked kills the token instead of adopting it.
TrackAccessToken(family, token) ==
  IF family \notin DOMAIN families \/ families[family].revoked
    THEN /\ RevokeSession(token)
         /\ UNCHANGED families
    ELSE /\ families' = [families EXCEPT ![family].accessTokens = @ \cup {token}]
         /\ UNCHANGED sessions

\* refresh's first three checks; each failure is an invalid_grant.
Presentable(token, client) ==
  /\ token \in DOMAIN tokens
  /\ tokens[token].client = client
  /\ tokens[token].family \in DOMAIN families
  /\ ~families[tokens[token].family].revoked

\* Mutants: the client is handed its old token back, or the old token is not
\* retired.
SuccessorIsPresented(r, token) == token
RotateWithoutRetiring(r, token) ==
  tokens' = MapPut(tokens, NewRefreshToken(r),
                   NewRecord(tokens[token].family, tokens[token].identity,
                             tokens[token].client))

\* refresh's success: static leaves the token as it is, rotate retires it and
\* adds its successor, minted by request r, to the same family.
Successor(r, token) ==
  IF RefreshMode = "static" THEN token ELSE NewRefreshToken(r)
Rotate(r, token) ==
  IF RefreshMode = "static"
    THEN UNCHANGED tokens
    ELSE tokens' = MapPut([tokens EXCEPT ![token].retired = TRUE],
                          NewRefreshToken(r),
                          NewRecord(tokens[token].family,
                                    tokens[token].identity,
                                    tokens[token].client))

\* revokeByRefreshToken's ok: a token of another client is as good as unknown.
Revocable(token, client) ==
  token \in DOMAIN tokens /\ tokens[token].client = client

\* Mutant: only the access tokens go, the family stays.
MarkNothing(r, family) == UNCHANGED families /\ refreshMu' = r

\* The first assignment of revokeFamilyLocked, for a caller r that keeps the
\* mutex while it goes through the family's access tokens.
MarkRevoked(r, family) ==
  /\ families' = [families EXCEPT ![family].revoked = TRUE]
  /\ refreshMu' = r
=============================================================================
