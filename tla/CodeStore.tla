----------------------------- MODULE CodeStore -----------------------------
(***************************************************************************)
(* codes.go: the authorization codes one target has issued.  Each method   *)
(* takes the store's mutex for its whole body, so each is one step.  A     *)
(* code is 32 random bytes, so it is named by the login it was issued for. *)
(* Codes are never removed.                                                *)
(***************************************************************************)
EXTENDS Integers, GoMaps, Identity, PKCE

CONSTANTS
  Logins,       \* the browser logins, each completing at most once
  RedirectURIs, \* redirect_uri values
  CodeTTL       \* how long a code stays exchangeable, in clock ticks

VARIABLE codes  \* codeStore.codes: map[string]*authCode, keyed by login

AuthCode ==
  [identity  : LoginIdentity,
   client    : Clients,
   redirect  : RedirectURIs,
   challenge : MaybeChallenge,
   method    : MaybeMethod,
   expiresAt : Int,
   consumed  : BOOLEAN]

CodesTypeOK == IsMap(codes, Logins, AuthCode)
CodesInit == codes = EmptyMap

\* issue: ac is the caller's authCode, whose expiresAt and consumed fields
\* are still unset.
IssueCode(code, ac, now) ==
  codes' = MapPut(codes, code,
             [identity |-> ac.identity, client |-> ac.client,
              redirect |-> ac.redirect, challenge |-> ac.challenge,
              method |-> ac.method, expiresAt |-> now + CodeTTL,
              consumed |-> FALSE])

\* Mutant: any client may redeem any code.
ConsumableByAnyone(code, client, redirect, now) ==
  /\ code \in DOMAIN codes
  /\ ~codes[code].consumed
  /\ now <= codes[code].expiresAt
  /\ codes[code].redirect = redirect

\* consume's five checks; each failure is an invalid_grant.
Consumable(code, client, redirect, now) ==
  /\ code \in DOMAIN codes
  /\ ~codes[code].consumed
  /\ now <= codes[code].expiresAt
  /\ codes[code].client = client
  /\ codes[code].redirect = redirect

\* Mutant: consumed is set on a copy of the stored authCode.
MarkConsumedOnCopy(code) == UNCHANGED codes

\* consume's mutation, under the same lock as its checks.
MarkConsumed(code) == codes' = [codes EXCEPT ![code].consumed = TRUE]
=============================================================================
