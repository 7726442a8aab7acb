---------------------------- MODULE MCAuthorize ----------------------------
(* Instances of Authorize for TLC: two targets of one origin.              *)
EXTENDS Authorize, TLC

CONSTANTS app, other, web, spa, cb, spaCb, alice, bob, tid, ch, openid

\* Strict of spa only: a public client.
Base ==
  [login |-> "auto", clients |-> (web :> {cb} @@ spa :> {spaCb}),
   requirePKCE |-> {spa}, users |-> {alice}, defaultUser |-> Blank,
   anyUsername |-> FALSE, injected |-> FALSE, authorizeError |-> None,
   endSessionError |-> None]
Default == [Base EXCEPT !.defaultUser = alice]
Injected == [Default EXCEPT !.injected = TRUE]
InjectedOnly == [Base EXCEPT !.injected = TRUE, !.users = {}]
Picker == [Base EXCEPT !.login = "picker"]
Form == [Base EXCEPT !.login = "form"]

Pair(c, d) == [t \in Targets |-> IF t = app THEN c ELSE d]

\* What one target reads the other ignores; users nobody configured; pages;
\* failures on demand.
MCConfigs ==
  {Pair(Injected, Default),
   Pair(InjectedOnly, [Base EXCEPT !.anyUsername = TRUE]),
   Pair(Picker, Form),
   Pair([Picker EXCEPT !.anyUsername = TRUE], [Form EXCEPT !.anyUsername = TRUE]),
   Pair([Default EXCEPT !.authorizeError = "access_denied"],
        [Injected EXCEPT !.endSessionError = "temporarily_unavailable"]),
   Pair([Form EXCEPT !.authorizeError = "503"],
        [Default EXCEPT !.endSessionError = "503"])}

\* An errors: entry config.Validate accepts.
MCUnknownCode ==
  {Pair([Default EXCEPT !.authorizeError = "unsupported_response_type"], Form)}

\* Another subject's payload.
MCPayloads == {[sub |-> bob, claims |-> tid]}

\* Both clients' right queries, and one thing wrong at a time.
MCQueries ==
  LET right == [client |-> web, redirect |-> cb, type |-> "code", scope |-> Blank,
                challenge |-> Blank, method |-> Blank]
      strict == [right EXCEPT !.client = spa, !.redirect = spaCb, !.scope = openid,
                              !.challenge = ch, !.method = "S256"]
  IN {right, strict, [strict EXCEPT !.challenge = Blank],
      [strict EXCEPT !.redirect = cb], [right EXCEPT !.client = Blank],
      [right EXCEPT !.type = "token"]}

MCLogoutQueries ==
  {[client |-> web, hint |-> Blank, uri |-> cb],
   [client |-> Blank, hint |-> spa, uri |-> spaCb],
   [client |-> Blank, hint |-> spa, uri |-> cb]}
=============================================================================
