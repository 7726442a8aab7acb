---------------------------- MODULE TargetProofs ----------------------------
(***************************************************************************)
(* Theorems about the target, for every value of its constants: any number *)
(* of clients, logins and concurrent requests, both refresh modes and both *)
(* access token formats.                                                   *)
(***************************************************************************)
EXTENDS TargetSafety, TLAPS

-----------------------------------------------------------------------------
(* The inductive invariant.                                                *)

\* Exchange r has had its code marked consumed and has not failed since.
Redeeming(r) ==
  /\ \/ pc[r] \in {"put", "issue", "track"}
     \/ pc[r] = "done" /\ resp[r].status = "ok"
  /\ req[r].op = "exchange"

\* Where a handler is tells which kind of request it serves and which of its
\* local variables are set.
HandlerOK(r) ==
  /\ pc[r] # "idle" => req[r] \in Request
  /\ pc[r] # "idle" /\ req[r].op # "userinfo" => req[r].client \in Clients
  /\ pc[r] \in {"consume", "issue"} => req[r].op = "exchange"
  /\ pc[r] \in {"refresh", "mint"} => req[r].op = "refresh"
  /\ pc[r] \in {"put", "track"} => req[r].op \in {"exchange", "refresh"}
  /\ pc[r] \in {"find", "delete", "revokeFamily"} => req[r].op = "revoke"
  /\ pc[r] = "sweep" => req[r].op \in {"refresh", "revoke"}
  /\ pc[r] = "lookup" => req[r].op = "userinfo"
  /\ pc[r] \in {"mint", "put", "issue", "track"} =>
       local[r].identity \in LoginIdentity
  /\ pc[r] \in {"put", "issue", "track"} => local[r].at \in AccessToken
  /\ \/ pc[r] = "track"
     \/ pc[r] \in {"mint", "put"} /\ req[r].op = "refresh"
     => local[r].family \in Requests /\ local[r].next \in RefreshToken

\* A code that is being redeemed, or has been, is marked consumed.
RedeemedOK(r) ==
  Redeeming(r) => req[r].token \in DOMAIN codes /\ codes[req[r].token].consumed

\* Every refresh token has a family, and a family exists only once the
\* exchange it is named after has passed its refreshStore.issue.
FamiliesOK ==
  /\ \A t \in DOMAIN tokens : tokens[t].family \in DOMAIN families
  /\ \A f \in DOMAIN families : pc[f] \in {"track", "done"}

Inv ==
  /\ TypeOK
  /\ FamiliesOK
  /\ \A r \in Requests : HandlerOK(r) /\ RedeemedOK(r)

-----------------------------------------------------------------------------
(* Go maps.                                                                *)

LEMMA MapPutLemma ==
  ASSUME NEW m, NEW K, NEW V, IsMap(m, K, V), NEW k \in K, NEW v \in V
  PROVE  /\ IsMap(MapPut(m, k, v), K, V)
         /\ DOMAIN MapPut(m, k, v) = DOMAIN m \cup {k}
         /\ MapPut(m, k, v)[k] = v
         /\ \A x \in DOMAIN m \ {k} : MapPut(m, k, v)[x] = m[x]
BY DEF IsMap, MapPut

LEMMA MapDeleteLemma ==
  ASSUME NEW m, NEW K, NEW V, IsMap(m, K, V), NEW k
  PROVE  /\ IsMap(MapDelete(m, k), K, V)
         /\ DOMAIN MapDelete(m, k) = DOMAIN m \ {k}
         /\ \A x \in DOMAIN m \ {k} : MapDelete(m, k)[x] = m[x]
BY DEF IsMap, MapDelete

LEMMA MapUpdateLemma ==
  ASSUME NEW m, NEW K, NEW V, IsMap(m, K, V), NEW k, NEW v,
         k \in DOMAIN m => v \in V
  PROVE  /\ IsMap([m EXCEPT ![k] = v], K, V)
         /\ DOMAIN [m EXCEPT ![k] = v] = DOMAIN m
         /\ k \in DOMAIN m => [m EXCEPT ![k] = v][k] = v
         /\ \A x \in DOMAIN m \ {k} : [m EXCEPT ![k] = v][x] = m[x]
BY DEF IsMap

-----------------------------------------------------------------------------
(* Identities and access tokens.                                           *)

LEMMA ClaimsForType ==
  ASSUME NEW id \in LoginIdentity, NEW c \in Clients
  PROVE  ClaimsFor(id, c) \in Claims
<1>1. CASE id.injected
  <2>1. id.claims \in InjectedClaims
    BY <1>1 DEF LoginIdentity
  <2> QED
    BY <1>1, <2>1 DEF ClaimsFor, Claims
<1>2. CASE ~id.injected
  <2>1. ResolveClaims(id.subject, c) \in Claims
    BY DEF ResolveClaims, Claims
  <2> QED
    BY <1>2, <2>1 DEF ClaimsFor
<1> QED
  BY <1>1, <1>2

LEMMA IssuerForType ==
  ASSUME NEW id \in LoginIdentity, NEW c \in Clients
  PROVE  IssuerFor(id, c) \in Issuers \cup {NoIssuer}
BY ClaimsForType, IdentityAssumption DEF IssuerFor, LoginIdentity

LEMMA MintType ==
  ASSUME NEW r \in Requests, NEW id \in LoginIdentity, NEW c \in Clients,
         NEW at \in Int, Mintable(id, c)
  PROVE  MintAccessToken(r, id, c, at) \in AccessToken
<1>1. IssuerFor(id, c) \in Issuers /\ id.subject \in Subjects
  BY IssuerForType DEF LoginIdentity, Mintable
<1>2. Unix(at) \in Int /\ Unix(at + AccessTokenTTL) \in Int
  BY SessionAssumption DEF Unix
<1> QED
  BY <1>1, <1>2 DEF MintAccessToken, OpaqueToken, JWTToken, AccessToken

-----------------------------------------------------------------------------
(* A request's own state after one of its steps.                           *)

LEMMA ContinueLemma ==
  ASSUME TypeOK, NEW r \in Requests, NEW label \in Labels, NEW l \in Local,
         Continue(r, label, l)
  PROVE  /\ pc' \in [Requests -> Labels]
         /\ local' \in [Requests -> Local]
         /\ resp' \in [Requests -> Reply]
         /\ pc'[r] = label /\ local'[r] = l
         /\ \A q \in Requests \ {r} : pc'[q] = pc[q] /\ local'[q] = local[q]
         /\ resp' = resp
BY DEF TypeOK, Continue

LEMMA AnswerLemma ==
  ASSUME TypeOK, NEW r \in Requests, NEW reply \in Reply, Answer(r, reply)
  PROVE  /\ pc' \in [Requests -> Labels]
         /\ local' \in [Requests -> Local]
         /\ resp' \in [Requests -> Reply]
         /\ pc'[r] = "done" /\ local'[r] = NoLocal /\ resp'[r] = reply
         /\ \A q \in Requests \ {r} :
              pc'[q] = pc[q] /\ local'[q] = local[q] /\ resp'[q] = resp[q]
<1>1. NoLocal \in Local
  BY DEF NoLocal, Local
<1>2. "done" \in Labels
  BY DEF Labels
<1> QED
  BY <1>1, <1>2 DEF TypeOK, Answer

LEMMA StatusType ==
  ASSUME NEW s \in {"none", "ok", "configured_error", "invalid_client",
             "invalid_request", "unsupported_grant_type", "invalid_grant",
             "invalid_token", "server_error"}
  PROVE  Status(s) \in Reply /\ Status(s).status = s
BY DEF Status, NoReply, Reply, MaybeMethod

-----------------------------------------------------------------------------
(* What a step of request r leaves alone.                                  *)

OthersStay(r) ==
  \A q \in Requests \ {r} : /\ pc'[q] = pc[q] /\ req'[q] = req[q]
                            /\ local'[q] = local[q] /\ resp'[q] = resp[q]

CodesGrow ==
  \A l \in DOMAIN codes :
    l \in DOMAIN codes' /\ (codes[l].consumed => codes'[l].consumed)

LEMMA CodesStay == codes' = codes => CodesGrow
BY DEF CodesGrow

LEMMA OthersLemma ==
  ASSUME Inv, NEW r \in Requests, OthersStay(r), CodesGrow
  PROVE  \A q \in Requests \ {r} : HandlerOK(q)' /\ RedeemedOK(q)'
<1> SUFFICES ASSUME NEW q \in Requests, q # r
             PROVE  HandlerOK(q)' /\ RedeemedOK(q)'
  OBVIOUS
<1>1. HandlerOK(q) /\ RedeemedOK(q)
  BY DEF Inv
<1>2. pc'[q] = pc[q] /\ req'[q] = req[q] /\ local'[q] = local[q]
      /\ resp'[q] = resp[q]
  BY DEF OthersStay
<1>3. HandlerOK(q)'
  BY <1>1, <1>2 DEF HandlerOK
<1>4. RedeemedOK(q)'
  BY <1>1, <1>2 DEF RedeemedOK, Redeeming, CodesGrow
<1> QED
  BY <1>3, <1>4

LEMMA FamiliesLemma ==
  ASSUME Inv, NEW r \in Requests, OthersStay(r), UNCHANGED tokens,
         DOMAIN families' = DOMAIN families,
         pc'[r] = "done" \/ pc[r] \notin {"track", "done"}
  PROVE  FamiliesOK'
<1>1. DOMAIN families \subseteq Requests
  BY DEF Inv, TypeOK, RefreshTypeOK, IsMap
<1>2. \A f \in DOMAIN families : pc'[f] \in {"track", "done"}
  BY <1>1 DEF Inv, FamiliesOK, OthersStay
<1> QED
  BY <1>2 DEF Inv, FamiliesOK

LEMMA StepLemma ==
  ASSUME Inv, NEW r \in Requests, OthersStay(r), CodesGrow, TypeOK',
         FamiliesOK', HandlerOK(r)', RedeemedOK(r)'
  PROVE  Inv'
BY OthersLemma DEF Inv

\* A step that answers request r has nothing to show about its handler.
LEMMA AnsweredLemma ==
  ASSUME Inv, NEW r \in Requests, pc[r] # "idle", req' = req, pc'[r] = "done",
         \/ req[r].op # "exchange"
         \/ resp'[r].status # "ok"
         \/ pc[r] = "track" /\ CodesGrow
  PROVE  HandlerOK(r)' /\ RedeemedOK(r)'
<1>1. HandlerOK(r) /\ RedeemedOK(r)
  BY DEF Inv
<1>2. HandlerOK(r)'
  BY <1>1 DEF HandlerOK
<1>3. RedeemedOK(r)'
  BY <1>1 DEF RedeemedOK, Redeeming, CodesGrow
<1> QED
  BY <1>2, <1>3

\* A step that answers request r and keeps the stores well typed.
LEMMA AnswerStepLemma ==
  ASSUME Inv, NEW r \in Requests, pc[r] # "idle", NEW reply \in Reply,
         Answer(r, reply), UNCHANGED <<tokens, req>>, now' \in Time,
         CodesTypeOK', SessionsTypeOK', RefreshTypeOK',
         DOMAIN families' = DOMAIN families, CodesGrow,
         \/ req[r].op # "exchange"
         \/ reply.status # "ok"
         \/ pc[r] = "track"
  PROVE  Inv'
<1> USE DEF Inv
<1>1. /\ pc' \in [Requests -> Labels]
      /\ local' \in [Requests -> Local]
      /\ resp' \in [Requests -> Reply]
      /\ pc'[r] = "done" /\ resp'[r] = reply
  BY AnswerLemma
<1>2. OthersStay(r)
  BY AnswerLemma DEF OthersStay
<1>3. TypeOK'
  BY <1>1 DEF TypeOK
<1>4. FamiliesOK'
  BY <1>1, <1>2, FamiliesLemma
<1>5. HandlerOK(r)' /\ RedeemedOK(r)'
  BY <1>1, AnsweredLemma
<1> QED
  BY <1>2, <1>3, <1>4, <1>5, StepLemma

\* A step that moves request r on and keeps the stores well typed.
LEMMA ContinueStepLemma ==
  ASSUME Inv, NEW r \in Requests, NEW label \in Labels, NEW l \in Local,
         Continue(r, label, l), UNCHANGED req, now' \in Time,
         CodesTypeOK', SessionsTypeOK', RefreshTypeOK', CodesGrow,
         FamiliesOK', HandlerOK(r)', RedeemedOK(r)'
  PROVE  Inv'
<1> USE DEF Inv
<1>1. OthersStay(r)
  BY ContinueLemma DEF OthersStay
<1>2. TypeOK'
  BY ContinueLemma DEF TypeOK
<1> QED
  BY <1>1, <1>2, StepLemma

LEMMA StoresStay ==
  ASSUME Inv, UNCHANGED <<stores, now>>
  PROVE  /\ CodesTypeOK' /\ SessionsTypeOK' /\ RefreshTypeOK'
         /\ now' \in Time /\ CodesGrow
         /\ UNCHANGED <<codes, tokens, families>>
BY CodesStay
   DEF Inv, TypeOK, stores, CodesTypeOK, SessionsTypeOK, RefreshTypeOK

\* A reply that touches no store.
LEMMA RefusalLemma ==
  ASSUME Inv, NEW r \in Requests, pc[r] # "idle", NEW reply \in Reply,
         Answer(r, reply), UNCHANGED <<stores, now, req>>,
         req[r].op # "exchange" \/ reply.status # "ok"
  PROVE  Inv'
BY StoresStay, AnswerStepLemma

-----------------------------------------------------------------------------
(* Arrivals.                                                               *)

LEMMA GuessesType == Guesses \subseteq {Unknown, Missing}
BY DEF Guesses

LEMMA CredentialsType == Credentials \subseteq BOOLEAN
BY DEF Credentials

LEMMA DeliveredType ==
  ASSUME TypeOK
  PROVE  /\ Delivered("rt") \subseteq RefreshToken
         /\ Delivered("at") \subseteq AccessToken
BY DEF TypeOK, Reply, Delivered

LEMMA FormType ==
  ASSUME NEW op \in Operations, NEW c \in Clients \cup {None},
         NEW auth \in BOOLEAN, NEW t \in Token
  PROVE  /\ Form(op, c, auth, t) \in Request
         /\ Form(op, c, auth, t).op = op
         /\ Form(op, c, auth, t).client = c
BY DEF Form, Request, MaybeVerifier

LEMMA RefusalType ==
  ASSUME NEW q \in Request
  PROVE  Refusal(q) \in {"none", "configured_error", "invalid_client",
                         "invalid_request", "unsupported_grant_type",
                         "invalid_token"}
BY DEF Refusal

LEMMA ArriveLemma ==
  ASSUME Inv, NEW r \in Requests, NEW q \in Request, NEW l \in Local,
         NEW label \in {"consume", "refresh", "find", "revokeFamily", "lookup"},
         Arrive(r, q, label, l),
         q.op # "userinfo" => q.client \in Clients,
         label = "consume" => q.op = "exchange",
         label = "refresh" => q.op = "refresh",
         label \in {"find", "revokeFamily"} => q.op = "revoke",
         label = "lookup" => q.op = "userinfo"
  PROVE  Inv'
<1> USE DEF Inv
<1>1. /\ pc[r] = "idle"
      /\ UNCHANGED <<stores, now>>
      /\ req' = [req EXCEPT ![r] = q]
  BY DEF Arrive, At
<1>2. label \in Labels
  BY DEF Labels
<1>3. Status(Refusal(q)) \in Reply /\ Status(Refusal(q)).status # "ok"
  BY RefusalType, StatusType
<1>4. /\ pc' \in [Requests -> Labels]
      /\ local' \in [Requests -> Local]
      /\ resp' \in [Requests -> Reply]
      /\ pc'[r] = label \/ (pc'[r] = "done" /\ resp'[r].status # "ok")
      /\ \A p \in Requests \ {r} :
           pc'[p] = pc[p] /\ local'[p] = local[p] /\ resp'[p] = resp[p]
  <2>1. CASE Continue(r, label, l)
    BY <2>1, <1>2, ContinueLemma
  <2>2. CASE Answer(r, Status(Refusal(q)))
    BY <2>2, <1>3, AnswerLemma
  <2> QED
    BY <2>1, <2>2 DEF Arrive
<1>5. /\ req' \in [Requests -> Request \cup {None}]
      /\ req'[r] = q
      /\ \A p \in Requests \ {r} : req'[p] = req[p]
  BY <1>1 DEF TypeOK
<1>6. OthersStay(r)
  BY <1>4, <1>5 DEF OthersStay
<1>7. TypeOK'
  BY <1>1, <1>4, <1>5
     DEF TypeOK, stores, CodesTypeOK, SessionsTypeOK, RefreshTypeOK
<1>8. FamiliesOK'
  BY <1>1, <1>6, FamiliesLemma DEF stores
<1>9. HandlerOK(r)'
  BY <1>4, <1>5 DEF HandlerOK
<1>10. RedeemedOK(r)'
  BY <1>4 DEF RedeemedOK, Redeeming
<1>11. CodesGrow
  BY <1>1, CodesStay DEF stores
<1> QED
  BY <1>6, <1>7, <1>8, <1>9, <1>10, <1>11, StepLemma

LEMMA ReadAtType ==
  ASSUME NEW t \in Int
  PROVE  [NoLocal EXCEPT !.readAt = t] \in Local
BY DEF NoLocal, Local

LEMMA NoLocalType == NoLocal \in Local
BY DEF NoLocal, Local

LEMMA ExchangeStep ==
  ASSUME Inv, NEW r \in Requests, Exchange(r)
  PROVE  Inv'
<1>1. PICK c \in Clients, auth \in Credentials,
           code \in DOMAIN codes \cup Guesses, uri \in RedirectURIs,
           v \in MaybeVerifier :
             Arrive(r, [Form("exchange", c, auth, code)
                          EXCEPT !.redirect = uri, !.verifier = v],
                    "consume", [NoLocal EXCEPT !.readAt = now])
  BY DEF Exchange
<1> DEFINE q == [Form("exchange", c, auth, code)
                   EXCEPT !.redirect = uri, !.verifier = v]
<1>2. code \in Token
  BY GuessesType DEF Inv, TypeOK, CodesTypeOK, IsMap, Token
<1>3. auth \in BOOLEAN
  BY CredentialsType
<1>4. q.op = "exchange" /\ q.client = c
  BY DEF Form
<1>5. q.op \in Operations
  BY <1>1 DEF Arrive
<1>6. q \in Request
  BY <1>2, <1>3, <1>4, <1>5 DEF Form, Request
<1>7. [NoLocal EXCEPT !.readAt = now] \in Local
  BY ReadAtType, TargetAssumption DEF Inv, TypeOK
<1> HIDE DEF q
<1>8. Arrive(r, q, "consume", [NoLocal EXCEPT !.readAt = now])
  BY <1>1 DEF q
<1> QED
  BY <1>4, <1>6, <1>7, <1>8, ArriveLemma

LEMMA RefreshStep ==
  ASSUME Inv, NEW r \in Requests, Refresh(r)
  PROVE  Inv'
<1>1. PICK c \in Clients, auth \in Credentials,
           t \in Delivered("rt") \cup Guesses, grant \in GrantTypes :
             Arrive(r, [Form("refresh", c, auth, t) EXCEPT !.grant = grant],
                    "refresh", NoLocal)
  BY DEF Refresh
<1> DEFINE q == [Form("refresh", c, auth, t) EXCEPT !.grant = grant]
<1>2. t \in Token /\ auth \in BOOLEAN
  BY GuessesType, DeliveredType, CredentialsType DEF Inv, Token
<1>3. q.op = "refresh" /\ q.client = c
  BY DEF Form
<1>4. q \in Request
  BY <1>1, <1>2, <1>3, FormType DEF Arrive, GrantTypes, Form, Request
<1> HIDE DEF q
<1>5. Arrive(r, q, "refresh", NoLocal)
  BY <1>1 DEF q
<1> QED
  BY <1>3, <1>4, <1>5, NoLocalType, ArriveLemma

LEMMA RevocationStep ==
  ASSUME Inv, NEW r \in Requests, Revocation(r)
  PROVE  Inv'
<1>1. PICK c \in Clients, auth \in Credentials, hint \in BOOLEAN,
           t \in Delivered("rt") \cup Delivered("at") \cup Guesses :
             Arrive(r, [Form("revoke", c, auth, t) EXCEPT !.hint = hint],
                    IF hint THEN "find" ELSE "revokeFamily", NoLocal)
  BY DEF Revocation
<1> DEFINE q == [Form("revoke", c, auth, t) EXCEPT !.hint = hint]
           label == IF hint THEN "find" ELSE "revokeFamily"
<1>2. t \in Token /\ auth \in BOOLEAN
  BY GuessesType, DeliveredType, CredentialsType DEF Inv, Token
<1>3. q.op = "revoke" /\ q.client = c
  BY DEF Form
<1>4. q.op \in Operations
  BY <1>1 DEF Arrive
<1>5. q \in Request
  BY <1>2, <1>3, <1>4 DEF Form, Request, MaybeVerifier
<1>6. label \in {"find", "revokeFamily"}
  OBVIOUS
<1> HIDE DEF q, label
<1>7. Arrive(r, q, label, NoLocal)
  BY <1>1 DEF q, label
<1> QED
  BY <1>3, <1>5, <1>6, <1>7, NoLocalType, ArriveLemma

LEMMA UserinfoStep ==
  ASSUME Inv, NEW r \in Requests, Userinfo(r)
  PROVE  Inv'
<1>1. PICK t \in Delivered("at") \cup Guesses :
             Arrive(r, Form("userinfo", None, TRUE, t), "lookup",
                    [NoLocal EXCEPT !.readAt = now])
  BY DEF Userinfo
<1> DEFINE q == Form("userinfo", None, TRUE, t)
<1>2. t \in Token
  BY GuessesType, DeliveredType DEF Inv, Token
<1>3. q.op = "userinfo"
  BY DEF Form
<1>4. q \in Request
  BY <1>1, <1>2, <1>3, FormType DEF Arrive
<1>5. [NoLocal EXCEPT !.readAt = now] \in Local
  BY ReadAtType, TargetAssumption DEF Inv, TypeOK
<1> HIDE DEF q
<1>6. Arrive(r, q, "lookup", [NoLocal EXCEPT !.readAt = now])
  BY <1>1 DEF q
<1> QED
  BY <1>3, <1>4, <1>5, <1>6, ArriveLemma

-----------------------------------------------------------------------------
(* The browser and the clock.                                              *)

LEMMA RequestsStay ==
  ASSUME Inv, UNCHANGED <<pc, req, local, resp, tokens, families>>, CodesGrow,
         TypeOK'
  PROVE  Inv'
<1>1. \A r \in Requests : HandlerOK(r)'
  BY DEF Inv, HandlerOK
<1>2. \A r \in Requests : RedeemedOK(r)'
  BY DEF Inv, RedeemedOK, Redeeming, CodesGrow
<1>3. FamiliesOK'
  BY DEF Inv, FamiliesOK
<1> QED
  BY <1>1, <1>2, <1>3 DEF Inv

LEMMA MoveClockStep ==
  ASSUME Inv, MoveClock
  PROVE  Inv'
<1>1. TypeOK'
  BY DEF Inv, MoveClock, stores, TypeOK, CodesTypeOK, SessionsTypeOK,
         RefreshTypeOK
<1> QED
  BY <1>1, CodesStay, RequestsStay DEF MoveClock, stores

LEMMA CompleteLoginStep ==
  ASSUME Inv, NEW l \in Logins, CompleteLogin(l)
  PROVE  Inv'
<1>1. PICK id \in LoginIdentity, c \in Clients, ch \in MaybeChallenge,
           m \in MaybeMethod : \E uri \in Registered[c] :
             IssueCode(l, [identity |-> id, client |-> c, redirect |-> uri,
                           challenge |-> ch, method |-> m], now)
  BY DEF CompleteLogin
<1>2. PICK uri \in Registered[c] :
             IssueCode(l, [identity |-> id, client |-> c, redirect |-> uri,
                           challenge |-> ch, method |-> m], now)
  BY <1>1
<1> DEFINE ac == [identity |-> id, client |-> c, redirect |-> uri,
                  challenge |-> ch, method |-> m,
                  expiresAt |-> now + CodeTTL, consumed |-> FALSE]
<1>3. codes' = MapPut(codes, l, ac)
  BY <1>2 DEF IssueCode
<1>4. ac \in AuthCode
  <2>1. uri \in RedirectURIs
    BY TargetAssumption
  <2>2. now + CodeTTL \in Int
    BY TargetAssumption DEF Inv, TypeOK
  <2> QED
    BY <2>1, <2>2 DEF AuthCode
<1> HIDE DEF ac
<1>5. IsMap(codes, Logins, AuthCode)
  BY DEF Inv, TypeOK, CodesTypeOK
<1>6. CodesTypeOK'
  BY <1>3, <1>4, <1>5, MapPutLemma DEF CodesTypeOK
<1>7. CodesGrow
  <2>1. l \notin DOMAIN codes
    BY DEF CompleteLogin
  <2>2. /\ DOMAIN codes' = DOMAIN codes \cup {l}
        /\ \A x \in DOMAIN codes \ {l} : codes'[x] = codes[x]
    BY <1>3 DEF MapPut
  <2> QED
    BY <2>1, <2>2 DEF CodesGrow
<1>8. UNCHANGED <<sessions, tokens, families, refreshMu, now, pc, req, local,
                  resp>>
  BY DEF CompleteLogin
<1>9. TypeOK'
  BY <1>6, <1>8 DEF Inv, TypeOK, SessionsTypeOK, RefreshTypeOK
<1> QED
  BY <1>7, <1>8, <1>9, RequestsStay

-----------------------------------------------------------------------------
(* The exchange.                                                           *)

LEMMA ConsumeRefusesStep ==
  ASSUME Inv, NEW r \in Requests, ConsumeRefuses(r)
  PROVE  Inv'
BY StatusType, RefusalLemma DEF ConsumeRefuses, At

LEMMA CodeFailureType ==
  ASSUME NEW ac \in AuthCode, NEW q
  PROVE  /\ CodeFailure(ac, q) \in Reply
         /\ CodeFailure(ac, q).status # "ok"
         /\ CodeFailure(ac, q) = NoReply
              => Mintable(ac.identity, q.client)
<1>1. Status("invalid_grant") \in Reply /\ Status("invalid_grant") # NoReply
  BY StatusType DEF NoReply
<1>2. CASE ~CheckPKCE(ac.challenge, ac.method, q.verifier)
  <2>1. CodeFailure(ac, q) = Status("invalid_grant")
    BY <1>2 DEF CodeFailure
  <2> QED
    BY <1>1, <2>1, StatusType
<1>3. NoReply \in Reply /\ NoReply.status = "none"
  BY DEF NoReply, Reply, MaybeMethod
<1> DEFINE e == [Status("server_error") EXCEPT !.pkce = ac.method]
<1>4. e \in Reply /\ e.status = "server_error" /\ e # NoReply
  BY DEF Status, NoReply, Reply, AuthCode
<1> HIDE DEF e
<1>5. CASE /\ CheckPKCE(ac.challenge, ac.method, q.verifier)
           /\ ~Mintable(ac.identity, q.client)
  <2>1. CodeFailure(ac, q) = e
    BY <1>5 DEF CodeFailure, e
  <2> QED
    BY <1>4, <2>1
<1>6. CASE /\ CheckPKCE(ac.challenge, ac.method, q.verifier)
           /\ Mintable(ac.identity, q.client)
  <2>1. CodeFailure(ac, q) = NoReply
    BY <1>6 DEF CodeFailure
  <2> QED
    BY <1>3, <1>6, <2>1
<1> QED
  BY <1>2, <1>5, <1>6

LEMMA ConsumeStep ==
  ASSUME Inv, NEW r \in Requests, Consume(r)
  PROVE  Inv'
<1> DEFINE q == req[r]
           ac == codes[q.token]
           failure == CodeFailure(ac, q)
           l == [local[r] EXCEPT !.identity = ac.identity,
                                 !.at = MintAccessToken(r, ac.identity, q.client,
                                                        local[r].readAt)]
<1>1. /\ pc[r] = "consume"
      /\ q.token \in DOMAIN codes
      /\ codes' = [codes EXCEPT ![q.token].consumed = TRUE]
      /\ IF failure # NoReply THEN Answer(r, failure) ELSE Continue(r, "put", l)
      /\ UNCHANGED <<sessions, tokens, families, refreshMu, now, req>>
  BY DEF Consume, At, Consumable, MarkConsumed
<1>2. /\ q \in Request /\ q.client \in Clients /\ q.op = "exchange"
      /\ local[r] \in Local
  BY <1>1 DEF Inv, HandlerOK, TypeOK
<1>3. IsMap(codes, Logins, AuthCode)
  BY DEF Inv, TypeOK, CodesTypeOK
<1>4. ac \in AuthCode
  BY <1>1, <1>3 DEF IsMap
<1>5. /\ DOMAIN codes' = DOMAIN codes
      /\ codes'[q.token].consumed
      /\ \A x \in DOMAIN codes : codes'[x].consumed = (x = q.token \/ codes[x].consumed)
      /\ IsMap(codes', Logins, AuthCode)
  BY <1>1, <1>3, <1>4 DEF IsMap, AuthCode
<1>6. CodesGrow
  BY <1>5 DEF CodesGrow
<1>7. CodesTypeOK' /\ SessionsTypeOK' /\ RefreshTypeOK' /\ now' \in Time
  BY <1>1, <1>5 DEF Inv, TypeOK, CodesTypeOK, SessionsTypeOK, RefreshTypeOK
<1>8. CASE failure # NoReply
  BY <1>1, <1>4, <1>6, <1>7, <1>8, CodeFailureType, AnswerStepLemma
<1>9. CASE failure = NoReply
  <2>1. Continue(r, "put", l)
    BY <1>1, <1>9
  <2>2. l \in Local /\ l.identity \in LoginIdentity /\ l.at \in AccessToken
    <3>1. ac.identity \in LoginIdentity /\ local[r].readAt \in Int
      BY <1>2, <1>4 DEF AuthCode, Local
    <3>2. Mintable(ac.identity, q.client)
      BY <1>4, <1>9, CodeFailureType
    <3>3. MintAccessToken(r, ac.identity, q.client, local[r].readAt)
            \in AccessToken
      BY <1>2, <3>1, <3>2, MintType
    <3> QED
      BY <1>2, <3>1, <3>3 DEF Local
  <2> HIDE DEF l
  <2>3. "put" \in Labels
    BY DEF Labels
  <2>4. pc'[r] = "put" /\ local'[r] = l /\ OthersStay(r)
    BY <1>1, <2>1, <2>2, <2>3, ContinueLemma DEF Inv, OthersStay
  <2>5. FamiliesOK'
    BY <1>1, <2>4, FamiliesLemma
  <2>6. HandlerOK(r)'
    BY <1>1, <1>2, <2>2, <2>4 DEF HandlerOK
  <2>7. RedeemedOK(r)'
    BY <1>1, <1>5 DEF RedeemedOK
  <2> QED
    BY <1>1, <1>6, <1>7, <2>1, <2>2, <2>3, <2>5, <2>6, <2>7, ContinueStepLemma
<1> QED
  BY <1>8, <1>9

LEMMA PutStep ==
  ASSUME Inv, NEW r \in Requests, Put(r)
  PROVE  Inv'
<1> DEFINE l == local[r]
           s == [subject |-> l.identity.subject,
                 claims |-> ClaimsFor(l.identity, req[r].client),
                 client |-> req[r].client,
                 expiresAt |-> l.readAt + AccessTokenTTL]
           label == IF req[r].op = "exchange" THEN "issue" ELSE "track"
<1>1. /\ pc[r] = "put"
      /\ sessions' = MapPut(sessions, l.at, s)
      /\ Continue(r, label, l)
      /\ UNCHANGED <<codes, tokens, families, refreshMu, now, req>>
  BY DEF Put, At, PutSession
<1>2. /\ HandlerOK(r) /\ RedeemedOK(r)
      /\ l \in Local /\ l.identity \in LoginIdentity /\ l.at \in AccessToken
      /\ req[r].client \in Clients
  BY <1>1 DEF Inv, HandlerOK, TypeOK
<1>3. s \in Session
  <2>1. l.readAt + AccessTokenTTL \in Int
    BY <1>2, SessionAssumption DEF Local
  <2> QED
    BY <1>2, <2>1, ClaimsForType DEF Session, LoginIdentity
<1> HIDE DEF s
<1>4. SessionsTypeOK'
  BY <1>1, <1>2, <1>3, MapPutLemma DEF Inv, TypeOK, SessionsTypeOK
<1>5. CodesTypeOK' /\ RefreshTypeOK' /\ now' \in Time
  BY <1>1 DEF Inv, TypeOK, CodesTypeOK, RefreshTypeOK
<1>6. label \in Labels /\ label \in {"issue", "track"}
      /\ (label = "issue" <=> req[r].op = "exchange")
  BY DEF Labels
<1> HIDE DEF label
<1>7. pc'[r] = label /\ local'[r] = l /\ OthersStay(r)
  BY <1>1, <1>2, <1>6, ContinueLemma DEF Inv, OthersStay
<1>8. FamiliesOK'
  BY <1>1, <1>7, FamiliesLemma
<1>9. HandlerOK(r)'
  BY <1>1, <1>2, <1>6, <1>7 DEF HandlerOK
<1>10. RedeemedOK(r)'
  BY <1>1, <1>2 DEF RedeemedOK, Redeeming
<1> QED
  BY <1>1, <1>2, <1>4, <1>5, <1>6, <1>8, <1>9, <1>10, CodesStay,
     ContinueStepLemma

\* A store with one more key, and families of exchanges that are past issue.
LEMMA IssueStep ==
  ASSUME Inv, NEW r \in Requests, Issue(r)
  PROVE  Inv'
<1> DEFINE fam == [identity |-> local[r].identity, client |-> req[r].client,
                   revoked |-> FALSE, accessTokens |-> {}]
           rec == NewRecord(r, local[r].identity, req[r].client)
           l == [local[r] EXCEPT !.family = r, !.next = NewRefreshToken(r)]
<1>1. /\ pc[r] = "issue"
      /\ families' = MapPut(families, r, fam)
      /\ tokens' = MapPut(tokens, NewRefreshToken(r), rec)
      /\ Continue(r, "track", l)
      /\ UNCHANGED <<codes, sessions, refreshMu, now, req>>
  BY DEF Issue, At, IssueFamily
<1>2. /\ HandlerOK(r) /\ RedeemedOK(r)
      /\ local[r] \in Local /\ local[r].identity \in LoginIdentity
      /\ local[r].at \in AccessToken
      /\ req[r].client \in Clients /\ req[r].op = "exchange"
  BY <1>1 DEF Inv, HandlerOK, TypeOK
<1>3. NewRefreshToken(r) \in RefreshToken
  BY DEF NewRefreshToken, RefreshToken
<1>4. fam \in Family /\ rec \in Record /\ rec.family = r
  BY <1>2 DEF Family, Record, NewRecord
<1>5. l \in Local /\ l.identity = local[r].identity /\ l.at = local[r].at
      /\ l.family = r /\ l.next = NewRefreshToken(r)
  BY <1>2, <1>3 DEF Local
<1> HIDE DEF fam, rec, l
<1>6. RefreshTypeOK'
  BY <1>1, <1>3, <1>4, MapPutLemma DEF Inv, TypeOK, RefreshTypeOK
<1>7. CodesTypeOK' /\ SessionsTypeOK' /\ now' \in Time
  BY <1>1 DEF Inv, TypeOK, CodesTypeOK, SessionsTypeOK
<1>8. "track" \in Labels
  BY DEF Labels
<1>9. pc'[r] = "track" /\ local'[r] = l /\ OthersStay(r)
  BY <1>1, <1>5, <1>8, ContinueLemma DEF Inv, OthersStay
<1>10. FamiliesOK'
  <2>1. DOMAIN families' = DOMAIN families \cup {r}
    BY <1>1 DEF MapPut
  <2>2. \A t \in DOMAIN tokens' : tokens'[t].family \in DOMAIN families'
    BY <1>1, <1>4, <2>1 DEF MapPut, Inv, FamiliesOK
  <2>3. DOMAIN families \subseteq Requests
    BY DEF Inv, TypeOK, RefreshTypeOK, IsMap
  <2>4. \A f \in DOMAIN families' : pc'[f] \in {"track", "done"}
    BY <1>9, <2>1, <2>3 DEF Inv, FamiliesOK, OthersStay
  <2> QED
    BY <2>2, <2>4 DEF FamiliesOK
<1>11. HandlerOK(r)'
  BY <1>1, <1>2, <1>3, <1>5, <1>9 DEF HandlerOK
<1>12. RedeemedOK(r)'
  BY <1>1, <1>2 DEF RedeemedOK, Redeeming
<1> QED
  BY <1>1, <1>5, <1>6, <1>7, <1>8, <1>10, <1>11, <1>12, CodesStay,
     ContinueStepLemma

LEMMA SessionsDeleteType ==
  ASSUME Inv, NEW token, RevokeSession(token)
  PROVE  SessionsTypeOK'
BY MapDeleteLemma DEF Inv, TypeOK, SessionsTypeOK, RevokeSession

LEMMA FamilyUpdateType ==
  ASSUME Inv, NEW f, NEW g, f \in DOMAIN families => g \in Family,
         families' = [families EXCEPT ![f] = g], UNCHANGED tokens,
         refreshMu' \in Requests \cup {Free}
  PROVE  RefreshTypeOK' /\ DOMAIN families' = DOMAIN families
BY MapUpdateLemma DEF Inv, TypeOK, RefreshTypeOK

LEMMA TrackStep ==
  ASSUME Inv, NEW r \in Requests, Track(r)
  PROVE  Inv'
<1> DEFINE q == req[r]
           l == local[r]
           reply == [status |-> "ok", subject |-> l.identity.subject,
                     claims |-> ClaimsFor(l.identity, q.client),
                     at |-> l.at, rt |-> l.next,
                     pkce |-> IF q.op = "exchange" THEN codes[q.token].method
                                                   ELSE None]
<1>1. /\ pc[r] = "track"
      /\ TrackAccessToken(l.family, l.at)
      /\ Answer(r, reply)
      /\ UNCHANGED <<codes, tokens, refreshMu, now, req>>
  BY DEF Track, At
<1>2. /\ HandlerOK(r) /\ RedeemedOK(r)
      /\ l \in Local /\ l.identity \in LoginIdentity
      /\ l.at \in AccessToken /\ l.next \in RefreshToken
      /\ q.client \in Clients
  <2>1. HandlerOK(r) /\ RedeemedOK(r) /\ l \in Local
    BY DEF Inv, TypeOK
  <2> QED
    BY <1>1, <2>1 DEF HandlerOK
<1>3. reply \in Reply
  <2>1. q.op = "exchange" => codes[q.token].method \in MaybeMethod
    <3> SUFFICES ASSUME q.op = "exchange"
                 PROVE  codes[q.token].method \in MaybeMethod
      OBVIOUS
    <3>1. q.token \in DOMAIN codes
      BY <1>1, <1>2 DEF RedeemedOK, Redeeming
    <3>2. codes[q.token] \in AuthCode
      BY <3>1 DEF Inv, TypeOK, CodesTypeOK, IsMap
    <3> QED
      BY <3>2 DEF AuthCode
  <2>2. reply.pkce \in MaybeMethod
    BY <2>1 DEF MaybeMethod
  <2>3. l.identity.subject \in Subjects
    BY <1>2 DEF LoginIdentity
  <2> QED
    BY <1>2, <2>2, <2>3, ClaimsForType DEF Reply
<1> HIDE DEF reply
<1>4. SessionsTypeOK' /\ RefreshTypeOK' /\ DOMAIN families' = DOMAIN families
  <2> DEFINE g == [families[l.family] EXCEPT !.accessTokens = @ \cup {l.at}]
  <2>1. CASE RevokeSession(l.at) /\ UNCHANGED families
    BY <1>1, <2>1, SessionsDeleteType DEF Inv, TypeOK, RefreshTypeOK
  <2>2. CASE /\ families' = [families EXCEPT ![l.family] = g]
             /\ UNCHANGED sessions
    <3>1. l.family \in DOMAIN families => g \in Family
      <4> SUFFICES ASSUME l.family \in DOMAIN families PROVE g \in Family
        OBVIOUS
      <4>1. families[l.family] \in Family
        BY DEF Inv, TypeOK, RefreshTypeOK, IsMap
      <4> QED
        BY <1>2, <4>1 DEF Family
    <3>2. refreshMu' \in Requests \cup {Free}
      BY <1>1 DEF Inv, TypeOK, RefreshTypeOK
    <3> HIDE DEF g
    <3> QED
      BY <1>1, <2>2, <3>1, <3>2, FamilyUpdateType DEF Inv, TypeOK, SessionsTypeOK
  <2> QED
    BY <1>1, <2>1, <2>2 DEF TrackAccessToken
<1>5. CodesTypeOK' /\ now' \in Time /\ CodesGrow
  BY <1>1, CodesStay DEF Inv, TypeOK, CodesTypeOK
<1> QED
  BY <1>1, <1>3, <1>4, <1>5, AnswerStepLemma

-----------------------------------------------------------------------------
(* The refresh.                                                            *)

LEMMA RefreshRefusesStep ==
  ASSUME Inv, NEW r \in Requests, RefreshRefuses(r)
  PROVE  Inv'
BY StatusType, RefusalLemma DEF RefreshRefuses, At

\* Reuse detection and /revocation end a family in the same way.
LEMMA MarkRevokedLemma ==
  ASSUME Inv, NEW r \in Requests, pc[r] \in {"refresh", "revokeFamily"},
         NEW t \in DOMAIN tokens, MarkRevoked(r, tokens[t].family),
         Continue(r, "sweep",
           [local[r] EXCEPT !.doomed = families[tokens[t].family].accessTokens]),
         UNCHANGED <<codes, sessions, tokens, now, req>>
  PROVE  Inv'
<1> DEFINE f == tokens[t].family
           g == [families[f] EXCEPT !.revoked = TRUE]
           l == [local[r] EXCEPT !.doomed = families[f].accessTokens]
<1>1. /\ HandlerOK(r) /\ RedeemedOK(r) /\ local[r] \in Local
      /\ req[r].op \in {"refresh", "revoke"}
  BY DEF Inv, TypeOK, HandlerOK
<1>2. families[f] \in Family
  BY DEF Inv, FamiliesOK, TypeOK, RefreshTypeOK, IsMap
<1>3. l \in Local /\ l.identity = local[r].identity
  BY <1>1, <1>2 DEF Local, Family
<1>4. g \in Family
  BY <1>2 DEF Family
<1>5. families' = [families EXCEPT ![f] = g] /\ refreshMu' = r
  BY DEF MarkRevoked
<1> HIDE DEF g, l
<1>6. RefreshTypeOK' /\ DOMAIN families' = DOMAIN families
  BY <1>4, <1>5, FamilyUpdateType
<1>7. CodesTypeOK' /\ SessionsTypeOK' /\ now' \in Time
  BY DEF Inv, TypeOK, CodesTypeOK, SessionsTypeOK
<1>8. Continue(r, "sweep", l)
  BY DEF l
<1>9. "sweep" \in Labels
  BY DEF Labels
<1>10. pc'[r] = "sweep" /\ OthersStay(r)
  BY <1>3, <1>8, <1>9, ContinueLemma DEF Inv, OthersStay
<1>11. FamiliesOK'
  BY <1>6, <1>10, FamiliesLemma
<1>12. HandlerOK(r)' /\ RedeemedOK(r)'
  BY <1>1, <1>10 DEF HandlerOK, RedeemedOK, Redeeming
<1> QED
  BY <1>3, <1>6, <1>7, <1>8, <1>9, <1>11, <1>12, CodesStay, ContinueStepLemma

LEMMA RefreshDetectsReuseStep ==
  ASSUME Inv, NEW r \in Requests, RefreshDetectsReuse(r)
  PROVE  Inv'
BY MarkRevokedLemma DEF RefreshDetectsReuse, At, Presentable

LEMMA UseRefreshStep ==
  ASSUME Inv, NEW r \in Requests, UseRefresh(r)
  PROVE  Inv'
<1> DEFINE t == req[r].token
           rec == NewRecord(tokens[t].family, tokens[t].identity, tokens[t].client)
           old == [tokens[t] EXCEPT !.retired = TRUE]
           l == [local[r] EXCEPT !.identity = tokens[t].identity,
                                 !.family = tokens[t].family,
                                 !.next = Successor(r, t)]
<1>1. /\ pc[r] = "refresh" /\ t \in DOMAIN tokens
      /\ Rotate(r, t)
      /\ Continue(r, "mint", l)
      /\ UNCHANGED <<codes, sessions, families, refreshMu, now, req>>
  BY DEF UseRefresh, At, Presentable
<1>2. /\ HandlerOK(r) /\ RedeemedOK(r) /\ local[r] \in Local
      /\ req[r].op = "refresh"
  BY <1>1 DEF Inv, TypeOK, HandlerOK
<1>3. /\ IsMap(tokens, RefreshToken, Record)
      /\ t \in RefreshToken /\ tokens[t] \in Record
  BY <1>1 DEF Inv, TypeOK, RefreshTypeOK, IsMap
<1>4. /\ NewRefreshToken(r) \in RefreshToken
      /\ Successor(r, t) \in RefreshToken
  BY <1>3 DEF NewRefreshToken, RefreshToken, Successor
<1>5. /\ rec \in Record /\ rec.family = tokens[t].family
      /\ old \in Record /\ old.family = tokens[t].family
  BY <1>3 DEF Record, NewRecord
<1>6. /\ l \in Local /\ l.identity \in LoginIdentity
      /\ l.family \in Requests /\ l.next \in RefreshToken
  BY <1>2, <1>3, <1>4 DEF Local, Record
<1>7. \/ UNCHANGED tokens
      \/ tokens' = MapPut([tokens EXCEPT ![t] = old], NewRefreshToken(r), rec)
  BY <1>1 DEF Rotate
<1> HIDE DEF rec, old, l
<1>8. IsMap(tokens', RefreshToken, Record)
  <2>1. IsMap([tokens EXCEPT ![t] = old], RefreshToken, Record)
    BY <1>3, <1>5, MapUpdateLemma
  <2>2. IsMap(MapPut([tokens EXCEPT ![t] = old], NewRefreshToken(r), rec),
              RefreshToken, Record)
    BY <1>4, <1>5, <2>1, MapPutLemma
  <2> QED
    BY <1>3, <1>7, <2>2
<1>9. \A u \in DOMAIN tokens' :
        \E v \in DOMAIN tokens : tokens'[u].family = tokens[v].family
  BY <1>1, <1>5, <1>7 DEF MapPut
<1>10. RefreshTypeOK' /\ CodesTypeOK' /\ SessionsTypeOK' /\ now' \in Time
  BY <1>1, <1>8 DEF Inv, TypeOK, RefreshTypeOK, CodesTypeOK, SessionsTypeOK
<1>11. "mint" \in Labels
  BY DEF Labels
<1>12. pc'[r] = "mint" /\ local'[r] = l /\ OthersStay(r)
  BY <1>1, <1>6, <1>11, ContinueLemma DEF Inv, OthersStay
<1>13. FamiliesOK'
  <2>1. DOMAIN families \subseteq Requests
    BY DEF Inv, TypeOK, RefreshTypeOK, IsMap
  <2>2. \A f \in DOMAIN families : pc'[f] \in {"track", "done"}
    BY <1>1, <1>12, <2>1 DEF Inv, FamiliesOK, OthersStay
  <2>3. \A u \in DOMAIN tokens' : tokens'[u].family \in DOMAIN families
    BY <1>9 DEF Inv, FamiliesOK
  <2> QED
    BY <1>1, <2>2, <2>3 DEF FamiliesOK
<1>14. HandlerOK(r)'
  BY <1>1, <1>2, <1>6, <1>12 DEF HandlerOK
<1>15. RedeemedOK(r)'
  BY <1>1, <1>2 DEF RedeemedOK, Redeeming
<1> QED
  BY <1>1, <1>6, <1>10, <1>11, <1>13, <1>14, <1>15, CodesStay, ContinueStepLemma

LEMMA MintStep ==
  ASSUME Inv, NEW r \in Requests, Mint(r)
  PROVE  Inv'
<1> DEFINE id == local[r].identity
           q == req[r]
           l == [local[r] EXCEPT !.readAt = now,
                                 !.at = MintAccessToken(r, id, q.client, now)]
<1>1. pc[r] = "mint" /\ UNCHANGED <<stores, now, req>>
  BY DEF Mint, At
<1>2. /\ HandlerOK(r) /\ RedeemedOK(r) /\ local[r] \in Local
      /\ id \in LoginIdentity /\ q.client \in Clients /\ q.op = "refresh"
      /\ local[r].family \in Requests /\ local[r].next \in RefreshToken
  BY <1>1 DEF Inv, TypeOK, HandlerOK
<1>3. CASE Answer(r, Status("server_error"))
  BY <1>1, <1>3, StatusType, RefusalLemma
<1>4. CASE Mintable(id, q.client) /\ Continue(r, "put", l)
  <2>1. now \in Int
    BY TargetAssumption DEF Inv, TypeOK
  <2>2. MintAccessToken(r, id, q.client, now) \in AccessToken
    BY <1>2, <1>4, <2>1, MintType
  <2>3. /\ l \in Local /\ l.identity = id /\ l.at \in AccessToken
        /\ l.family = local[r].family /\ l.next = local[r].next
    BY <1>2, <2>1, <2>2 DEF Local
  <2> HIDE DEF l
  <2>4. "put" \in Labels
    BY DEF Labels
  <2>5. pc'[r] = "put" /\ local'[r] = l /\ OthersStay(r)
    BY <1>1, <1>4, <2>3, <2>4, ContinueLemma DEF Inv, OthersStay
  <2>6. FamiliesOK'
    BY <1>1, <2>5, FamiliesLemma DEF stores
  <2>7. HandlerOK(r)' /\ RedeemedOK(r)'
    BY <1>1, <1>2, <2>3, <2>5 DEF HandlerOK, RedeemedOK, Redeeming
  <2> QED
    BY <1>1, <1>4, <2>3, <2>4, <2>6, <2>7, StoresStay, ContinueStepLemma
<1> QED
  BY <1>3, <1>4 DEF Mint

-----------------------------------------------------------------------------
(* The revocation and /userinfo.                                           *)

\* A step of /revocation from one of its lookups to the other.
LEMMA RevocationContinues ==
  ASSUME Inv, NEW r \in Requests, pc[r] \in {"find", "revokeFamily"},
         NEW label \in {"find", "delete", "revokeFamily"},
         Continue(r, label, local[r]), UNCHANGED <<stores, now, req>>
  PROVE  Inv'
<1>1. HandlerOK(r) /\ local[r] \in Local /\ label \in Labels
  BY DEF Inv, TypeOK, Labels
<1>2. pc'[r] = label /\ local'[r] = local[r] /\ OthersStay(r)
  BY <1>1, ContinueLemma DEF Inv, OthersStay
<1>3. FamiliesOK'
  BY <1>2, FamiliesLemma DEF stores
<1>4. HandlerOK(r)' /\ RedeemedOK(r)'
  BY <1>1, <1>2 DEF HandlerOK, RedeemedOK, Redeeming
<1> QED
  BY <1>1, <1>3, <1>4, StoresStay, ContinueStepLemma

LEMMA FindStep ==
  ASSUME Inv, NEW r \in Requests, Find(r)
  PROVE  Inv'
<1>1. pc[r] = "find" /\ UNCHANGED <<stores, now, req>>
  BY DEF Find, At
<1>2. req[r].op = "revoke"
  BY <1>1 DEF Inv, HandlerOK
<1>3. CASE Continue(r, "delete", local[r]) \/ Continue(r, "revokeFamily", local[r])
  BY <1>1, <1>3, RevocationContinues
<1>4. CASE Answer(r, Status("ok"))
  BY <1>1, <1>2, <1>4, StatusType, RefusalLemma
<1> QED
  BY <1>3, <1>4 DEF Find

LEMMA RevokeFamilyRefusesStep ==
  ASSUME Inv, NEW r \in Requests, RevokeFamilyRefuses(r)
  PROVE  Inv'
<1>1. pc[r] = "revokeFamily" /\ UNCHANGED <<stores, now, req>>
  BY DEF RevokeFamilyRefuses, At
<1>2. req[r].op = "revoke"
  BY <1>1 DEF Inv, HandlerOK
<1>3. CASE Continue(r, "find", local[r])
  BY <1>1, <1>3, RevocationContinues
<1>4. CASE Answer(r, Status("ok"))
  BY <1>1, <1>2, <1>4, StatusType, RefusalLemma
<1> QED
  BY <1>3, <1>4 DEF RevokeFamilyRefuses

LEMMA RevokeFamilyStep ==
  ASSUME Inv, NEW r \in Requests, RevokeFamily(r)
  PROVE  Inv'
BY MarkRevokedLemma DEF RevokeFamily, At, Revocable

LEMMA DeleteStep ==
  ASSUME Inv, NEW r \in Requests, Delete(r)
  PROVE  Inv'
<1>1. /\ pc[r] = "delete" /\ RevokeSession(req[r].token)
      /\ Answer(r, Status("ok"))
      /\ UNCHANGED <<codes, tokens, families, refreshMu, now, req>>
  BY DEF Delete, At
<1>2. req[r].op = "revoke"
  BY <1>1 DEF Inv, HandlerOK
<1>3. CodesTypeOK' /\ RefreshTypeOK' /\ now' \in Time /\ CodesGrow
  BY <1>1, CodesStay DEF Inv, TypeOK, CodesTypeOK, RefreshTypeOK
<1> QED
  BY <1>1, <1>2, <1>3, StatusType, SessionsDeleteType, AnswerStepLemma

LEMMA SweepStep ==
  ASSUME Inv, NEW r \in Requests, Sweep(r)
  PROVE  Inv'
<1>1. PICK at \in local[r].doomed :
        /\ RevokeSession(at)
        /\ Continue(r, "sweep", [local[r] EXCEPT !.doomed = @ \ {at}])
  BY DEF Sweep
<1> DEFINE l == [local[r] EXCEPT !.doomed = @ \ {at}]
<1>2. pc[r] = "sweep"
      /\ UNCHANGED <<codes, tokens, families, refreshMu, now, req>>
  BY DEF Sweep, At
<1>3. HandlerOK(r) /\ RedeemedOK(r) /\ l \in Local
  BY DEF Inv, TypeOK, Local
<1> HIDE DEF l
<1>4. Continue(r, "sweep", l) /\ "sweep" \in Labels
  BY <1>1 DEF l, Labels
<1>5. pc'[r] = "sweep" /\ OthersStay(r)
  BY <1>2, <1>3, <1>4, ContinueLemma DEF Inv, OthersStay
<1>6. FamiliesOK'
  BY <1>2, <1>5, FamiliesLemma
<1>7. HandlerOK(r)' /\ RedeemedOK(r)'
  BY <1>2, <1>3, <1>5 DEF HandlerOK, RedeemedOK, Redeeming
<1>8. CodesTypeOK' /\ RefreshTypeOK' /\ now' \in Time /\ CodesGrow
  BY <1>2, CodesStay DEF Inv, TypeOK, CodesTypeOK, RefreshTypeOK
<1>9. SessionsTypeOK'
  BY <1>1, SessionsDeleteType
<1> QED
  BY <1>2, <1>3, <1>4, <1>6, <1>7, <1>8, <1>9, ContinueStepLemma

LEMMA EndSweepStep ==
  ASSUME Inv, NEW r \in Requests, EndSweep(r)
  PROVE  Inv'
<1> DEFINE s == IF req[r].op = "refresh" THEN "invalid_grant" ELSE "ok"
<1>1. /\ pc[r] = "sweep" /\ refreshMu' = Free
      /\ Answer(r, Status(s))
      /\ UNCHANGED <<codes, sessions, tokens, families, now, req>>
  BY DEF EndSweep, At
<1>2. req[r].op # "exchange"
  BY <1>1 DEF Inv, HandlerOK
<1>3. Status(s) \in Reply
  BY StatusType
<1> HIDE DEF s
<1>4. /\ CodesTypeOK' /\ SessionsTypeOK' /\ RefreshTypeOK' /\ now' \in Time
      /\ CodesGrow
  BY <1>1, CodesStay
     DEF Inv, TypeOK, CodesTypeOK, SessionsTypeOK, RefreshTypeOK
<1> QED
  BY <1>1, <1>2, <1>3, <1>4, AnswerStepLemma

LEMMA LookupStep ==
  ASSUME Inv, NEW r \in Requests, Lookup(r)
  PROVE  Inv'
<1> DEFINE t == req[r].token
           found == [Status("ok") EXCEPT !.subject = sessions[t].subject,
                                         !.claims = sessions[t].claims]
<1>1. pc[r] = "lookup" /\ UNCHANGED <<stores, now, req>>
  BY DEF Lookup, At
<1>2. req[r].op = "userinfo"
  BY <1>1 DEF Inv, HandlerOK
<1>3. CASE t \in DOMAIN sessions /\ Answer(r, found)
  <2>1. sessions[t] \in Session
    BY <1>3 DEF Inv, TypeOK, SessionsTypeOK, IsMap
  <2>2. found \in Reply
    BY <2>1, StatusType DEF Session, Reply
  <2> QED
    BY <1>1, <1>2, <1>3, <2>2, RefusalLemma
<1>4. CASE Answer(r, Status("invalid_token"))
  BY <1>1, <1>2, <1>4, StatusType, RefusalLemma
<1> QED
  BY <1>3, <1>4 DEF Lookup, LookupOK

-----------------------------------------------------------------------------
(* The invariant.                                                          *)

LEMMA InitInv == Init => Inv
<1> SUFFICES ASSUME Init PROVE Inv
  OBVIOUS
<1>1. NoLocal \in Local /\ NoReply \in Reply /\ "idle" \in Labels
  BY NoLocalType DEF NoReply, Reply, MaybeMethod, Labels
<1>2. CodesTypeOK /\ SessionsTypeOK /\ RefreshTypeOK
  BY DEF Init, CodesInit, SessionsInit, RefreshInit, EmptyMap, IsMap,
         CodesTypeOK, SessionsTypeOK, RefreshTypeOK
<1>3. TypeOK
  BY <1>1, <1>2 DEF Init, TypeOK
<1>4. FamiliesOK
  BY DEF Init, RefreshInit, EmptyMap, FamiliesOK
<1>5. \A r \in Requests : HandlerOK(r) /\ RedeemedOK(r)
  BY DEF Init, HandlerOK, RedeemedOK, Redeeming
<1> QED
  BY <1>3, <1>4, <1>5 DEF Inv

LEMMA ServeStep ==
  ASSUME Inv, NEW r \in Requests, Serve(r)
  PROVE  Inv'
BY ConsumeRefusesStep, ConsumeStep, PutStep, IssueStep, TrackStep,
   RefreshRefusesStep, RefreshDetectsReuseStep, UseRefreshStep, MintStep,
   FindStep, DeleteStep, RevokeFamilyStep, RevokeFamilyRefusesStep, SweepStep,
   EndSweepStep, LookupStep
   DEF Serve

LEMMA NextInv == Inv /\ [Next]_vars => Inv'
<1> SUFFICES ASSUME Inv, [Next]_vars PROVE Inv'
  OBVIOUS
<1>1. CASE \E l \in Logins : CompleteLogin(l)
  BY <1>1, CompleteLoginStep
<1>2. CASE MoveClock
  BY <1>2, MoveClockStep
<1>3. ASSUME NEW r \in Requests,
             Exchange(r) \/ Refresh(r) \/ Revocation(r) \/ Userinfo(r) \/ Serve(r)
      PROVE  Inv'
  BY <1>3, ExchangeStep, RefreshStep, RevocationStep, UserinfoStep, ServeStep
<1>4. CASE UNCHANGED vars
  <2>1. UNCHANGED <<stores, now, pc, req, local, resp>>
    BY <1>4 DEF vars
  <2>2. TypeOK'
    BY <2>1, StoresStay DEF Inv, TypeOK
  <2> QED
    BY <2>1, <2>2, StoresStay, RequestsStay
<1> QED
  BY <1>1, <1>2, <1>3, <1>4 DEF Next

LEMMA InvAlways == Spec => []Inv
BY InitInv, NextInv, PTL DEF Spec

\* Every map, handler and reply keeps the shape its Go type gives it.
THEOREM TypeCorrect == Spec => []TypeOK
<1>1. Inv => TypeOK
  BY DEF Inv
<1> QED
  BY <1>1, InvAlways, PTL

-----------------------------------------------------------------------------
(* An authorization code is redeemed once.                                 *)

RedeemedOnce ==
  \A r1, r2 \in Requests :
    r1 # r2 /\ Redeeming(r1) /\ Redeeming(r2) => req[r1].token # req[r2].token

\* A step of r is no step of any other request.
LEMMA ArriveOthers ==
  ASSUME Inv, NEW r \in Requests,
         Exchange(r) \/ Refresh(r) \/ Revocation(r) \/ Userinfo(r)
  PROVE  /\ OthersStay(r)
         /\ pc[r] = "idle" /\ pc'[r] # "idle"
         /\ pc'[r] \notin {"put", "issue", "track"}
         /\ pc'[r] = "done" => resp'[r].status # "ok"
         /\ UNCHANGED <<stores, now>>
<1>1. ASSUME NEW q, NEW l, Arrive(r, q, "consume", l)
             \/ Arrive(r, q, "refresh", l) \/ Arrive(r, q, "lookup", l)
             \/ Arrive(r, q, "find", l) \/ Arrive(r, q, "revokeFamily", l)
      PROVE  /\ OthersStay(r)
             /\ pc[r] = "idle"
             /\ UNCHANGED <<stores, now>>
             /\ \/ pc'[r] \in {"consume", "refresh", "lookup", "find",
                                 "revokeFamily"}
                \/ /\ pc'[r] = "done"
                   /\ Refusal(q) # "none"
                   /\ resp'[r] = Status(Refusal(q))
  BY <1>1 DEF Arrive, At, Continue, Answer, OthersStay, Inv, TypeOK
<1>2. ASSUME NEW q, Refusal(q) # "none"
      PROVE  Status(Refusal(q)).status # "ok"
  BY DEF Refusal, Status, NoReply
<1>3. \E q, l : \/ Arrive(r, q, "consume", l)
                \/ Arrive(r, q, "refresh", l) \/ Arrive(r, q, "lookup", l)
                \/ Arrive(r, q, "find", l) \/ Arrive(r, q, "revokeFamily", l)
  BY DEF Exchange, Refresh, Revocation, Userinfo
<1> QED
  BY <1>1, <1>2, <1>3

LEMMA ServeOthers ==
  ASSUME Inv, NEW r \in Requests, Serve(r)
  PROVE  /\ OthersStay(r)
         /\ pc[r] \notin {"idle", "done"}
         /\ UNCHANGED req
<1> USE DEF Inv, TypeOK, OthersStay, At, Continue, Answer
<1>1. CASE ConsumeRefuses(r) \/ Consume(r) \/ Put(r) \/ Issue(r) \/ Track(r)
  BY <1>1 DEF ConsumeRefuses, Consume, Put, Issue, Track
<1>2. CASE RefreshRefuses(r) \/ RefreshDetectsReuse(r) \/ UseRefresh(r) \/ Mint(r)
  BY <1>2 DEF RefreshRefuses, RefreshDetectsReuse, UseRefresh, Mint
<1>3. CASE Find(r) \/ Delete(r) \/ RevokeFamily(r) \/ RevokeFamilyRefuses(r)
  BY <1>3 DEF Find, Delete, RevokeFamily, RevokeFamilyRefuses
<1>4. CASE Sweep(r) \/ EndSweep(r) \/ Lookup(r)
  BY <1>4 DEF Sweep, EndSweep, Lookup
<1> QED
  BY <1>1, <1>2, <1>3, <1>4 DEF Serve

\* Only consume's success starts to redeem a code, and the code was unspent.
LEMMA RedeemStep ==
  ASSUME Inv, NEW r \in Requests, Serve(r), Redeeming(r)'
  PROVE  \/ Redeeming(r)
         \/ /\ req[r].token \in DOMAIN codes
            /\ ~codes[req[r].token].consumed
<1>1. HandlerOK(r) /\ UNCHANGED req /\ pc[r] \notin {"idle", "done"}
      /\ pc[r] \in Labels
  BY ServeOthers DEF Inv, TypeOK
<1>2. req[r].op = "exchange"
  BY <1>1 DEF Redeeming
<1>3. CASE pc[r] \in {"put", "issue", "track"}
  BY <1>2, <1>3 DEF Redeeming
<1>4. CASE pc[r] = "consume"
  <2>1. ~ConsumeRefuses(r)
    <3> SUFFICES ASSUME ConsumeRefuses(r) PROVE FALSE
      OBVIOUS
    <3>1. Answer(r, Status("invalid_grant"))
      BY DEF ConsumeRefuses
    <3>2. pc'[r] = "done" /\ resp'[r].status = "invalid_grant"
      BY <3>1, StatusType, AnswerLemma DEF Inv
    <3> QED
      BY <3>2 DEF Redeeming
  <2>2. Consume(r)
    BY <1>4, <2>1
       DEF Serve, At, Put, Issue, Track, RefreshRefuses, RefreshDetectsReuse,
           UseRefresh, Mint, Find, Delete, RevokeFamily, RevokeFamilyRefuses,
           Sweep, EndSweep, Lookup
  <2> QED
    BY <2>2 DEF Consume, Consumable
<1> QED
  BY <1>1, <1>2, <1>3, <1>4 DEF HandlerOK, Labels

LEMMA RedeemedOnceStep == Inv /\ RedeemedOnce /\ [Next]_vars => RedeemedOnce'
<1> SUFFICES ASSUME Inv, RedeemedOnce, [Next]_vars,
                    NEW r1 \in Requests, NEW r2 \in Requests, r1 # r2,
                    Redeeming(r1)', Redeeming(r2)'
             PROVE  req'[r1].token # req'[r2].token
  BY DEF RedeemedOnce
<1>1. CASE UNCHANGED <<pc, req, resp>>
  BY <1>1 DEF RedeemedOnce, Redeeming
<1>2. ASSUME NEW r \in Requests,
             Exchange(r) \/ Refresh(r) \/ Revocation(r) \/ Userinfo(r)
      PROVE  req'[r1].token # req'[r2].token
  BY <1>2, ArriveOthers DEF OthersStay, RedeemedOnce, Redeeming
<1>3. ASSUME NEW r \in Requests, Serve(r)
      PROVE  req'[r1].token # req'[r2].token
  <2>1. OthersStay(r) /\ UNCHANGED req
    BY <1>3, ServeOthers
  <2>2. \A q \in Requests \ {r} : Redeeming(q)' => Redeeming(q)
    BY <2>1 DEF OthersStay, Redeeming
  <2>3. \A q \in Requests : Redeeming(q) =>
          req[q].token \in DOMAIN codes /\ codes[req[q].token].consumed
    BY DEF Inv, RedeemedOK
  <2>4. Redeeming(r)' => \/ Redeeming(r)
                         \/ /\ req[r].token \in DOMAIN codes
                            /\ ~codes[req[r].token].consumed
    BY <1>3, RedeemStep
  <2> QED
    BY <2>1, <2>2, <2>3, <2>4 DEF RedeemedOnce
<1> QED
  BY <1>1, <1>2, <1>3 DEF Next, vars, CompleteLogin, MoveClock

\* An authorization code buys tokens at most once, whatever the number of
\* concurrent exchanges (codeStore.consume).
THEOREM CodesAreSingleUse == Spec => []SingleUse
<1>1. Init => RedeemedOnce
  BY DEF Init, RedeemedOnce, Redeeming
<1>2. RedeemedOnce => SingleUse
  BY DEF RedeemedOnce, SingleUse, Won, Redeeming
<1> QED
  BY <1>1, <1>2, InvAlways, RedeemedOnceStep, PTL DEF Spec

-----------------------------------------------------------------------------
(* Somebody answers for every access token that /userinfo accepts.         *)

\* A step that touches no family and is not one of the holder of a token.
LEMMA KeptFrame ==
  ASSUME Inv, NEW r \in Requests, OthersStay(r), UNCHANGED families,
         pc[r] \notin {"issue", "track", "sweep"}, NEW at, Kept(at)
  PROVE  Kept(at)'
<1>1. CASE \E q \in Requests : pc[q] \in {"issue", "track"} /\ local[q].at = at
  BY <1>1 DEF Kept, OthersStay
<1>2. CASE \E f \in DOMAIN families :
             ~families[f].revoked /\ at \in families[f].accessTokens
  BY <1>2 DEF Kept
<1>3. CASE \E q \in Requests : pc[q] = "sweep" /\ at \in local[q].doomed
  BY <1>3 DEF Kept, OthersStay
<1> QED
  BY <1>1, <1>2, <1>3 DEF Kept

LEMMA OrphanFrame ==
  ASSUME Inv, NoOrphanAccessToken, NEW r \in Requests, OthersStay(r),
         UNCHANGED families, DOMAIN sessions' \subseteq DOMAIN sessions,
         pc[r] \notin {"issue", "track", "sweep"}
  PROVE  NoOrphanAccessToken'
BY KeptFrame DEF NoOrphanAccessToken

LEMMA PutKeeps ==
  ASSUME Inv, NoOrphanAccessToken, NEW r \in Requests, Put(r)
  PROVE  NoOrphanAccessToken'
<1>1. OthersStay(r) /\ pc[r] = "put" /\ UNCHANGED families
  BY ServeOthers DEF Serve, Put, At
<1>2. pc'[r] \in {"issue", "track"} /\ local'[r] = local[r]
  BY DEF Put, Continue, Inv, TypeOK
<1>3. DOMAIN sessions' = DOMAIN sessions \cup {local[r].at}
  BY DEF Put, PutSession, MapPut
<1> SUFFICES ASSUME NEW at \in DOMAIN sessions' PROVE Kept(at)'
  BY DEF NoOrphanAccessToken
<1>4. CASE at = local[r].at
  BY <1>2, <1>4 DEF Kept
<1>5. CASE at # local[r].at
  BY <1>1, <1>3, <1>5, KeptFrame DEF NoOrphanAccessToken
<1> QED
  BY <1>4, <1>5

LEMMA IssueKeeps ==
  ASSUME Inv, NoOrphanAccessToken, NEW r \in Requests, Issue(r)
  PROVE  NoOrphanAccessToken'
<1>1. OthersStay(r) /\ pc[r] = "issue" /\ UNCHANGED sessions
  BY ServeOthers DEF Serve, Issue, At
<1>2. pc'[r] = "track" /\ local'[r].at = local[r].at
  BY DEF Issue, Continue, Inv, TypeOK, Local
<1>3. r \notin DOMAIN families
  BY <1>1 DEF Inv, FamiliesOK
<1>4. \A f \in DOMAIN families : f \in DOMAIN families' /\ families'[f] = families[f]
  BY <1>3 DEF Issue, IssueFamily, MapPut
<1> SUFFICES ASSUME NEW at, Kept(at) PROVE Kept(at)'
  BY <1>1 DEF NoOrphanAccessToken
<1>5. CASE \E q \in Requests : pc[q] \in {"issue", "track"} /\ local[q].at = at
  BY <1>1, <1>2, <1>5 DEF Kept, OthersStay
<1>6. CASE \E f \in DOMAIN families :
             ~families[f].revoked /\ at \in families[f].accessTokens
  BY <1>4, <1>6 DEF Kept
<1>7. CASE \E q \in Requests : pc[q] = "sweep" /\ at \in local[q].doomed
  BY <1>1, <1>7 DEF Kept, OthersStay
<1> QED
  BY <1>5, <1>6, <1>7 DEF Kept

\* The check of trackAccessToken: adopted by a live family, or deleted.
LEMMA TrackKeeps ==
  ASSUME Inv, NoOrphanAccessToken, NEW r \in Requests, Track(r)
  PROVE  NoOrphanAccessToken'
<1> DEFINE l == local[r]
           g == [families[l.family] EXCEPT !.accessTokens = @ \cup {l.at}]
<1>1. OthersStay(r) /\ pc[r] = "track" /\ TrackAccessToken(l.family, l.at)
  BY ServeOthers DEF Serve, Track, At
<1>2. /\ DOMAIN sessions' \subseteq DOMAIN sessions
      /\ \A f \in DOMAIN families : families[f] \in Family
  BY <1>1 DEF TrackAccessToken, RevokeSession, MapDelete, Inv, TypeOK,
              RefreshTypeOK, IsMap
<1>3. /\ DOMAIN families' = DOMAIN families
      /\ \A f \in DOMAIN families :
           /\ families'[f].revoked = families[f].revoked
           /\ families[f].accessTokens \subseteq families'[f].accessTokens
  BY <1>1, <1>2 DEF TrackAccessToken, Family
<1>4. ASSUME NEW at \in DOMAIN sessions', at = l.at PROVE Kept(at)'
  <2>1. l.family \in DOMAIN families /\ ~families[l.family].revoked
    BY <1>1, <1>4 DEF TrackAccessToken, RevokeSession, MapDelete
  <2>2. families' = [families EXCEPT ![l.family] = g]
    BY <1>1, <2>1 DEF TrackAccessToken
  <2>3. at \in families'[l.family].accessTokens
    BY <1>2, <1>4, <2>1, <2>2 DEF Family
  <2> QED
    BY <1>3, <2>1, <2>3 DEF Kept
<1> SUFFICES ASSUME NEW at \in DOMAIN sessions', at # l.at PROVE Kept(at)'
  BY <1>4 DEF NoOrphanAccessToken
<1>5. Kept(at)
  BY <1>2 DEF NoOrphanAccessToken
<1>6. CASE \E q \in Requests : pc[q] \in {"issue", "track"} /\ local[q].at = at
  BY <1>1, <1>6 DEF Kept, OthersStay
<1>7. CASE \E f \in DOMAIN families :
             ~families[f].revoked /\ at \in families[f].accessTokens
  BY <1>3, <1>7 DEF Kept
<1>8. CASE \E q \in Requests : pc[q] = "sweep" /\ at \in local[q].doomed
  BY <1>1, <1>8 DEF Kept, OthersStay
<1> QED
  BY <1>5, <1>6, <1>7, <1>8 DEF Kept

\* The family's tokens pass to the request that is going to delete them.
LEMMA RevokeKeeps ==
  ASSUME Inv, NoOrphanAccessToken, NEW r \in Requests, OthersStay(r),
         pc[r] \in {"refresh", "revokeFamily"},
         NEW t \in DOMAIN tokens, MarkRevoked(r, tokens[t].family),
         Continue(r, "sweep",
           [local[r] EXCEPT !.doomed = families[tokens[t].family].accessTokens]),
         UNCHANGED sessions
  PROVE  NoOrphanAccessToken'
<1> DEFINE f == tokens[t].family
<1>1. pc'[r] = "sweep" /\ local'[r].doomed = families[f].accessTokens
  BY DEF Continue, Inv, TypeOK, Local
<1>2. /\ DOMAIN families' = DOMAIN families
      /\ \A g \in DOMAIN families \ {f} : families'[g] = families[g]
  BY DEF MarkRevoked
<1> SUFFICES ASSUME NEW at, Kept(at) PROVE Kept(at)'
  BY DEF NoOrphanAccessToken
<1>3. CASE \E q \in Requests : pc[q] \in {"issue", "track"} /\ local[q].at = at
  BY <1>3 DEF Kept, OthersStay
<1>4. ASSUME NEW g \in DOMAIN families, ~families[g].revoked,
             at \in families[g].accessTokens
      PROVE  Kept(at)'
  <2>1. CASE g = f
    BY <1>1, <1>4, <2>1 DEF Kept
  <2>2. CASE g # f
    BY <1>2, <1>4, <2>2 DEF Kept
  <2> QED
    BY <2>1, <2>2
<1>5. CASE \E q \in Requests : pc[q] = "sweep" /\ at \in local[q].doomed
  BY <1>5 DEF Kept, OthersStay
<1> QED
  BY <1>3, <1>4, <1>5 DEF Kept

LEMMA SweepKeeps ==
  ASSUME Inv, NoOrphanAccessToken, NEW r \in Requests, Sweep(r) \/ EndSweep(r)
  PROVE  NoOrphanAccessToken'
<1>1. OthersStay(r) /\ pc[r] = "sweep" /\ UNCHANGED families
  BY ServeOthers DEF Serve, Sweep, EndSweep, At
<1>2. DOMAIN sessions' \subseteq DOMAIN sessions
  BY DEF Sweep, EndSweep, RevokeSession, MapDelete
<1>3. ASSUME NEW at \in DOMAIN sessions', at \in local[r].doomed
      PROVE  pc'[r] = "sweep" /\ at \in local'[r].doomed
  <2>1. ~EndSweep(r)
    BY <1>3 DEF EndSweep
  <2>2. PICK x \in local[r].doomed :
          /\ RevokeSession(x)
          /\ Continue(r, "sweep", [local[r] EXCEPT !.doomed = @ \ {x}])
    BY <2>1 DEF Sweep
  <2>3. at # x
    BY <1>3, <2>2 DEF RevokeSession, MapDelete
  <2> QED
    BY <1>3, <2>2, <2>3 DEF Continue, Inv, TypeOK, Local
<1> SUFFICES ASSUME NEW at \in DOMAIN sessions' PROVE Kept(at)'
  BY DEF NoOrphanAccessToken
<1>4. Kept(at)
  BY <1>2 DEF NoOrphanAccessToken
<1>5. CASE \E q \in Requests : pc[q] \in {"issue", "track"} /\ local[q].at = at
  BY <1>1, <1>5 DEF Kept, OthersStay
<1>6. CASE \E f \in DOMAIN families :
             ~families[f].revoked /\ at \in families[f].accessTokens
  BY <1>1, <1>6 DEF Kept
<1>7. CASE \E q \in Requests : pc[q] = "sweep" /\ at \in local[q].doomed
  BY <1>1, <1>3, <1>7 DEF Kept, OthersStay
<1> QED
  BY <1>4, <1>5, <1>6, <1>7 DEF Kept

LEMMA OrphanStep ==
  Inv /\ NoOrphanAccessToken /\ [Next]_vars => NoOrphanAccessToken'
<1> SUFFICES ASSUME Inv, NoOrphanAccessToken, [Next]_vars
             PROVE  NoOrphanAccessToken'
  OBVIOUS
<1>1. CASE UNCHANGED <<sessions, families, pc, local>>
  BY <1>1 DEF NoOrphanAccessToken, Kept
<1>2. ASSUME NEW r \in Requests,
             Exchange(r) \/ Refresh(r) \/ Revocation(r) \/ Userinfo(r)
      PROVE  NoOrphanAccessToken'
  BY <1>2, ArriveOthers, OrphanFrame DEF stores
<1>3. ASSUME NEW r \in Requests, Serve(r) PROVE NoOrphanAccessToken'
  <2>1. OthersStay(r)
    BY <1>3, ServeOthers
  <2>2. CASE ConsumeRefuses(r) \/ Consume(r) \/ RefreshRefuses(r)
             \/ UseRefresh(r) \/ Mint(r)
    BY <2>1, <2>2, OrphanFrame
       DEF ConsumeRefuses, Consume, RefreshRefuses, UseRefresh, Mint, stores, At
  <2>3. CASE Find(r) \/ Delete(r) \/ RevokeFamilyRefuses(r) \/ Lookup(r)
    <3>1. DOMAIN sessions' \subseteq DOMAIN sessions
      BY <2>3 DEF Find, Delete, RevokeFamilyRefuses, Lookup, stores,
                  RevokeSession, MapDelete
    <3> QED
      BY <2>1, <2>3, <3>1, OrphanFrame
         DEF Find, Delete, RevokeFamilyRefuses, Lookup, stores, At
  <2>4. CASE RefreshDetectsReuse(r)
    BY <2>1, <2>4, RevokeKeeps DEF RefreshDetectsReuse, At, Presentable
  <2>5. CASE RevokeFamily(r)
    BY <2>1, <2>5, RevokeKeeps DEF RevokeFamily, At, Revocable
  <2> QED
    BY <1>3, <2>2, <2>3, <2>4, <2>5, PutKeeps, IssueKeeps, TrackKeeps, SweepKeeps
       DEF Serve
<1> QED
  BY <1>1, <1>2, <1>3 DEF Next, vars, stores, CompleteLogin, MoveClock

\* No access token escapes revocation: whatever the order in which grants,
\* refreshes and revocations reach the stores, one that /userinfo accepts is
\* about to be tracked, tracked by a live family or about to be deleted
\* (trackAccessToken's second look at the family).
THEOREM NoTokenIsOrphaned == Spec => []NoOrphanAccessToken
<1>1. Init => NoOrphanAccessToken
  BY DEF Init, SessionsInit, EmptyMap, NoOrphanAccessToken
<1> QED
  BY <1>1, InvAlways, OrphanStep, PTL DEF Spec
=============================================================================
