-------------------------- MODULE AuthorizeProofs --------------------------
(***************************************************************************)
(* Theorems about /authorize and /end_session for any number of targets,   *)
(* tabs and logouts, every configuration config.Validate accepts and every *)
(* query an application sends.                                             *)
(***************************************************************************)
EXTENDS Authorize, TLAPS

-----------------------------------------------------------------------------
(* The inductive invariant.                                                *)

\* What a tab carries is what it asked with: in the request in flight, in the
\* page it shows, and in the redirect that answered it.
Carried(f) ==
  /\ asked[f] # None =>
       asked[f].params.state = f /\ asked[f].params.nonce = f
  /\ wire[f] # None =>
       /\ asked[f] # None
       /\ wire[f].at = asked[f].at
       /\ wire[f].params = asked[f].params
  /\ page[f] # None => page[f] = asked[f] /\ asked[f] # None
  /\ landed[f] # None /\ landed[f].kind = "redirect" =>
       /\ asked[f] # None
       /\ landed[f].uri = asked[f].params.redirect
       /\ landed[f].state = f
       /\ RedirectURIRegistered(asked[f].at, asked[f].params.client, landed[f].uri)

\* How request w may log somebody in as id.
LoggedIn(w, id) ==
  LET mode == config[w.at].login
  IN \/ /\ ~w.post /\ mode = "auto" /\ AutoRefusal(w) = None
        /\ ReadsClaims(w) =>
             id.subject = w.cookies.claims.sub /\ id.claims = w.cookies.claims.claims
        /\ ~ReadsClaims(w) => id.subject = SubjectForAuto(w) /\ id.claims = NoClaims
     \/ /\ w.post /\ mode \in {"picker", "form"} /\ LookupUser(w.at, w.sub)
        /\ id.subject = w.sub /\ id.claims = NoClaims

\* A code comes from a request of its flow that passed every check.
Earned(c) ==
  /\ asked[c.flow] # None
  /\ c.request.at = asked[c.flow].at
  /\ c.request.params = asked[c.flow].params
  /\ c.client = c.request.params.client
  /\ c.redirect = c.request.params.redirect
  /\ c.scope = c.request.params.scope
  /\ c.challenge = c.request.params.challenge
  /\ c.method = c.request.params.method
  /\ c.nonce = c.request.params.nonce
  /\ Refusal(c.request) = None
  /\ LoggedIn(c.request, c.identity)

\* Where a logout leaves its tab is a redirect_uri of a client it named.
LeftOK(l) ==
  left[l] # None =>
    /\ logout[l] # None
    /\ left[l].kind = "redirect" =>
         \E c \in {logout[l].client, logout[l].hint} :
           RedirectURIRegistered(logout[l].at, c, left[l].uri)

IInv ==
  /\ TypeOK
  /\ \A f \in Flows : Carried(f)
  /\ \A c \in issued : Earned(c)
  /\ \A l \in Logouts : LeftOK(l)

-----------------------------------------------------------------------------
(* Types of what the handlers look at.                                     *)

\* A target's configuration, field by field.
LEMMA ConfigType ==
  ASSUME TypeOK, NEW t \in Targets
  PROVE  /\ config[t].login \in {"auto", "picker", "form"}
         /\ config[t].clients \in [Clients -> SUBSET RedirectURIs]
         /\ config[t].users \subseteq Subjects
         /\ config[t].defaultUser \in Subjects
         /\ config[t].injected \in BOOLEAN
         /\ config[t].authorizeError \in ErrorSpecs \cup {None}
         /\ config[t].endSessionError \in ErrorSpecs \cup {None}
         /\ config[t].injected => config[t].login = "auto"
         /\ Blank \in Subjects
<1>1. config[t] \in Config
  BY AuthorizeAssumption DEF TypeOK
<1> QED
  BY <1>1, AuthorizeAssumption DEF Config

\* What the browser asks a target is a Place.
LEMMA AsksType ==
  ASSUME NEW f \in Flows, NEW q \in Asks(f)
  PROVE  /\ q.client \in Clients \cup {Blank} /\ q.redirect \in RedirectURIs
         /\ q.type \in {"code", "token"} /\ q.challenge \in Challenges \cup {Blank}
         /\ q.state = f /\ q.nonce = f
         /\ q \in Params
BY AuthorizeAssumption DEF Asks, Params

\* A cookie is sent with a value of its kind, and without any when there is none.
LEMMA CookieType ==
  ASSUME TypeOK, NEW t \in Targets, NEW name \in {"sub", "claims"}
  PROVE  CookieSent(t, name) \in CookieValues[name]
<1>1. Blank \in CookieValues[name]
  BY AuthorizeAssumption DEF CookieValues
<1>2. ASSUME NEW path, <<name, path>> \in DOMAIN jar
      PROVE  jar[<<name, path>>] \in CookieValues[name]
  <2>1. <<name, path>>[1] = name
    OBVIOUS
  <2> QED
    BY <1>2, <2>1 DEF TypeOK
<1> QED
  BY <1>1, <1>2 DEF CookieSent

\* Whatever is sent is a Request of the place it is sent to.
LEMMA SendEffect ==
  ASSUME TypeOK, NEW f \in Flows, NEW place \in Place, NEW isPost \in BOOLEAN,
         NEW sub \in Subjects, Send(f, place, isPost, sub)
  PROVE  /\ wire'[f] \in Request
         /\ wire'[f].at = place.at /\ wire'[f].params = place.params
         /\ wire' \in [Flows -> Request \cup {None}]
         /\ \A g \in Flows : g # f => wire'[g] = wire[g]
<1> DEFINE w == [at |-> place.at, post |-> isPost, params |-> place.params,
                 sub |-> sub,
                 cookies |-> IF isPost THEN [sub |-> Blank, claims |-> Blank]
                             ELSE [sub |-> CookieSent(place.at, "sub"),
                                   claims |-> CookieSent(place.at, "claims")],
                 signedOut |-> ~isPost /\ signedOut]
<1>1. place.at \in Targets /\ place.params \in Params
  BY DEF Place
<1>2. /\ CookieSent(place.at, "sub") \in CookieValues["sub"]
      /\ CookieSent(place.at, "claims") \in CookieValues["claims"]
  BY <1>1, CookieType
<1>3. w.cookies \in Cookies
  BY <1>2, AuthorizeAssumption DEF Cookies, CookieValues
<1>4. w \in Request
  <2>1. w.signedOut \in BOOLEAN
    BY DEF TypeOK
  <2> HIDE DEF w
  <2>2. /\ w.at = place.at /\ w.post = isPost /\ w.params = place.params /\ w.sub = sub
        /\ w = [at |-> w.at, post |-> w.post, params |-> w.params, sub |-> w.sub,
                cookies |-> w.cookies, signedOut |-> w.signedOut]
    BY DEF w
  <2> QED
    BY <1>1, <1>3, <2>1, <2>2 DEF Request
<1>5. wire' = [wire EXCEPT ![f] = w] /\ w.at = place.at /\ w.params = place.params
  BY DEF Send
<1> HIDE DEF w
<1> QED
  BY <1>4, <1>5 DEF TypeOK

\* The one thing the three copies of the checks amount to.
Checked(w) ==
  IF ~RedirectURIRegistered(w.at, w.params.client, w.params.redirect)
    THEN Rendered("invalid_request")
  ELSE IF config[w.at].authorizeError # None
    THEN AuthorizeConfiguredError(config[w.at].authorizeError, w.params)
  ELSE IF ~(w.params.type = "code" \/ (w.post /\ w.params.type = Blank))
    THEN Redirect(w.params, "unsupported_response_type")
  ELSE IF w.params.client \in config[w.at].requirePKCE /\ w.params.challenge = Blank
    THEN Redirect(w.params, "invalid_request")
  ELSE None

LEMMA CopiesAgree ==
  ASSUME NEW w \in Request
  PROVE  Refusal(w) = Checked(w)
<1>1. w.post \in BOOLEAN
  BY DEF Request
<1>2. CASE ~w.post
  <2>1. Refusal(w) = AuthorizeRefusal(w)
    BY <1>2 DEF Refusal
  <2> QED
    BY <1>2, <2>1 DEF AuthorizeRefusal, Checked, ClientIsRegistered, FailsOnDemand, LacksChallenge
<1>3. CASE w.post
  <2>1. PickerRefusal(w) = Checked(w)
    BY <1>3 DEF PickerRefusal, Checked, ClientIsRegistered, FailsOnDemand, LacksChallenge
  <2>2. FormRefusal(w) = Checked(w)
    BY <1>3 DEF FormRefusal, Checked, ClientIsRegistered, FailsOnDemand, LacksChallenge
  <2> QED
    BY <1>3, <2>1, <2>2 DEF Refusal
<1> QED
  BY <1>1, <1>2, <1>3

\* What the checks answer, or let through.
LEMMA RefusalType ==
  ASSUME TypeOK, NEW w \in Request
  PROVE  /\ Refusal(w) \in Reply \cup {None}
         /\ Refusal(w) = None =>
              /\ RedirectURIRegistered(w.at, w.params.client, w.params.redirect)
              /\ config[w.at].authorizeError = None
              /\ w.params.type = "code" \/ (w.post /\ w.params.type = Blank)
              /\ w.params.client \in config[w.at].requirePKCE
                   => w.params.challenge # Blank
         /\ Refusal(w) # None /\ Refusal(w).kind = "redirect" =>
              /\ Refusal(w).uri = w.params.redirect
              /\ Refusal(w).state = w.params.state
              /\ RedirectURIRegistered(w.at, w.params.client, w.params.redirect)
<1>1. /\ w.at \in Targets
      /\ w.params.redirect \in RedirectURIs /\ w.params.state \in Flows
  BY DEF Request, Params
<1>2. config[w.at].authorizeError \in ErrorSpecs \cup {None}
  BY <1>1, ConfigType
<1>3. ASSUME NEW e \in ErrorSpecs \cup KnownCodes
      PROVE  /\ Rendered(e) \in Reply /\ Redirect(w.params, e) \in Reply
             /\ Rendered(e).kind = "rendered"
             /\ Redirect(w.params, e).uri = w.params.redirect
             /\ Redirect(w.params, e).state = w.params.state
  BY <1>1 DEF Rendered, Redirect, Reply
<1>4. None \notin Reply
  BY NoneAssumption
<1>5. /\ "invalid_request" \in KnownCodes
      /\ "unsupported_response_type" \in ErrorSpecs
      /\ "server_error" \in KnownCodes /\ "503" \in ErrorSpecs
  BY DEF KnownCodes, ErrorSpecs, ErrorCodes
<1> DEFINE error == config[w.at].authorizeError
           registered == RedirectURIRegistered(w.at, w.params.client, w.params.redirect)
           answer == AuthorizeConfiguredError(error, w.params)
<1>6. ASSUME error # None
      PROVE  \/ answer \in Reply /\ answer.kind = "rendered"
             \/ /\ answer \in Reply
                /\ answer.uri = w.params.redirect /\ answer.state = w.params.state
  BY <1>2, <1>3, <1>5, <1>6 DEF AuthorizeConfiguredError, ConfiguredError
<1> HIDE DEF error, registered, answer
<1>7. CASE ~registered
  <2>1. Refusal(w) = Rendered("invalid_request")
    BY <1>7, CopiesAgree DEF Checked, registered
  <2> QED
    BY <1>3, <1>4, <1>5, <2>1
<1>8. CASE registered /\ error # None
  <2>1. Refusal(w) = answer
    BY <1>8, CopiesAgree DEF Checked, registered, error, answer
  <2> QED
    BY <1>4, <1>6, <1>8, <2>1 DEF registered
<1>9. CASE registered /\ error = None
  <2>1. CASE ~(w.params.type = "code" \/ (w.post /\ w.params.type = Blank))
    <3>1. Refusal(w) = Redirect(w.params, "unsupported_response_type")
      BY <1>9, <2>1, CopiesAgree DEF Checked, registered, error
    <3> QED
      BY <1>3, <1>4, <1>5, <1>9, <3>1 DEF registered
  <2>2. CASE /\ w.params.type = "code" \/ (w.post /\ w.params.type = Blank)
             /\ w.params.client \in config[w.at].requirePKCE
             /\ w.params.challenge = Blank
    <3>1. Refusal(w) = Redirect(w.params, "invalid_request")
      BY <1>9, <2>2, CopiesAgree DEF Checked, registered, error
    <3> QED
      BY <1>3, <1>4, <1>5, <1>9, <3>1 DEF registered
  <2>3. CASE /\ w.params.type = "code" \/ (w.post /\ w.params.type = Blank)
             /\ ~(/\ w.params.client \in config[w.at].requirePKCE
                  /\ w.params.challenge = Blank)
    <3>1. Refusal(w) = None
      BY <1>9, <2>3, CopiesAgree DEF Checked, registered, error
    <3> QED
      BY <1>9, <2>3, <3>1 DEF registered, error
  <2> QED
    BY <2>1, <2>2, <2>3
<1> QED
  BY <1>7, <1>8, <1>9

-----------------------------------------------------------------------------
(* The invariant holds.                                                    *)

LEMMA InitIInv == Init => IInv
<1> SUFFICES ASSUME Init PROVE IInv
  OBVIOUS
<1>1. 0 \in 0 .. MaxSubmits
  BY AuthorizeAssumption
<1>2. DOMAIN jar = {}
  BY DEF Init, EmptyMap
<1>3. TypeOK
  BY <1>1, <1>2 DEF Init, TypeOK
<1> QED
  BY <1>3 DEF Init, IInv, Carried, LeftOK

\* Config and the history of a code do not change.
LEMMA EarnedStays ==
  ASSUME NEW c, Earned(c), UNCHANGED config,
         asked'[c.flow] = asked[c.flow]
  PROVE  Earned(c)'
BY DEF Earned, LoggedIn, Refusal, AuthorizeRefusal, PickerRefusal, FormRefusal,
       ClientIsRegistered, FailsOnDemand, LacksChallenge, AuthorizeConfiguredError,
       RedirectURIRegistered, AutoRefusal, ReadsClaims,
       SubjectForAuto, LookupUser

\* A tab nothing happens to.
LEMMA CarriedStays ==
  ASSUME NEW f, Carried(f), UNCHANGED config,
         asked'[f] = asked[f], wire'[f] = wire[f], page'[f] = page[f],
         landed'[f] = landed[f]
  PROVE  Carried(f)'
BY DEF Carried, RedirectURIRegistered

LEMMA LeftStays ==
  ASSUME UNCHANGED <<config, logout, left>>, \A l \in Logouts : LeftOK(l)
  PROVE  \A l \in Logouts : LeftOK(l)'
BY DEF LeftOK, RedirectURIRegistered

\* Tab f has done something, or a response has reached it: what is left to show
\* is that f is still carried, and where a new code comes from.
TabStep(f) ==
  /\ UNCHANGED <<config, jar, signedOut, logout, left>>
  /\ \A g \in Flows \ {f} :
       /\ asked'[g] = asked[g] /\ wire'[g] = wire[g]
       /\ page'[g] = page[g] /\ landed'[g] = landed[g]
  /\ asked[f] # None => asked'[f] = asked[f]

LEMMA TabKeeps ==
  ASSUME IInv, NEW f \in Flows, TabStep(f), TypeOK', Carried(f)',
         \A c \in issued' : c \in issued \/ Earned(c)'
  PROVE  IInv'
<1>1. \A g \in Flows : Carried(g)'
  <2> SUFFICES ASSUME NEW g \in Flows, g # f PROVE Carried(g)'
    OBVIOUS
  <2> QED
    BY CarriedStays DEF IInv, TabStep
<1>2. \A c \in issued' : Earned(c)'
  <2> SUFFICES ASSUME NEW c \in issued PROVE Earned(c)'
    OBVIOUS
  <2>1. Earned(c) /\ c.flow \in Flows
    BY DEF IInv, TypeOK, Code
  <2>2. asked'[c.flow] = asked[c.flow]
    BY <2>1 DEF TabStep, Earned
  <2> QED
    BY <2>1, <2>2, EarnedStays DEF TabStep
<1>3. \A l \in Logouts : LeftOK(l)'
  BY LeftStays DEF IInv, TabStep
<1> QED
  BY <1>1, <1>2, <1>3 DEF IInv

-----------------------------------------------------------------------------
(* What the browser sends.                                                 *)

LEMMA NavigateKeeps ==
  ASSUME IInv, NEW f \in Flows, Navigate(f)
  PROVE  IInv'
<1>1. PICK t \in Targets, q \in Asks(f) :
        /\ asked' = [asked EXCEPT ![f] = [at |-> t, params |-> q]]
        /\ Send(f, [at |-> t, params |-> q], FALSE, Blank)
  BY DEF Navigate
<1>2. PICK place : place = [at |-> t, params |-> q]
  OBVIOUS
<1>3. /\ place \in Place /\ place.params = q /\ place # None
      /\ q.state = f /\ q.nonce = f
  BY <1>2, AsksType, NoneAssumption DEF Place
<1>4. /\ TypeOK /\ Carried(f) /\ asked[f] = None
      /\ UNCHANGED <<config, jar, signedOut, page, submits, landed, issued, logout, left>>
  BY DEF IInv, Navigate
<1>5. /\ asked' = [asked EXCEPT ![f] = place]
      /\ asked' \in [Flows -> Place \cup {None}]
      /\ asked'[f] = place
      /\ \A g \in Flows : g # f => asked'[g] = asked[g]
  BY <1>1, <1>2, <1>3, <1>4 DEF TypeOK
<1>6. /\ wire'[f].at = place.at /\ wire'[f].params = place.params
      /\ wire' \in [Flows -> Request \cup {None}]
      /\ \A g \in Flows : g # f => wire'[g] = wire[g]
  <2>1. Send(f, place, FALSE, Blank) /\ Blank \in Subjects
    BY <1>1, <1>2, AuthorizeAssumption
  <2> QED
    BY <1>3, <1>4, <2>1, SendEffect
<1>7. TypeOK'
  BY <1>4, <1>5, <1>6 DEF TypeOK
<1>8. Carried(f)'
  BY <1>3, <1>4, <1>5, <1>6 DEF Carried
<1>9. TabStep(f)
  BY <1>4, <1>5, <1>6 DEF TabStep
<1> QED
  BY <1>4, <1>7, <1>8, <1>9, TabKeeps

LEMMA PostByHandKeeps ==
  ASSUME IInv, NEW f \in Flows, PostByHand(f)
  PROVE  IInv'
<1>0. PICK t \in Targets, q \in Asks(f), sub \in Subjects :
        \E type \in {q.type, Blank} :
          /\ asked' = [asked EXCEPT ![f] = [at |-> t, params |-> [q EXCEPT !.type = type]]]
          /\ Send(f, [at |-> t, params |-> [q EXCEPT !.type = type]], TRUE, sub)
  BY DEF PostByHand
<1>1. PICK type \in {q.type, Blank} :
        /\ asked' = [asked EXCEPT ![f] = [at |-> t, params |-> [q EXCEPT !.type = type]]]
        /\ Send(f, [at |-> t, params |-> [q EXCEPT !.type = type]], TRUE, sub)
  BY <1>0
<1>2. PICK p : p = [q EXCEPT !.type = type]
  OBVIOUS
<1>3. p \in Params /\ p.state = f /\ p.nonce = f
  <2>1. q \in Params /\ type \in {"code", "token", Blank} /\ q.state = f /\ q.nonce = f
    BY AsksType
  <2> QED
    BY <1>2, <2>1 DEF Params
<1>4. PICK place : place = [at |-> t, params |-> p]
  OBVIOUS
<1>5. place \in Place /\ place.params = p /\ place # None
  BY <1>3, <1>4, NoneAssumption DEF Place
<1>6. /\ TypeOK /\ Carried(f) /\ asked[f] = None
      /\ UNCHANGED <<config, jar, signedOut, page, submits, landed, issued, logout, left>>
  BY DEF IInv, PostByHand
<1>7. /\ asked' = [asked EXCEPT ![f] = place]
      /\ asked' \in [Flows -> Place \cup {None}]
      /\ asked'[f] = place
      /\ \A g \in Flows : g # f => asked'[g] = asked[g]
  BY <1>1, <1>2, <1>4, <1>5, <1>6 DEF TypeOK
<1>8. /\ wire'[f].at = place.at /\ wire'[f].params = place.params
      /\ wire' \in [Flows -> Request \cup {None}]
      /\ \A g \in Flows : g # f => wire'[g] = wire[g]
  <2>1. Send(f, place, TRUE, sub)
    BY <1>1, <1>2, <1>4
  <2> QED
    BY <1>5, <1>6, <2>1, SendEffect
<1>9. TypeOK'
  BY <1>6, <1>7, <1>8 DEF TypeOK
<1>10. Carried(f)'
  BY <1>3, <1>5, <1>6, <1>7, <1>8 DEF Carried
<1>11. TabStep(f)
  BY <1>6, <1>7, <1>8 DEF TabStep
<1> QED
  BY <1>6, <1>9, <1>10, <1>11, TabKeeps

LEMMA SubmitKeeps ==
  ASSUME IInv, NEW f \in Flows, Submit(f)
  PROVE  IInv'
<1>1. /\ TypeOK /\ Carried(f) /\ page[f] # None /\ page[f] \in Place
      /\ UNCHANGED <<config, jar, signedOut, asked, page, landed, issued, logout, left>>
  BY DEF IInv, Submit, TypeOK
<1>2. PICK sub \in Subjects : Send(f, page[f], TRUE, sub)
  <2>1. config[page[f].at].users \subseteq Subjects
    BY <1>1, ConfigType DEF Place
  <2> QED
    BY <2>1 DEF Submit
<1>3. /\ wire'[f].at = page[f].at /\ wire'[f].params = page[f].params
      /\ wire' \in [Flows -> Request \cup {None}]
      /\ \A g \in Flows : g # f => wire'[g] = wire[g]
  BY <1>1, <1>2, SendEffect
<1>4. submits' \in [Flows -> 0 .. MaxSubmits]
  BY <1>1, AuthorizeAssumption DEF Submit, TypeOK
<1>5. TypeOK'
  BY <1>1, <1>3, <1>4 DEF TypeOK
<1>6. Carried(f)'
  BY <1>1, <1>3 DEF Carried, RedirectURIRegistered
<1>7. TabStep(f)
  BY <1>1, <1>3 DEF TabStep
<1> QED
  BY <1>1, <1>5, <1>6, <1>7, TabKeeps

-----------------------------------------------------------------------------
(* What the handlers answer.                                               *)

LEMMA LandEffect ==
  ASSUME TypeOK, NEW f \in Flows, NEW reply \in Reply, Land(f, reply)
  PROVE  /\ landed' \in [Flows -> Reply \cup {None}] /\ landed'[f] = reply
         /\ wire' \in [Flows -> Request \cup {None}] /\ wire'[f] = None
         /\ \A g \in Flows : g # f => wire'[g] = wire[g] /\ landed'[g] = landed[g]
BY DEF Land, TypeOK

\* A response that redirects nowhere, or where the request said.
ReplyFits(reply, w) ==
  /\ reply \in Reply
  /\ reply.kind = "redirect" =>
       /\ reply.uri = w.params.redirect /\ reply.state = w.params.state
       /\ RedirectURIRegistered(w.at, w.params.client, w.params.redirect)

\* A tab that gets such a response, with a page that asks the same again or none.
LEMMA AnswerKeeps ==
  ASSUME IInv, NEW f \in Flows, wire[f] # None,
         NEW reply, ReplyFits(reply, wire[f]), Land(f, reply),
         UNCHANGED <<config, jar, signedOut, asked, submits, logout, left>>,
         page' \in [Flows -> Place \cup {None}],
         page'[f] = page[f] \/ page'[f] = asked[f],
         \A g \in Flows : g # f => page'[g] = page[g],
         issued' \subseteq Code,
         \A c \in issued' : c \in issued \/ Earned(c)
  PROVE  IInv'
<1>1. TypeOK /\ Carried(f)
  BY DEF IInv
<1>2. reply \in Reply
  BY DEF ReplyFits
<1>3. /\ landed' \in [Flows -> Reply \cup {None}] /\ landed'[f] = reply
      /\ wire' \in [Flows -> Request \cup {None}] /\ wire'[f] = None
      /\ \A g \in Flows : g # f => wire'[g] = wire[g] /\ landed'[g] = landed[g]
  BY <1>1, <1>2, LandEffect
<1>4. TypeOK'
  BY <1>1, <1>3 DEF TypeOK
<1>5. Carried(f)'
  BY <1>1, <1>3 DEF Carried, ReplyFits, RedirectURIRegistered
<1>6. TabStep(f)
  BY <1>3 DEF TabStep
<1>7. \A c \in issued' : c \in issued \/ Earned(c)'
  BY EarnedStays
<1> QED
  BY <1>4, <1>5, <1>6, <1>7, TabKeeps

LEMMA RefuseKeeps ==
  ASSUME IInv, NEW f \in Flows, Refuse(f)
  PROVE  IInv'
<1>1. TypeOK /\ wire[f] \in Request /\ wire[f] # None
  BY DEF IInv, TypeOK, Refuse
<1>2. ReplyFits(Refusal(wire[f]), wire[f])
  BY <1>1, RefusalType DEF Refuse, ReplyFits
<1>3. Land(f, Refusal(wire[f]))
  BY DEF Refuse
<1> QED
  BY <1>1, <1>2, <1>3, AnswerKeeps DEF Refuse, TypeOK

\* What Accepted says, and the two replies that follow it.
LEMMA AcceptedIs ==
  ASSUME IInv, NEW f \in Flows, NEW isPost \in BOOLEAN, NEW mode, Accepted(f, isPost, mode)
  PROVE  /\ TypeOK /\ wire[f] \in Request /\ wire[f] # None
         /\ wire[f].at \in Targets /\ wire[f].params \in Params
         /\ Refusal(wire[f]) = None
         /\ (wire[f].post <=> isPost) /\ config[wire[f].at].login = mode
         /\ asked[f] # None /\ asked[f] \in Place
         /\ wire[f].at = asked[f].at /\ wire[f].params = asked[f].params
         /\ asked[f].params.state = f /\ asked[f].params.nonce = f
         /\ ReplyFits(Page, wire[f])
         /\ \A e \in KnownCodes \cup ErrorSpecs \cup {None} :
              ReplyFits(Redirect(wire[f].params, e), wire[f])
<1>1. /\ TypeOK /\ Carried(f) /\ wire[f] \in Request /\ wire[f] # None
      /\ Refusal(wire[f]) = None
      /\ (wire[f].post <=> isPost) /\ config[wire[f].at].login = mode
  BY DEF IInv, TypeOK, Accepted
<1>2. wire[f].at \in Targets /\ wire[f].params \in Params
  BY <1>1 DEF Request
<1>3. /\ asked[f] # None /\ asked[f] \in Place
      /\ wire[f].at = asked[f].at /\ wire[f].params = asked[f].params
      /\ asked[f].params.state = f /\ asked[f].params.nonce = f
  BY <1>1 DEF Carried, TypeOK
<1>4. RedirectURIRegistered(wire[f].at, wire[f].params.client, wire[f].params.redirect)
  BY <1>1, RefusalType
<1>5. wire[f].params.redirect \in RedirectURIs /\ wire[f].params.state \in Flows
  BY <1>2 DEF Params
<1>6. ReplyFits(Page, wire[f])
  BY DEF ReplyFits, Page, Reply
<1>7. ASSUME NEW e \in KnownCodes \cup ErrorSpecs \cup {None}
      PROVE  ReplyFits(Redirect(wire[f].params, e), wire[f])
  BY <1>4, <1>5 DEF ReplyFits, Redirect, Reply
<1> QED
  BY <1>1, <1>2, <1>3, <1>6, <1>7

LEMMA ShowPageKeeps ==
  ASSUME IInv, NEW f \in Flows, ShowPage(f)
  PROVE  IInv'
<1>1. PICK mode : Accepted(f, FALSE, mode)
  BY DEF ShowPage
<1>2. /\ TypeOK /\ wire[f] # None
      /\ asked[f] \in Place /\ wire[f].at = asked[f].at /\ wire[f].params = asked[f].params
      /\ ReplyFits(Page, wire[f])
  BY <1>1, AcceptedIs
<1>3. Hidden(wire[f]) = asked[f]
  BY <1>2 DEF Hidden, Place
<1>4. /\ page' = [page EXCEPT ![f] = asked[f]] /\ Land(f, Page)
      /\ UNCHANGED <<config, jar, signedOut, asked, submits, issued, logout, left>>
  BY <1>3 DEF ShowPage
<1>5. /\ page' \in [Flows -> Place \cup {None}] /\ page'[f] = asked[f]
      /\ \A g \in Flows : g # f => page'[g] = page[g]
  BY <1>2, <1>4 DEF TypeOK
<1>6. issued' \subseteq Code
  BY <1>2, <1>4 DEF TypeOK
<1> QED
  BY <1>2, <1>4, <1>5, <1>6, AnswerKeeps

LEMMA AutoRefusesKeeps ==
  ASSUME IInv, NEW f \in Flows, AutoRefuses(f)
  PROVE  IInv'
<1>1. Accepted(f, FALSE, "auto")
  BY DEF AutoRefuses
<1>2. AutoRefusal(wire[f]) \in KnownCodes \cup {None}
  BY DEF AutoRefusal, KnownCodes, ErrorCodes
<1>3. /\ TypeOK /\ wire[f] # None
      /\ ReplyFits(Redirect(wire[f].params, AutoRefusal(wire[f])), wire[f])
  BY <1>1, <1>2, AcceptedIs
<1>4. /\ Land(f, Redirect(wire[f].params, AutoRefusal(wire[f])))
      /\ UNCHANGED <<config, jar, signedOut, asked, page, submits, issued, logout, left>>
  BY DEF AutoRefuses
<1> QED
  BY <1>3, <1>4, AnswerKeeps DEF TypeOK

\* completeLogin, for an identity the request may log in as.
LEMMA LoginKeeps ==
  ASSUME IInv, NEW f \in Flows, NEW isPost \in BOOLEAN, NEW mode, Accepted(f, isPost, mode),
         NEW subject \in Subjects, NEW claims \in InjectedClaims \cup {NoClaims},
         NEW id, id = [subject |-> subject, claims |-> claims],
         LoggedIn(wire[f], id), CompleteLogin(f, subject, claims),
         UNCHANGED <<config, jar, signedOut, asked, page, submits, logout, left>>
  PROVE  IInv'
<1>1. /\ TypeOK /\ wire[f] \in Request /\ wire[f] # None
      /\ wire[f].at \in Targets /\ wire[f].params \in Params
      /\ Refusal(wire[f]) = None
      /\ asked[f] # None
      /\ wire[f].at = asked[f].at /\ wire[f].params = asked[f].params
      /\ asked[f].params.nonce = f
      /\ ReplyFits(Redirect(wire[f].params, None), wire[f])
  BY AcceptedIs
<1>2. wire[f].params.client \in Clients
  BY <1>1, RefusalType DEF RedirectURIRegistered
<1>3. PICK c : c = [flow |-> f, n |-> submits[f], identity |-> id,
                    client |-> wire[f].params.client, redirect |-> wire[f].params.redirect,
                    scope |-> wire[f].params.scope,
                    challenge |-> wire[f].params.challenge,
                    method |-> wire[f].params.method,
                    nonce |-> wire[f].params.nonce, request |-> wire[f]]
  OBVIOUS
<1>4. issued' = issued \cup {c} /\ Land(f, Redirect(wire[f].params, None))
  BY <1>3 DEF CompleteLogin
<1>5. c \in Code
  <2>1. id \in Identity
    BY DEF Identity
  <2>2. /\ submits[f] \in 0 .. MaxSubmits
        /\ wire[f].params.redirect \in RedirectURIs
        /\ wire[f].params.scope \in Scopes \cup {Blank}
        /\ wire[f].params.challenge \in Challenges \cup {Blank}
        /\ wire[f].params.method \in Methods
        /\ wire[f].params.nonce = f
    BY <1>1 DEF TypeOK, Params
  <2> QED
    BY <1>1, <1>2, <1>3, <2>1, <2>2 DEF Code
<1>6. Earned(c)
  <2>1. /\ c.flow = f /\ c.request = wire[f] /\ c.identity = id
        /\ c.client = wire[f].params.client /\ c.redirect = wire[f].params.redirect
        /\ c.scope = wire[f].params.scope /\ c.nonce = wire[f].params.nonce
        /\ c.challenge = wire[f].params.challenge /\ c.method = wire[f].params.method
    BY <1>3
  <2> QED
    BY <1>1, <2>1 DEF Earned
<1>7. issued' \subseteq Code
  BY <1>1, <1>4, <1>5 DEF TypeOK
<1>8. \A k \in issued' : k \in issued \/ Earned(k)
  BY <1>4, <1>6
<1> QED
  BY <1>1, <1>4, <1>7, <1>8, AnswerKeeps DEF TypeOK

\* A cookie's payload, or the subject that stands in for it.
LEMMA AutoLoginKeeps ==
  ASSUME IInv, NEW f \in Flows, AutoLogin(f)
  PROVE  IInv'
<1> DEFINE w == wire[f]
<1>1. /\ Accepted(f, FALSE, "auto") /\ AutoRefusal(w) = None
      /\ UNCHANGED <<config, jar, signedOut, asked, page, submits, logout, left>>
  BY DEF AutoLogin
<1>2. /\ TypeOK /\ w \in Request /\ w.at \in Targets
      /\ ~w.post /\ config[w.at].login = "auto"
  BY <1>1, AcceptedIs
<1>3. w.cookies.sub \in Subjects /\ w.cookies.claims \in Payloads \cup {Malformed, Blank}
  BY <1>2 DEF Request, Cookies, CookieValues
<1>4. None \notin KnownCodes /\ "invalid_request" \in KnownCodes
  BY NoneAssumption DEF KnownCodes, ErrorCodes
<1> HIDE DEF w
<1>5. CASE ReadsClaims(w) /\ CompleteLogin(f, w.cookies.claims.sub, w.cookies.claims.claims)
  <2>1. w.cookies.claims \in Payloads
    BY <1>1, <1>3, <1>4, <1>5 DEF AutoRefusal, ReadsClaims
  <2>2. w.cookies.claims.sub \in Subjects /\ w.cookies.claims.claims \in InjectedClaims
    BY <2>1, AuthorizeAssumption
  <2>3. PICK id : id = [subject |-> w.cookies.claims.sub, claims |-> w.cookies.claims.claims]
    OBVIOUS
  <2>4. LoggedIn(w, id)
    BY <1>1, <1>2, <1>5, <2>3 DEF LoggedIn
  <2> QED
    BY <1>1, <1>5, <2>2, <2>3, <2>4, LoginKeeps DEF w
<1>6. CASE ~ReadsClaims(w) /\ CompleteLogin(f, SubjectForAuto(w), NoClaims)
  <2>1. SubjectForAuto(w) \in Subjects
    BY <1>2, <1>3, ConfigType DEF SubjectForAuto
  <2>2. PICK id : id = [subject |-> SubjectForAuto(w), claims |-> NoClaims]
    OBVIOUS
  <2>3. LoggedIn(w, id)
    BY <1>1, <1>2, <1>6, <2>2 DEF LoggedIn
  <2> QED
    BY <1>1, <1>6, <2>1, <2>2, <2>3, LoginKeeps DEF w
<1> QED
  BY <1>5, <1>6 DEF AutoLogin, w

LEMMA PostedLogsIn ==
  ASSUME IInv, NEW f \in Flows, NEW mode \in {"picker", "form"},
         Accepted(f, TRUE, mode), LookupUser(wire[f].at, wire[f].sub),
         CompleteLogin(f, wire[f].sub, NoClaims),
         UNCHANGED <<config, jar, signedOut, asked, page, submits, logout, left>>
  PROVE  IInv'
<1>1. /\ wire[f] \in Request /\ wire[f].post /\ config[wire[f].at].login = mode
  BY AcceptedIs
<1>2. wire[f].sub \in Subjects
  BY <1>1 DEF Request
<1>3. PICK id : id = [subject |-> wire[f].sub, claims |-> NoClaims]
  OBVIOUS
<1>4. LoggedIn(wire[f], id)
  BY <1>1, <1>3 DEF LoggedIn
<1> QED
  BY <1>2, <1>3, <1>4, LoginKeeps

LEMMA PickerSubmitKeeps ==
  ASSUME IInv, NEW f \in Flows, PickerSubmit(f)
  PROVE  IInv'
<1>1. /\ Accepted(f, TRUE, "picker")
      /\ UNCHANGED <<config, jar, signedOut, asked, page, submits, logout, left>>
  BY DEF PickerSubmit
<1>2. CASE LookupUser(wire[f].at, wire[f].sub) /\ CompleteLogin(f, wire[f].sub, NoClaims)
  BY <1>1, <1>2, PostedLogsIn
<1>3. CASE Land(f, Redirect(wire[f].params, "access_denied")) /\ UNCHANGED issued
  <2>1. /\ TypeOK /\ wire[f] # None
        /\ ReplyFits(Redirect(wire[f].params, "access_denied"), wire[f])
    BY <1>1, AcceptedIs DEF KnownCodes, ErrorCodes
  <2> QED
    BY <1>1, <1>3, <2>1, AnswerKeeps DEF TypeOK
<1> QED
  BY <1>2, <1>3 DEF PickerSubmit

LEMMA FormSubmitKeeps ==
  ASSUME IInv, NEW f \in Flows, FormSubmit(f)
  PROVE  IInv'
<1>1. /\ Accepted(f, TRUE, "form")
      /\ UNCHANGED <<config, jar, signedOut, asked, submits, logout, left>>
  BY DEF FormSubmit
<1>2. CASE /\ LookupUser(wire[f].at, wire[f].sub)
           /\ CompleteLogin(f, wire[f].sub, NoClaims) /\ UNCHANGED page
  BY <1>1, <1>2, PostedLogsIn
<1>3. CASE /\ page' = [page EXCEPT ![f] = Hidden(wire[f])]
           /\ Land(f, Page) /\ UNCHANGED issued
  <2>1. /\ TypeOK /\ wire[f] # None
        /\ asked[f] \in Place /\ wire[f].at = asked[f].at /\ wire[f].params = asked[f].params
        /\ ReplyFits(Page, wire[f])
    BY <1>1, AcceptedIs
  <2>2. Hidden(wire[f]) = asked[f]
    BY <2>1 DEF Hidden, Place
  <2>3. /\ page' \in [Flows -> Place \cup {None}] /\ page'[f] = asked[f]
        /\ \A g \in Flows : g # f => page'[g] = page[g]
    BY <1>3, <2>1, <2>2 DEF TypeOK
  <2>4. issued' \subseteq Code
    BY <1>3, <2>1 DEF TypeOK
  <2> QED
    BY <1>1, <1>3, <2>1, <2>3, <2>4, AnswerKeeps
<1> QED
  BY <1>2, <1>3 DEF FormSubmit

-----------------------------------------------------------------------------
(* Cookies and logouts.                                                    *)

\* Nothing has happened to a tab, a code or an answered logout.
LEMMA BystandersKeep ==
  ASSUME IInv, TypeOK',
         UNCHANGED <<config, asked, wire, page, submits, landed, issued>>,
         \A l \in Logouts : LeftOK(l)'
  PROVE  IInv'
<1>1. \A g \in Flows : Carried(g)'
  BY CarriedStays DEF IInv
<1>2. \A c \in issued' : Earned(c)'
  BY EarnedStays DEF IInv
<1> QED
  BY <1>1, <1>2 DEF IInv

LEMMA SetCookieKeeps ==
  ASSUME IInv, SetCookie
  PROVE  IInv'
<1>1. TypeOK
  BY DEF IInv
<1>2. PICK name \in {"sub", "claims"}, path \in CookiePaths :
        \E v \in CookieValues[name] : jar' = MapPut(jar, <<name, path>>, v)
  BY DEF SetCookie
<1>3. PICK v \in CookieValues[name] : jar' = MapPut(jar, <<name, path>>, v)
  BY <1>2
<1>4. PICK key : key = <<name, path>>
  OBVIOUS
<1>5. key \in {"sub", "claims"} \X CookiePaths /\ key[1] = name
  BY <1>4
<1>6. \A k \in DOMAIN jar' :
        k \in {"sub", "claims"} \X CookiePaths /\ jar'[k] \in CookieValues[k[1]]
  <2>1. /\ DOMAIN jar' = DOMAIN jar \cup {key}
        /\ \A k \in DOMAIN jar' : jar'[k] = (IF k = key THEN v ELSE jar[k])
    BY <1>3, <1>4 DEF MapPut
  <2> QED
    BY <1>1, <1>5, <2>1 DEF TypeOK
<1>7. TypeOK'
  BY <1>1, <1>6 DEF SetCookie, TypeOK
<1>8. \A l \in Logouts : LeftOK(l)'
  BY LeftStays DEF SetCookie, IInv
<1> QED
  BY <1>7, <1>8, BystandersKeep DEF SetCookie

LEMMA SendLogoutKeeps ==
  ASSUME IInv, NEW l \in Logouts, SendLogout(l)
  PROVE  IInv'
<1>1. PICK q \in LogoutRequest : logout' = [logout EXCEPT ![l] = q]
  BY DEF SendLogout
<1>2. TypeOK /\ logout[l] = None /\ UNCHANGED <<config, left>>
  BY DEF IInv, SendLogout
<1>3. TypeOK'
  BY <1>1, <1>2 DEF SendLogout, TypeOK
<1>4. ASSUME NEW k \in Logouts PROVE LeftOK(k)'
  <2>1. LeftOK(k)
    BY DEF IInv
  <2>2. CASE k = l
    BY <1>2, <2>1, <2>2 DEF LeftOK
  <2>3. CASE k # l
    <3>1. logout'[k] = logout[k] /\ left'[k] = left[k] /\ config' = config
      BY <1>1, <1>2, <2>3 DEF TypeOK
    <3> QED
      BY <2>1, <3>1 DEF LeftOK, RedirectURIRegistered
  <2> QED
    BY <2>2, <2>3
<1> QED
  BY <1>3, <1>4, BystandersKeep DEF SendLogout

\* Where /end_session may leave a browser.
LEMMA SignedOutAtType ==
  ASSUME TypeOK, NEW q \in LogoutRequest
  PROVE  /\ SignedOutAt(q) \in Reply
         /\ SignedOutAt(q).kind = "redirect" =>
              \E c \in {q.client, q.hint} :
                RedirectURIRegistered(q.at, c, SignedOutAt(q).uri)
<1> DEFINE client == IF q.client # Blank THEN q.client ELSE q.hint
<1>1. CASE RedirectURIRegistered(q.at, client, q.uri)
  <2>1. PICK r : r = [Page EXCEPT !.kind = "redirect", !.uri = q.uri]
    OBVIOUS
  <2>2. SignedOutAt(q) = r
    BY <1>1, <2>1 DEF SignedOutAt
  <2>3. q.uri \in RedirectURIs
    <3>1. q.at \in Targets
      BY DEF LogoutRequest
    <3> QED
      BY <1>1, <3>1, ConfigType DEF RedirectURIRegistered
  <2>4. r \in Reply /\ r.uri = q.uri
    BY <2>1, <2>3 DEF Page, Reply
  <2> QED
    BY <1>1, <2>2, <2>4
<1>2. CASE ~RedirectURIRegistered(q.at, client, q.uri)
  <2>1. SignedOutAt(q) = Page
    BY <1>2 DEF SignedOutAt
  <2> QED
    BY <2>1 DEF Page, Reply
<1> QED
  BY <1>1, <1>2

LEMMA EndSessionKeeps ==
  ASSUME IInv, NEW l \in Logouts, EndSession(l)
  PROVE  IInv'
<1> DEFINE q == logout[l]
           failure == config[q.at].endSessionError
<1>1. /\ TypeOK /\ logout[l] # None
      /\ UNCHANGED <<config, asked, wire, page, submits, landed, issued, logout>>
  BY DEF IInv, EndSession
<1>2. q \in LogoutRequest /\ q.at \in Targets
  BY <1>1 DEF TypeOK, LogoutRequest
<1>3. /\ \A k \in DOMAIN jar' : k \in DOMAIN jar /\ jar'[k] = jar[k]
      /\ signedOut' \in BOOLEAN
  BY <1>1 DEF EndSession, ClearLoginCookies, MapDelete, TypeOK
<1>4. PICK reply :
        /\ left' = [left EXCEPT ![l] = reply]
        /\ reply \in Reply
        /\ reply.kind = "redirect" =>
             \E c \in {q.client, q.hint} : RedirectURIRegistered(q.at, c, reply.uri)
  <2>1. CASE failure # None /\ left' = [left EXCEPT ![l] = Rendered(ConfiguredError(failure))]
    <3>1. failure \in ErrorSpecs
      BY <1>1, <1>2, <2>1, ConfigType
    <3>2. ConfiguredError(failure) \in ErrorSpecs \cup KnownCodes
      BY <3>1 DEF ConfiguredError, KnownCodes, ErrorCodes
    <3>3. PICK e : e = ConfiguredError(failure)
      OBVIOUS
    <3>4. Rendered(e) \in Reply /\ Rendered(e).kind = "rendered"
      BY <3>2, <3>3 DEF Rendered, Reply
    <3> QED
      BY <2>1, <3>3, <3>4
  <2>2. CASE left' = [left EXCEPT ![l] = SignedOutAt(q)]
    BY <1>1, <1>2, <2>2, SignedOutAtType
  <2> QED
    BY <2>1, <2>2 DEF EndSession
<1>5. TypeOK'
  BY <1>1, <1>3, <1>4 DEF TypeOK
<1>6. ASSUME NEW k \in Logouts PROVE LeftOK(k)'
  <2>1. LeftOK(k)
    BY DEF IInv
  <2>2. CASE k = l
    BY <1>1, <1>4, <2>2 DEF LeftOK, TypeOK, RedirectURIRegistered
  <2>3. CASE k # l
    <3>1. left'[k] = left[k]
      BY <1>1, <1>4, <2>3 DEF TypeOK
    <3> QED
      BY <1>1, <2>1, <3>1 DEF LeftOK, RedirectURIRegistered
  <2> QED
    BY <2>2, <2>3
<1> QED
  BY <1>1, <1>5, <1>6, BystandersKeep

LEMMA NextIInv == IInv /\ [Next]_vars => IInv'
<1> SUFFICES ASSUME IInv, [Next]_vars PROVE IInv'
  OBVIOUS
<1>1. CASE SetCookie
  BY <1>1, SetCookieKeeps
<1>2. ASSUME NEW f \in Flows, Navigate(f) PROVE IInv'
  BY <1>2, NavigateKeeps
<1>3. ASSUME NEW f \in Flows, Submit(f) PROVE IInv'
  BY <1>3, SubmitKeeps
<1>4. ASSUME NEW f \in Flows, PostByHand(f) PROVE IInv'
  BY <1>4, PostByHandKeeps
<1>5. ASSUME NEW f \in Flows, Refuse(f) PROVE IInv'
  BY <1>5, RefuseKeeps
<1>6. ASSUME NEW f \in Flows, ShowPage(f) PROVE IInv'
  BY <1>6, ShowPageKeeps
<1>7. ASSUME NEW f \in Flows, AutoRefuses(f) PROVE IInv'
  BY <1>7, AutoRefusesKeeps
<1>8. ASSUME NEW f \in Flows, AutoLogin(f) PROVE IInv'
  BY <1>8, AutoLoginKeeps
<1>9. ASSUME NEW f \in Flows, PickerSubmit(f) PROVE IInv'
  BY <1>9, PickerSubmitKeeps
<1>10. ASSUME NEW f \in Flows, FormSubmit(f) PROVE IInv'
  BY <1>10, FormSubmitKeeps
<1>11. ASSUME NEW l \in Logouts, SendLogout(l) PROVE IInv'
  BY <1>11, SendLogoutKeeps
<1>12. ASSUME NEW l \in Logouts, EndSession(l) PROVE IInv'
  BY <1>12, EndSessionKeeps
<1>13. CASE UNCHANGED vars
  <2>1. TypeOK'
    BY <1>13 DEF IInv, TypeOK, vars
  <2>2. \A l \in Logouts : LeftOK(l)'
    BY <1>13, LeftStays DEF IInv, vars
  <2> QED
    BY <1>13, <2>1, <2>2, BystandersKeep DEF vars
<1> QED
  BY <1>1, <1>2, <1>3, <1>4, <1>5, <1>6, <1>7, <1>8, <1>9, <1>10, <1>11, <1>12,
     <1>13 DEF Next

\* The inductive invariant of the handlers' and the browser's steps.
LEMMA AlwaysIInv == Spec => []IInv
BY InitIInv, NextIInv, PTL DEF Spec

-----------------------------------------------------------------------------
(* What follows.                                                           *)

\* Every reachable state of the browser and of the codes is well typed.
THEOREM TypeCorrect == Spec => []TypeOK
<1>1. IInv => TypeOK
  BY DEF IInv
<1> QED
  BY <1>1, AlwaysIInv, PTL

\* What an application asks with reaches the code and the redirect, whatever
\* pages, errors and retries stand between (hiddenAuthParams).
THEOREM RequestsSurvive == Spec => []ParamsSurvive
<1>1. IInv => ParamsSurvive
  <2> SUFFICES ASSUME IInv PROVE ParamsSurvive
    OBVIOUS
  <2>1. ASSUME NEW c \in issued
        PROVE  LET q == asked[c.flow].params
               IN /\ c.client = q.client /\ c.redirect = q.redirect
                  /\ c.scope = q.scope /\ c.nonce = q.nonce
                  /\ c.challenge = q.challenge /\ c.method = q.method
                  /\ c.request.at = asked[c.flow].at
    BY DEF IInv, Earned
  <2>2. ASSUME NEW f \in Flows
        PROVE  /\ page[f] # None => page[f] = asked[f]
               /\ landed[f] # None /\ landed[f].kind = "redirect"
                    => landed[f].uri = asked[f].params.redirect /\ landed[f].state = f
    BY DEF IInv, Carried
  <2> QED
    BY <2>1, <2>2 DEF ParamsSurvive
<1> QED
  BY <1>1, AlwaysIInv, PTL

\* A code, with the types of what it is made of.
LEMMA CodeType ==
  ASSUME IInv, NEW c \in issued
  PROVE  /\ Earned(c) /\ c.request \in Request /\ c.request.at \in Targets
         /\ c.identity = [subject |-> c.identity.subject, claims |-> c.identity.claims]
         /\ c.request.cookies.sub \in Subjects
         /\ c.request.cookies.claims \in Payloads \cup {Malformed, Blank}
<1>1. Earned(c) /\ c \in Code
  BY DEF IInv, TypeOK
<1>2. c.request \in Request /\ c.identity \in Identity
  BY <1>1 DEF Code
<1>3. c.identity = [subject |-> c.identity.subject, claims |-> c.identity.claims]
  BY <1>2 DEF Identity
<1>4. /\ c.request.at \in Targets
      /\ c.request.cookies.sub \in Subjects
      /\ c.request.cookies.claims \in Payloads \cup {Malformed, Blank}
  BY <1>2 DEF Request, Cookies, CookieValues
<1> QED
  BY <1>1, <1>2, <1>3, <1>4

\* An auto login is the cookies of its own request, as its own target reads
\* them; any other is the subject that was posted.
THEOREM LoginsFollowTheCookies == Spec => []CookiesDecide
<1>1. IInv => CookiesDecide
  <2> SUFFICES ASSUME IInv, NEW c \in issued
               PROVE  LET t == c.request.at
                          k == c.request.cookies
                      IN CASE config[t].injected /\ k.claims # Blank ->
                                /\ k.claims # Malformed
                                /\ c.identity = [subject |-> k.claims.sub,
                                                 claims |-> k.claims.claims]
                           [] config[t].login = "auto"
                                /\ (~config[t].injected \/ k.claims = Blank) ->
                                /\ c.identity.claims = NoClaims
                                /\ c.identity.subject =
                                     (IF k.sub # Blank THEN k.sub
                                      ELSE config[t].defaultUser)
                           [] OTHER ->
                                c.identity = [subject |-> c.request.sub,
                                              claims |-> NoClaims]
    BY Zenon DEF CookiesDecide
  <2> DEFINE w == c.request
             id == c.identity
  <2>1. /\ TypeOK /\ LoggedIn(w, id) /\ w.at \in Targets
        /\ id = [subject |-> id.subject, claims |-> id.claims]
    BY CodeType DEF IInv, Earned
  <2>2. config[w.at].injected => config[w.at].login = "auto"
    BY <2>1, ConfigType
  <2>3. CASE config[w.at].injected /\ w.cookies.claims # Blank
    <3>1. AutoRefusal(w) = None /\ ReadsClaims(w)
      BY <2>1, <2>2, <2>3 DEF LoggedIn, ReadsClaims
    <3>2. w.cookies.claims # Malformed
      BY <3>1, NoneAssumption DEF AutoRefusal, KnownCodes, ErrorCodes
    <3>3. id.subject = w.cookies.claims.sub /\ id.claims = w.cookies.claims.claims
      BY <2>1, <2>2, <2>3, <3>1 DEF LoggedIn
    <3>4. id = [subject |-> w.cookies.claims.sub, claims |-> w.cookies.claims.claims]
      BY <2>1, <3>3, Zenon
    <3> QED
      BY <2>3, <3>2, <3>4, Zenon
  <2>4. CASE /\ config[w.at].login = "auto"
             /\ ~config[w.at].injected \/ w.cookies.claims = Blank
    <3>1. ~ReadsClaims(w)
      BY <2>4 DEF ReadsClaims
    <3>2. id.subject = SubjectForAuto(w) /\ id.claims = NoClaims
      BY <2>1, <2>4, <3>1 DEF LoggedIn
    <3>3. ~(config[w.at].injected /\ w.cookies.claims # Blank)
      BY <2>4
    <3> QED
      BY <2>4, <3>2, <3>3, Zenon DEF SubjectForAuto
  <2>5. CASE config[w.at].login # "auto"
    <3>1. id.subject = w.sub /\ id.claims = NoClaims
      BY <2>1, <2>5 DEF LoggedIn
    <3>2. id = [subject |-> w.sub, claims |-> NoClaims]
      BY <2>1, <3>1, Zenon
    <3> QED
      BY <2>2, <2>5, <3>2, Zenon
  <2> QED
    BY <2>3, <2>4, <2>5
<1> QED
  BY <1>1, AlwaysIInv, PTL

\* Whichever handler completes a login, Target's CompleteLogin gets what it
\* takes for granted: a user the target knows or may be told of, a registered
\* redirect_uri, a challenge where PKCE is required.
THEOREM LoginsAreAdmissible == Spec => []OnlyAdmissibleLogins
<1>1. IInv => OnlyAdmissibleLogins
  <2> SUFFICES ASSUME IInv, NEW c \in issued
               PROVE  LET conf == config[c.request.at]
                      IN /\ \/ c.identity.claims # NoClaims /\ conf.injected
                            \/ /\ c.identity.claims = NoClaims
                               /\ LookupUser(c.request.at, c.identity.subject)
                         /\ c.redirect \in conf.clients[c.client]
                         /\ c.client \in conf.requirePKCE => c.challenge # Blank
    BY DEF OnlyAdmissibleLogins
  <2> DEFINE w == c.request
             id == c.identity
  <2>1. /\ TypeOK /\ Earned(c) /\ w \in Request
        /\ w.cookies.claims \in Payloads \cup {Malformed, Blank}
    BY CodeType DEF IInv
  <2>2. /\ c.redirect \in config[w.at].clients[c.client]
        /\ c.client \in config[w.at].requirePKCE => c.challenge # Blank
    BY <2>1, RefusalType DEF Earned, RedirectURIRegistered
  <2>3. /\ None # "invalid_request" /\ None # "login_required"
        /\ None # "access_denied"
    BY NoneAssumption DEF KnownCodes, ErrorCodes
  <2>4. CASE AutoRefusal(w) = None /\ ReadsClaims(w) /\ id.claims = w.cookies.claims.claims
    <3>1. w.cookies.claims \in Payloads
      BY <2>1, <2>3, <2>4 DEF AutoRefusal, ReadsClaims
    <3>2. id.claims \in InjectedClaims
      BY <2>4, <3>1, AuthorizeAssumption
    <3> QED
      BY <2>2, <2>4, <3>2, AuthorizeAssumption DEF ReadsClaims
  <2>5. CASE /\ AutoRefusal(w) = None /\ ~ReadsClaims(w)
             /\ id.subject = SubjectForAuto(w) /\ id.claims = NoClaims
    <3>1. LookupUser(w.at, SubjectForAuto(w))
      BY <2>3, <2>5 DEF AutoRefusal
    <3> QED
      BY <2>2, <2>5, <3>1
  <2>6. CASE LookupUser(w.at, w.sub) /\ id.subject = w.sub /\ id.claims = NoClaims
    BY <2>2, <2>6
  <2> QED
    BY <2>1, <2>4, <2>5, <2>6 DEF Earned, LoggedIn
<1> QED
  BY <1>1, AlwaysIInv, PTL

\* No answer of /authorize or /end_session sends a browser to a place no
\* client of that target registered.
THEOREM NoOpenRedirects == Spec => []RedirectsOnlyToRegistered
<1>1. IInv => RedirectsOnlyToRegistered
  BY DEF IInv, Carried, LeftOK, RedirectsOnlyToRegistered
<1> QED
  BY <1>1, AlwaysIInv, PTL

-----------------------------------------------------------------------------
(* Logouts: clearLoginCookies clears what was set at Path "/".             *)

Cleared(w) == w.signedOut => w.cookies.sub = Blank /\ w.cookies.claims = Blank

ForgetInv ==
  /\ signedOut => DOMAIN jar = {}
  /\ \A f \in Flows : wire[f] # None => Cleared(wire[f])
  /\ \A c \in issued : Cleared(c.request)

\* A request sent while signed out carries no cookie.
LEMMA SentCleared ==
  ASSUME TypeOK, ForgetInv, NEW f \in Flows, NEW place, NEW isPost \in BOOLEAN,
         NEW sub, Send(f, place, isPost, sub)
  PROVE  \A g \in Flows : wire'[g] # None => Cleared(wire'[g])
<1>1. PICK w :
        /\ w = [at |-> place.at, post |-> isPost, params |-> place.params,
                sub |-> sub,
                cookies |-> IF isPost THEN [sub |-> Blank, claims |-> Blank]
                            ELSE [sub |-> CookieSent(place.at, "sub"),
                                  claims |-> CookieSent(place.at, "claims")],
                signedOut |-> ~isPost /\ signedOut]
        /\ wire' = [wire EXCEPT ![f] = w]
  BY DEF Send
<1>2. Cleared(w)
  <2> SUFFICES ASSUME w.signedOut
               PROVE  w.cookies.sub = Blank /\ w.cookies.claims = Blank
    BY DEF Cleared
  <2>1. ~isPost /\ signedOut
    BY <1>1
  <2>2. CookieSent(place.at, "sub") = Blank /\ CookieSent(place.at, "claims") = Blank
    BY <2>1 DEF ForgetInv, CookieSent
  <2> QED
    BY <1>1, <2>1, <2>2
<1> QED
  BY <1>1, <1>2 DEF TypeOK, ForgetInv

\* A response, and the code it may carry.
LEMMA AnsweredCleared ==
  ASSUME TypeOK, ForgetInv, NEW f \in Flows, wire[f] # None, NEW reply, Land(f, reply),
         UNCHANGED <<jar, signedOut>>,
         \A c \in issued' : c \in issued \/ c.request = wire[f]
  PROVE  ForgetInv'
<1>1. \A g \in Flows : wire'[g] = wire[g] \/ wire'[g] = None
  BY DEF Land, TypeOK
<1> QED
  BY <1>1 DEF ForgetInv, Cleared

LEMMA NextForgets ==
  CookiePaths \subseteq {Root} =>
    (IInv /\ ForgetInv /\ [Next]_vars => ForgetInv')
<1> SUFFICES ASSUME CookiePaths \subseteq {Root}, IInv, ForgetInv, [Next]_vars
             PROVE  ForgetInv'
  OBVIOUS
<1>1. TypeOK
  BY DEF IInv
<1>2. CASE SetCookie
  BY <1>2 DEF SetCookie, ForgetInv
<1>3. ASSUME NEW f \in Flows, Navigate(f) \/ Submit(f) \/ PostByHand(f)
      PROVE  ForgetInv'
  <2>1. UNCHANGED <<jar, signedOut, issued>>
    BY <1>3 DEF Navigate, Submit, PostByHand
  <2>2. ASSUME NEW place, NEW isPost \in BOOLEAN, NEW sub, Send(f, place, isPost, sub)
        PROVE  ForgetInv'
    BY <1>1, <2>1, <2>2, SentCleared DEF ForgetInv
  <2>3. CASE Navigate(f)
    <3>1. PICK t \in Targets, q \in Asks(f) : Send(f, [at |-> t, params |-> q], FALSE, Blank)
      BY <2>3 DEF Navigate
    <3>2. PICK place : place = [at |-> t, params |-> q]
      OBVIOUS
    <3> QED
      BY <2>2, <3>1, <3>2
  <2>4. CASE Submit(f)
    <3>1. PICK sub : Send(f, page[f], TRUE, sub)
      BY <2>4 DEF Submit
    <3> QED
      BY <2>2, <3>1
  <2>5. CASE PostByHand(f)
    <3>1. PICK t \in Targets, q \in Asks(f), sub \in Subjects :
            \E type \in {q.type, Blank} :
              Send(f, [at |-> t, params |-> [q EXCEPT !.type = type]], TRUE, sub)
      BY <2>5 DEF PostByHand
    <3>2. PICK place : Send(f, place, TRUE, sub)
      BY <3>1
    <3> QED
      BY <2>2, <3>2
  <2> QED
    BY <1>3, <2>3, <2>4, <2>5
<1>4. ASSUME NEW f \in Flows,
             \/ Refuse(f) \/ ShowPage(f) \/ AutoRefuses(f) \/ AutoLogin(f)
             \/ PickerSubmit(f) \/ FormSubmit(f)
      PROVE  ForgetInv'
  <2>1. wire[f] # None /\ UNCHANGED <<jar, signedOut>>
    BY <1>4 DEF Refuse, ShowPage, AutoRefuses, AutoLogin, PickerSubmit, FormSubmit,
                Accepted
  <2>2. PICK reply : Land(f, reply)
    BY <1>4 DEF Refuse, ShowPage, AutoRefuses, AutoLogin, PickerSubmit, FormSubmit,
                CompleteLogin
  <2>3. ASSUME NEW subject, NEW claims, CompleteLogin(f, subject, claims)
        PROVE  \A c \in issued' : c \in issued \/ c.request = wire[f]
    BY <2>3 DEF CompleteLogin
  <2>4. \A c \in issued' : c \in issued \/ c.request = wire[f]
    BY <1>4, <2>3 DEF Refuse, ShowPage, AutoRefuses, AutoLogin, PickerSubmit,
                      FormSubmit
  <2> QED
    BY <1>1, <2>1, <2>2, <2>4, AnsweredCleared
<1>5. ASSUME NEW l \in Logouts, SendLogout(l)
      PROVE  ForgetInv'
  BY <1>5 DEF SendLogout, ForgetInv
<1>6. ASSUME NEW l \in Logouts, EndSession(l)
      PROVE  ForgetInv'
  <2>1. UNCHANGED <<wire, issued>>
    BY <1>6 DEF EndSession
  <2>2. CASE UNCHANGED <<jar, signedOut>>
    BY <2>1, <2>2 DEF ForgetInv
  <2>3. CASE jar' = ClearLoginCookies(logout[l].at)
    <3>1. DOMAIN jar' = {}
      <4> SUFFICES ASSUME NEW k \in DOMAIN jar' PROVE FALSE
        OBVIOUS
      <4>1. k \in DOMAIN jar /\ k # <<"sub", Root>> /\ k # <<"claims", Root>>
        BY <2>3 DEF ClearLoginCookies, MapDelete
      <4>2. k \in {"sub", "claims"} \X {Root}
        BY <1>1, <4>1 DEF TypeOK
      <4> QED
        BY <4>1, <4>2
    <3> QED
      BY <2>1, <3>1 DEF ForgetInv
  <2> QED
    BY <1>6, <2>2, <2>3 DEF EndSession
<1>7. CASE UNCHANGED vars
  BY <1>7 DEF ForgetInv, vars
<1> QED
  BY <1>2, <1>3, <1>4, <1>5, <1>6, <1>7 DEF Next

\* Once a logout is answered at any target of the origin, login: auto means
\* default_user at every one of them, where tests set their cookies at Path "/",
\* the one clearLoginCookies clears.
THEOREM LogoutsForget == CookiePaths \subseteq {Root} /\ Spec => []LogoutForgets
<1>1. Init => ForgetInv
  BY DEF Init, ForgetInv
<1>2. IInv /\ ForgetInv => LogoutForgets
  <2> SUFFICES ASSUME IInv, ForgetInv, NEW c \in issued,
                      c.request.signedOut, config[c.request.at].login = "auto"
               PROVE  c.identity = [subject |-> config[c.request.at].defaultUser,
                                    claims |-> NoClaims]
    BY DEF LogoutForgets
  <2> DEFINE w == c.request
             id == c.identity
  <2>1. LoggedIn(w, id) /\ id = [subject |-> id.subject, claims |-> id.claims]
    BY CodeType DEF Earned
  <2>2. w.cookies.sub = Blank /\ w.cookies.claims = Blank
    BY DEF ForgetInv, Cleared
  <2>3. ~ReadsClaims(w)
    BY <2>2 DEF ReadsClaims
  <2>4. id.subject = SubjectForAuto(w) /\ id.claims = NoClaims
    BY <2>1, <2>3 DEF LoggedIn
  <2>5. SubjectForAuto(w) = config[w.at].defaultUser
    BY <2>2 DEF SubjectForAuto
  <2> QED
    BY <2>1, <2>4, <2>5, Zenon
<1>3. CASE CookiePaths \subseteq {Root}
  <2>1. IInv /\ ForgetInv /\ [Next]_vars => ForgetInv'
    BY <1>3, NextForgets
  <2>2. Spec => []LogoutForgets
    BY <1>1, <1>2, <2>1, AlwaysIInv, PTL DEF Spec
  <2> QED
    BY <2>2, <1>3
<1> QED
  BY <1>3
=============================================================================
