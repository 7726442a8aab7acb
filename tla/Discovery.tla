----------------------------- MODULE Discovery -----------------------------
(***************************************************************************)
(* Where requests go and what discovery documents say: config.Validate's   *)
(* check of the mounts, the enumeration of per-subject issuers when a      *)
(* target is built, the two routers, and GET                               *)
(* {issuer}/.well-known/openid-configuration.                              *)
(*                                                                         *)
(* A path is the sequence of what follows each of its slashes: "/oidc" is  *)
(* <<"oidc">>, "/oidc/" is <<"oidc", "">>, "/" is <<"">> and "" is <<>>, so *)
(* a string prefix that ends at a slash is a prefix of the sequence.       *)
(* Segments are what URL decoding makes of them.                           *)
(***************************************************************************)
EXTENDS Integers, Sequences, SequencesExt

CONSTANTS
  Configs,     \* the configurations of this instance, each a sequence of targets
  Segments,    \* the segments of paths, "" included
  Pattern,     \* a segment with one of chi's pattern characters, {, } or *
  Subjects, Clients,
  Hosts,       \* the hosts of issuers and of requests
  Internal,    \* the host by which an ingress reaches authside
  Paths,       \* bound: the paths clients try beside the issuers' own
  Template,    \* an issuer with its placeholders unresolved
  NotAURL,     \* an issuer url.Parse refuses
  None

WellKnown == <<".well-known", "openid-configuration">>
Path == Seq(Segments)
Origin == [scheme : {"http", "https"}, host : Hosts]
URL == [origin : Origin, path : Path]

\* The issuer each login renders to is a table: the template with the claims of
\* the user, which may depend on the client; None is a claim that is missing.
\* broken is what cannot be read: the syntax of a template, the issuer's or a
\* claim's, or the key.
TargetConfig ==
  [mount : Path, discovery : {"shared", "per_issuer", "off"}, fails : BOOLEAN,
   broken : SUBSET {"syntax", "key"},
   users : Seq(Subjects), clients : Seq(Clients),
   issuers : [Subjects \X Clients -> URL \cup {None, NotAURL}],
   advertise : [{"browser", "internal"} -> URL \cup {None}]]

\* What the rest of config.Validate sees to: a mount starts with a slash, there
\* is a client, and no user or client is listed twice.  The last two conjuncts are
\* restrictions of the model: no mount has one of chi's pattern characters, which
\* Validate lets through, and whether a claim is missing does not depend on the
\* client.
ASSUME DiscoveryAssumption ==
  /\ {"", Pattern} \subseteq Segments /\ Range(WellKnown) \subseteq Segments
  /\ Pattern \notin {""} \cup Range(WellKnown)
  /\ Internal \in Hosts
  /\ Paths \subseteq Path
  /\ None \notin Path \cup Hosts \cup {"http", "https"}
  /\ None \notin {"syntax", "template", "key", "url", "outside", "pattern"}
  /\ NotAURL \notin URL /\ NotAURL # None
  /\ Configs \subseteq Seq(TargetConfig)
  /\ \A config \in Configs : config # <<>> /\ \A n \in DOMAIN config :
       LET t == config[n]
       IN /\ t.mount # <<>>
          /\ t.clients # <<>> /\ IsInjective(t.clients) /\ IsInjective(t.users)
          /\ Pattern \notin Range(t.mount)
          /\ \A u \in Subjects, c, d \in Clients :
               t.issuers[u, c] = None <=> t.issuers[u, d] = None

VARIABLES
  config,   \* cfg.Targets
  pc,       \* "validate", "build", "enumerate", "serving", "refused"
  reason,   \* why authside.New returned an error
  building, \* the target being built
  cursor,   \* the (user, client) pairs enumerated for it
  routes,   \* each target's perIssuer routes, in order
  answer    \* a GET and the document it got

vars == <<config, pc, reason, building, cursor, routes, answer>>

Document ==
  [target : Nat, issuer : URL \cup {Template},
   base : [{"browser", "internal"} -> URL]]

TypeOK ==
  /\ config \in Configs
  /\ pc \in {"validate", "build", "enumerate", "serving", "refused"}
  /\ reason \in {"mounts", "syntax", "template", "key", "url", "outside", "pattern",
                 "collision", "empty", None}
  /\ building \in 1 .. Len(config) + 1
  /\ cursor \in Nat
  /\ routes \in [DOMAIN config -> Seq([issuer : URL, route : Path])]
  /\ answer # None => answer.asked \in URL /\ answer.doc \in Document \cup {None}

Init ==
  /\ config \in Configs
  /\ pc = "validate" /\ reason = None
  /\ building = 1 /\ cursor = 0
  /\ routes = [n \in DOMAIN config |-> <<>>]
  /\ answer = None

-----------------------------------------------------------------------------
(* Paths.                                                                  *)

\* strings.TrimSuffix(p, "/")
TrimSlash(p) == IF p # <<>> /\ Last(p) = "" THEN Front(p) ELSE p

\* strings.TrimRight(p, "/")
TrimSlashes(p) ==
  LET kept == {n \in DOMAIN p : p[n] # ""}
  IN SubSeq(p, 1, IF kept = {} THEN 0 ELSE CHOOSE n \in kept : \A m \in kept : m <= n)

NormalizeMount(m) == IF m = <<"">> THEN m ELSE TrimSlash(m)

\* Mutant: the root mount is treated like the others.
MountsCollideButRoot(a, b) ==
  LET an == NormalizeMount(a)
      bn == NormalizeMount(b)
  IN an = bn \/ IsPrefix(an, bn) \/ IsPrefix(bn, an)

MountsCollide(a, b) ==
  LET an == NormalizeMount(a)
      bn == NormalizeMount(b)
  IN an = bn \/ <<"">> \in {an, bn} \/ IsPrefix(an, bn) \/ IsPrefix(bn, an)

\* pathBelowMount
PathBelowMount(mount, issuerPath) ==
  LET m == TrimSlash(mount)
      p == TrimSlash(issuerPath)
  IN IF IsPrefix(m, p) THEN SubSeq(p, Len(m) + 1, Len(p)) ELSE None

-----------------------------------------------------------------------------
(* authside.New.                                                           *)

Refuse(why) == pc' = "refused" /\ reason' = why

\* checkMountCollisions, of all that Validate checks.
Validate ==
  /\ pc = "validate"
  /\ IF \E m, n \in DOMAIN config :
          m # n /\ MountsCollide(config[m].mount, config[n].mount)
       THEN Refuse("mounts")
       ELSE pc' = "build" /\ UNCHANGED reason
  /\ UNCHANGED <<config, building, cursor, routes, answer>>

Target == config[building]

\* The errors of tmpl.Parse and prepareUser, of the dry run of every user's issuer
\* and of keys.New.
Unbuildable(t) ==
  IF "syntax" \in t.broken THEN "syntax"
  ELSE IF \E u \in Range(t.users), c \in Clients : t.issuers[u, c] = None THEN "template"
  ELSE IF "key" \in t.broken THEN "key"
  ELSE None

\* buildTarget up to the enumeration.
Build ==
  /\ pc = "build" /\ building <= Len(config)
  /\ IF Unbuildable(Target) # None
       THEN Refuse(Unbuildable(Target)) /\ UNCHANGED building
     ELSE IF Target.discovery = "per_issuer"
       THEN pc' = "enumerate" /\ UNCHANGED <<reason, building>>
     ELSE building' = building + 1 /\ UNCHANGED <<pc, reason>>
  /\ cursor' = 0
  /\ UNCHANGED <<config, routes, answer>>

Pairs == Len(Target.users) * Len(Target.clients)

\* The issuer of the next (user, client) pair, clients within users.
NextIssuer ==
  Target.issuers[Target.users[(cursor \div Len(Target.clients)) + 1],
                 Target.clients[(cursor % Len(Target.clients)) + 1]]

Suffix(issuer) == PathBelowMount(Target.mount, issuer.path)

\* Mutant: chi's pattern characters go into the route.
UnusableUnderMount(issuer) ==
  IF issuer = NotAURL THEN "url"
  ELSE IF Suffix(issuer) = None THEN "outside"
  ELSE None

\* perIssuerRouteFor's errors.
Unusable(issuer) ==
  IF issuer = NotAURL THEN "url"
  ELSE IF Suffix(issuer) = None THEN "outside"
  ELSE IF Pattern \in Range(Suffix(issuer)) THEN "pattern"
  ELSE None

\* Mutant: the first issuer to claim a route keeps it.
ContestedNever(issuer, route) == FALSE

\* Mutant: two logins of one issuer collide.
ContestedByItself(issuer, route) ==
  \E n \in DOMAIN routes[building] : routes[building][n].route = route

\* byRoute has another issuer for this route.
Contested(issuer, route) ==
  \E n \in DOMAIN routes[building] :
    routes[building][n].route = route /\ routes[building][n].issuer # issuer

\* One iteration of enumeratePerIssuerRoutes.
Enumerate ==
  /\ pc = "enumerate" /\ cursor < Pairs
  /\ LET route == Suffix(NextIssuer) \o WellKnown
         new == [issuer |-> NextIssuer, route |-> route]
     IN IF Unusable(NextIssuer) # None
          THEN Refuse(Unusable(NextIssuer)) /\ UNCHANGED routes
        ELSE IF Contested(NextIssuer, route)
          THEN Refuse("collision") /\ UNCHANGED routes
        ELSE /\ routes' = IF \E n \in DOMAIN routes[building] :
                              routes[building][n].route = route
                            THEN routes
                            ELSE [routes EXCEPT ![building] = Append(@, new)]
             /\ UNCHANGED <<pc, reason>>
  /\ cursor' = cursor + 1
  /\ UNCHANGED <<config, building, answer>>

Enumerated ==
  /\ pc = "enumerate" /\ cursor = Pairs
  /\ IF routes[building] = <<>>
       THEN Refuse("empty") /\ UNCHANGED building
       ELSE pc' = "build" /\ building' = building + 1 /\ UNCHANGED reason
  /\ UNCHANGED <<config, cursor, routes, answer>>

Serve ==
  /\ pc = "build" /\ building = Len(config) + 1
  /\ pc' = "serving"
  /\ UNCHANGED <<config, reason, building, cursor, routes, answer>>

-----------------------------------------------------------------------------
(* Requests.                                                               *)

\* chi's Mount: m, m/ and m/*, or only m* when m ends in a slash.
UnderMount(m, p) ==
  IsPrefix(TrimSlash(m), p) /\ (m = TrimSlash(m) \/ Len(p) > Len(TrimSlash(m)))

\* What the mounted router sees of the path.
RoutePath(m, p) ==
  LET rest == SubSeq(p, Len(TrimSlash(m)) + 1, Len(p))
  IN IF rest = <<>> THEN <<"">> ELSE rest

\* A chi route matches a path of as many segments, {...} anything.
Matches(route, p) ==
  /\ Len(route) = Len(p)
  /\ \A n \in DOMAIN p : route[n] \in {p[n], Pattern}

\* The issuers of the documents target n serves for a path below its mount.
IssuersAt(n, p) ==
  CASE config[n].discovery = "shared" -> IF p = WellKnown THEN {Template} ELSE {}
    [] config[n].discovery = "off" -> {}
    [] config[n].discovery = "per_issuer" ->
         {routes[n][k].issuer : k \in {k \in DOMAIN routes[n] : Matches(routes[n][k].route, p)}}

Endpoints ==
  [browser |-> {"authorize", "end_session"},
   internal |-> {"token", "jwks", "userinfo", "revocation"}]

\* A request with the headers a direct client, an ingress that keeps the Host
\* and one that replaces it send for one and the same URL.
Requests(url) ==
  {[tls |-> url.origin.scheme = "https", host |-> url.origin.host,
    forwardedProto |-> None, forwardedHost |-> None, path |-> url.path],
   [tls |-> FALSE, host |-> url.origin.host,
    forwardedProto |-> url.origin.scheme, forwardedHost |-> None, path |-> url.path],
   [tls |-> FALSE, host |-> Internal, forwardedProto |-> url.origin.scheme,
    forwardedHost |-> url.origin.host, path |-> url.path]}

\* Mutant: X-Forwarded-Host is not honoured.
RequestBaseOfHost(req) ==
  [scheme |-> IF req.forwardedProto # None THEN req.forwardedProto
              ELSE IF req.tls THEN "https" ELSE "http",
   host |-> req.host]

RequestBase(req) ==
  [scheme |-> IF req.forwardedProto # None THEN req.forwardedProto
              ELSE IF req.tls THEN "https" ELSE "http",
   host |-> IF req.forwardedHost # None THEN req.forwardedHost ELSE req.host]

BaseURL(t, req, which) ==
  IF t.advertise[which] # None
    THEN [t.advertise[which] EXCEPT !.path = TrimSlashes(@)]
    ELSE [origin |-> RequestBase(req), path |-> t.mount]

DiscoveryDocument(n, req, issuer) ==
  [target |-> n, issuer |-> issuer,
   base |-> [which \in {"browser", "internal"} |-> BaseURL(config[n], req, which)]]

\* The documents a request may be answered with; none is a 404, or the error
\* the target's errors: has for discovery.
Documents(req) ==
  UNION {{DiscoveryDocument(n, req, issuer) :
            issuer \in IssuersAt(n, RoutePath(config[n].mount, req.path))} :
         n \in {n \in DOMAIN config :
                  UnderMount(config[n].mount, req.path) /\ ~config[n].fails}}

\* go-oidc's NewProvider, and what a person writes.
DiscoveryURL(issuer) == [issuer EXCEPT !.path = TrimSlash(@) \o WellKnown]

Logins(t) == Range(t.users) \X Range(t.clients)
IssuerURLs ==
  UNION {{DiscoveryURL(i) :
            i \in {config[n].issuers[l] : l \in Logins(config[n])} \ {NotAURL}} :
         n \in DOMAIN config}

\* The one GET of a behaviour: a target keeps nothing from one to the next.
Fetch ==
  /\ pc = "serving" /\ answer = None
  /\ \E url \in IssuerURLs \cup [origin : Origin, path : Paths] :
       \E req \in Requests(url) :
         \E doc \in Documents(req) \cup (IF Documents(req) = {} THEN {None} ELSE {}) :
           answer' = [asked |-> url, doc |-> doc]
  /\ UNCHANGED <<config, pc, reason, building, cursor, routes>>

Next == Validate \/ Build \/ Enumerate \/ Enumerated \/ Serve \/ Fetch

Spec == Init /\ [][Next]_vars
-----------------------------------------------------------------------------
(* Properties.                                                             *)

\* For every login that configuration provides for, a client that discovers the
\* login's issuer gets one document, of that issuer's target, and it names the
\* issuer: vanilla discovery works (enumeratePerIssuerRoutes).
EveryIssuerHasItsDocument ==
  pc = "serving" =>
    \A n \in DOMAIN config : \A l \in Logins(config[n]) :
      config[n].discovery = "per_issuer" /\ ~config[n].fails =>
        \A req \in Requests(DiscoveryURL(config[n].issuers[l])) :
          /\ Cardinality(Documents(req)) = 1
          /\ \A doc \in Documents(req) :
               doc.target = n /\ doc.issuer = config[n].issuers[l]

\* No other path has a per-issuer document: one is found only where its issuer
\* says, so a tenant that is not configured has none (README on per-issuer
\* discovery; perIssuerRouteFor on chi's pattern characters).
NoDocumentElsewhere ==
  answer # None /\ answer.doc # None /\ answer.doc.issuer # Template =>
    /\ answer.asked.path = DiscoveryURL(answer.doc.issuer).path
    /\ \E l \in Logins(config[answer.doc.target]) :
         config[answer.doc.target].issuers[l] = answer.doc.issuer

Shared(m, n) ==
  \E p \in Paths : UnderMount(config[m].mount, p) /\ UnderMount(config[n].mount, p)

\* Two targets never both claim a path: no request is ambiguous, and no
\* per-issuer route lies in another target's mount (validate.go on not checking
\* per_issuer routes).
MountsAreDisjoint ==
  pc = "serving" => \A m, n \in DOMAIN config : m # n => ~Shared(m, n)

\* As far as mounts, keys and issuers go, authside.New refuses a configuration only
\* for a path two targets would share, a template or a key that cannot be read, a
\* login without issuer, an issuer no document of this target could serve at its
\* own URL, or two issuers with one such URL: "/oidc" and "/oidc2" are fine, and so
\* is one issuer of two users.  What is wrong with an issuer alone is no reason
\* where discovery is not per issuer.
RefusedForCause ==
  pc = "refused" =>
    LET Issuers == {Target.issuers[l] : l \in Logins(Target)}
    IN \/ reason = "mounts" /\ \E m, n \in DOMAIN config : m # n /\ Shared(m, n)
       \/ reason \in {"syntax", "key"} /\ reason \in Target.broken
       \/ reason = "template" /\ None \in Issuers
       \/ /\ Target.discovery = "per_issuer"
          /\ \/ reason = "url" /\ NotAURL \in Issuers
             \/ /\ reason = "outside"
                /\ \E i \in Issuers \ {NotAURL} :
                     ~UnderMount(TrimSlash(Target.mount), TrimSlash(i.path))
             \/ /\ reason = "pattern"
                /\ \E i \in Issuers \ {NotAURL} : Pattern \in Range(i.path)
             \/ /\ reason = "collision"
                /\ \E i, j \in Issuers \ {NotAURL} :
                     i # j /\ DiscoveryURL(i).path = DiscoveryURL(j).path
             \/ reason = "empty" /\ Logins(Target) = {}

\* The endpoints of a document, where advertise does not say otherwise, are at the
\* origin the client used and lead back to the target that served it, from a
\* tenant's document and through an ingress as well (baseURL: the request
\* "tells us an address that demonstrably reaches us").
DocumentLeadsBack(n) ==
  \A which \in {"browser", "internal"} : \A endpoint \in Endpoints[which] :
    LET base == answer.doc.base[which]
        url == [base EXCEPT !.path = Append(@, endpoint)]
    IN config[n].advertise[which] = None =>
         /\ url.origin = answer.asked.origin
         /\ UnderMount(config[n].mount, url.path)
         /\ RoutePath(config[n].mount, url.path) = <<endpoint>>

\* This holds of a mount that does not end in a slash.
EndpointsReachTarget ==
  answer # None /\ answer.doc # None =>
    LET n == answer.doc.target
    IN Last(config[n].mount) # "" => DocumentLeadsBack(n)

\* And would of every mount Validate accepts, were "/oidc/" and "/oidc" the
\* same (normalizeMount, pathBelowMount).
AnyMountReachesTarget ==
  answer # None /\ answer.doc # None => DocumentLeadsBack(answer.doc.target)
=============================================================================
