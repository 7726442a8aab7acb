---------------------------- MODULE MCDiscovery ----------------------------
(* Instances of Discovery for TLC.                                         *)
EXTENDS Discovery

CONSTANTS alice, bob, web, spa

At(host, path) == [origin |-> [scheme |-> "http", host |-> host], path |-> path]

\* Every login at one issuer.
One(issuer) == [l \in Subjects \X Clients |-> issuer]
PerUser(a, b) == [l \in Subjects \X Clients |-> IF l[1] = alice THEN a ELSE b]
PerClient(w, s) == [l \in Subjects \X Clients |-> IF l[2] = web THEN w ELSE s]

Nowhere == [which \in {"browser", "internal"} |-> None]

Base ==
  [mount |-> <<"oidc">>, discovery |-> "per_issuer", fails |-> FALSE, broken |-> {},
   users |-> <<alice, bob>>, clients |-> <<web, spa>>,
   issuers |-> One(At("idp", <<"oidc">>)), advertise |-> Nowhere]

Mounts == {<<"">>, <<"oidc">>, <<"oidc", "">>, <<"oidc2">>, <<"oidc", "a">>}

\* At, below and outside the mount, with and without a trailing slash, a tenant
\* with a pattern character, and one whose host is another's.
Issuers ==
  {At("idp", p) : p \in {<<>>, <<"oidc">>, <<"oidc", "">>, <<"oidc", "a">>, <<"oidc", "a", "">>,
                         <<"oidc", "b">>, <<"oidc2", "a">>, <<"oidc", Pattern>>}}
  \cup {At("ingress", <<"oidc", "a">>)}

\* One target, its users' issuers in every combination, its clients' in some.
Singles ==
  {<<[Base EXCEPT !.mount = m, !.issuers = i]>> :
     m \in Mounts, i \in {PerUser(a, b) : a, b \in Issuers}}
  \cup {<<[Base EXCEPT !.mount = m, !.issuers = PerClient(a, b)]>> :
          m \in {<<"oidc">>}, a, b \in Issuers}
  \cup {<<[Base EXCEPT !.discovery = d, !.issuers = PerUser(At("idp", <<"oidc">>), i)]>> :
          d \in {"shared", "per_issuer"}, i \in {None, NotAURL}}
  \cup {<<[Base EXCEPT !.broken = x]>> : x \in SUBSET {"syntax", "key"}}
  \cup {<<[Base EXCEPT !.broken = {"key"}, !.issuers = One(None)]>>,
        <<[Base EXCEPT !.users = <<>>]>>, <<[Base EXCEPT !.fails = TRUE]>>,
        <<[Base EXCEPT !.mount = <<"oidc", "a">>, !.discovery = "off"]>>}

\* A second target, of the other kind, at every mount.
Twos ==
  {<<[Base EXCEPT !.mount = m, !.issuers = One(At("idp", <<"oidc", "a">>))],
     [Base EXCEPT !.mount = n, !.discovery = "shared",
                  !.advertise = [Nowhere EXCEPT !["browser"] = At("ingress", <<"oidc", "">>)]]>> :
     m, n \in Mounts}

MCConfigs == Singles \cup Twos

\* A target at "/oidc/".
MCTrailingSlash == {<<[Base EXCEPT !.mount = <<"oidc", "">>, !.discovery = "shared"]>>}

\* The paths of two segments, and the documents that may be there.
MCPaths ==
  LET short == {<<>>} \cup {<<s>> : s \in Segments} \cup {<<s, t>> : s, t \in Segments \ {Pattern}}
  IN short \cup {p \o WellKnown : p \in {q \in short : Range(q) \cap Range(WellKnown) = {}}}
=============================================================================
