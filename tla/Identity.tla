------------------------------ MODULE Identity ------------------------------
(***************************************************************************)
(* claims.go, target.go, inject.go: who a login is for.  A loginIdentity   *)
(* travels from /authorize through the authorization code and the refresh  *)
(* family to every token minted along that chain; the claims of a          *)
(* configured user are resolved again, per client, at every grant, while   *)
(* those of an injected identity are carried verbatim.                     *)
(***************************************************************************)
CONSTANTS
  Clients,               \* the target's registered clients
  Subjects,              \* every subject a login may name
  Users,                 \* the subjects the config lists under users:
  InjectedClaims,        \* claim sets an authside_claims cookie may carry
  AcceptAnyUsername,     \* accept_any_username
  AcceptInjectedClaims,  \* accept_injected_claims
  Issuers,               \* the strings the issuer template renders to
  ResolveIssuer(_, _, _),\* issuerTmpl.Resolve(subject, client, claims)
  NoIssuer,              \* Resolve's error: a claim the template names is missing
  NoClaims,              \* the nil claims of an identity that is not injected
  EmptyClaims,           \* the empty claim set of lookupUser's synthetic user
  Unencodable            \* the users with a claim value json.Marshal cannot encode

\* The claims of a configured user, whose templates resolveClaims renders for
\* one client.
UserClaims(sub, client) == [user |-> sub, client |-> client]

Claims == {UserClaims(s, c) : s \in Users, c \in Clients}
            \cup InjectedClaims \cup {EmptyClaims}

LoginIdentity ==
  [subject : Subjects, claims : {NoClaims}, injected : {FALSE}]
    \cup [subject : Subjects, claims : InjectedClaims, injected : {TRUE}]

\* lookupUser's ok.
LookupUser(sub) == sub \in Users \/ AcceptAnyUsername

ResolveClaims(sub, client) ==
  IF sub \in Users THEN UserClaims(sub, client) ELSE EmptyClaims

\* claimsFor: its ok result and its claims.  Rendering the claims of a
\* configured user cannot fail here: buildTarget has already rendered them
\* once, and whether a template resolves does not depend on the client.
ClaimsKnown(id) == id.injected \/ LookupUser(id.subject)
ClaimsFor(id, client) ==
  IF id.injected THEN id.claims ELSE ResolveClaims(id.subject, client)

\* The identities /authorize lets through, in any login mode: an injected
\* one on a target that accepts them, a subject lookupUser knows otherwise.
MayLogIn(id) ==
  IF id.injected THEN AcceptInjectedClaims ELSE LookupUser(id.subject)

IssuerFor(id, client) ==
  ResolveIssuer(id.subject, client, ClaimsFor(id, client))

\* Only strings are templates: any other value of a configured claim (.nan, a
\* Go channel) is a literal that nothing looks at before buildIDToken marshals
\* it.  Injected claims were JSON to begin with.  Unencodable are the users with
\* such a value under a name that is no protocol claim's: one under nonce, which
\* the nonce of the exchange replaces but a refresh does not, is in Minting only.
Encodable(id) == id.injected \/ id.subject \notin Unencodable

\* What both grants need of a login before they store anything: its claims, its
\* issuer and, for the ID token, their encoding.  A key that is too small to
\* sign with does not get past keys.New.
Mintable(id, client) ==
  /\ ClaimsKnown(id)
  /\ IssuerFor(id, client) # NoIssuer
  /\ Encodable(id)

ASSUME IdentityAssumption ==
  /\ Users \subseteq Subjects
  /\ Unencodable \subseteq Users
  /\ NoIssuer \notin Issuers
  /\ {AcceptAnyUsername, AcceptInjectedClaims} \subseteq BOOLEAN
  /\ \A s \in Subjects, c \in Clients, cl \in Claims :
       ResolveIssuer(s, c, cl) \in Issuers \cup {NoIssuer}

\* buildTarget dry-runs the issuer template for every configured user before
\* the target serves a request.
ASSUME DryRunAssumption ==
  \A s \in Users, c \in Clients :
    ResolveIssuer(s, c, UserClaims(s, c)) \in Issuers
=============================================================================
