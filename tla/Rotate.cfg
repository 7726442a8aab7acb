\* Four requests of any kind along one rotating chain of opaque tokens, with
\* identities that have no issuer or claims that cannot be encoded, and goroutines
\* that are scheduled fairly (so without symmetry).
CONSTANTS
  None = None
  Free = Free
  Unknown = Unknown
  Missing = Missing
  NoIssuer = NoIssuer
  NoClaims = NoClaims
  EmptyClaims = EmptyClaims
  NoTenant = NoTenant
  Issuer = Issuer
  Issuers = {Issuer}
  ResolveIssuer <- MCResolveIssuer
  Registered <- MCRegistered
  Clients = {c1}
  Subjects = {alice, bob}
  Users = {alice, bob}
  InjectedClaims = {NoTenant}
  AcceptAnyUsername = FALSE
  Unencodable = {bob}
  AcceptInjectedClaims = TRUE
  Verifiers = {}
  Methods = {}
  Logins = {l1}
  RedirectURIs = {u1}
  CodeTTL = 1
  Requests = {r1, r2, r3, r4}
  AccessTokenFormat = "opaque"
  AccessTokenTTL = 1
  Tamper = {}
  Second = 1
  RefreshMode = "rotate"
  RequirePKCE = {}
  Errors = {}
  Time = {0}
  Operations = {"exchange", "refresh", "revoke", "userinfo"}
  Mistakes = {}
  alice = alice
  bob = bob
  c1 = c1
  l1 = l1
  r1 = r1
  r2 = r2
  r3 = r3
  r4 = r4
  u1 = u1

SPECIFICATION FairSpec
INVARIANT OneLiveRefreshToken
 
INVARIANT ReuseRevokesFamily
INVARIANT RevokedForCause
INVARIANT RevokedFamilyIsDead
INVARIANT RevocationSticks
 
PROPERTY KeepsContract
PROPERTY KeepsFairContract
PROPERTY EveryRequestAnswered
CHECK_DEADLOCK FALSE
