\* Three requests over two logins at two clients, of a configured user or with
\* claims of the login's own; JWT access tokens with a tampered aud that coincide
\* within three ticks of the clock; static refresh tokens.
CONSTANTS
  None = None
  Free = Free
  Unknown = Unknown
  Missing = Missing
  NoIssuer = NoIssuer
  NoClaims = NoClaims
  EmptyClaims = EmptyClaims
  NoTenant = NoTenant
  Issuer = Issuer
  Issuers = {Issuer}
  ResolveIssuer <- MCResolveIssuer
  Registered <- MCRegistered
  Clients = {c1, c2}
  Subjects = {alice}
  Users = {alice}
  InjectedClaims = {p1}
  AcceptAnyUsername = FALSE
  Unencodable = {}
  AcceptInjectedClaims = TRUE
  Verifiers = {}
  Methods = {}
  Logins = {l1, l2}
  RedirectURIs = {u1}
  CodeTTL = 1
  Requests = {r1, r2, r3}
  AccessTokenFormat = "jwt"
  AccessTokenTTL = 1
  Tamper = {"aud"}
  Second = 3
  RefreshMode = "static"
  RequirePKCE = {}
  Errors = {}
  Time = {0, 1, 2}
  Operations = {"exchange", "refresh", "revoke", "userinfo"}
  Mistakes = {}
  alice = alice
  c1 = c1
  c2 = c2
  l1 = l1
  l2 = l2
  p1 = p1
  r1 = r1
  r2 = r2
  r3 = r3
  u1 = u1

SPECIFICATION Spec
INVARIANT NoOrphanAccessToken
INVARIANT UserinfoAnswersLogin
INVARIANT ChainKeepsIdentity
INVARIANT SessionMatchesToken
PROPERTY EndedByOwner
SYMMETRY Symmetry
CHECK_DEADLOCK FALSE
