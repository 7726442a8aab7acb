\* Two logins at one client, within one second, that inject different claims.
CONSTANTS
  None = None
  Free = Free
  Unknown = Unknown
  Missing = Missing
  NoIssuer = NoIssuer
  NoClaims = NoClaims
  EmptyClaims = EmptyClaims
  NoTenant = NoTenant
  Issuer = Issuer
  Issuers = {Issuer}
  ResolveIssuer <- MCResolveIssuer
  Registered <- MCRegistered
  Clients = {c1}
  Subjects = {alice}
  Users = {}
  InjectedClaims = {p1, p2}
  AcceptAnyUsername = FALSE
  Unencodable = {}
  AcceptInjectedClaims = TRUE
  Verifiers = {}
  Methods = {}
  Logins = {l1, l2}
  RedirectURIs = {u1}
  CodeTTL = 1
  Requests = {r1, r2, r3}
  AccessTokenFormat = "jwt"
  AccessTokenTTL = 1
  Tamper = {}
  Second = 3
  RefreshMode = "static"
  RequirePKCE = {}
  Errors = {}
  Time = {0}
  Operations = {"exchange", "refresh", "revoke", "userinfo"}
  Mistakes = {}
  alice = alice
  c1 = c1
  l1 = l1
  l2 = l2
  p1 = p1
  p2 = p2
  r1 = r1
  r2 = r2
  r3 = r3
  u1 = u1

SPECIFICATION Spec
INVARIANT UserinfoEchoesIDToken
SYMMETRY Symmetry
CHECK_DEADLOCK FALSE
