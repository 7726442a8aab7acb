\* The revoked family whose JWT access token a second login minted again.
CONSTANTS
  None = None
  Free = Free
  Unknown = Unknown
  Missing = Missing
  NoIssuer = NoIssuer
  NoClaims = NoClaims
  EmptyClaims = EmptyClaims
  NoTenant = NoTenant
  Issuer = Issuer
  Issuers = {Issuer}
  ResolveIssuer <- MCResolveIssuer
  Registered <- MCRegistered
  Clients = {c1}
  Subjects = {alice}
  Users = {alice}
  InjectedClaims = {}
  AcceptAnyUsername = FALSE
  Unencodable = {}
  AcceptInjectedClaims = FALSE
  Verifiers = {}
  Methods = {}
  Logins = {l1, l2}
  RedirectURIs = {u1}
  CodeTTL = 1
  Requests = {r1, r2, r3, r4}
  AccessTokenFormat = "jwt"
  AccessTokenTTL = 1
  Tamper = {}
  Second = 1
  RefreshMode = "rotate"
  RequirePKCE = {}
  Errors = {}
  Time = {0}
  Operations = {"exchange", "refresh", "revoke", "userinfo"}
  Mistakes = {}
  alice = alice
  c1 = c1
  l1 = l1
  l2 = l2
  r1 = r1
  r2 = r2
  r3 = r3
  r4 = r4
  u1 = u1

SPECIFICATION Spec
INVARIANT RevokedFamilyIsDead
SYMMETRY Symmetry
CHECK_DEADLOCK FALSE
