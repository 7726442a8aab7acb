\* Three token requests over one login of two clients: races for a code, wrong
\* secrets and verifiers, another redirect_uri, a code that expires meanwhile.
CONSTANTS
  None = None
  Free = Free
  Unknown = Unknown
  Missing = Missing
  NoIssuer = NoIssuer
  NoClaims = NoClaims
  EmptyClaims = EmptyClaims
  NoTenant = NoTenant
  Issuer = Issuer
  Issuers = {Issuer}
  ResolveIssuer <- MCResolveIssuer
  Registered <- MCRegistered
  Clients = {c1, c2}
  Subjects = {alice}
  Users = {alice}
  InjectedClaims = {}
  AcceptAnyUsername = FALSE
  Unencodable = {}
  AcceptInjectedClaims = FALSE
  Verifiers = {v1}
  Methods = {"S256"}
  Logins = {l1}
  RedirectURIs = {u1, u2}
  CodeTTL = 0
  Requests = {r1, r2, r3}
  AccessTokenFormat = "opaque"
  AccessTokenTTL = 1
  Tamper = {}
  Second = 1
  RefreshMode = "rotate"
  RequirePKCE = {}
  Errors = {}
  Time = {0, 1}
  Operations = {"exchange", "refresh"}
  Mistakes = {"secret", "missing", "grant"}
  alice = alice
  c1 = c1
  c2 = c2
  l1 = l1
  r1 = r1
  r2 = r2
  r3 = r3
  u1 = u1
  u2 = u2
  v1 = v1

SPECIFICATION Spec
INVARIANT TypeOK
INVARIANT SingleUse
INVARIANT SpentByOwner
SYMMETRY Symmetry
CHECK_DEADLOCK FALSE
