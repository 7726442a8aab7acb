\* errors: {authorize: unsupported_response_type}.
CONSTANTS
  None = None
  Blank = Blank
  Malformed = Malformed
  NoClaims = NoClaims
  Root = Root
  app = app
  other = other
  web = web
  spa = spa
  cb = cb
  spaCb = spaCb
  alice = alice
  bob = bob
  tid = tid
  ch = ch
  openid = openid
  f1 = f1
  o1 = o1
  Targets = {app, other}
  Clients = {web, spa}
  Subjects = {alice, bob, Blank}
  InjectedClaims = {tid}
  Payloads <- MCPayloads
  Queries <- MCQueries
  LogoutQueries <- MCLogoutQueries
  RedirectURIs = {cb, spaCb}
  Challenges = {ch}
  Scopes = {openid}
  Flows = {f1}
  Logouts = {o1}
  MaxSubmits = 2
  Configs <- MCUnknownCode
  CookiePaths = {Root}

SPECIFICATION Spec
INVARIANT ConfiguredErrorIsAnswered
CHECK_DEADLOCK FALSE
