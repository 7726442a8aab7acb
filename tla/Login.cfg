\* Two targets of one origin, in every login mode: cookies meant for the other
\* target, pages that fail and are submitted again, logouts in between.
CONSTANTS
  None = None
  Blank = Blank
  Malformed = Malformed
  NoClaims = NoClaims
  Root = Root
  app = app
  other = other
  web = web
  spa = spa
  cb = cb
  spaCb = spaCb
  alice = alice
  bob = bob
  tid = tid
  ch = ch
  openid = openid
  f1 = f1
  o1 = o1
  Targets = {app, other}
  Clients = {web, spa}
  Subjects = {alice, bob, Blank}
  InjectedClaims = {tid}
  Payloads <- MCPayloads
  Queries <- MCQueries
  LogoutQueries <- MCLogoutQueries
  RedirectURIs = {cb, spaCb}
  Challenges = {ch}
  Scopes = {openid}
  Flows = {f1}
  Logouts = {o1}
  MaxSubmits = 2
  Configs <- MCConfigs
  CookiePaths = {Root}

SPECIFICATION Spec
INVARIANT ParamsSurvive
INVARIANT CookiesDecide
INVARIANT LogoutForgets
INVARIANT OnlyAdmissibleLogins
INVARIANT RedirectsOnlyToRegistered
CHECK_DEADLOCK FALSE
