\* Every way to configure tokens, a server that restarts and the command beside it.
CONSTANTS
  None = None
  Text = Text
  NotJSON = NotJSON
  BadKey = BadKey
  web = web
  spa = spa
  alice = alice
  bob = bob
  k1 = k1
  k2 = k2
  issuer = issuer
  openid = openid
  n1 = n1
  Names = {"one", "two"}
  Issuers = {issuer}
  Clients = {web, spa}
  Subjects = {alice, bob}
  Nonces = {n1}
  Scopes = {openid}
  Keys = {k1, k2}
  ClaimNames = {"sub", "aud", "nonce", "nbf", "tid"}
  Second = 2
  Leeway = 1
  MaxTime = 3
  MaxMints = 2
  MaxProcesses = 3
  Configs <- MCConfigs
  Injected <- MCInjected

SPECIFICATION Spec
INVARIANT DefectsAreAskedFor
INVARIANT VerifiesWhereItShould
INVARIANT MintMatchesLogin
CHECK_DEADLOCK FALSE
