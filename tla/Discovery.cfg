\* Every pair of issuers and every pair of mounts, small.
CONSTANTS
  None = None
  Template = Template
  NotAURL = NotAURL
  Pattern = "{x}"
  alice = alice
  bob = bob
  web = web
  spa = spa
  Subjects = {alice, bob}
  Clients = {web, spa}
  Hosts = {"idp", "ingress"}
  Internal = "idp"
  Segments = {"", "oidc", "oidc2", "a", "b", "{x}", ".well-known", "openid-configuration"}
  Paths <- MCPaths
  Configs <- MCConfigs

SPECIFICATION Spec
INVARIANT EveryIssuerHasItsDocument
INVARIANT NoDocumentElsewhere
INVARIANT MountsAreDisjoint
INVARIANT RefusedForCause
INVARIANT EndpointsReachTarget
CHECK_DEADLOCK FALSE
