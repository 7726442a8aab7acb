\* A target mounted at a path with a trailing slash.
CONSTANTS
  None = None
  Template = Template
  NotAURL = NotAURL
  Pattern = "{x}"
  alice = alice
  bob = bob
  web = web
  spa = spa
  Subjects = {alice, bob}
  Clients = {web, spa}
  Hosts = {"idp", "ingress"}
  Internal = "idp"
  Segments = {"", "oidc", "oidc2", "a", "b", "{x}", ".well-known", "openid-configuration"}
  Paths <- MCPaths
  Configs <- MCTrailingSlash

SPECIFICATION Spec
INVARIANT AnyMountReachesTarget
CHECK_DEADLOCK FALSE
