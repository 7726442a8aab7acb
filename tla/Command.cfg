\* Every way to start, one client, the probe, a signal at any moment.
CONSTANTS
  None = None
  Unset = Unset
  Malformed = Malformed
  Hosts = {"", "0.0.0.0", "::", "localhost", "127.0.0.1", "::1", "192.0.2.1"}
  LoopbackIPs = {"127.0.0.1", "::1"}
  Ports = {"5556", "80"}
  DefaultPort = "5556"
  Conns = {c1}
  Self = self
  MaxRequests = 2
  Invocations <- MCInvocations

SPECIFICATION FairSpec
INVARIANT InFlightIsDrained
INVARIANT ResultIsEarned
INVARIANT PortIsFreed
INVARIANT ExposedOnlyWhenAsked
INVARIANT ProbeFindsListener
PROPERTY SignalEndsProcess
CHECK_DEADLOCK FALSE
