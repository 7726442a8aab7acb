\* Three requests, on one target or outside every mount, with every kind of
\* retention that matters for so many; a status that is final and one that is not.
CONSTANTS
  Requests = {r1, r2, r3}
  Targets = {oidc}
  None = None
  FieldNames = {"sub"}
  Values = {alice}
  Statuses = {103, 503}
  Retentions <- MCRetentions
  Time = {0, 1}

SPECIFICATION Spec
INVARIANT AnsweredIsLogged
INVARIANT StampedAfterMinting
PROPERTY KeepsRecent
CONSTRAINT OneOfEach
SYMMETRY Symmetry
CHECK_DEADLOCK FALSE
