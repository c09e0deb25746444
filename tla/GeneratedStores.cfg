\* Three publications of two flags: creation races, updates from one basis, a
\* chain of revisions, and publications of different flags that share the counter.
CONSTANTS
  Keys = {1, 2}
  Requests = {1, 2, 3}
  Expected = {0, 1, 2}
  None = None
  MaxRetries = 1
SPECIFICATION FairSpec
CONSTRAINT InOrder
CHECK_DEADLOCK FALSE
INVARIANTS
  AuditKeepsOrder
PROPERTIES
  ImplementsAuthority
  PublicationsReturn
