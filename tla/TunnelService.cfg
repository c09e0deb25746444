\* One subdomain, three links: a takeover, a second takeover, late losses.
CONSTANTS
  Subdomains = {app}
  Tokens = {t1, t2}
  Links = {l1, l2, l3}
  None = None
  SupersedeCooldown = 2
  MaxTime = 2
  StoreFails = TRUE
SPECIFICATION Spec
SYMMETRY Symmetry
INVARIANTS
  AuditTellsStatus
  AuditIsALifecycle
  NeverPanics
  MarkMeansTakeover
  TakeoversAreSpaced
  RoutesToHolder
  NoOrphanedLink
  ReasonsAreTrue
PROPERTIES
  ServiceEndsForAReason
