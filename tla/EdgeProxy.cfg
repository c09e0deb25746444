\* One request while its session is replaced, evicted, shut down or lost.
SPECIFICATION FairSpec
CONSTANTS
  Sessions = {s1, s2}
  Requests = {r1}
  None = None
INVARIANTS
  NeverOnAClosedLink
  ObservationIsTrue
PROPERTIES
  EvictionEndsRequests
  NoStreamLeaks
CHECK_DEADLOCK FALSE
