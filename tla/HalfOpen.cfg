\* One agent alone: its own half-open link costs it the claim.
CONSTANTS
  Subdomains = {app}
  Tokens = {t1}
  Links = {l1, l2, l3, l4}
  None = None
  SupersedeCooldown = 4
  MaxTime = 4
  StoreFails = FALSE
  Agents = {a1}
  Credential = t1
  Delays <- MCDelays
  KeepAlive = 2
  Disturbances = {}
SPECIFICATION AgentSpec
SYMMETRY Symmetry
INVARIANTS
  StopsOnlyWhenBeaten
CHECK_DEADLOCK FALSE
