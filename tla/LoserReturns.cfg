\* A loser that missed its close frame is kept away until the cooldown is over.
CONSTANTS
  Subdomains = {app}
  Tokens = {t1}
  Links = {l1, l2, l3}
  None = None
  SupersedeCooldown = 3
  MaxTime = 5
  StoreFails = FALSE
  Agents = {a1, a2}
  Credential = t1
  Delays <- MCDelays
  KeepAlive = 1
  Disturbances = {}
SPECIFICATION AgentSpec
SYMMETRY Symmetry
INVARIANTS
  LoserStaysOut
CHECK_DEADLOCK FALSE
