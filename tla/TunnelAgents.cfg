\* Two agents, two takeovers, writes that fail, and an operator who revokes,
\* stops or loses the server.  Audit rows and links that everyone has left are
\* told apart no further than the properties can.
CONSTANTS
  Subdomains = {app}
  Tokens = {t1}
  Links = {l1, l2, l3}
  None = None
  SupersedeCooldown = 2
  MaxTime = 2
  StoreFails = TRUE
  Agents = {a1, a2}
  Credential = t1
  Delays <- MCOneDelay
  KeepAlive = 1
  Disturbances = {"revoke", "shutdown", "crash"}
SPECIFICATION AgentSpec
SYMMETRY Symmetry
VIEW Seen
CONSTRAINT Contested
INVARIANTS
  StopsOnlyByTakeover
  SomeAgentSurvives
CHECK_DEADLOCK FALSE
