\* Two flags, two publishers that race, retry and overtake each other.
CONSTANTS
  Keys = {dark, beta}
  Definitions = {d1, d2}
  Publishers = {p1, p2}
  Clients = {c1}
  None = None
  MaxRevision = 2
SPECIFICATION FairSpec
INVARIANTS
  NoLostUpdate
  AnsweredIsVisible
  ETagNamesOneResponse
PROPERTIES
  ImplementsRegister
  PublishedIsEvaluated
