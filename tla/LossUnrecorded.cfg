\* One write of the store fails while a loss is recorded.
CONSTANTS
  Subdomains = {app}
  Tokens = {t1}
  Links = {l1}
  None = None
  SupersedeCooldown = 1
  MaxTime = 0
  StoreFails = TRUE
SPECIFICATION FairSpec
PROPERTIES
  EndedLinkLeaves
