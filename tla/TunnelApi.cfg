\* Two callers with any sequence of requests, and one agent's link, contend
\* for one subdomain and the lock; the writes of the link's handler succeed.
CONSTANTS
  Subdomains = {app}
  Tokens = {t1}
  Links = {l1}
  Callers = {c1, c2}
  None = None
  SupersedeCooldown = 1
  MaxTime = 0
  StoreFails = FALSE
SPECIFICATION ApiFairSpec
INVARIANTS
  AnswersStayTrue
  ViewsAreConsistent
PROPERTIES
  EndedLinkLeaves
  RequestsAreAnswered
