\* Two links in every stage of a request while the server shuts down or dies,
\* with a store whose calls may fail.
CONSTANTS
  Subdomains = {app}
  Tokens = {t1}
  Links = {l1, l2}
  None = None
  SupersedeCooldown = 1
  MaxTime = 1
  StoreFails = TRUE
SPECIFICATION HandlerSpec
INVARIANTS
  RoutedLinksAreTracked
  ShutdownIsRecorded
PROPERTIES
  NoLinkWritesAfterShutdown
  ShutdownTerminates
