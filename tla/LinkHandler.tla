---------------------------- MODULE LinkHandler ----------------------------
(***************************************************************************)
(* The accept handler that drives the service: it refuses requests once    *)
(* shutdown began, tracks every upgraded session so that Shutdown can wait *)
(* for it, attaches it, waits for it to end, reports the loss and untracks *)
(* it (specimens/ingress-tunnel/internal/link/accept.go).  The composition *)
(* root closes the store once Shutdown has returned.                       *)
(***************************************************************************)
EXTENDS TunnelService

VARIABLES
  tracked,  \* Handler.live, which is also what the wait group counts
  shut      \* where Shutdown is; closing is closed unless it is "running"

hvars == <<vars, tracked, shut>>

ShutStages == {"running", "waiting", "cutting", "returned"}
Closing == shut # "running"

HandlerTypeOK == TypeOK /\ tracked \in SUBSET Links /\ shut \in ShutStages

HandlerInit == Init /\ tracked = {} /\ shut = "running"

-----------------------------------------------------------------------------
(* ServeHTTP before the upgrade.                                            *)
RejectClosing(l) ==
  /\ Closing
  /\ stage[l] = "idle"
  /\ Leave(l, "unavailable")
  /\ UNCHANGED <<durable, volatile, mu, held, gen, done, now, boot, tracked, shut>>

(* A request that passed the closing check goes on, however late it gets to *)
(* the store: nothing looks at closing again before track does.             *)
ServeRequest(l, t) ==
  /\ \/ Lookup(l, t)    \/ LookupRefused(l, t)  \/ LookupFails(l)
     \/ Authenticate(l) \/ AuthenticateRefused(l)
  /\ UNCHANGED <<tracked, shut>>

(* Upgrading or multiplexing fails and the request ends.                    *)
UpgradeFails(l) ==
  /\ stage[l] = "authorised"
  /\ l \notin tracked
  /\ stage' = [stage EXCEPT ![l] = "refused"]
  /\ UNCHANGED <<durable, volatile, mu, held, gen, told, done, now, boot, tracked, shut>>

(* Mutant: track trusts the closing check at the top of ServeHTTP.          *)
TrackTrustsGate(l) ==
  /\ stage[l] = "authorised"
  /\ l \notin tracked
  /\ tracked' = tracked \cup {l}
  /\ UNCHANGED <<vars, shut>>

Track(l) ==
  /\ stage[l] = "authorised"
  /\ l \notin tracked
  /\ ~Closing
  /\ tracked' = tracked \cup {l}
  /\ UNCHANGED <<vars, shut>>

TrackRefused(l) ==
  /\ stage[l] = "authorised"
  /\ l \notin tracked
  /\ Closing
  /\ Leave(l, "shutdown")
  /\ UNCHANGED <<durable, volatile, mu, held, gen, done, now, boot, tracked, shut>>

-----------------------------------------------------------------------------
(* Mutant: a session is attached before it is tracked.                      *)
AttachUntracked(l) ==
  /\ AttachCommit(l) \/ AttachRefused(l) \/ AttachFails(l)
  /\ UNCHANGED <<tracked, shut>>

(* serve: attach, wait, report the loss.  A refused session is closed, and  *)
(* the handler waits until it has ended.                                    *)
AttachReturns(l) ==
  /\ l \in tracked
  /\ AttachCommit(l) \/ AttachRefused(l) \/ AttachFails(l)
  /\ UNCHANGED <<tracked, shut>>

Install(l) == AttachInstall(l) /\ UNCHANGED <<tracked, shut>>

SessionDone(l) ==
  /\ l \in tracked
  /\ SessionEnds(l)
  /\ UNCHANGED <<tracked, shut>>

CloseOnShutdown(l) ==
  /\ Closing
  /\ CloseForShutdown(l)
  /\ UNCHANGED <<tracked, shut>>

LostReturns(l) ==
  /\ LostCommit(l) \/ LostIgnored(l) \/ LostFails(l)
  /\ UNCHANGED <<tracked, shut>>

Detach(l) == LostDetach(l) /\ UNCHANGED <<tracked, shut>>

(* The handler has returned: Lost did, or a refused session has ended.      *)
Served(l) == stage[l] = "finished" \/ (stage[l] = "refused" /\ l \in done)

(* Mutant: the wait group is released when the session ends, before Lost.   *)
UntrackOnDone(l) ==
  /\ l \in tracked
  /\ Served(l) \/ l \in done
  /\ tracked' = tracked \ {l}
  /\ UNCHANGED <<vars, shut>>

Untrack(l) ==
  /\ l \in tracked
  /\ Served(l)
  /\ tracked' = tracked \ {l}
  /\ UNCHANGED <<vars, shut>>

-----------------------------------------------------------------------------
(* Shutdown: refuse newcomers, wait for the tracked links, cut the ones     *)
(* left at the deadline and wait again.                                     *)
ShutdownBegins ==
  /\ shut = "running"
  /\ shut' = "waiting"
  /\ UNCHANGED <<vars, tracked>>

ShutdownDeadline ==
  /\ shut = "waiting"
  /\ tracked # {}
  /\ shut' = "cutting"
  /\ UNCHANGED <<vars, tracked>>

(* Mutant: the deadline spares the links that were already told to close.   *)
CutSparesTold(l) ==
  /\ shut = "cutting"
  /\ l \in tracked
  /\ told[l] = "none"
  /\ SessionEnds(l)
  /\ UNCHANGED <<tracked, shut>>

Cut(l) ==
  /\ shut = "cutting"
  /\ l \in tracked
  /\ SessionEnds(l)
  /\ UNCHANGED <<tracked, shut>>

ShutdownReturns ==
  /\ shut \in {"waiting", "cutting"}
  /\ tracked = {}
  /\ shut' = "returned"
  /\ UNCHANGED <<vars, tracked>>

Crash == Restart /\ tracked' = {} /\ shut' = "running"

HandlerNext ==
  \/ \E s \in Subdomains : Operate(s) /\ UNCHANGED <<tracked, shut>>
  \/ \E l \in Links :
       \/ \E t \in Tokens : ServeRequest(l, t)
       \/ RejectClosing(l)   \/ UpgradeFails(l)
       \/ Track(l)           \/ TrackRefused(l)  \/ AttachReturns(l)
       \/ Install(l)         \/ SessionDone(l)   \/ CloseOnShutdown(l)
       \/ LostReturns(l)     \/ Detach(l)        \/ Untrack(l)
       \/ Cut(l)
  \/ ShutdownBegins
  \/ ShutdownDeadline
  \/ ShutdownReturns
  \/ Tick /\ UNCHANGED <<tracked, shut>>
  \/ Crash

(* Every goroutine that can run does, a critical section that began ends,   *)
(* and the context given to Shutdown has a deadline.  Nothing is assumed of *)
(* the agents: sessions end because Shutdown cuts them.                     *)
Fairness ==
  /\ \A l \in Links :
       /\ WF_hvars(AttachReturns(l)) /\ WF_hvars(Install(l))
       /\ WF_hvars(LostReturns(l))   /\ WF_hvars(Detach(l))
       /\ WF_hvars(Untrack(l))       /\ WF_hvars(Cut(l))
  /\ \A s \in Subdomains : WF_hvars(RevokeEvict(s) /\ UNCHANGED <<tracked, shut>>)
  /\ WF_hvars(ShutdownDeadline)
  /\ WF_hvars(ShutdownReturns)

HandlerSpec == HandlerInit /\ [][HandlerNext]_hvars /\ Fairness

-----------------------------------------------------------------------------
(* "The caller may close the store afterwards without a link still writing  *)
(* to it": once Shutdown returned, the only rows that appear are those of   *)
(* an operator's claim or revoke, whatever requests were in flight.         *)
NoLinkWritesAfterShutdown ==
  [][shut = "returned" =>
       \A s \in Subdomains : audit'[s] # audit[s] =>
         LastKind(s)' \in {"claimed", "revoked"}]_hvars

(* A returned Shutdown left no loss unreported: a link still in the routing *)
(* table has a handler that finished, so that its write failed, and the     *)
(* audit agrees with the table (serve, Lost).                               *)
ShutdownIsRecorded ==
  shut = "returned" => \A s \in Subdomains :
    /\ Presence(s) = "live" => stage[live[s].link] = "finished"
    /\ mu = None => Presence(s) = AuditPresence(s)

(* Shutdown returns, even when no agent acknowledges its close frame and    *)
(* links were attaching when it began (or the process dies first).          *)
ShutdownTerminates == shut = "waiting" ~> shut \in {"returned", "running"}

(* A routed link is tracked, so Shutdown waits for it, for as long as its   *)
(* handler has not left: no path attaches a session Shutdown cannot see.    *)
RoutedLinksAreTracked ==
  \A s \in Subdomains : Presence(s) = "live" =>
    live[s].link \in tracked \/ stage[live[s].link] = "finished"

-----------------------------------------------------------------------------
(* The inductive invariant of the handler, beside those of the service.     *)

(* A session between Attach and the return of Lost is tracked.              *)
ServedLinksAreTracked ==
  \A l \in Links : stage[l] \in {"committed", "attached", "recorded"} => l \in tracked

(* Shutdown returned with nothing tracked, and nothing was tracked since.   *)
ReturnedMeansUntracked == shut = "returned" => tracked = {}

HandlerInv ==
  /\ tracked \in SUBSET Links /\ shut \in ShutStages
  /\ ServedLinksAreTracked
  /\ ReturnedMeansUntracked
=============================================================================
