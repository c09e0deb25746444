--------------------------- MODULE TunnelService ---------------------------
(***************************************************************************)
(* The policy core of the ingress tunnel: durable claims and audit rows,   *)
(* the volatile routing table, and the service that changes them as a pair *)
(* under one mutex (specimens/ingress-tunnel/internal/tunnel/tunnels.go,   *)
(* registry.go; the SQLite store under internal/store/sqlite).             *)
(*                                                                         *)
(* A link stands for one agent connection: the goroutine of the accept     *)
(* handler that authenticates, attaches, waits for the session to end and  *)
(* reports the loss.  A critical section that first commits to the store   *)
(* and then changes the routing table is two steps that hold mu between    *)
(* them, so a crash, or a reader of the routing table, can fall between.   *)
(***************************************************************************)
EXTENDS TunnelLifecycle, Integers

CONSTANTS
  Subdomains,         \* labels that pass ValidateSubdomain
  Tokens,             \* credentials NewToken can draw
  Links,              \* agent connections the server will ever see
  None,               \* the absent link, token or subdomain
  SupersedeCooldown,  \* how long a takeover shields the link it installed
  MaxTime,            \* bound on the clock
  StoreFails          \* whether a call of the store may fail

ASSUME NoneAssumption == None \notin Subdomains \cup Tokens \cup Links
ASSUME HoldersAssumption == Subdomains \cap Links = {}
ASSUME TimeAssumption == SupersedeCooldown \in Nat /\ MaxTime \in Nat
ASSUME StoreFailsAssumption == StoreFails \in BOOLEAN

VARIABLES
  claims,      \* the claims table, NoRow where a subdomain was never claimed
  audit,       \* per subdomain, its audit rows in sequence order
  live,        \* Registry.live
  superseded,  \* Service.superseded
  generation,  \* Service.generation
  mu,          \* Service.mu: None, the link, or the subdomain being revoked
  stage,       \* where each link's handler is
  held,        \* the claim each handler read when it authenticated
  gen,         \* Connection.generation of each link
  told,        \* the refusal or close reason each link was given first
  done,        \* links whose session has ended
  now,         \* the service's clock
  boot         \* history: audit rows of each subdomain when the process started

durable  == <<claims, audit>>
volatile == <<live, superseded, generation>>
handler  == <<stage, held, gen, told, done>>
vars == <<claims, audit, live, superseded, generation, mu, stage, held, gen,
          told, done, now, boot>>

Stages == {"idle", "looked", "authorised", "committed", "attached",
           "recorded", "refused", "finished"}
Reasons == {"none", "unauthorized", "conflict", "error", "unavailable",
            "superseded", "revoked", "shutdown"}
NoMark == -1
NoRow == [token |-> None, revision |-> 0, revoked |-> FALSE]
NoAttachment == [link |-> None, generation |-> 0]
NoClaim == [subdomain |-> None, token |-> None]

Rows == [kind : AuditKinds, at : Nat, detail : Nat]

TypeOK ==
  /\ claims \in [Subdomains -> [token : Tokens \cup {None}, revision : 0..2,
                                revoked : BOOLEAN]]
  /\ audit \in [Subdomains -> Seq(Rows)]
  /\ live \in [Subdomains -> [link : Links \cup {None}, generation : Nat]]
  /\ superseded \in [Subdomains -> Nat \cup {NoMark}]
  /\ generation \in Nat
  /\ mu \in Subdomains \cup Links \cup {None}
  /\ stage \in [Links -> Stages]
  /\ held \in [Links -> [subdomain : Subdomains \cup {None},
                         token : Tokens \cup {None}]]
  /\ gen \in [Links -> Nat]
  /\ told \in [Links -> Reasons]
  /\ done \in SUBSET Links
  /\ now \in Nat
  /\ boot \in [Subdomains -> Nat]

Init ==
  /\ claims = [s \in Subdomains |-> NoRow]
  /\ audit = [s \in Subdomains |-> << >>]
  /\ live = [s \in Subdomains |-> NoAttachment]
  /\ superseded = [s \in Subdomains |-> NoMark]
  /\ generation = 0
  /\ mu = None
  /\ stage = [l \in Links |-> "idle"]
  /\ held = [l \in Links |-> NoClaim]
  /\ gen = [l \in Links |-> 0]
  /\ told = [l \in Links |-> "none"]
  /\ done = {}
  /\ now = 0
  /\ boot = [s \in Subdomains |-> 0]

-----------------------------------------------------------------------------
(* The routing table and what the service derives from it.                 *)

Presence(s) == IF live[s].link # None THEN "live" ELSE "absent"

(* Mutant: any link's loss is the current one's.                            *)
MatchesAnyGeneration(s, g) == live[s].link # None

Matches(s, g) == live[s].link # None /\ live[s].generation = g

StatusOf(s) == Status(IF claims[s].revoked THEN "revoked" ELSE "active", Presence(s))

TakeoverAllowed(s) ==
  \/ Presence(s) # "live"
  \/ superseded[s] = NoMark
  \/ now - superseded[s] >= SupersedeCooldown

(* Service.entries: one row per kind, in order, sharing time and detail.    *)
Entries(kinds, detail) ==
  [i \in 1..Len(kinds) |-> [kind |-> kinds[i], at |-> now, detail |-> detail]]

AppendAudit(s, kinds, detail) ==
  audit' = [audit EXCEPT ![s] = @ \o Entries(kinds, detail)]

(* Session.Close keeps the first reason it is given.                       *)
Tell(l, reason) == [told EXCEPT ![l] = IF @ = "none" THEN reason ELSE @]

Leave(l, reason) ==
  /\ stage' = [stage EXCEPT ![l] = "refused"]
  /\ told' = Tell(l, reason)

-----------------------------------------------------------------------------
(* The SQLite store.  Each call is one transaction that carries its audit   *)
(* rows; a subdomain that ever had a row stays taken, and the token column  *)
(* is unique.                                                               *)
InsertClaim(s, t, kinds) ==
  /\ claims[s] = NoRow
  /\ \A r \in Subdomains : claims[r].token # t
  /\ claims' = [claims EXCEPT ![s] = [token |-> t, revision |-> 1, revoked |-> FALSE]]
  /\ AppendAudit(s, kinds, 1)

(* UPDATE ... WHERE revision = expected AND revoked = 0 changes one row.    *)
RevokeClaim(s, expectedRevision, kinds) ==
  /\ claims[s].revision = expectedRevision
  /\ ~claims[s].revoked
  /\ claims' = [claims EXCEPT ![s].revision = @ + 1, ![s].revoked = TRUE]
  /\ AppendAudit(s, kinds, claims[s].revision + 1)

ClaimByTokenHash(t) == {s \in Subdomains : claims[s].token = t}
ListClaims == {s \in Subdomains : claims[s] # NoRow}

-----------------------------------------------------------------------------
(* Claim: not under mu, with a token just drawn.                            *)
Claim(s, t) ==
  /\ InsertClaim(s, t, <<"claimed">>)
  /\ UNCHANGED <<volatile, mu, handler, now, boot>>

RevokeOutcome(s) == Transition(StatusOf(s), "revoke")

(* Revoke up to the commit: the row is read, compared with the expected     *)
(* revision and run through the lifecycle table under mu.                   *)
RevokeCommit(s, expectedRevision) ==
  /\ mu = None
  /\ s \in ListClaims
  /\ claims[s].revision = expectedRevision
  /\ RevokeOutcome(s).err = "none"
  /\ RevokeClaim(s, expectedRevision, RevokeOutcome(s).audit)
  /\ mu' = s
  /\ UNCHANGED <<volatile, handler, now, boot>>

(* Mutant: the revoked claim's link stays in the routing table.             *)
RevokeLeavesLink(s) ==
  /\ mu = s
  /\ mu' = None
  /\ UNCHANGED <<durable, volatile, handler, now, boot>>

(* The rest of Revoke: evict whatever serves s and close it.                *)
RevokeEvict(s) ==
  /\ mu = s
  /\ live' = [live EXCEPT ![s] = NoAttachment]
  /\ \/ /\ Presence(s) = "live"
        /\ superseded' = [superseded EXCEPT ![s] = NoMark]
        /\ told' = Tell(live[s].link, "revoked")
     \/ /\ Presence(s) = "absent"
        /\ UNCHANGED <<superseded, told>>
  /\ mu' = None
  /\ UNCHANGED <<durable, generation, stage, held, gen, done, now, boot>>

-----------------------------------------------------------------------------
(* Authenticate, first half: the token lookup, outside mu.                  *)
Lookup(l, t) ==
  /\ stage[l] = "idle"
  /\ \E s \in ClaimByTokenHash(t) :
       /\ ~claims[s].revoked
       /\ held' = [held EXCEPT ![l] = [subdomain |-> s, token |-> t]]
  /\ stage' = [stage EXCEPT ![l] = "looked"]
  /\ UNCHANGED <<durable, volatile, mu, gen, told, done, now, boot>>

LookupRefused(l, t) ==
  /\ stage[l] = "idle"
  /\ \A s \in ClaimByTokenHash(t) : claims[s].revoked
  /\ Leave(l, "unauthorized")
  /\ UNCHANGED <<durable, volatile, mu, held, gen, done, now, boot>>

LookupFails(l) ==
  /\ StoreFails
  /\ stage[l] = "idle"
  /\ Leave(l, "error")
  /\ UNCHANGED <<durable, volatile, mu, held, gen, done, now, boot>>

(* Authenticate, second half: the cooldown, under mu.                       *)
Authenticate(l) ==
  /\ mu = None
  /\ stage[l] = "looked"
  /\ TakeoverAllowed(held[l].subdomain)
  /\ stage' = [stage EXCEPT ![l] = "authorised"]
  /\ UNCHANGED <<durable, volatile, mu, held, gen, told, done, now, boot>>

AuthenticateRefused(l) ==
  /\ mu = None
  /\ stage[l] = "looked"
  /\ ~TakeoverAllowed(held[l].subdomain)
  /\ Leave(l, "conflict")
  /\ UNCHANGED <<durable, volatile, mu, held, gen, done, now, boot>>

-----------------------------------------------------------------------------
ConnectOutcome(s) == Transition(StatusOf(s), "connect")

(* Mutant: Attach trusts the cooldown check Authenticate made earlier.      *)
AttachTrustsGate(l) ==
  LET s == held[l].subdomain IN
  IF claims[s].token # held[l].token THEN "unauthorized" ELSE ConnectOutcome(s).err

(* Mutant: Attach trusts the claim that Authenticate read.                  *)
AttachTrustsClaim(l) ==
  LET s == held[l].subdomain IN
  IF ~TakeoverAllowed(s) THEN "conflict" ELSE Transition(Status("active", Presence(s)), "connect").err

(* What Attach answers before it writes anything, in the code's order.      *)
AttachError(l) ==
  LET s == held[l].subdomain IN
  IF claims[s].token # held[l].token THEN "unauthorized"
  ELSE IF ~TakeoverAllowed(s)        THEN "conflict"
  ELSE ConnectOutcome(s).err

(* Mutant: every refusal of Attach is reported as a revocation.             *)
CloseAlwaysRevoked(error) == "revoked"

(* Handler.closeReasonFor *)
CloseReasonFor(error) ==
  IF error \in {"revoked", "unauthorized"} THEN "revoked" ELSE "shutdown"

(* Attach up to the audit commit: nothing volatile has changed yet.         *)
AttachCommit(l) ==
  LET s == held[l].subdomain IN
  /\ mu = None
  /\ stage[l] = "authorised"
  /\ AttachError(l) = "none"
  /\ AppendAudit(s, ConnectOutcome(s).audit, generation + 1)
  /\ gen' = [gen EXCEPT ![l] = generation + 1]
  /\ stage' = [stage EXCEPT ![l] = "committed"]
  /\ mu' = l
  /\ UNCHANGED <<claims, volatile, held, told, done, now, boot>>

(* Mutants: the displaced link is never closed; the counter never advances. *)
InstallClosesNobody(l) ==
  LET s == held[l].subdomain IN
  /\ mu = l
  /\ stage[l] = "committed"
  /\ generation' = gen[l]
  /\ live' = [live EXCEPT ![s] = [link |-> l, generation |-> gen[l]]]
  /\ superseded' = IF Presence(s) = "live" THEN [superseded EXCEPT ![s] = now] ELSE superseded
  /\ stage' = [stage EXCEPT ![l] = "attached"]
  /\ mu' = None
  /\ UNCHANGED <<durable, told, held, gen, done, now, boot>>

InstallKeepsGeneration(l) ==
  LET s == held[l].subdomain IN
  /\ mu = l
  /\ stage[l] = "committed"
  /\ live' = [live EXCEPT ![s] = [link |-> l, generation |-> gen[l]]]
  /\ stage' = [stage EXCEPT ![l] = "attached"]
  /\ mu' = None
  /\ UNCHANGED <<durable, superseded, generation, told, held, gen, done, now, boot>>

(* The rest of Attach: install the link, then supersede the previous one.   *)
AttachInstall(l) ==
  LET s == held[l].subdomain IN
  /\ mu = l
  /\ stage[l] = "committed"
  /\ generation' = gen[l]
  /\ live' = [live EXCEPT ![s] = [link |-> l, generation |-> gen[l]]]
  /\ \/ /\ Presence(s) = "live"
        /\ superseded' = [superseded EXCEPT ![s] = now]
        /\ told' = Tell(live[s].link, "superseded")
     \/ /\ Presence(s) = "absent"
        /\ UNCHANGED <<superseded, told>>
  /\ stage' = [stage EXCEPT ![l] = "attached"]
  /\ mu' = None
  /\ UNCHANGED <<durable, held, gen, done, now, boot>>

AttachRefused(l) ==
  /\ mu = None
  /\ stage[l] = "authorised"
  /\ AttachError(l) # "none"
  /\ Leave(l, CloseReasonFor(AttachError(l)))
  /\ UNCHANGED <<durable, volatile, mu, held, gen, done, now, boot>>

AttachFails(l) ==
  /\ StoreFails
  /\ mu = None
  /\ stage[l] = "authorised"
  /\ Leave(l, CloseReasonFor("error"))
  /\ UNCHANGED <<durable, volatile, mu, held, gen, done, now, boot>>

-----------------------------------------------------------------------------
(* A refusal after the upgrade closes the session with a reason; before it, *)
(* the refusal was an HTTP status and there is no session.                  *)
Upgraded(l) ==
  \/ stage[l] \in {"authorised", "committed", "attached"}
  \/ stage[l] = "refused" /\ told[l] \in {"revoked", "shutdown"}

(* The session ends: the agent went away, a keep-alive was missed, or the   *)
(* farewell that follows Close cut it.  It may end before Attach ran, and a *)
(* refused one ends some time after its Close.                              *)
SessionEnds(l) ==
  /\ Upgraded(l)
  /\ l \notin done
  /\ done' = done \cup {l}
  /\ UNCHANGED <<durable, volatile, mu, stage, held, gen, told, now, boot>>

(* The handler closes an attached link because the server shuts down.       *)
CloseForShutdown(l) ==
  /\ stage[l] = "attached"
  /\ l \notin done
  /\ told' = Tell(l, "shutdown")
  /\ UNCHANGED <<durable, volatile, mu, stage, held, gen, done, now, boot>>

(* Lost up to the audit commit, for the generation that still serves.       *)
LostCommit(l) ==
  LET s == held[l].subdomain IN
  /\ mu = None
  /\ stage[l] = "attached"
  /\ l \in done
  /\ Matches(s, gen[l])
  /\ AppendAudit(s, Transition(Status("active", "live"), "link-lost").audit, gen[l])
  /\ stage' = [stage EXCEPT ![l] = "recorded"]
  /\ mu' = l
  /\ UNCHANGED <<claims, volatile, held, gen, told, done, now, boot>>

(* Mutants: the mark outlives its link; the link stays in the table.        *)
DetachKeepsMark(l) ==
  /\ mu = l
  /\ stage[l] = "recorded"
  /\ live' = [live EXCEPT ![held[l].subdomain] = NoAttachment]
  /\ stage' = [stage EXCEPT ![l] = "finished"]
  /\ mu' = None
  /\ UNCHANGED <<durable, superseded, generation, held, gen, told, done, now, boot>>

DetachForgotten(l) ==
  /\ mu = l
  /\ stage[l] = "recorded"
  /\ superseded' = [superseded EXCEPT ![held[l].subdomain] = NoMark]
  /\ stage' = [stage EXCEPT ![l] = "finished"]
  /\ mu' = None
  /\ UNCHANGED <<durable, live, generation, held, gen, told, done, now, boot>>

(* The rest of Lost: Registry.Detach, which checks the generation again,    *)
(* and the removal of the takeover mark.                                    *)
LostDetach(l) ==
  LET s == held[l].subdomain IN
  /\ mu = l
  /\ stage[l] = "recorded"
  /\ live' = IF Matches(s, gen[l]) THEN [live EXCEPT ![s] = NoAttachment] ELSE live
  /\ superseded' = [superseded EXCEPT ![s] = NoMark]
  /\ stage' = [stage EXCEPT ![l] = "finished"]
  /\ mu' = None
  /\ UNCHANGED <<durable, generation, held, gen, told, done, now, boot>>

(* The loss of a superseded or evicted link is ignored.                     *)
LostIgnored(l) ==
  /\ mu = None
  /\ stage[l] = "attached"
  /\ l \in done
  /\ ~Matches(held[l].subdomain, gen[l])
  /\ stage' = [stage EXCEPT ![l] = "finished"]
  /\ UNCHANGED <<durable, volatile, mu, held, gen, told, done, now, boot>>

(* Mutant: the link was detached before the audit write failed.             *)
LostDetachesFirst(l) ==
  /\ StoreFails
  /\ mu = None
  /\ stage[l] = "attached"
  /\ l \in done
  /\ Matches(held[l].subdomain, gen[l])
  /\ live' = [live EXCEPT ![held[l].subdomain] = NoAttachment]
  /\ stage' = [stage EXCEPT ![l] = "finished"]
  /\ UNCHANGED <<durable, superseded, generation, mu, held, gen, told, done, now, boot>>

(* The audit write fails: presence stays, the handler only logs and leaves. *)
LostFails(l) ==
  /\ StoreFails
  /\ mu = None
  /\ stage[l] = "attached"
  /\ l \in done
  /\ Matches(held[l].subdomain, gen[l])
  /\ stage' = [stage EXCEPT ![l] = "finished"]
  /\ UNCHANGED <<durable, volatile, mu, held, gen, told, done, now, boot>>

-----------------------------------------------------------------------------
Tick ==
  /\ now < MaxTime
  /\ now' = now + 1
  /\ UNCHANGED <<durable, volatile, mu, handler, boot>>

(* The process dies at any point and NewService starts over: the routing    *)
(* table, the marks, the generation and every connection are gone; claims   *)
(* and audit survive.                                                       *)
Restart ==
  /\ live' = [s \in Subdomains |-> NoAttachment]
  /\ superseded' = [s \in Subdomains |-> NoMark]
  /\ generation' = 0
  /\ mu' = None
  /\ stage' = [l \in Links |-> IF stage[l] = "idle" THEN "idle" ELSE "finished"]
  /\ boot' = [s \in Subdomains |-> Len(audit[s])]
  /\ UNCHANGED <<durable, held, gen, told, done, now>>

ServeLink(l) ==
  \/ \E t \in Tokens : Lookup(l, t)
  \/ \E t \in Tokens : LookupRefused(l, t)
  \/ LookupFails(l)
  \/ Authenticate(l)
  \/ AuthenticateRefused(l)
  \/ AttachCommit(l)
  \/ AttachInstall(l)
  \/ AttachRefused(l)
  \/ AttachFails(l)
  \/ SessionEnds(l)
  \/ CloseForShutdown(l)
  \/ LostCommit(l)
  \/ LostDetach(l)
  \/ LostIgnored(l)
  \/ LostFails(l)

Operate(s) ==
  \/ \E t \in Tokens : Claim(s, t)
  \/ \E r \in 1..2 : RevokeCommit(s, r)
  \/ RevokeEvict(s)

Next ==
  \/ \E s \in Subdomains : Operate(s)
  \/ \E l \in Links : ServeLink(l)
  \/ Tick
  \/ Restart

Spec == Init /\ [][Next]_vars

(* The call a handler makes under mu, whichever way it comes out.           *)
GateAnswers(l)   == Authenticate(l) \/ AuthenticateRefused(l)
AttachAnswers(l) == AttachCommit(l) \/ AttachRefused(l) \/ AttachFails(l)
LostAnswers(l)   == LostCommit(l) \/ LostIgnored(l) \/ LostFails(l)

(* Goroutines run, sync.Mutex starves nobody, and every call of the store   *)
(* returns; agents, operators and the clock owe nothing.                    *)
ServiceFairness ==
  /\ \A l \in Links :
       /\ SF_vars(GateAnswers(l))
       /\ SF_vars(AttachAnswers(l)) /\ WF_vars(AttachInstall(l))
       /\ SF_vars(LostAnswers(l))   /\ WF_vars(LostDetach(l))
  /\ \A s \in Subdomains : WF_vars(RevokeEvict(s))

FairSpec == Spec /\ ServiceFairness

-----------------------------------------------------------------------------
LastRow(s) == audit[s][Len(audit[s])]
LastKind(s) == IF audit[s] = << >> THEN "none" ELSE LastRow(s).kind

(* The status the current process's audit rows describe.                    *)
AuditPresence(s) ==
  IF Len(audit[s]) > boot[s] /\ LastKind(s) = "connected" THEN "live" ELSE "absent"

(* "The audit describes exactly the transition that happened": whenever the *)
(* lock is free, the last row of a subdomain tells whether it is claimed,   *)
(* revoked and live, and the generation that serves it (Claim, Revoke,      *)
(* Attach, Lost).                                                           *)
AuditTellsStatus ==
  mu = None => \A s \in Subdomains :
    /\ claims[s] = NoRow <=> LastKind(s) = "none"
    /\ claims[s].revoked <=> LastKind(s) = "revoked"
    /\ Presence(s) = AuditPresence(s)
    /\ Presence(s) = "live" => LastRow(s).detail = live[s].generation

(* What may follow a row: within one process, and across a restart, where a *)
(* link that was connected vanished without a row.                          *)
Successors(kind) ==
  CASE kind = "claimed"      -> {"connected", "revoked"}
    [] kind = "connected"    -> {"superseded", "disconnected"}
    [] kind = "superseded"   -> {"connected"}
    [] kind = "disconnected" -> {"connected", "revoked"}
    [] kind = "revoked"      -> {}
SuccessorsAcrossRestart(kind) ==
  Successors(kind) \cup (IF kind = "connected" THEN {"connected", "revoked"} ELSE {})

(* Row i of s may stand where it does.                                      *)
FollowsLegally(s, i) ==
  LET row == audit[s][i]
      before == audit[s][i-1] IN
  IF i = 1 THEN row.kind = "claimed"
  ELSE /\ row.kind \in SuccessorsAcrossRestart(before.kind)
       /\ i - 1 > boot[s] =>
            /\ row.kind \in Successors(before.kind)
            /\ row.kind = "disconnected" =>
                 \/ row.detail = before.detail
                 \/ LastKind(s) = "revoked" /\ i = Len(audit[s]) - 1
            /\ row.kind = "superseded" => row.detail > before.detail

(* Every subdomain's rows form a legal lifecycle word: it starts with       *)
(* claimed and nothing follows revoked; within one process a disconnected   *)
(* row names the generation connected just before it (or belongs to a       *)
(* revoke), and generations only grow.                                      *)
AuditIsALifecycle ==
  \A s \in Subdomains : \A i \in 1..Len(audit[s]) : FollowsLegally(s, i)

(* A revoked claim never has a live link once Revoke released the lock, so  *)
(* the lifecycle table is never asked for the transition it panics on, by   *)
(* any event, whatever raced the revocation (Attach re-reads the claim).    *)
NeverPanics ==
  \A s \in Subdomains : mu # s =>
    \A e \in Events : Transition(StatusOf(s), e).err # "panic"

(* The latest link of s arrived by a takeover.                              *)
TookOver(s) ==
  /\ Len(audit[s]) > boot[s] + 1
  /\ audit[s][Len(audit[s]) - 1].kind = "superseded"

(* The mark that shields a link stands exactly for a link that arrived by   *)
(* supersession and still serves: no mark outlives its link, and none       *)
(* guards a link that connected in the ordinary way (Attach, Lost, Revoke). *)
MarkMeansTakeover ==
  mu = None => \A s \in Subdomains :
    superseded[s] # NoMark <=> Presence(s) = "live" /\ TookOver(s)

(* i and j are takeovers with no disconnection between them.                *)
TakeoversSpaced(s) ==
  \A i, j \in boot[s]+1..Len(audit[s]) :
    (/\ i < j
     /\ audit[s][i].kind = "superseded"
     /\ audit[s][j].kind = "superseded"
     /\ \A k \in i..j : audit[s][k].kind # "disconnected")
      => audit[s][j].at - audit[s][i].at >= SupersedeCooldown

(* Two takeovers of one subdomain with no disconnection between them are at *)
(* least SupersedeCooldown apart, as the audit itself records them.         *)
TakeoversAreSpaced == \A s \in Subdomains : TakeoversSpaced(s)

(* The routing table sends a subdomain only to a link that proved that      *)
(* claim's own credential, under the generation the link reports with.      *)
RoutesToHolder ==
  \A s \in Subdomains : Presence(s) = "live" =>
    LET l == live[s].link IN
    /\ held[l] = [subdomain |-> s, token |-> claims[s].token]
    /\ live[s].generation = gen[l]
    /\ gen[l] <= generation

(* A link that attached and has not ended either serves its subdomain or    *)
(* was told why it no longer does: none is displaced and left open.         *)
NoOrphanedLink ==
  mu = None => \A l \in Links : stage[l] = "attached" =>
    \/ live[held[l].subdomain] = [link |-> l, generation |-> gen[l]]
    \/ told[l] # "none"

(* A close reason is true: "revoked" is said only of a revoked claim, and   *)
(* "superseded" only when a link of a later generation took the subdomain.  *)
ReasonsAreTrue ==
  \A l \in Links :
    /\ told[l] = "revoked" => claims[held[l].subdomain].revoked
    /\ told[l] = "superseded" =>
         \E m \in Links : /\ held[m].subdomain = held[l].subdomain
                          /\ gen[m] > gen[l]

(* A subdomain stops being served only because the very link that served it *)
(* ended, its claim was revoked, or the process restarted: the late loss    *)
(* report of a superseded link never detaches its successor.                *)
ServiceEndsForAReason ==
  [][\A s \in Subdomains :
       (Presence(s) = "live" /\ Presence(s)' = "absent") =>
         \/ live[s].link \in done
         \/ claims[s].revoked
         \/ generation' = 0]_vars

(* A link whose session has ended leaves the routing table: its handler     *)
(* reports the loss once, and that report must be enough.                   *)
EndedLinkLeaves ==
  \A l \in Links :
    (stage[l] = "attached" /\ l \in done) ~> (\A s \in Subdomains : live[s].link # l)

-----------------------------------------------------------------------------
(* The inductive invariant behind the safety proofs.                        *)

Early == {"idle", "looked", "authorised"}
Admitted == {"looked", "authorised", "committed", "attached", "recorded"}

ClaimsInv ==
  \A s \in Subdomains :
    \/ claims[s] = NoRow
    \/ /\ claims[s].token \in Tokens
       /\ claims[s].revision = IF claims[s].revoked THEN 2 ELSE 1

LockInv ==
  /\ \A l \in Links : stage[l] \in {"committed", "recorded"} <=> mu = l
  /\ \A s \in Subdomains : mu = s => claims[s].revoked

HeldInv ==
  \A l \in Links :
    /\ stage[l] \in Admitted => held[l].subdomain # None
    /\ stage[l] \in Early => gen[l] = 0 /\ told[l] = "none"
    /\ told[l] = "revoked" => held[l].subdomain # None
    /\ held[l].subdomain # None =>
         /\ held[l].token \in Tokens
         /\ claims[held[l].subdomain].token = held[l].token

RouteInv ==
  \A s \in Subdomains : live[s].link # None =>
    /\ held[live[s].link].subdomain = s
    /\ live[s].generation = gen[live[s].link]
    /\ stage[live[s].link] \in {"attached", "recorded", "finished"}

(* A link whose generation the current process handed out and may compare.  *)
Numbered(l) ==
  stage[l] \in {"attached", "recorded"} \/ \E s \in Subdomains : live[s].link = l

GenerationInv ==
  /\ \A l \in Links : Numbered(l) => gen[l] \in 1..generation
  /\ \A l \in Links : stage[l] = "committed" => gen[l] = generation + 1
  /\ \A l, m \in Links : Numbered(l) /\ Numbered(m) /\ gen[l] = gen[m] => l = m

RevokedInv ==
  /\ \A s \in Subdomains : claims[s].revoked /\ mu # s => live[s].link = None
  /\ \A l \in Links : stage[l] = "committed" => ~claims[held[l].subdomain].revoked

OrphanInv ==
  \A l \in Links :
    /\ stage[l] = "recorded" => l \in done /\ live[held[l].subdomain].link = l
    /\ stage[l] = "attached" => \/ live[held[l].subdomain].link = l
                               \/ told[l] # "none"

(* Claims, lock, handlers, routing table and generations fit together at    *)
(* every step of every interleaving, critical sections included.            *)
IndInv ==
  /\ TypeOK
  /\ ClaimsInv
  /\ LockInv
  /\ HeldInv
  /\ RouteInv
  /\ GenerationInv
  /\ RevokedInv
  /\ OrphanInv
  /\ ReasonsAreTrue

-----------------------------------------------------------------------------
(* The inductive invariant behind the audit proofs, beside IndInv: what the *)
(* rows of s say while no critical section works on s, and what each half-  *)
(* done section has already written.                                        *)

InSection(l, s) == held[l].subdomain = s /\ stage[l] \in {"committed", "recorded"}
Settled(s) == mu # s /\ \A l \in Links : ~InSection(l, s)

RowsTellClaim(s) ==
  /\ boot[s] <= Len(audit[s])
  /\ claims[s] = NoRow <=> audit[s] = << >>
  /\ claims[s].revoked <=> LastKind(s) = "revoked"
  /\ LastKind(s) # "superseded"

RowsTellPresence(s) ==
  Settled(s) =>
    /\ Presence(s) = AuditPresence(s)
    /\ Presence(s) = "live" => LastRow(s).detail = live[s].generation
    /\ superseded[s] # NoMark <=> Presence(s) = "live" /\ TookOver(s)

RowsTellSection(s) ==
  \A l \in Links : held[l].subdomain = s =>
    /\ stage[l] = "committed" =>
         /\ Len(audit[s]) > boot[s]
         /\ LastKind(s) = "connected" /\ LastRow(s).detail = gen[l]
         /\ Presence(s) = "live" <=> TookOver(s)
    /\ stage[l] = "recorded" => LastKind(s) = "disconnected"

(* A takeover of this process with no disconnection since.                  *)
OpenTakeover(s, i) ==
  /\ i \in boot[s]+1..Len(audit[s])
  /\ audit[s][i].kind = "superseded"
  /\ \A k \in i..Len(audit[s]) : audit[s][k].kind # "disconnected"

(* The mark is as recent as every open takeover, except while the latest    *)
(* one is being installed; it never outlives the link.                      *)
MarkCoversTakeovers(s) ==
  /\ superseded[s] # NoMark => live[s].link # None
  /\ \A i \in 1..Len(audit[s]) : audit[s][i].at <= now
  /\ \A i \in 1..Len(audit[s]) : OpenTakeover(s, i) =>
       /\ ~claims[s].revoked
       /\ \/ superseded[s] # NoMark /\ audit[s][i].at <= superseded[s]
          \/ \E l \in Links : /\ held[l].subdomain = s
                              /\ stage[l] = "committed"
                              /\ live[s].link # None

AuditInv(s) ==
  /\ RowsTellClaim(s)
  /\ RowsTellPresence(s)
  /\ RowsTellSection(s)
  /\ MarkCoversTakeovers(s)
  /\ \A i \in 1..Len(audit[s]) : FollowsLegally(s, i)
  /\ TakeoversSpaced(s)

AuditIndInv == \A s \in Subdomains : AuditInv(s)
=============================================================================
