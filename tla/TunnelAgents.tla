---------------------------- MODULE TunnelAgents ----------------------------
(***************************************************************************)
(* Agents that share one credential, the network between them and the      *)
(* server, and the accept handler with the service behind it               *)
(* (specimens/ingress-tunnel/internal/agent, internal/link/dial.go and     *)
(* link.go).  One end of a link can be gone while the other still believes *)
(* in it, for at most KeepAlive.  Handlers, handshakes, farewells and the  *)
(* wait of a graceful shutdown take no time: the clock waits for them.     *)
(***************************************************************************)
EXTENDS LinkHandler

CONSTANTS
  Agents,      \* agent processes, all holding Credential
  Credential,  \* the one token they share
  Delays,      \* the reconnect schedule, Schedule.delays
  KeepAlive,   \* how long one end of a link can miss that the other is gone
  Disturbances \* what else befalls the server

ASSUME AgentAssumption ==
  /\ Credential \in Tokens
  /\ None \notin Agents
  /\ Delays \in Seq(Nat \ {0})
  /\ Delays # << >>
  /\ KeepAlive \in Nat
  /\ Disturbances \subseteq {"revoke", "shutdown", "crash"}

VARIABLES
  run,       \* what Agent.Run is doing
  on,        \* the link an agent dials or serves
  failures,  \* the failure count the next pause is computed from
  wake,      \* when the pause ends
  owner,     \* who dialled a link
  deadAt,    \* when the first end of a link was gone, or NoMark
  met        \* history: agents whose redial met an earlier link of their own

avars == <<run, on, failures, wake, owner, deadAt, met>>
allvars == <<hvars, avars>>

AgentTypeOK ==
  /\ HandlerTypeOK
  /\ run \in [Agents -> {"waiting", "dialing", "serving", "stopped"}]
  /\ on \in [Agents -> Links \cup {None}]
  /\ failures \in [Agents -> 0..Len(Delays)]
  /\ wake \in [Agents -> Nat]
  /\ owner \in [Links -> Agents \cup {None}]
  /\ deadAt \in [Links -> Nat \cup {NoMark}]
  /\ met \in SUBSET Agents

AgentInit ==
  /\ HandlerInit
  /\ run = [a \in Agents |-> "waiting"]
  /\ on = [a \in Agents |-> None]
  /\ failures = [a \in Agents |-> 0]
  /\ wake = [a \in Agents |-> 0]
  /\ owner = [l \in Links |-> None]
  /\ deadAt = [l \in Links |-> NoMark]
  /\ met = {}

-----------------------------------------------------------------------------
(* Schedule.Delay saturates, so failures need not count past its length.    *)
Delay(attempt) ==
  Delays[IF attempt < 1 THEN 1
         ELSE IF attempt > Len(Delays) THEN Len(Delays) ELSE attempt]

OneMore(a) == IF failures[a] < Len(Delays) THEN failures[a] + 1 ELSE failures[a]

Pause(a, count) ==
  /\ run' = [run EXCEPT ![a] = "waiting"]
  /\ on' = [on EXCEPT ![a] = None]
  /\ failures' = [failures EXCEPT ![a] = count]
  /\ wake' = [wake EXCEPT ![a] = now + Delay(count)]

Stop(a) ==
  /\ run' = [run EXCEPT ![a] = "stopped"]
  /\ on' = [on EXCEPT ![a] = None]
  /\ UNCHANGED <<failures, wake>>

CloseEnd(l) == deadAt' = [deadAt EXCEPT ![l] = IF @ = NoMark THEN now ELSE @]

(* RejectedError.Permanent and EvictedError.Permanent over what the server  *)
(* said; GoingAway and every other failure is retried.                      *)
Permanent(reason) == reason \in {"unauthorized", "conflict", "superseded", "revoked"}

Unaccepted == {"unauthorized", "conflict", "error", "unavailable"}

-----------------------------------------------------------------------------
CanDial(a) ==
  /\ run[a] = "waiting"
  /\ now >= wake[a]
  /\ \E s \in Subdomains : claims[s].token = Credential

Dial(a, l) ==
  /\ CanDial(a)
  /\ owner[l] = None
  /\ owner' = [owner EXCEPT ![l] = a]
  /\ run' = [run EXCEPT ![a] = "dialing"]
  /\ on' = [on EXCEPT ![a] = l]
  /\ UNCHANGED <<hvars, failures, wake, deadAt, met>>

(* The network refuses the dial.                                            *)
DialFails(a) ==
  /\ CanDial(a)
  /\ Pause(a, OneMore(a))
  /\ UNCHANGED <<hvars, owner, deadAt, met>>

(* The answer of the handshake reaches the agent.                           *)
DialRejected(a) ==
  /\ run[a] = "dialing"
  /\ told[on[a]] \in Unaccepted
  /\ IF Permanent(told[on[a]]) THEN Stop(a) ELSE Pause(a, OneMore(a))
  /\ UNCHANGED <<hvars, owner, deadAt, met>>

DialEstablished(a) ==
  /\ run[a] = "dialing"
  /\ stage[on[a]] \notin {"idle", "looked"}
  /\ told[on[a]] \notin Unaccepted
  /\ run' = [run EXCEPT ![a] = "serving"]
  /\ UNCHANGED <<hvars, on, failures, wake, owner, deadAt, met>>

(* The close frame reaches the agent: Listener.Reason decides.              *)
LinkClosed(a) ==
  /\ run[a] = "serving"
  /\ told[on[a]] # "none"
  /\ CloseEnd(on[a])
  /\ IF Permanent(told[on[a]]) THEN Stop(a) ELSE Pause(a, 1)
  /\ UNCHANGED <<hvars, owner, met>>

(* Mutant: a lost link ends the agent.                                      *)
LinkLostStops(a) ==
  /\ run[a] \in {"dialing", "serving"}
  /\ CloseEnd(on[a])
  /\ Stop(a)
  /\ UNCHANGED <<hvars, owner, met>>

(* The agent's end is gone with no close frame: a dial in flight fails, an  *)
(* established link is lost.                                                *)
LinkLost(a) ==
  /\ run[a] \in {"dialing", "serving"}
  /\ CloseEnd(on[a])
  /\ Pause(a, IF run[a] = "dialing" THEN OneMore(a) ELSE 1)
  /\ UNCHANGED <<hvars, owner, met>>

-----------------------------------------------------------------------------
(* A redial finds another link of its own agent in the routing table: one   *)
(* half-open, or whose loss could not be written.  It takes that link over, *)
(* or is turned away because of it.                                         *)
MeetsItself(l) ==
  /\ stage'[l] # stage[l]
  /\ stage'[l] = "attached" \/ told'[l] = "conflict"
  /\ \E s \in Subdomains :
       /\ held[l].subdomain = s /\ live[s].link \notin {None, l}
       /\ owner[live[s].link] = owner[l]

(* The server handles a dialled link, as the accept handler does; a session *)
(* ends by itself only when the agent's end is gone or the server closed it.*)
ServeDialled(l) ==
  /\ owner[l] # None
  /\ \/ RejectClosing(l)  \/ ServeRequest(l, Credential)  \/ UpgradeFails(l)
     \/ Track(l)          \/ TrackRefused(l)  \/ AttachReturns(l)
     \/ Install(l)        \/ CloseOnShutdown(l)
     \/ (deadAt[l] # NoMark \/ told[l] # "none") /\ SessionDone(l)
     \/ LostReturns(l)    \/ Detach(l)        \/ Untrack(l)     \/ Cut(l)
  /\ deadAt' = [deadAt EXCEPT ![l] =
       IF @ = NoMark /\ (l \in done' \/ stage'[l] \in {"refused", "finished"})
       THEN now ELSE @]
  /\ met' = IF MeetsItself(l) THEN met \cup {owner[l]} ELSE met
  /\ UNCHANGED <<run, on, failures, wake, owner>>

(* Work that takes no time on the clock: handlers, farewells, handshakes,   *)
(* a graceful shutdown, and a pause that is over.                           *)
Busy ==
  \/ mu # None
  \/ \E l \in Links :
       \/ owner[l] # None /\ stage[l] \in {"idle", "looked", "authorised"}
       \/ stage[l] = "attached" /\ (l \in done \/ told[l] # "none")
  \/ Closing \/ \E l \in tracked : stage[l] # "attached"
  \/ \E a \in Agents : run[a] = "dialing" \/ CanDial(a)

(* One end of a link is gone and the other must have noticed by now.        *)
Overdue(l) ==
  /\ deadAt[l] # NoMark
  /\ now - deadAt[l] >= KeepAlive
  /\ stage[l] = "attached" \/ \E a \in Agents : on[a] = l

Pass ==
  /\ ~Busy
  /\ \A l \in Links : ~Overdue(l)
  /\ Tick
  /\ UNCHANGED <<tracked, shut, avars>>

(* The process dies under its links; both ends are gone, and the agents are *)
(* left to notice.                                                          *)
ServerDies ==
  /\ Crash
  /\ deadAt' = [l \in Links |->
       IF deadAt[l] = NoMark /\ owner[l] # None THEN now ELSE deadAt[l]]
  /\ UNCHANGED <<run, on, failures, wake, owner, met>>

(* The operator revokes, or stops the server.                               *)
Disturb ==
  /\ \/ /\ "revoke" \in Disturbances
        /\ \E s \in Subdomains : Operate(s)
        /\ UNCHANGED <<tracked, shut>>
     \/ /\ "shutdown" \in Disturbances
        /\ ShutdownBegins \/ ShutdownDeadline
  /\ UNCHANGED avars

(* A graceful shutdown that has drained ends the process; it dies sooner    *)
(* where that is a disturbance of its own.                                  *)
AgentNext ==
  \/ \E a \in Agents :
       \/ \E l \in Links : Dial(a, l)
       \/ DialFails(a)     \/ DialRejected(a)  \/ DialEstablished(a)
       \/ LinkClosed(a)    \/ LinkLost(a)
  \/ \E l \in Links : ServeDialled(l)
  \/ \E s \in Subdomains : Claim(s, Credential) /\ UNCHANGED <<tracked, shut, avars>>
  \/ Pass
  \/ Disturb
  \/ ("crash" \in Disturbances \/ (Closing /\ tracked = {})) /\ ServerDies

AgentSpec == AgentInit /\ [][AgentNext]_allvars

-----------------------------------------------------------------------------
Claimed == {s \in Subdomains : claims[s].token = Credential}

(* The claim was revoked, or a link of another agent took it.               *)
Beaten(a) ==
  \/ \E s \in Claimed : claims[s].revoked
  \/ \E l \in Links : owner[l] \notin {None, a} /\ gen[l] > 0

(* "A refused credential or a deliberate eviction ends the agent; a lost    *)
(* link never does": an agent stops only if its claim was revoked or some   *)
(* other agent's link took the claim.                                       *)
StopsOnlyWhenBeaten == \A a \in Agents : run[a] = "stopped" => Beaten(a)

(* Agents competing for one active claim never all stop: whoever loses, the *)
(* winner runs on, through takeovers, shutdowns, crashes and failing audit  *)
(* writes, as long as no redial met a link of its own agent (Attach,        *)
(* Authenticate, Agent.Run).                                                *)
SomeAgentSurvives ==
  (\E s \in Claimed : ~claims[s].revoked) /\ met = {} =>
    \E a \in Agents : run[a] # "stopped"

(* "A loser that missed its 4001 stops on its next dial instead of taking   *)
(* the claim back, and two agents sharing a credential can never flap": no  *)
(* agent that lost the claim to another supersedes that other's link.       *)
LoserStaysOut ==
  \A l, m, n \in Links :
    ~ /\ owner[l] # None /\ owner[n] = owner[l] /\ owner[m] # owner[l]
      /\ told[l] = "superseded" /\ told[m] = "superseded"
      /\ gen[l] < gen[m] /\ gen[m] < gen[n]

(* The audit of a claim with this credential shows a takeover or a          *)
(* revocation.                                                              *)
Excused ==
  \E s \in Claimed : \E i \in 1..Len(audit[s]) :
    audit[s][i].kind \in {"superseded", "revoked"}

(* No agent stops behind the operator's back: whatever the network did and  *)
(* however late a loss was noticed, the audit of the claim has a row that   *)
(* tells of a takeover or of the revocation (Agent.Run gives up only on a   *)
(* permanent error).                                                        *)
StopsAreAudited == (\E a \in Agents : run[a] = "stopped") => Excused

(* An agent stops only if it was beaten, or if a redial of its own took     *)
(* over, or was turned away because of, an earlier link of its own that was *)
(* still routed: half-open, or ended with an audit write that failed.  A    *)
(* lost link, a shutdown, a failing store or a failed upgrade never ends it *)
(* (Agent.Run, RejectedError, EvictedError, closeReasonFor).                *)
StopsOnlyByTakeover ==
  \A a \in Agents : run[a] = "stopped" => Beaten(a) \/ a \in met

-----------------------------------------------------------------------------
(* The inductive invariants behind the proofs about agents.                 *)

Ended(l) == stage[l] \in {"refused", "finished"}

(* An agent works on one link, its own; only dialled links reach a handler, *)
(* and nobody dials before the credential exists.                           *)
DialledInv ==
  /\ \A a \in Agents : run[a] \in {"dialing", "serving"} <=> on[a] # None
  /\ \A a \in Agents : on[a] # None => owner[on[a]] = a
  /\ \A l \in Links : owner[l] = None => stage[l] = "idle" /\ deadAt[l] = NoMark
  /\ \A l \in Links : owner[l] # None => Claimed # {}

(* Links hold the shared credential, and one claim at most is its own.      *)
CredentialInv ==
  /\ \A l \in Links : held[l].subdomain # None => held[l].token = Credential
  /\ \A s, r \in Claimed : s = r

(* A handshake is refused once and for all, and a link about to enter the   *)
(* routing table has been told nothing.                                     *)
ToldInv ==
  /\ \A l \in Links : told[l] \in Unaccepted => Ended(l)
  /\ \A l \in Links : stage[l] = "committed" => told[l] = "none"

(* Whoever was told to give up for good, or did, is excused.                *)
ExcusedInv ==
  /\ (\E l \in Links : Permanent(told[l])) => Excused
  /\ StopsAreAudited

(* Half a link lasts no longer than KeepAlive.                              *)
DeadInv ==
  \A l \in Links : deadAt[l] # NoMark =>
    deadAt[l] <= now /\ (~Ended(l) => now <= deadAt[l] + KeepAlive)

AgentInv ==
  /\ AgentTypeOK
  /\ DialledInv
  /\ CredentialInv
  /\ ToldInv
  /\ ExcusedInv
  /\ DeadInv

(* The agent has stopped, or will when the close frame reaches it.          *)
Doomed(a) == run[a] = "stopped" \/ (on[a] # None /\ Permanent(told[on[a]]))

CauseInv == \A a \in Agents : Doomed(a) => Beaten(a) \/ a \in met

(* A link not yet attached is the one its agent is on, or that agent has    *)
(* just left it and its pause is not over.                                  *)
EarlyInv ==
  \A a \in Agents, l \in Links :
    owner[l] = a /\ stage[l] \in {"idle", "looked", "authorised", "committed"} =>
      on[a] = l \/ (run[a] = "waiting" /\ now < wake[a])

(* As long as the claim is active and nobody met a link of its own: whoever *)
(* holds the route runs on, and somebody does even when the route is free.  *)
SurvivorInv ==
  (\E s \in Claimed : ~claims[s].revoked) /\ met = {} =>
    /\ \E a \in Agents : ~Doomed(a)
    /\ \A s \in Subdomains : live[s].link # None =>
         \E a \in Agents : owner[live[s].link] = a /\ ~Doomed(a)

(* The server notices the loss of a link before its agent dials again.      *)
LossNoticedFirst == \A i \in DOMAIN Delays : KeepAlive < Delays[i]

(* A link its agent has left is gone before the agent's next dial; one that *)
(* a stopped agent leaves behind was told so.                               *)
AbandonedInv ==
  \A a \in Agents, l \in Links : owner[l] = a /\ on[a] # l /\ ~Ended(l) =>
    \/ run[a] = "stopped" /\ told[l] # "none"
    \/ run[a] = "waiting" /\ deadAt[l] # NoMark /\ deadAt[l] + KeepAlive < wake[a]

(* So no agent has two links at once, the routing table holds none that has *)
(* ended, and no agent meets a link of its own.                             *)
AloneInv ==
  /\ AbandonedInv
  /\ \A l, m \in Links :
       owner[l] = owner[m] /\ owner[l] # None /\ ~Ended(l) /\ ~Ended(m) => l = m
  /\ \A s \in Subdomains : live[s].link # None => ~Ended(live[s].link)
  /\ met = {}
=============================================================================
