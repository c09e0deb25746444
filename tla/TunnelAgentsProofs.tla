------------------------- MODULE TunnelAgentsProofs -------------------------
(***************************************************************************)
(* Proofs about agents that share a credential, for any number of agents,  *)
(* links and claims, any reconnect schedule and any keep-alive, with       *)
(* shutdowns, crashes and a store that fails: behind them run the accept   *)
(* handler and the service, unchanged; an agent stops only when beaten, or *)
(* when a redial meets an earlier link of its own; and until that happens  *)
(* one of the agents of an active claim runs on.                           *)
(***************************************************************************)
EXTENDS TunnelAgents, TunnelFrontProofs

-----------------------------------------------------------------------------
(* The agents drive the server by the handler's own steps.                  *)

LEMMA CredentialIsReal == Credential \in Tokens /\ Credential # None
BY AgentAssumption, NoneAssumption

LEMMA DialledIsHandler ==
  ASSUME NEW l \in Links, ServeDialled(l)
  PROVE  HandlerNext
BY CredentialIsReal DEF ServeDialled, HandlerNext

LEMMA AgentStepIsHandler ==
  ASSUME [AgentNext]_allvars
  PROVE  [HandlerNext]_hvars
<1>1. CASE \E a \in Agents : \/ \E l \in Links : Dial(a, l)
                             \/ DialFails(a)  \/ DialRejected(a) \/ DialEstablished(a)
                             \/ LinkClosed(a) \/ LinkLost(a)
  BY <1>1 DEF Dial, DialFails, DialRejected, DialEstablished, LinkClosed, LinkLost
<1>2. CASE \E l \in Links : ServeDialled(l)
  BY <1>2, DialledIsHandler
<1>3. CASE \E s \in Subdomains : Claim(s, Credential) /\ UNCHANGED <<tracked, shut, avars>>
  BY <1>3, CredentialIsReal DEF HandlerNext, Operate
<1>4. CASE Disturb
  BY <1>4 DEF Disturb, HandlerNext
<1>5. CASE Pass \/ ServerDies
  BY <1>5 DEF Pass, ServerDies, HandlerNext
<1>6. CASE UNCHANGED allvars
  BY <1>6 DEF allvars
<1> QED
  BY <1>1, <1>2, <1>3, <1>4, <1>5, <1>6 DEF AgentNext

(* Whatever the agents and the network do, the server's part is a behaviour *)
(* of the accept handler over the service, shutdown and crash included.     *)
THEOREM AgentsDriveHandler == AgentSpec => HandlerInit /\ [][HandlerNext]_hvars
<1>1. AgentInit => HandlerInit
  BY DEF AgentInit
<1>2. [AgentNext]_allvars => [HandlerNext]_hvars
  BY AgentStepIsHandler
<1> QED
  BY <1>1, <1>2, PTL DEF AgentSpec

(* Claims, handlers, routes and audit rows agree behind the agents too.     *)
THEOREM AgentsKeepService == AgentSpec => [](IndInv /\ AuditIndInv)
<1>1. HandlerInit => IndInv /\ AuditIndInv
  BY InitEstablishes, InitKeepsAudit DEF HandlerInit
<1>2. (IndInv /\ AuditIndInv) /\ [HandlerNext]_hvars => (IndInv /\ AuditIndInv)'
  BY HandlerKeepsServiceStep
<1> QED
  BY <1>1, <1>2, AgentsDriveHandler, PTL

-----------------------------------------------------------------------------
(* What the steps of the handler keep.                                      *)

(* A request turned away at the door leaves, and nothing else changes.      *)
LEMMA TurnsAwayIs ==
  ASSUME IndInv, NEW l \in Links, TurnsAway(l)
  PROVE  /\ stage[l] \in Early /\ told[l] = "none"
         /\ stage' = [stage EXCEPT ![l] = "refused"]
         /\ \A k \in Links : k # l => told'[k] = told[k]
         /\ told'[l] \in {"none", "unavailable", "shutdown"}
         /\ UNCHANGED <<claims, audit, live, superseded, generation, mu, held, gen, done,
                        now, boot>>
<1>1. /\ stage[l] \in Early /\ stage' = [stage EXCEPT ![l] = "refused"]
      /\ UNCHANGED <<durable, volatile, mu, held, gen, done, now, boot>>
  BY DEF TurnsAway, RejectClosing, UpgradeFails, TrackRefused, Leave, Early
<1>2. told[l] = "none" /\ told \in [Links -> Reasons]
  BY <1>1 DEF IndInv, HeldInv, TypeOK
<1>3. told' = told \/ \E r \in {"unavailable", "shutdown"} : told' = Tell(l, r)
  BY DEF TurnsAway, RejectClosing, UpgradeFails, TrackRefused, Leave
<1>4. /\ \A k \in Links : k # l => told'[k] = told[k]
      /\ told'[l] \in {"none", "unavailable", "shutdown"}
  BY <1>2, <1>3 DEF Tell
<1> QED
  BY <1>1, <1>2, <1>4 DEF durable, volatile

LEMMA HandlerClaimsGrow ==
  ASSUME IndInv, [HandlerNext]_hvars, NEW s \in Subdomains
  PROVE  /\ s \in ListClaims => s \in ListClaims' /\ claims'[s].token = claims[s].token
         /\ claims[s].revoked => claims'[s].revoked
<1>1. CASE [Next]_vars
  BY <1>1, ClaimsGrow
<1>2. CASE \E l \in Links : TurnsAway(l)
  BY <1>2, TurnsAwayIs DEF ListClaims
<1> QED
  BY <1>1, <1>2, HandlerStepKinds

LEMMA HandlerRowsStay ==
  ASSUME IndInv, [HandlerNext]_hvars, NEW s \in Subdomains
  PROVE  /\ Len(audit[s]) \in Nat /\ Len(audit'[s]) \in Nat
         /\ Len(audit[s]) <= Len(audit'[s])
         /\ \A i \in 1..Len(audit[s]) : audit'[s][i] = audit[s][i]
<1>1. CASE [Next]_vars
  BY <1>1, RowsStay
<1>2. CASE \E l \in Links : TurnsAway(l)
  <2>1. audit' = audit
    BY <1>2, TurnsAwayIs
  <2> QED
    BY <2>1, LastKindRead
<1> QED
  BY <1>1, <1>2, HandlerStepKinds

LEMMA HandlerLinksAdvance ==
  ASSUME IndInv, [HandlerNext]_hvars, NEW k \in Links
  PROVE  /\ Ended(k) => Ended(k)'
         /\ gen[k] > 0 => gen'[k] > 0
         /\ told[k] # "none" => told'[k] = told[k]
<1>1. CASE [Next]_vars
  BY <1>1, LinksAdvance DEF Ended
<1>2. CASE \E l \in Links : TurnsAway(l)
  <2>1. stage \in [Links -> Stages]
    BY DEF IndInv, TypeOK
  <2> QED
    BY <1>2, <2>1, TurnsAwayIs DEF Ended
<1> QED
  BY <1>1, <1>2, HandlerStepKinds

LEMMA HandlerTyped ==
  ASSUME HandlerTypeOK, IndInv', [HandlerNext]_hvars
  PROVE  HandlerTypeOK'
<1>1. TypeOK'
  BY DEF IndInv
<1>2. tracked' \in SUBSET Links /\ shut' \in ShutStages
  BY DEF HandlerTypeOK, HandlerNext, hvars, ServeRequest, RejectClosing, UpgradeFails,
     Track, TrackRefused, AttachReturns, Install, SessionDone, CloseOnShutdown,
     LostReturns, Detach, Untrack, Cut, ShutdownBegins, ShutdownDeadline,
     ShutdownReturns, Crash, ShutStages
<1> QED
  BY <1>1, <1>2 DEF HandlerTypeOK

-----------------------------------------------------------------------------
(* Constants and helpers.                                                   *)

(* Schedule.Delay never pauses for nothing, and where the keep-alive is     *)
(* below every delay, it outlasts the keep-alive.                           *)
LEMMA DelayIsPositive ==
  ASSUME NEW count \in 0..Len(Delays)
  PROVE  /\ Delay(count) \in Nat /\ Delay(count) > 0
         /\ LossNoticedFirst => KeepAlive < Delay(count)
<1>1. Delays \in Seq(Nat \ {0}) /\ Len(Delays) \in Nat /\ Len(Delays) # 0
  BY AgentAssumption, EmptySeq, LenProperties
<1> DEFINE i == IF count < 1 THEN 1 ELSE IF count > Len(Delays) THEN Len(Delays) ELSE count
<1>2. i \in 1..Len(Delays)
  BY <1>1
<1>3. Delays[i] \in Nat \ {0} /\ DOMAIN Delays = 1..Len(Delays)
  BY <1>1, <1>2, LenProperties
<1> QED
  BY <1>2, <1>3 DEF Delay, LossNoticedFirst

LEMMA OneMoreTyped ==
  ASSUME AgentTypeOK, NEW a \in Agents
  PROVE  OneMore(a) \in 0..Len(Delays)
<1>1. Len(Delays) \in Nat /\ failures[a] \in 0..Len(Delays)
  BY AgentAssumption, LenProperties DEF AgentTypeOK
<1> QED
  BY <1>1 DEF OneMore

(* A claim with the credential stays one, and a revoked one stays revoked.  *)
LEMMA ClaimedGrows ==
  ASSUME IndInv, [HandlerNext]_hvars
  PROVE  /\ \A s \in Claimed : s \in Claimed'
         /\ \A s \in Claimed : claims[s].revoked => claims'[s].revoked
<1> SUFFICES ASSUME NEW s \in Subdomains, claims[s].token = Credential
             PROVE  /\ claims'[s].token = Credential
                    /\ claims[s].revoked => claims'[s].revoked
  BY DEF Claimed
<1>1. s \in ListClaims
  BY CredentialIsReal DEF ListClaims, NoRow
<1> QED
  BY <1>1, HandlerClaimsGrow

(* What excused a stop stays in the audit.                                  *)
LEMMA ExcuseStays ==
  ASSUME IndInv, [HandlerNext]_hvars, Excused
  PROVE  Excused'
<1>1. PICK s \in Claimed : \E i \in 1..Len(audit[s]) :
             audit[s][i].kind \in {"superseded", "revoked"}
  BY DEF Excused
<1>2. PICK i \in 1..Len(audit[s]) : audit[s][i].kind \in {"superseded", "revoked"}
  BY <1>1
<1>3. s \in Subdomains /\ s \in Claimed'
  BY <1>1, ClaimedGrows DEF Claimed
<1>4. /\ Len(audit[s]) \in Nat /\ Len(audit'[s]) \in Nat
      /\ Len(audit[s]) <= Len(audit'[s])
      /\ audit'[s][i] = audit[s][i]
  BY <1>2, <1>3, HandlerRowsStay
<1>5. i \in 1..Len(audit'[s])
  BY <1>2, <1>4
<1> QED
  BY <1>2, <1>3, <1>4, <1>5 DEF Excused

(* A revocation and a takeover each left a row.                             *)
LEMMA ExcusedBy ==
  ASSUME IndInv, AuditIndInv, NEW s \in Claimed, claims[s].revoked \/ TookOver(s)
  PROVE  Excused
<1>1. s \in Subdomains /\ AuditInv(s) /\ Len(audit[s]) \in Nat /\ boot[s] \in Nat
  BY LastKindRead DEF Claimed, AuditIndInv, IndInv, TypeOK
<1>2. CASE claims[s].revoked
  <2>1. LastKind(s) = "revoked"
    BY <1>1, <1>2 DEF AuditInv, RowsTellClaim
  <2>2. Len(audit[s]) > 0 /\ audit[s][Len(audit[s])].kind = "revoked"
    BY <1>1, <2>1, LastKindRead
  <2>3. Len(audit[s]) \in 1..Len(audit[s])
    BY <1>1, <2>2
  <2> QED
    BY <2>2, <2>3 DEF Excused
<1>3. CASE TookOver(s)
  <2>1. Len(audit[s]) - 1 \in 1..Len(audit[s])
    BY <1>1, <1>3 DEF TookOver
  <2> QED
    BY <1>3, <2>1 DEF Excused, TookOver
<1> QED
  BY <1>2, <1>3

-----------------------------------------------------------------------------
(* What the agents do themselves: the service stands still.                 *)

LEMMA ServiceStandsStill ==
  ASSUME AgentInv, UNCHANGED hvars
  PROVE  /\ HandlerTypeOK' /\ CredentialInv' /\ ToldInv'
         /\ Claimed' = Claimed /\ Excused' = Excused
         /\ \A l \in Links : Ended(l)' = Ended(l)
         /\ UNCHANGED <<claims, audit, live, stage, held, gen, told, now>>
<1>1. UNCHANGED <<claims, audit, live, superseded, generation, mu, stage, held, gen,
                  told, done, now, boot>>
  BY DEF hvars, vars
<1>2. HandlerTypeOK'
  BY <1>1 DEF AgentInv, AgentTypeOK, HandlerTypeOK, TypeOK, hvars
<1>3. Claimed' = Claimed
  BY <1>1 DEF Claimed
<1>4. \A l \in Links : Ended(l)' = Ended(l)
  BY <1>1 DEF Ended
<1>5. CredentialInv'
  BY <1>1, <1>3 DEF AgentInv, CredentialInv
<1>6. ToldInv'
  BY <1>1, <1>4 DEF AgentInv, ToldInv
<1>7. Excused' = Excused
  BY <1>1, <1>3 DEF Excused
<1> QED
  BY <1>1, <1>2, <1>3, <1>4, <1>5, <1>6, <1>7

(* The agent closed its end of the link it is on, or left it as it was.     *)
Closes(a) == on[a] # None /\ CloseEnd(on[a])

LEMMA ClosingEffect ==
  ASSUME AgentInv, NEW a \in Agents, deadAt' = deadAt \/ Closes(a)
  PROVE  /\ deadAt' \in [Links -> Nat \cup {NoMark}]
         /\ \A l \in Links : deadAt'[l] = deadAt[l] \/ (l = on[a] /\ deadAt'[l] = now)
         /\ \A l \in Links : deadAt[l] # NoMark => deadAt'[l] = deadAt[l]
         /\ Closes(a) => deadAt'[on[a]] # NoMark
<1>1. /\ deadAt \in [Links -> Nat \cup {NoMark}] /\ now \in Nat
      /\ on[a] \in Links \cup {None} /\ now # NoMark
  BY DEF AgentInv, AgentTypeOK, HandlerTypeOK, TypeOK, NoMark
<1> QED
  BY <1>1 DEF Closes, CloseEnd

(* What every move of an agent that stays with the links it dialled keeps.  *)
LEMMA ClosingKeepsDead ==
  ASSUME AgentInv, UNCHANGED hvars, NEW a \in Agents, deadAt' = deadAt \/ Closes(a)
  PROVE  DeadInv'
<1> SUFFICES ASSUME NEW l \in Links, deadAt'[l] # NoMark
             PROVE  deadAt'[l] <= now' /\ (~Ended(l)' => now' <= deadAt'[l] + KeepAlive)
  BY DEF DeadInv
<1>1. now' = now /\ Ended(l)' = Ended(l) /\ now \in Nat /\ KeepAlive \in Nat
  BY ServiceStandsStill, AgentAssumption DEF AgentInv, AgentTypeOK, HandlerTypeOK, TypeOK
<1>2. deadAt'[l] = deadAt[l] \/ deadAt'[l] = now
  BY ClosingEffect
<1>3. CASE deadAt'[l] = deadAt[l]
  BY <1>1, <1>3 DEF AgentInv, DeadInv
<1>4. CASE deadAt'[l] = now
  BY <1>1, <1>4
<1> QED
  BY <1>2, <1>3, <1>4

LEMMA PauseKeeps ==
  ASSUME AgentInv, NEW a \in Agents, NEW count \in 0..Len(Delays), Pause(a, count),
         UNCHANGED <<hvars, owner, met>>, deadAt' = deadAt \/ Closes(a)
  PROVE  AgentInv'
<1>1. /\ UNCHANGED hvars /\ owner' = owner /\ met' = met
      /\ run' = [run EXCEPT ![a] = "waiting"] /\ on' = [on EXCEPT ![a] = None]
      /\ failures' = [failures EXCEPT ![a] = count]
      /\ wake' = [wake EXCEPT ![a] = now + Delay(count)]
  BY DEF Pause
<1>2. now + Delay(count) \in Nat
  BY DelayIsPositive DEF AgentInv, AgentTypeOK, HandlerTypeOK, TypeOK
<1>3. AgentTypeOK'
  BY <1>1, <1>2, ServiceStandsStill, ClosingEffect DEF AgentInv, AgentTypeOK
<1>4. DialledInv'
  <2>1. \A b \in Agents : /\ run'[b] = IF b = a THEN "waiting" ELSE run[b]
                          /\ on'[b] = IF b = a THEN None ELSE on[b]
    BY <1>1 DEF AgentInv, AgentTypeOK
  <2>2. \A l \in Links : owner[l] = None => deadAt'[l] = deadAt[l]
    <3> SUFFICES ASSUME NEW l \in Links, owner[l] = None, deadAt'[l] # deadAt[l] PROVE FALSE
      OBVIOUS
    <3>1. l = on[a] /\ l # None
      BY ClosingEffect, NoneAssumption
    <3> QED
      BY <3>1, AgentAssumption DEF AgentInv, DialledInv
  <2>3. UNCHANGED <<stage, owner>> /\ Claimed' = Claimed
    BY <1>1, ServiceStandsStill
  <2> QED
    BY <2>1, <2>2, <2>3 DEF AgentInv, DialledInv
<1>5. ExcusedInv'
  <2>1. \A b \in Agents : run'[b] = "stopped" => run[b] = "stopped"
    BY <1>1 DEF AgentInv, AgentTypeOK
  <2>2. told' = told /\ Excused' = Excused
    BY <1>1, ServiceStandsStill
  <2> QED
    BY <2>1, <2>2 DEF AgentInv, ExcusedInv, StopsAreAudited
<1> QED
  BY <1>1, <1>3, <1>4, <1>5, ServiceStandsStill, ClosingKeepsDead DEF AgentInv

LEMMA StopKeeps ==
  ASSUME AgentInv, NEW a \in Agents, Stop(a), on[a] # None, Permanent(told[on[a]]),
         UNCHANGED <<hvars, owner, met>>, deadAt' = deadAt \/ Closes(a)
  PROVE  AgentInv'
<1>1. /\ UNCHANGED hvars /\ owner' = owner /\ met' = met
      /\ run' = [run EXCEPT ![a] = "stopped"] /\ on' = [on EXCEPT ![a] = None]
      /\ UNCHANGED <<failures, wake>>
  BY DEF Stop
<1>3. AgentTypeOK'
  BY <1>1, ServiceStandsStill, ClosingEffect DEF AgentInv, AgentTypeOK
<1>4. DialledInv'
  <2>1. \A b \in Agents : /\ run'[b] = IF b = a THEN "stopped" ELSE run[b]
                          /\ on'[b] = IF b = a THEN None ELSE on[b]
    BY <1>1 DEF AgentInv, AgentTypeOK
  <2>2. \A l \in Links : owner[l] = None => deadAt'[l] = deadAt[l]
    <3> SUFFICES ASSUME NEW l \in Links, owner[l] = None, deadAt'[l] # deadAt[l] PROVE FALSE
      OBVIOUS
    <3>1. l = on[a] /\ l # None
      BY ClosingEffect, NoneAssumption
    <3> QED
      BY <3>1, AgentAssumption DEF AgentInv, DialledInv
  <2>3. UNCHANGED <<stage, owner>> /\ Claimed' = Claimed
    BY <1>1, ServiceStandsStill
  <2> QED
    BY <2>1, <2>2, <2>3 DEF AgentInv, DialledInv
<1>5. ExcusedInv'
  <2>1. on[a] \in Links
    BY DEF AgentInv, AgentTypeOK
  <2>2. Excused
    BY <2>1 DEF AgentInv, ExcusedInv
  <2>3. Excused'
    BY <1>1, <2>2, ServiceStandsStill
  <2> QED
    BY <2>3 DEF ExcusedInv, StopsAreAudited
<1> QED
  BY <1>1, <1>3, <1>4, <1>5, ServiceStandsStill, ClosingKeepsDead DEF AgentInv

LEMMA DialKeeps ==
  ASSUME AgentInv, NEW a \in Agents, NEW l \in Links, Dial(a, l)
  PROVE  AgentInv'
<1>1. /\ UNCHANGED hvars /\ owner' = [owner EXCEPT ![l] = a] /\ owner[l] = None
      /\ run' = [run EXCEPT ![a] = "dialing"] /\ on' = [on EXCEPT ![a] = l]
      /\ UNCHANGED <<failures, wake, deadAt, met>> /\ CanDial(a)
  BY DEF Dial
<1>2. Claimed # {}
  BY <1>1 DEF CanDial, Claimed
<1>3. AgentTypeOK'
  BY <1>1, ServiceStandsStill DEF AgentInv, AgentTypeOK
<1>4. DialledInv'
  <2>1. \A b \in Agents : /\ run'[b] = IF b = a THEN "dialing" ELSE run[b]
                          /\ on'[b] = IF b = a THEN l ELSE on[b]
    BY <1>1 DEF AgentInv, AgentTypeOK
  <2>2. \A k \in Links : owner'[k] = IF k = l THEN a ELSE owner[k]
    BY <1>1 DEF AgentInv, AgentTypeOK
  <2>3. \A b \in Agents : on[b] # l /\ b # None
    BY <1>1, AgentAssumption, NoneAssumption DEF AgentInv, DialledInv
  <2>4. UNCHANGED <<stage, deadAt>> /\ Claimed' = Claimed /\ l # None
    BY <1>1, ServiceStandsStill, NoneAssumption
  <2>5. \A b \in Agents : on[b] \in Links \cup {None}
    BY DEF AgentInv, AgentTypeOK
  <2> QED
    BY <1>2, <2>1, <2>2, <2>3, <2>4, <2>5 DEF AgentInv, DialledInv
<1>5. ExcusedInv'
  <2>1. \A b \in Agents : run'[b] = "stopped" => run[b] = "stopped"
    BY <1>1 DEF AgentInv, AgentTypeOK
  <2>2. told' = told /\ Excused' = Excused
    BY <1>1, ServiceStandsStill
  <2> QED
    BY <2>1, <2>2 DEF AgentInv, ExcusedInv, StopsAreAudited
<1> QED
  BY <1>1, <1>3, <1>4, <1>5, ServiceStandsStill, ClosingKeepsDead DEF AgentInv

LEMMA EstablishedKeeps ==
  ASSUME AgentInv, NEW a \in Agents, DialEstablished(a)
  PROVE  AgentInv'
<1>1. /\ UNCHANGED hvars /\ run[a] = "dialing" /\ run' = [run EXCEPT ![a] = "serving"]
      /\ UNCHANGED <<on, failures, wake, owner, deadAt, met>>
  BY DEF DialEstablished
<1>2. \A b \in Agents : run'[b] = IF b = a THEN "serving" ELSE run[b]
  BY <1>1 DEF AgentInv, AgentTypeOK
<1>3. AgentTypeOK'
  BY <1>1, ServiceStandsStill DEF AgentInv, AgentTypeOK
<1>4. DialledInv'
  BY <1>1, <1>2, ServiceStandsStill DEF AgentInv, DialledInv
<1>5. ExcusedInv'
  <2>1. told' = told /\ Excused' = Excused
    BY <1>1, ServiceStandsStill
  <2> QED
    BY <1>2, <2>1 DEF AgentInv, ExcusedInv, StopsAreAudited
<1> QED
  BY <1>1, <1>3, <1>4, <1>5, ServiceStandsStill, ClosingKeepsDead DEF AgentInv

(* The moves of an agent, by what they leave behind.                        *)
Departs(a) == DialFails(a) \/ DialRejected(a) \/ LinkClosed(a) \/ LinkLost(a)

LEMMA DepartureIs ==
  ASSUME AgentInv, NEW a \in Agents, Departs(a)
  PROVE  /\ UNCHANGED <<hvars, owner, met>> /\ (deadAt' = deadAt \/ Closes(a))
         /\ run[a] # "stopped"
         /\ on[a] # None => Ended(on[a]) \/ Closes(a)
         /\ \/ \E count \in 0..Len(Delays) : Pause(a, count)
            \/ Stop(a) /\ on[a] # None /\ Permanent(told[on[a]])
<1>0. /\ OneMore(a) \in 0..Len(Delays) /\ 1 \in 0..Len(Delays)
      /\ on[a] \in Links \cup {None}
      /\ run[a] \in {"dialing", "serving"} <=> on[a] # None
  <2>1. 1 \in 0..Len(Delays)
    BY AgentAssumption, EmptySeq, LenProperties
  <2> QED
    BY <2>1, OneMoreTyped DEF AgentInv, AgentTypeOK, DialledInv
<1>1. CASE DialFails(a)
  BY <1>0, <1>1 DEF DialFails, CanDial
<1>2. CASE DialRejected(a)
  <2>1. Ended(on[a]) /\ on[a] # None
    BY <1>0, <1>2 DEF DialRejected, AgentInv, ToldInv
  <2> QED
    BY <1>0, <1>2, <2>1 DEF DialRejected
<1>3. CASE LinkClosed(a)
  BY <1>0, <1>3 DEF LinkClosed, Closes
<1>4. CASE LinkLost(a)
  <2>1. CASE run[a] = "dialing"
    BY <1>0, <1>4, <2>1 DEF LinkLost, Closes
  <2>2. CASE run[a] = "serving"
    BY <1>0, <1>4, <2>2 DEF LinkLost, Closes
  <2> QED
    BY <1>4, <2>1, <2>2 DEF LinkLost
<1> QED
  BY <1>1, <1>2, <1>3, <1>4 DEF Departs

-----------------------------------------------------------------------------
(* What the server, the operator, the clock and a crash do: the agents      *)
(* stand still.                                                             *)

AgentsStandStill == UNCHANGED <<run, on, failures, wake, owner>>

(* What every such step keeps of who dialled what and when it died.         *)
LEMMA StillKeepsDialled ==
  ASSUME IndInv, AgentInv, [HandlerNext]_hvars, AgentsStandStill,
         \A l \in Links : owner[l] = None =>
           stage'[l] = stage[l] /\ deadAt'[l] = deadAt[l]
  PROVE  DialledInv'
<1>1. Claimed # {} => Claimed' # {}
  BY ClaimedGrows
<1> QED
  BY <1>1 DEF AgentInv, DialledInv, AgentsStandStill

LEMMA StillKeepsDead ==
  ASSUME IndInv, AgentInv, [HandlerNext]_hvars, now' = now,
         \A l \in Links : deadAt'[l] \in {deadAt[l], now}
  PROVE  DeadInv'
<1> SUFFICES ASSUME NEW l \in Links, deadAt'[l] # NoMark
             PROVE  deadAt'[l] <= now' /\ (~Ended(l)' => now' <= deadAt'[l] + KeepAlive)
  BY DEF DeadInv
<1>1. (Ended(l) => Ended(l)') /\ now \in Nat /\ KeepAlive \in Nat
  BY HandlerLinksAdvance, AgentAssumption DEF IndInv, TypeOK
<1>2. CASE deadAt'[l] = deadAt[l]
  BY <1>1, <1>2 DEF AgentInv, DeadInv
<1>3. CASE deadAt'[l] = now
  BY <1>1, <1>3
<1> QED
  BY <1>2, <1>3

(* The steps that tell a link why it is over, and the reason they give.     *)
LEMMA StillKeepsExcuses ==
  ASSUME IndInv, AgentInv, [HandlerNext]_hvars, AgentsStandStill,
         (\E l \in Links : told'[l] # told[l] /\ Permanent(told'[l])) => Excused
  PROVE  ExcusedInv'
<1>1. Excused => Excused'
  BY ExcuseStays
<1>2. (\E l \in Links : Permanent(told'[l])) => Excused
  BY DEF AgentInv, ExcusedInv
<1>3. (\E a \in Agents : run'[a] = "stopped") => Excused
  BY DEF AgentInv, ExcusedInv, StopsAreAudited, AgentsStandStill
<1> QED
  BY <1>1, <1>2, <1>3 DEF ExcusedInv, StopsAreAudited

(* Claims and what links hold, when neither changes.                        *)
LEMMA SameCredential ==
  ASSUME AgentInv, UNCHANGED <<claims, held>>
  PROVE  CredentialInv'
BY DEF AgentInv, CredentialInv, Claimed

-----------------------------------------------------------------------------
(* What a dialled link's handler does, by what it tells whom.               *)

(* A handler that refuses answers its own link only.                        *)
Refuses(l) ==
  \/ LookupRefused(l, Credential) \/ LookupFails(l) \/ AuthenticateRefused(l)
  \/ AttachRefused(l)             \/ AttachFails(l) \/ TurnsAway(l)

(* The steps of a handler that tell nobody.                                 *)
Proceeds(l) ==
  \/ Lookup(l, Credential) \/ Authenticate(l) \/ AttachCommit(l) \/ SessionEnds(l)
  \/ LostCommit(l) \/ LostDetach(l) \/ LostIgnored(l) \/ LostFails(l) \/ UNCHANGED vars

LEMMA DialledIs ==
  ASSUME NEW l \in Links, ServeDialled(l)
  PROVE  /\ owner[l] # None /\ AgentsStandStill
         /\ met' = IF MeetsItself(l) THEN met \cup {owner[l]} ELSE met
         /\ Refuses(l) \/ AttachInstall(l) \/ CloseForShutdown(l) \/ Proceeds(l)
BY DEF ServeDialled, ServeRequest, AttachReturns, Install, CloseOnShutdown, SessionDone,
   LostReturns, Detach, Track, Untrack, Cut, TurnsAway, Refuses, Proceeds, AgentsStandStill

LEMMA RefusalTells ==
  ASSUME IndInv, NEW l \in Links, Refuses(l)
  PROVE  /\ stage[l] \in Early /\ told[l] = "none"
         /\ \A k \in Links : k # l => told'[k] = told[k] /\ stage'[k] = stage[k]
         /\ stage'[l] = "refused"
         /\ UNCHANGED <<claims, audit, live, held, gen, now>>
         /\ LookupRefused(l, Credential) => told'[l] = "unauthorized"
         /\ AuthenticateRefused(l) => told'[l] = "conflict"
         /\ Permanent(told'[l]) =>
              \/ LookupRefused(l, Credential) \/ AuthenticateRefused(l)
              \/ AttachRefused(l) /\ told'[l] = "revoked"
<1>0. stage \in [Links -> Stages] /\ told \in [Links -> Reasons]
  BY DEF IndInv, TypeOK
<1>1. stage[l] \in Early /\ told[l] = "none"
  <2>1. stage[l] \in Early
    BY TurnsAwayIs DEF Refuses, LookupRefused, LookupFails, AuthenticateRefused,
       AttachRefused, AttachFails, Early
  <2> QED
    BY <2>1 DEF IndInv, HeldInv
<1>2. ASSUME NEW r \in Reasons, Leave(l, r)
      PROVE  /\ \A k \in Links : k # l => told'[k] = told[k] /\ stage'[k] = stage[k]
             /\ stage'[l] = "refused" /\ told'[l] = r
  BY <1>0, <1>1, <1>2 DEF Leave, Tell
<1>3. /\ CloseReasonFor(AttachError(l)) \in {"revoked", "shutdown"}
      /\ CloseReasonFor("error") = "shutdown"
  BY DEF CloseReasonFor
<1>4. {"unauthorized", "conflict", "error", "revoked", "shutdown"} \subseteq Reasons
  BY DEF Reasons
<1>5. /\ LookupRefused(l, Credential) => Leave(l, "unauthorized")
      /\ LookupFails(l) => Leave(l, "error")
      /\ AuthenticateRefused(l) => Leave(l, "conflict")
      /\ AttachRefused(l) => Leave(l, CloseReasonFor(AttachError(l)))
      /\ AttachFails(l) => Leave(l, "shutdown")
  BY <1>3 DEF LookupRefused, LookupFails, AuthenticateRefused, AttachRefused, AttachFails
<1>6. CASE TurnsAway(l)
  <2>1. ~LookupRefused(l, Credential) /\ ~AuthenticateRefused(l)
    BY <1>6, <1>0, <1>1, <1>2, <1>4, <1>5, TurnsAwayIs
  <2> QED
    BY <1>0, <1>1, <1>6, <2>1, TurnsAwayIs DEF Permanent
<1>7. CASE ~TurnsAway(l)
  <2>1. UNCHANGED <<claims, audit, live, held, gen, now>>
    BY <1>7 DEF Refuses, LookupRefused, LookupFails, AuthenticateRefused, AttachRefused,
       AttachFails, durable, volatile
  <2>2. PICK r \in Reasons : Leave(l, r)
    BY <1>3, <1>4, <1>5, <1>7 DEF Refuses
  <2>3. /\ \A k \in Links : k # l => told'[k] = told[k] /\ stage'[k] = stage[k]
        /\ stage'[l] = "refused"
    BY <1>2, <2>2
  <2>4. /\ LookupRefused(l, Credential) => told'[l] = "unauthorized"
        /\ LookupFails(l) => told'[l] = "error"
        /\ AuthenticateRefused(l) => told'[l] = "conflict"
        /\ AttachRefused(l) => told'[l] \in {"revoked", "shutdown"}
        /\ AttachFails(l) => told'[l] = "shutdown"
    BY <1>2, <1>3, <1>4, <1>5
  <2>5. Permanent(told'[l]) =>
          \/ LookupRefused(l, Credential) \/ AuthenticateRefused(l)
          \/ AttachRefused(l) /\ told'[l] = "revoked"
    BY <1>7, <2>4 DEF Permanent, Refuses
  <2> QED
    BY <1>1, <2>1, <2>3, <2>4, <2>5
<1> QED
  BY <1>6, <1>7

(* An installed link tells the one it displaces.                            *)
LEMMA InstallTells ==
  ASSUME IndInv, NEW l \in Links, AttachInstall(l)
  PROVE  /\ held[l].subdomain \in Subdomains /\ stage[l] = "committed" /\ gen[l] > 0
         /\ UNCHANGED <<claims, audit, held, gen, now>>
         /\ \A q \in Subdomains : live[q].link # l
         /\ \A q \in Subdomains : live'[q].link =
              IF q = held[l].subdomain THEN l ELSE live[q].link
         /\ \A k \in Links : stage'[k] = IF k = l THEN "attached" ELSE stage[k]
         /\ \A k \in Links : told'[k] # told[k] =>
              /\ Presence(held[l].subdomain) = "live"
              /\ k = live[held[l].subdomain].link /\ k # l
              /\ told'[k] = "superseded"
<1>0. /\ stage \in [Links -> Stages] /\ told \in [Links -> Reasons] /\ stage[l] = "committed"
      /\ live \in [Subdomains -> [link : Links \cup {None}, generation : Nat]]
      /\ generation \in Nat
  BY DEF IndInv, TypeOK, AttachInstall
<1>1. held[l].subdomain \in Subdomains /\ gen[l] > 0
  <2>1. held[l].subdomain # None /\ gen[l] = generation + 1
    BY <1>0 DEF IndInv, HeldInv, Admitted, GenerationInv
  <2> QED
    BY <1>0, <2>1 DEF IndInv, TypeOK
<1>2. \A q \in Subdomains : live[q].link # l
  BY <1>0, NoneAssumption DEF IndInv, RouteInv
<1>3. UNCHANGED <<claims, audit, held, gen, now>>
  BY DEF AttachInstall, durable
<1>4. \A q \in Subdomains : live'[q].link = IF q = held[l].subdomain THEN l ELSE live[q].link
  BY <1>0, <1>1 DEF AttachInstall
<1>5. \A k \in Links : stage'[k] = IF k = l THEN "attached" ELSE stage[k]
  BY <1>0 DEF AttachInstall
<1>6. ASSUME NEW k \in Links, told'[k] # told[k]
      PROVE  /\ Presence(held[l].subdomain) = "live"
             /\ k = live[held[l].subdomain].link
             /\ told'[k] = "superseded"
  BY <1>0, <1>6 DEF AttachInstall, Tell
<1> QED
  BY <1>0, <1>1, <1>2, <1>3, <1>4, <1>5, <1>6

(* A revocation tells the link it evicts.                                   *)
LEMMA EvictionTells ==
  ASSUME IndInv, NEW s \in Subdomains, RevokeEvict(s)
  PROVE  /\ claims[s].revoked
         /\ UNCHANGED <<claims, audit, held, gen, now, stage>>
         /\ \A q \in Subdomains : live'[q].link = IF q = s THEN None ELSE live[q].link
         /\ \A k \in Links : told'[k] # told[k] =>
              k = live[s].link /\ held[k].subdomain = s /\ told'[k] = "revoked"
<1>0. /\ told \in [Links -> Reasons]
      /\ live \in [Subdomains -> [link : Links \cup {None}, generation : Nat]]
  BY DEF IndInv, TypeOK
<1>1. claims[s].revoked
  BY DEF RevokeEvict, IndInv, LockInv
<1>2. UNCHANGED <<claims, audit, held, gen, now, stage>>
  BY DEF RevokeEvict, durable
<1>3. \A q \in Subdomains : live'[q].link = IF q = s THEN None ELSE live[q].link
  BY <1>0 DEF RevokeEvict, NoAttachment
<1>4. \A k \in Links : told'[k] # told[k] => k = live[s].link /\ told'[k] = "revoked"
  BY <1>0 DEF RevokeEvict, Tell
<1>5. \A k \in Links : k = live[s].link => held[k].subdomain = s
  BY NoneAssumption DEF IndInv, RouteInv
<1> QED
  BY <1>1, <1>2, <1>3, <1>4, <1>5

(* A link closed for shutdown is told so, unless it was told something.     *)
LEMMA ShutdownTells ==
  ASSUME IndInv, NEW l \in Links, CloseForShutdown(l)
  PROVE  /\ stage[l] = "attached"
         /\ \A k \in Links : told'[k] # told[k] => k = l /\ told'[k] = "shutdown"
         /\ UNCHANGED <<claims, audit, live, held, gen, now, stage>>
BY DEF CloseForShutdown, Tell, durable, volatile, IndInv, TypeOK

(* Who is on the way in, before or within Attach.                           *)
Entering == {"idle", "looked", "authorised", "committed"}

(* A handler that finishes has left the routing table, or failed to.        *)
LEMMA FinishedIsUnrouted ==
  ASSUME IndInv, NEW l \in Links, LostDetach(l) \/ LostIgnored(l), NEW q \in Subdomains
  PROVE  /\ live'[q].link # l
         /\ live'[q].link # None => live'[q].link = live[q].link
<1>0. live \in [Subdomains -> [link : Links \cup {None}, generation : Nat]]
  BY DEF IndInv, TypeOK
<1>1. live[q].link = l => held[l].subdomain = q /\ live[q].generation = gen[l]
  BY NoneAssumption DEF IndInv, RouteInv
<1>2. CASE LostDetach(l)
  <2>1. stage[l] = "recorded"
    BY <1>2 DEF LostDetach
  <2>2. held[l].subdomain \in Subdomains
    BY <2>1 DEF IndInv, TypeOK, HeldInv, Admitted
  <2>3. live[held[l].subdomain].link = l
    BY <2>1 DEF IndInv, OrphanInv
  <2>4. live[held[l].subdomain].generation = gen[l]
    BY <2>2, <2>3, NoneAssumption DEF IndInv, RouteInv
  <2>5. live' = [live EXCEPT ![held[l].subdomain] = NoAttachment]
    BY <1>2, <2>3, <2>4, NoneAssumption DEF LostDetach, Matches
  <2> QED
    BY <1>0, <1>1, <2>2, <2>5, NoneAssumption DEF NoAttachment
<1>3. CASE LostIgnored(l)
  BY <1>1, <1>3, NoneAssumption DEF LostIgnored, Matches, volatile
<1> QED
  BY <1>2, <1>3

LEMMA ProceedsTells ==
  ASSUME IndInv, NEW l \in Links, Proceeds(l)
  PROVE  /\ UNCHANGED <<claims, told, now>>
         /\ \A k \in Links : k # l => stage'[k] = stage[k]
         /\ stage'[l] \in Entering => stage[l] \in Entering
         /\ stage'[l] = "committed" => stage[l] \in {"authorised", "committed"}
         /\ stage'[l] # "attached" \/ stage'[l] = stage[l]
         /\ \A q \in Subdomains : live'[q].link # None => live'[q].link = live[q].link
         /\ Ended(l)' /\ ~StoreFails => Ended(l) \/ \A q \in Subdomains : live'[q].link # l
<1>0. stage \in [Links -> Stages]
  BY DEF IndInv, TypeOK
<1>1. CASE Lookup(l, Credential) \/ Authenticate(l) \/ AttachCommit(l)
  BY <1>0, <1>1 DEF Lookup, Authenticate, AttachCommit, durable, volatile, Entering, Ended
<1>2. CASE SessionEnds(l) \/ UNCHANGED vars
  BY <1>0, <1>2 DEF SessionEnds, durable, volatile, vars, Ended
<1>3. CASE LostCommit(l) \/ LostFails(l)
  BY <1>0, <1>3 DEF LostCommit, LostFails, durable, volatile, Entering, Ended
<1>4. CASE LostDetach(l) \/ LostIgnored(l)
  <2>1. /\ \A q \in Subdomains : live'[q].link # l
        /\ \A q \in Subdomains : live'[q].link # None => live'[q].link = live[q].link
    BY <1>4, FinishedIsUnrouted
  <2>2. /\ UNCHANGED <<claims, told, now>>
        /\ \A k \in Links : k # l => stage'[k] = stage[k]
        /\ stage'[l] = "finished"
    BY <1>0, <1>4 DEF LostDetach, LostIgnored, durable, volatile
  <2> QED
    BY <2>1, <2>2 DEF Entering
<1> QED
  BY <1>1, <1>2, <1>3, <1>4 DEF Proceeds

-----------------------------------------------------------------------------
(* Credentials: only a lookup reads one, only a claim hands one out.        *)

LEMMA CredentialKept ==
  ASSUME IndInv, AgentInv, AgentNext
  PROVE  CredentialInv'
<1>0. /\ claims \in [Subdomains -> [token : Tokens \cup {None}, revision : 0..2, revoked : BOOLEAN]]
      /\ held \in [Links -> [subdomain : Subdomains \cup {None}, token : Tokens \cup {None}]]
  BY DEF IndInv, TypeOK
<1>1. ASSUME NEW s \in Subdomains, NEW t \in Tokens, Claim(s, t)
      PROVE  CredentialInv'
  <2>1. /\ \A r \in Subdomains : claims[r].token # t
        /\ claims' = [claims EXCEPT ![s] = [token |-> t, revision |-> 1, revoked |-> FALSE]]
        /\ held' = held /\ claims[s] = NoRow
    BY <1>1 DEF Claim, InsertClaim, handler
  <2>2. \A r \in Subdomains : claims'[r].token = IF r = s THEN t ELSE claims[r].token
    BY <1>0, <2>1
  <2>3. \A q, r \in Claimed' : q = r
    BY <2>1, <2>2 DEF Claimed, AgentInv, CredentialInv
  <2> QED
    BY <2>1, <2>3 DEF AgentInv, CredentialInv
<1>2. ASSUME NEW s \in Subdomains, NEW r \in 1..2, RevokeCommit(s, r)
      PROVE  CredentialInv'
  <2>1. /\ claims' = [claims EXCEPT ![s].revision = @ + 1, ![s].revoked = TRUE]
        /\ held' = held
    BY <1>2 DEF RevokeCommit, RevokeClaim, handler
  <2>2. \A q \in Subdomains : claims'[q].token = claims[q].token
    BY <1>0, <2>1
  <2> QED
    BY <2>1, <2>2 DEF Claimed, AgentInv, CredentialInv
<1>3. ASSUME NEW l \in Links, Lookup(l, Credential)
      PROVE  CredentialInv'
  <2>1. PICK s \in Subdomains :
             held' = [held EXCEPT ![l] = [subdomain |-> s, token |-> Credential]]
    BY <1>3 DEF Lookup, ClaimByTokenHash
  <2>2. claims' = claims
    BY <1>3 DEF Lookup, durable
  <2>3. \A k \in Links : held'[k].subdomain # None => held'[k].token = Credential
    BY <1>0, <2>1 DEF AgentInv, CredentialInv
  <2> QED
    BY <2>2, <2>3 DEF Claimed, AgentInv, CredentialInv
<1>4. CASE \E l \in Links : ServeDialled(l)
  <2>1. PICK l \in Links : Refuses(l) \/ AttachInstall(l) \/ CloseForShutdown(l) \/ Proceeds(l)
    BY <1>4, DialledIs
  <2>2. CASE Lookup(l, Credential)
    BY <1>3, <2>2
  <2>3. CASE Proceeds(l) /\ ~Lookup(l, Credential)
    <3>1. UNCHANGED <<claims, held>>
      BY <2>3 DEF Proceeds, Authenticate, AttachCommit, SessionEnds, LostCommit, LostDetach,
         LostIgnored, LostFails, durable, vars
    <3> QED
      BY <3>1, SameCredential
  <2>4. CASE Refuses(l) \/ AttachInstall(l) \/ CloseForShutdown(l)
    BY <2>4, RefusalTells, InstallTells, ShutdownTells, SameCredential
  <2> QED
    BY <2>1, <2>2, <2>3, <2>4
<1>5. CASE \E s \in Subdomains : Operate(s)
  <2>1. PICK s \in Subdomains : Operate(s)
    BY <1>5
  <2>2. CASE RevokeEvict(s)
    BY <2>2, SameCredential DEF RevokeEvict, durable
  <2> QED
    BY <1>1, <1>2, <2>1, <2>2 DEF Operate
<1>6. CASE \E s \in Subdomains : Claim(s, Credential)
  BY <1>1, <1>6, CredentialIsReal
<1>7. CASE Pass \/ ServerDies
  BY <1>7, SameCredential DEF Pass, Tick, ServerDies, Crash, Restart, durable, handler
<1>8. CASE UNCHANGED vars
  BY <1>8, SameCredential DEF vars
<1> QED
  BY <1>4, <1>5, <1>6, <1>7, <1>8 DEF AgentNext, Dial, DialFails, DialRejected,
     DialEstablished, LinkClosed, LinkLost, Disturb, ShutdownBegins, ShutdownDeadline, hvars

(* A link that holds something holds a claim of the credential.             *)
LEMMA HoldsClaimed ==
  ASSUME IndInv, AgentInv, NEW l \in Links, held[l].subdomain # None
  PROVE  held[l].subdomain \in Claimed
BY DEF IndInv, TypeOK, HeldInv, AgentInv, CredentialInv, Claimed

-----------------------------------------------------------------------------
(* What links were told.                                                    *)

LEMMA RefusalKeepsTold ==
  ASSUME IndInv, AgentInv, NEW l \in Links, Refuses(l)
  PROVE  ToldInv'
BY RefusalTells DEF AgentInv, ToldInv, Ended

(* A link told that it is superseded or revoked had been attached.          *)
LEMMA RoutedTold ==
  ASSUME IndInv, AgentInv, NEW k \in Links, stage[k] # "committed",
         \A j \in Links : j # k => told'[j] = told[j],
         told'[k] = told[k] \/ told'[k] \in {"superseded", "revoked"},
         \A j \in Links : stage'[j] = stage[j] \/ (stage'[j] = "attached" /\ ~Ended(j))
  PROVE  ToldInv'
<1>1. ASSUME NEW j \in Links, told'[j] \in Unaccepted PROVE stage'[j] \in {"refused", "finished"}
  <2>1. told'[j] = told[j]
    BY <1>1 DEF Unaccepted
  <2>2. Ended(j)
    BY <1>1, <2>1 DEF AgentInv, ToldInv
  <2> QED
    BY <2>2 DEF Ended
<1>2. ASSUME NEW j \in Links, stage'[j] = "committed" PROVE told'[j] = "none"
  <2>1. stage[j] = "committed"
    BY <1>2
  <2>2. told[j] = "none" /\ j # k
    BY <2>1 DEF AgentInv, ToldInv
  <2> QED
    BY <2>2
<1> QED
  BY <1>1, <1>2 DEF ToldInv, Ended

LEMMA DisplacedWasAttached ==
  ASSUME IndInv, NEW s \in Subdomains, live[s].link # None
  PROVE  /\ live[s].link \in Links /\ held[live[s].link].subdomain = s
         /\ stage[live[s].link] \in {"attached", "recorded", "finished"}
         /\ gen[live[s].link] > 0
<1>1. /\ live[s].link \in Links /\ held[live[s].link].subdomain = s
      /\ stage[live[s].link] \in {"attached", "recorded", "finished"}
  BY DEF IndInv, TypeOK, RouteInv
<1>2. gen[live[s].link] \in 1..generation /\ generation \in Nat
  BY <1>1 DEF IndInv, TypeOK, GenerationInv, Numbered
<1> QED
  BY <1>1, <1>2

LEMMA InstallKeepsTold ==
  ASSUME IndInv, AgentInv, NEW l \in Links, AttachInstall(l)
  PROVE  ToldInv'
<1> DEFINE s == held[l].subdomain
           k == live[s].link
<1>1. /\ s \in Subdomains /\ stage[l] = "committed"
      /\ \A j \in Links : stage'[j] = IF j = l THEN "attached" ELSE stage[j]
      /\ \A j \in Links : told'[j] # told[j] =>
           Presence(s) = "live" /\ j = k /\ told'[j] = "superseded"
  BY InstallTells
<1>2. CASE \A j \in Links : told'[j] = told[j]
  BY <1>1, <1>2 DEF AgentInv, ToldInv, Ended
<1>3. CASE \E j \in Links : told'[j] # told[j]
  <2>1. PICK p \in Links : told'[p] # told[p]
    BY <1>3
  <2>2. p = k /\ stage[p] # "committed"
    BY <1>1, <2>1, DisplacedWasAttached DEF Presence
  <2>3. /\ \A j \in Links : j # p => told'[j] = told[j]
        /\ told'[p] \in {"superseded", "revoked"}
    BY <1>1, <2>1, <2>2
  <2>4. \A j \in Links : stage'[j] = stage[j] \/ (stage'[j] = "attached" /\ ~Ended(j))
    BY <1>1 DEF Ended
  <2> QED
    BY <2>2, <2>3, <2>4, RoutedTold
<1> QED
  BY <1>2, <1>3

LEMMA EvictionKeepsTold ==
  ASSUME IndInv, AgentInv, NEW s \in Subdomains, RevokeEvict(s)
  PROVE  ToldInv'
<1>1. /\ stage' = stage
      /\ \A k \in Links : told'[k] # told[k] =>
           k = live[s].link /\ held[k].subdomain = s /\ told'[k] = "revoked"
  BY EvictionTells
<1>2. CASE \A j \in Links : told'[j] = told[j]
  BY <1>1, <1>2 DEF AgentInv, ToldInv, Ended
<1>3. CASE \E j \in Links : told'[j] # told[j]
  <2>1. PICK k \in Links : k = live[s].link /\ told'[k] # told[k]
    BY <1>1, <1>3
  <2>2. stage[k] # "committed"
    BY <2>1, DisplacedWasAttached, NoneAssumption
  <2>3. /\ \A j \in Links : j # k => told'[j] = told[j]
        /\ told'[k] \in {"superseded", "revoked"}
    BY <1>1, <2>1
  <2>4. \A j \in Links : stage'[j] = stage[j] \/ (stage'[j] = "attached" /\ ~Ended(j))
    BY <1>1
  <2> QED
    BY <2>2, <2>3, <2>4, RoutedTold
<1> QED
  BY <1>2, <1>3

LEMMA ProceedingKeepsTold ==
  ASSUME IndInv, AgentInv, [HandlerNext]_hvars, NEW l \in Links, Proceeds(l)
  PROVE  ToldInv'
<1>1. /\ told' = told
      /\ \A k \in Links : k # l => stage'[k] = stage[k]
      /\ stage'[l] = "committed" => stage[l] \in {"authorised", "committed"}
  BY ProceedsTells
<1>2. \A k \in Links : Ended(k) => Ended(k)'
  BY HandlerLinksAdvance
<1>3. ASSUME NEW k \in Links, stage'[k] = "committed" PROVE told'[k] = "none"
  <2>1. stage[k] = "committed" \/ stage[k] = "authorised"
    BY <1>1, <1>3
  <2>2. told[k] = "none"
    BY <2>1 DEF AgentInv, ToldInv, IndInv, HeldInv, Early
  <2> QED
    BY <1>1, <2>2
<1> QED
  BY <1>1, <1>2, <1>3 DEF AgentInv, ToldInv

LEMMA CrashKeepsTold ==
  ASSUME IndInv, AgentInv, Restart
  PROVE  ToldInv'
<1>1. /\ told' = told
      /\ stage' = [l \in Links |-> IF stage[l] = "idle" THEN "idle" ELSE "finished"]
  BY DEF Restart
<1> QED
  BY <1>1 DEF AgentInv, ToldInv, Ended

-----------------------------------------------------------------------------
(* Every permanent answer has its row.                                      *)

LEMMA RefusalIsExcused ==
  ASSUME IndInv, IndInv', AuditIndInv, AgentInv, NEW l \in Links, owner[l] # None,
         Refuses(l), Permanent(told'[l])
  PROVE  Excused
<1>1. CASE LookupRefused(l, Credential)
  <2>1. PICK s \in Claimed : TRUE
    BY DEF AgentInv, DialledInv
  <2>2. claims[s].revoked
    BY <1>1 DEF LookupRefused, ClaimByTokenHash, Claimed
  <2> QED
    BY <2>1, <2>2, ExcusedBy
<1>2. CASE AuthenticateRefused(l)
  <2> DEFINE s == held[l].subdomain
  <2>1. stage[l] = "looked" /\ mu = None /\ ~TakeoverAllowed(s)
    BY <1>2 DEF AuthenticateRefused
  <2>2. s \in Claimed /\ s \in Subdomains
    BY <2>1, HoldsClaimed DEF IndInv, HeldInv, Admitted, Claimed
  <2>3. superseded[s] # NoMark
    BY <2>1 DEF TakeoverAllowed
  <2>4. TookOver(s)
    BY <2>1, <2>2, <2>3, UnlockedIsSettled DEF AuditIndInv, AuditInv, RowsTellPresence
  <2> QED
    BY <2>2, <2>4, ExcusedBy
<1>3. CASE AttachRefused(l) /\ told'[l] = "revoked"
  <2> DEFINE s == held[l].subdomain
  <2>1. stage[l] = "authorised"
    BY <1>3 DEF AttachRefused
  <2>2. s \in Claimed
    BY <2>1, HoldsClaimed DEF IndInv, HeldInv, Admitted
  <2>4. claims'[held'[l].subdomain].revoked
    BY <1>3 DEF IndInv, ReasonsAreTrue
  <2>5. claims[s].revoked
    BY <2>4, RefusalTells
  <2> QED
    BY <2>2, <2>5, ExcusedBy
<1> QED
  BY <1>1, <1>2, <1>3, RefusalTells

LEMMA InstallIsExcused ==
  ASSUME IndInv, AuditIndInv, AgentInv, NEW l \in Links, AttachInstall(l),
         NEW k \in Links, told'[k] # told[k]
  PROVE  Excused
<1> DEFINE s == held[l].subdomain
<1>1. s \in Subdomains /\ stage[l] = "committed" /\ Presence(s) = "live"
  BY InstallTells
<1>2. s \in Claimed
  BY <1>1, HoldsClaimed, NoneAssumption
<1>3. TookOver(s)
  BY <1>1 DEF AuditIndInv, AuditInv, RowsTellSection
<1> QED
  BY <1>2, <1>3, ExcusedBy

LEMMA EvictionIsExcused ==
  ASSUME IndInv, AuditIndInv, AgentInv, NEW s \in Subdomains, RevokeEvict(s),
         NEW k \in Links, told'[k] # told[k]
  PROVE  Excused
<1>1. claims[s].revoked /\ held[k].subdomain = s
  BY EvictionTells
<1>2. s \in Claimed
  BY <1>1, HoldsClaimed, NoneAssumption
<1> QED
  BY <1>1, <1>2, ExcusedBy


-----------------------------------------------------------------------------
(* The steps of the server, one by one.                                     *)

LEMMA DialledServedKeeps ==
  ASSUME IndInv, IndInv', AuditIndInv, AgentInv, AgentNext, NEW l \in Links, ServeDialled(l)
  PROVE  AgentInv'
<1>1. [HandlerNext]_hvars /\ HandlerTypeOK'
  BY AgentStepIsHandler, HandlerTyped DEF AgentInv, AgentTypeOK
<1>2. /\ owner[l] # None /\ AgentsStandStill
      /\ met' = IF MeetsItself(l) THEN met \cup {owner[l]} ELSE met
      /\ Refuses(l) \/ AttachInstall(l) \/ CloseForShutdown(l) \/ Proceeds(l)
  BY DialledIs
<1>3. now' = now /\ \A k \in Links : k # l => stage'[k] = stage[k]
  BY <1>2, RefusalTells, InstallTells, ShutdownTells, ProceedsTells
<1>4. deadAt \in [Links -> Nat \cup {NoMark}] /\ now \in Nat /\ met \in SUBSET Agents
      /\ owner \in [Links -> Agents \cup {None}]
  BY DEF AgentInv, AgentTypeOK, IndInv, TypeOK
<1>5. /\ deadAt' \in [Links -> Nat \cup {NoMark}]
      /\ \A k \in Links : deadAt'[k] \in {deadAt[k], now}
      /\ \A k \in Links : k # l => deadAt'[k] = deadAt[k]
  <2>1. \E v \in {deadAt[l], now} : deadAt' = [deadAt EXCEPT ![l] = v]
    <3>1. CASE deadAt[l] = NoMark /\ (l \in done' \/ stage'[l] \in {"refused", "finished"})
      BY <3>1 DEF ServeDialled
    <3>2. CASE ~(deadAt[l] = NoMark /\ (l \in done' \/ stage'[l] \in {"refused", "finished"}))
      BY <3>2 DEF ServeDialled
    <3> QED
      BY <3>1, <3>2
  <2> QED
    BY <1>4, <2>1
<1>6. AgentTypeOK'
  <2>1. met' \in SUBSET Agents
    BY <1>2, <1>4
  <2> QED
    BY <1>1, <1>2, <1>5, <2>1 DEF AgentInv, AgentTypeOK, AgentsStandStill
<1>7. DialledInv'
  BY <1>1, <1>2, <1>3, <1>5, StillKeepsDialled
<1>8. ToldInv'
  <2>1. CASE CloseForShutdown(l)
    <3>1. /\ stage[l] = "attached" /\ stage' = stage
          /\ \A k \in Links : told'[k] # told[k] => k = l /\ told'[k] = "shutdown"
      BY <2>1, ShutdownTells
    <3> QED
      BY <3>1 DEF AgentInv, ToldInv, Ended, Unaccepted
  <2> QED
    BY <1>1, <1>2, <2>1, RefusalKeepsTold, InstallKeepsTold, ProceedingKeepsTold
<1>9. ExcusedInv'
  <2>1. ASSUME NEW k \in Links, told'[k] # told[k], Permanent(told'[k]) PROVE Excused
    <3>1. CASE Refuses(l)
      <4>1. k = l
        BY <2>1, <3>1, RefusalTells
      <4> QED
        BY <1>2, <2>1, <3>1, <4>1, RefusalIsExcused
    <3>2. CASE AttachInstall(l)
      BY <2>1, <3>2, InstallIsExcused
    <3>3. CASE CloseForShutdown(l)
      BY <2>1, <3>3, ShutdownTells DEF Permanent
    <3>4. CASE Proceeds(l)
      BY <2>1, <3>4, ProceedsTells
    <3> QED
      BY <1>2, <3>1, <3>2, <3>3, <3>4
  <2> QED
    BY <1>1, <1>2, <2>1, StillKeepsExcuses
<1> QED
  BY <1>1, <1>3, <1>5, <1>6, <1>7, <1>8, <1>9, CredentialKept, StillKeepsDead DEF AgentInv

LEMMA OperatedKeeps ==
  ASSUME IndInv, IndInv', AuditIndInv, AgentInv, AgentNext,
         NEW s \in Subdomains, Operate(s), UNCHANGED avars
  PROVE  AgentInv'
<1>1. [HandlerNext]_hvars /\ HandlerTypeOK'
  BY AgentStepIsHandler, HandlerTyped DEF AgentInv, AgentTypeOK
<1>2. AgentsStandStill /\ UNCHANGED <<deadAt, met>>
  BY DEF avars, AgentsStandStill
<1>3. now' = now /\ stage' = stage
  BY DEF Operate, Claim, RevokeCommit, RevokeEvict, handler
<1>4. ~RevokeEvict(s) => told' = told /\ live' = live
  BY DEF Operate, Claim, RevokeCommit, handler, volatile
<1>5. AgentTypeOK'
  BY <1>1, <1>2 DEF AgentInv, AgentTypeOK, AgentsStandStill
<1>6. DialledInv'
  BY <1>1, <1>2, <1>3, StillKeepsDialled
<1>7. ToldInv'
  <2>1. CASE RevokeEvict(s)
    BY <2>1, EvictionKeepsTold
  <2>2. CASE ~RevokeEvict(s)
    BY <1>3, <1>4, <2>2 DEF AgentInv, ToldInv, Ended
  <2> QED
    BY <2>1, <2>2
<1>8. ExcusedInv'
  <2>1. ASSUME NEW k \in Links, told'[k] # told[k] PROVE Excused
    BY <1>4, <2>1, EvictionIsExcused
  <2> QED
    BY <1>1, <1>2, <2>1, StillKeepsExcuses
<1> QED
  BY <1>1, <1>2, <1>3, <1>5, <1>6, <1>7, <1>8, CredentialKept, StillKeepsDead DEF AgentInv

(* A shutdown that begins or whose deadline passes leaves the service be.   *)
LEMMA ShutdownKeeps ==
  ASSUME IndInv, IndInv', AgentInv, AgentNext, UNCHANGED vars, UNCHANGED avars
  PROVE  AgentInv'
<1>1. [HandlerNext]_hvars /\ HandlerTypeOK'
  BY AgentStepIsHandler, HandlerTyped DEF AgentInv, AgentTypeOK
<1>2. AgentsStandStill /\ UNCHANGED <<deadAt, met>>
  BY DEF avars, AgentsStandStill
<1>3. UNCHANGED <<claims, held, stage, told, now>>
  BY DEF vars
<1>4. AgentTypeOK'
  BY <1>1, <1>2 DEF AgentInv, AgentTypeOK, AgentsStandStill
<1>5. DialledInv' /\ ExcusedInv' /\ DeadInv' /\ CredentialInv'
  BY <1>1, <1>2, <1>3, StillKeepsDialled, StillKeepsExcuses, StillKeepsDead, SameCredential
<1>6. ToldInv'
  BY <1>3 DEF AgentInv, ToldInv, Ended
<1> QED
  BY <1>4, <1>5, <1>6 DEF AgentInv

LEMMA CrashKeeps ==
  ASSUME IndInv, IndInv', AgentInv, AgentNext, ServerDies
  PROVE  AgentInv'
<1>1. [HandlerNext]_hvars /\ HandlerTypeOK'
  BY AgentStepIsHandler, HandlerTyped DEF AgentInv, AgentTypeOK
<1>2. /\ AgentsStandStill /\ Restart /\ UNCHANGED <<told, now, met>>
      /\ deadAt' = [l \in Links |->
           IF deadAt[l] = NoMark /\ owner[l] # None THEN now ELSE deadAt[l]]
      /\ stage' = [l \in Links |-> IF stage[l] = "idle" THEN "idle" ELSE "finished"]
  BY DEF ServerDies, Crash, Restart, AgentsStandStill
<1>3. /\ deadAt' \in [Links -> Nat \cup {NoMark}]
      /\ \A k \in Links : deadAt'[k] \in {deadAt[k], now}
  BY <1>2 DEF AgentInv, AgentTypeOK, IndInv, TypeOK
<1>4. \A l \in Links : owner[l] = None => stage'[l] = stage[l] /\ deadAt'[l] = deadAt[l]
  BY <1>2 DEF AgentInv, DialledInv
<1>5. AgentTypeOK'
  BY <1>1, <1>2, <1>3 DEF AgentInv, AgentTypeOK, AgentsStandStill
<1>6. DialledInv'
  BY <1>1, <1>2, <1>4, StillKeepsDialled
<1>7. ExcusedInv'
  BY <1>1, <1>2, StillKeepsExcuses
<1> QED
  BY <1>1, <1>2, <1>3, <1>5, <1>6, <1>7, CrashKeepsTold, CredentialKept, StillKeepsDead
     DEF AgentInv

(* The clock waits for handlers and for whoever must notice a loss.         *)
LEMMA PassKeeps ==
  ASSUME IndInv, IndInv', AgentInv, AgentNext, Pass
  PROVE  AgentInv'
<1>1. [HandlerNext]_hvars /\ HandlerTypeOK'
  BY AgentStepIsHandler, HandlerTyped DEF AgentInv, AgentTypeOK
<1>2. /\ AgentsStandStill /\ UNCHANGED <<deadAt, met>> /\ now' = now + 1
      /\ UNCHANGED <<stage, told, live>>
  BY DEF Pass, avars, AgentsStandStill, Tick, handler, volatile
<1>3. AgentTypeOK'
  BY <1>1, <1>2 DEF AgentInv, AgentTypeOK, AgentsStandStill
<1>4. DialledInv'
  BY <1>1, <1>2, StillKeepsDialled
<1>5. ToldInv'
  BY <1>2 DEF AgentInv, ToldInv, Ended
<1>6. ExcusedInv'
  BY <1>1, <1>2, StillKeepsExcuses
<1>7. DeadInv'
  <2> SUFFICES ASSUME NEW l \in Links, deadAt[l] # NoMark
               PROVE  deadAt[l] <= now + 1 /\ (~Ended(l) => now + 1 <= deadAt[l] + KeepAlive)
    BY <1>2 DEF DeadInv, Ended
  <2>1. now \in Nat /\ deadAt[l] \in Nat /\ KeepAlive \in Nat /\ deadAt[l] <= now
    BY AgentAssumption DEF AgentInv, AgentTypeOK, HandlerTypeOK, TypeOK, DeadInv
  <2>2. ASSUME ~Ended(l) PROVE now + 1 <= deadAt[l] + KeepAlive
    <3>1. owner[l] # None
      BY DEF AgentInv, DialledInv
    <3>2. mu = None /\ stage[l] \notin {"idle", "looked", "authorised"}
      BY <3>1 DEF Pass, Busy
    <3>3. stage[l] \notin {"committed", "recorded"}
      BY <3>2, NoneAssumption DEF IndInv, LockInv
    <3>4. stage[l] = "attached"
      BY <2>2, <3>2, <3>3 DEF Ended, IndInv, TypeOK, Stages
    <3>5. ~(now - deadAt[l] >= KeepAlive)
      BY <3>4 DEF Pass, Overdue
    <3> QED
      BY <2>1, <3>5
  <2> QED
    BY <2>1, <2>2
<1> QED
  BY <1>3, <1>4, <1>5, <1>6, <1>7, CredentialKept DEF AgentInv

LEMMA AgentInit0 == AgentInit => AgentInv
<1> SUFFICES ASSUME AgentInit PROVE AgentInv
  OBVIOUS
<1>1. /\ HandlerTypeOK /\ Claimed = {} /\ told = [l \in Links |-> "none"]
      /\ held = [l \in Links |-> NoClaim] /\ stage = [l \in Links |-> "idle"]
  <2>1. Init /\ tracked = {} /\ shut = "running"
    BY DEF AgentInit, HandlerInit
  <2>2. Claimed = {}
    BY <2>1, CredentialIsReal DEF Init, NoRow, Claimed
  <2>3. HandlerTypeOK
    BY <2>1, InitEstablishes DEF IndInv, HandlerTypeOK, ShutStages
  <2> QED
    BY <2>1, <2>2, <2>3 DEF Init
<1>2. AgentTypeOK
  <2>1. 0 \in 0..Len(Delays)
    BY AgentAssumption, LenProperties
  <2> QED
    BY <1>1, <2>1 DEF AgentInit, AgentTypeOK
<1>3. DialledInv
  BY <1>1 DEF AgentInit, DialledInv
<1>4. CredentialInv
  BY <1>1 DEF CredentialInv, NoClaim
<1>5. ToldInv
  BY <1>1 DEF ToldInv, Unaccepted
<1>6. ExcusedInv
  BY <1>1 DEF AgentInit, ExcusedInv, StopsAreAudited, Permanent
<1>7. DeadInv
  BY DEF AgentInit, DeadInv
<1> QED
  BY <1>2, <1>3, <1>4, <1>5, <1>6, <1>7 DEF AgentInv

(* The four kinds of steps: an agent moves, the server serves a dialled     *)
(* link, something befalls the server, or the clock ticks.                  *)
Moves(a) == (\E l \in Links : Dial(a, l)) \/ DialEstablished(a) \/ Departs(a)
Befalls ==
  \/ \E s \in Subdomains : Operate(s) /\ UNCHANGED avars
  \/ UNCHANGED vars /\ UNCHANGED avars
  \/ ServerDies

LEMMA AgentStepKinds ==
  ASSUME [AgentNext]_allvars
  PROVE  \/ \E a \in Agents : Moves(a)
         \/ AgentNext /\ ((\E l \in Links : ServeDialled(l)) \/ Befalls \/ Pass)
         \/ UNCHANGED allvars
<1>1. ASSUME NEW s \in Subdomains, Claim(s, Credential) PROVE Operate(s)
  BY <1>1, CredentialIsReal DEF Operate
<1>2. Disturb => Befalls
  BY DEF Disturb, Befalls, ShutdownBegins, ShutdownDeadline
<1>3. ASSUME NEW s \in Subdomains, Claim(s, Credential) /\ UNCHANGED <<tracked, shut, avars>>
      PROVE  Befalls
  BY <1>1, <1>3 DEF Befalls, avars
<1> QED
  BY <1>2, <1>3 DEF AgentNext, Moves, Departs, Befalls

LEMMA AgentStepKeeps ==
  ASSUME IndInv, IndInv', AuditIndInv, AgentInv, [AgentNext]_allvars
  PROVE  AgentInv'
<1>1. ASSUME NEW a \in Agents, Moves(a) PROVE AgentInv'
  <2>1. CASE Departs(a)
    BY <2>1, DepartureIs, PauseKeeps, StopKeeps
  <2> QED
    BY <1>1, <2>1, DialKeeps, EstablishedKeeps DEF Moves
<1>2. CASE AgentNext /\ ((\E l \in Links : ServeDialled(l)) \/ Befalls \/ Pass)
  BY <1>2, DialledServedKeeps, OperatedKeeps, ShutdownKeeps, CrashKeeps, PassKeeps DEF Befalls
<1>3. CASE UNCHANGED allvars
  <2>1. UNCHANGED hvars /\ UNCHANGED <<run, on, failures, wake, owner, deadAt, met>>
    BY <1>3 DEF allvars, avars
  <2> QED
    BY <2>1, ServiceStandsStill DEF AgentInv, AgentTypeOK, DialledInv, ExcusedInv,
       StopsAreAudited, DeadInv
<1> QED
  BY <1>1, <1>2, <1>3, AgentStepKinds

(* Who dialled what, what links hold and were told, and for how long half a *)
(* link can last, in every reachable state: whatever the store, the         *)
(* operator, the network and the server do.                                 *)
THEOREM AgentInductive == AgentSpec => []AgentInv
<1>1. IndInv /\ IndInv' /\ AuditIndInv /\ AgentInv /\ [AgentNext]_allvars => AgentInv'
  BY AgentStepKeeps
<1> QED
  BY <1>1, AgentInit0, AgentsKeepService, PTL DEF AgentSpec

(* For any schedule, keep-alive and disturbance: an agent that has stopped  *)
(* left a claim whose audit holds a superseded or a revoked row.            *)
THEOREM StopsAreExplained == AgentSpec => []StopsAreAudited
<1>1. AgentInv => StopsAreAudited
  BY DEF AgentInv, ExcusedInv
<1> QED
  BY <1>1, AgentInductive, PTL

-----------------------------------------------------------------------------
(* Who stops, and why.                                                      *)

(* Who is beaten stays beaten.                                              *)
LEMMA BeatenStays ==
  ASSUME IndInv, [HandlerNext]_hvars, NEW a \in Agents, Beaten(a),
         \A l \in Links : owner[l] # None => owner'[l] = owner[l]
  PROVE  Beaten(a)'
<1>1. CASE \E s \in Claimed : claims[s].revoked
  BY <1>1, ClaimedGrows DEF Beaten
<1>2. CASE \E l \in Links : owner[l] \notin {None, a} /\ gen[l] > 0
  <2>1. PICK l \in Links : owner[l] \notin {None, a} /\ gen[l] > 0
    BY <1>2
  <2>2. gen'[l] > 0 /\ owner'[l] = owner[l]
    BY <2>1, HandlerLinksAdvance
  <2> QED
    BY <2>1, <2>2 DEF Beaten
<1> QED
  BY <1>1, <1>2 DEF Beaten

(* The agents' own moves doom nobody: they only learn what they were told.  *)
LEMMA MoveDoomsNobody ==
  ASSUME IndInv, AgentInv, NEW a \in Agents, Moves(a)
  PROVE  /\ UNCHANGED <<hvars, met>>
         /\ \A l \in Links : owner[l] # None => owner'[l] = owner[l]
         /\ \A b \in Agents : Doomed(b)' => Doomed(b)
<1>0. run \in [Agents -> {"waiting", "dialing", "serving", "stopped"}]
      /\ on \in [Agents -> Links \cup {None}]
      /\ owner \in [Links -> Agents \cup {None}]
  BY DEF AgentInv, AgentTypeOK
<1>1. CASE Departs(a)
  <2>1. /\ UNCHANGED <<hvars, owner, met>>
        /\ \/ \E count \in 0..Len(Delays) : Pause(a, count)
           \/ Stop(a) /\ on[a] # None /\ Permanent(told[on[a]])
    BY <1>1, DepartureIs
  <2>2. told' = told
    BY <2>1, ServiceStandsStill
  <2>3. CASE \E count \in 0..Len(Delays) : Pause(a, count)
    BY <1>0, <2>1, <2>2, <2>3 DEF Pause, Doomed
  <2>4. CASE Stop(a) /\ on[a] # None /\ Permanent(told[on[a]])
    BY <1>0, <2>1, <2>2, <2>4 DEF Stop, Doomed
  <2> QED
    BY <2>1, <2>3, <2>4
<1>2. CASE DialEstablished(a)
  BY <1>0, <1>2 DEF DialEstablished, Doomed, hvars, vars
<1>3. CASE \E l \in Links : Dial(a, l)
  <2>1. PICK l \in Links : Dial(a, l)
    BY <1>3
  <2>2. told' = told /\ owner[l] = None
    BY <2>1 DEF Dial, hvars, vars
  <2>3. told[l] = "none"
    BY <2>2 DEF AgentInv, DialledInv, IndInv, HeldInv, Early
  <2> QED
    BY <1>0, <2>1, <2>2, <2>3 DEF Dial, Doomed, Permanent
<1> QED
  BY <1>1, <1>2, <1>3 DEF Moves

(* While the agents stand still, who becomes doomed has just been told so.  *)
LEMMA DoomedByWord ==
  ASSUME AgentInv, AgentsStandStill, NEW a \in Agents, Doomed(a)', ~Doomed(a)
  PROVE  /\ on[a] \in Links /\ owner[on[a]] = a
         /\ told'[on[a]] # told[on[a]] /\ Permanent(told'[on[a]])
<1>1. on[a] # None /\ told'[on[a]] # told[on[a]] /\ Permanent(told'[on[a]])
  BY DEF Doomed, AgentsStandStill
<1> QED
  BY <1>1 DEF AgentInv, AgentTypeOK, DialledInv

(* A permanent refusal is a revocation, or a cooldown that shields the      *)
(* routed link.                                                             *)
LEMMA RefusalHasCause ==
  ASSUME IndInv, IndInv', AgentInv, NEW l \in Links, owner[l] # None,
         Refuses(l), Permanent(told'[l])
  PROVE  \/ \E s \in Claimed' : claims'[s].revoked
         \/ /\ stage'[l] # stage[l] /\ told'[l] = "conflict"
            /\ held[l].subdomain \in Subdomains
            /\ live[held[l].subdomain].link \notin {None, l}
<1>0. UNCHANGED <<claims, held>> /\ stage'[l] = "refused" /\ stage[l] \in Early
  BY RefusalTells
<1>1. CASE LookupRefused(l, Credential)
  <2>1. PICK s \in Claimed : TRUE
    BY DEF AgentInv, DialledInv
  <2>2. claims[s].revoked
    BY <1>1 DEF LookupRefused, ClaimByTokenHash, Claimed
  <2> QED
    BY <1>0, <2>1, <2>2 DEF Claimed
<1>2. CASE AuthenticateRefused(l)
  <2> DEFINE s == held[l].subdomain
  <2>1. stage[l] = "looked" /\ Presence(s) = "live"
    BY <1>2 DEF AuthenticateRefused, TakeoverAllowed
  <2>2. s \in Subdomains /\ live[s].link # None
    BY <2>1 DEF IndInv, TypeOK, HeldInv, Admitted, Presence
  <2>3. live[s].link # l
    BY <2>1, <2>2, DisplacedWasAttached
  <2>4. told'[l] = "conflict" /\ stage'[l] # stage[l]
    BY <1>0, <1>2, RefusalTells DEF Early
  <2> QED
    BY <2>2, <2>3, <2>4
<1>3. CASE AttachRefused(l) /\ told'[l] = "revoked"
  <2>1. stage[l] = "authorised"
    BY <1>3 DEF AttachRefused
  <2>2. PICK s \in Claimed : s = held[l].subdomain
    BY <2>1, HoldsClaimed DEF IndInv, HeldInv, Admitted
  <2>3. claims'[held'[l].subdomain].revoked
    BY <1>3 DEF IndInv, ReasonsAreTrue
  <2> QED
    BY <1>0, <2>2, <2>3 DEF Claimed
<1> QED
  BY <1>1, <1>2, <1>3, RefusalTells

(* Whoever a step of a handler dooms was beaten, or met itself.             *)
LEMMA ServedHasCause ==
  ASSUME IndInv, IndInv', AgentInv, NEW l \in Links, ServeDialled(l),
         NEW k \in Links, told'[k] # told[k], Permanent(told'[k]),
         NEW a \in Agents, owner[k] = a
  PROVE  Beaten(a)' \/ a \in met'
<1>0. /\ owner[l] # None /\ owner' = owner /\ a # None
      /\ met' = IF MeetsItself(l) THEN met \cup {owner[l]} ELSE met
      /\ Refuses(l) \/ AttachInstall(l) \/ CloseForShutdown(l) \/ Proceeds(l)
  BY DialledIs, AgentAssumption DEF AgentsStandStill
<1>1. CASE Refuses(l)
  <2>1. k = l /\ gen' = gen
    BY <1>1, RefusalTells
  <2>2. CASE \E s \in Claimed' : claims'[s].revoked
    BY <2>2 DEF Beaten
  <2>3. CASE /\ stage'[l] # stage[l] /\ told'[l] = "conflict"
             /\ held[l].subdomain \in Subdomains
             /\ live[held[l].subdomain].link \notin {None, l}
    <3> DEFINE m == live[held[l].subdomain].link
    <3>1. m \in Links /\ gen[m] > 0 /\ stage[m] \in {"attached", "recorded", "finished"}
      BY <2>3, DisplacedWasAttached
    <3>2. owner[m] # None
      BY <3>1 DEF AgentInv, DialledInv
    <3>3. CASE owner[m] = owner[l]
      <4>1. MeetsItself(l)
        BY <2>3, <3>3 DEF MeetsItself
      <4> QED
        BY <1>0, <2>1, <4>1
    <3>4. CASE owner[m] # owner[l]
      BY <1>0, <2>1, <3>1, <3>2, <3>4 DEF Beaten
    <3> QED
      BY <3>3, <3>4
  <2> QED
    BY <1>0, <1>1, <2>1, <2>2, <2>3, RefusalHasCause
<1>2. CASE AttachInstall(l)
  <2> DEFINE s == held[l].subdomain
  <2>1. /\ stage[l] = "committed" /\ gen[l] > 0 /\ gen' = gen /\ stage'[l] = "attached"
        /\ s \in Subdomains /\ Presence(s) = "live" /\ k = live[s].link /\ k # l
    BY <1>2, InstallTells
  <2>2. CASE owner[l] = a
    <3>1. MeetsItself(l)
      BY <2>1, <2>2 DEF MeetsItself, Presence
    <3> QED
      BY <1>0, <2>2, <3>1
  <2>3. CASE owner[l] # a
    BY <1>0, <2>1, <2>3 DEF Beaten
  <2> QED
    BY <2>2, <2>3
<1>3. CASE CloseForShutdown(l) \/ Proceeds(l)
  BY <1>3, ShutdownTells, ProceedsTells DEF Permanent
<1> QED
  BY <1>0, <1>1, <1>2, <1>3

LEMMA EvictionRevokes ==
  ASSUME IndInv, AgentInv, NEW s \in Subdomains, RevokeEvict(s),
         NEW k \in Links, told'[k] # told[k]
  PROVE  s \in Claimed' /\ claims'[s].revoked
<1>1. claims[s].revoked /\ held[k].subdomain = s /\ claims' = claims
  BY EvictionTells
<1>2. s \in Claimed
  BY <1>1, HoldsClaimed, NoneAssumption
<1> QED
  BY <1>1, <1>2 DEF Claimed

(* What befalls the server, and the clock: only an eviction says anything.  *)
LEMMA BefallingTells ==
  ASSUME IndInv, AgentInv, Befalls \/ Pass
  PROVE  /\ AgentsStandStill /\ met' = met
         /\ \A k \in Links : told'[k] # told[k] =>
              \E s \in Claimed' : claims'[s].revoked
         /\ \A q \in Subdomains : live'[q].link # None => live'[q].link = live[q].link
<1>1. AgentsStandStill /\ met' = met
  BY DEF Befalls, Pass, ServerDies, avars, AgentsStandStill
<1>2. ASSUME NEW s \in Subdomains, RevokeEvict(s)
      PROVE  /\ \A k \in Links : told'[k] # told[k] => \E q \in Claimed' : claims'[q].revoked
             /\ \A q \in Subdomains : live'[q].link # None => live'[q].link = live[q].link
  BY <1>2, EvictionTells, EvictionRevokes
<1>3. ASSUME NEW s \in Subdomains, Operate(s), ~RevokeEvict(s) PROVE UNCHANGED <<told, live>>
  BY <1>3 DEF Operate, Claim, RevokeCommit, handler, volatile
<1>4. CASE UNCHANGED vars \/ Pass
  BY <1>1, <1>4 DEF vars, Pass, Tick, handler, volatile
<1>5. CASE ServerDies
  <2>1. told' = told /\ live' = [s \in Subdomains |-> NoAttachment]
    BY <1>5 DEF ServerDies, Crash, Restart
  <2> QED
    BY <1>1, <2>1 DEF NoAttachment
<1> QED
  BY <1>1, <1>2, <1>3, <1>4, <1>5 DEF Befalls

LEMMA CauseStep ==
  ASSUME IndInv, IndInv', AgentInv, CauseInv, [AgentNext]_allvars
  PROVE  CauseInv'
<1>0. [HandlerNext]_hvars
  BY AgentStepIsHandler
<1>1. ASSUME \A l \in Links : owner[l] # None => owner'[l] = owner[l],
             NEW a \in Agents, Doomed(a), met \subseteq met'
      PROVE  Beaten(a)' \/ a \in met'
  BY <1>0, <1>1, BeatenStays DEF CauseInv
<1>2. CASE \E a \in Agents : Moves(a)
  BY <1>1, <1>2, MoveDoomsNobody DEF CauseInv
<1>3. CASE \E l \in Links : ServeDialled(l)
  <2>1. PICK l \in Links : ServeDialled(l)
    BY <1>3
  <2>2. AgentsStandStill /\ owner' = owner /\ met \subseteq met'
    BY <2>1, DialledIs DEF AgentsStandStill
  <2>3. ASSUME NEW a \in Agents, Doomed(a)', ~Doomed(a) PROVE Beaten(a)' \/ a \in met'
    BY <2>1, <2>2, <2>3, DoomedByWord, ServedHasCause
  <2> QED
    BY <1>1, <2>2, <2>3 DEF CauseInv
<1>4. CASE Befalls \/ Pass
  <2>1. AgentsStandStill /\ owner' = owner /\ met' = met
    BY <1>4, BefallingTells DEF AgentsStandStill
  <2>2. ASSUME NEW a \in Agents, Doomed(a)', ~Doomed(a) PROVE Beaten(a)'
    BY <1>4, <2>1, <2>2, DoomedByWord, BefallingTells DEF Beaten
  <2> QED
    BY <1>1, <2>1, <2>2 DEF CauseInv
<1>5. CASE UNCHANGED allvars
  <2>1. /\ UNCHANGED <<run, on, told, owner, met>>
    BY <1>5 DEF allvars, avars, hvars, vars
  <2>2. \A a \in Agents : Doomed(a)' => Doomed(a)
    BY <2>1 DEF Doomed
  <2> QED
    BY <1>1, <2>1, <2>2 DEF CauseInv
<1> QED
  BY <1>2, <1>3, <1>4, <1>5, AgentStepKinds

(* Whatever the store, the operator, the network and the server do: an      *)
(* agent that stopped without being beaten met an earlier link of its own.  *)
(* A link that is lost, a shutdown, a crash, a failed handshake or a store  *)
(* that fails never ends an agent by itself.                                *)
THEOREM OnlyTakeoversStop == AgentSpec => []StopsOnlyByTakeover
<1>1. AgentInit => CauseInv
  BY DEF AgentInit, CauseInv, Doomed
<1>2. IndInv /\ IndInv' /\ AgentInv /\ CauseInv /\ [AgentNext]_allvars => CauseInv'
  BY CauseStep
<1>3. CauseInv => StopsOnlyByTakeover
  BY DEF CauseInv, StopsOnlyByTakeover, Doomed
<1> QED
  BY <1>1, <1>2, <1>3, AgentInductive, AgentsKeepService, PTL DEF AgentSpec

-----------------------------------------------------------------------------
(* Somebody runs on.                                                        *)

(* No step of the server makes a link early again.                          *)
LEMMA ServerKeepsEarly ==
  ASSUME IndInv, AgentInv,
         (\E l \in Links : ServeDialled(l)) \/ Befalls
  PROVE  /\ AgentsStandStill /\ now' = now
         /\ \A k \in Links : stage'[k] \in Entering => stage[k] \in Entering
<1>1. ASSUME NEW l \in Links, ServeDialled(l)
      PROVE  /\ AgentsStandStill /\ now' = now
             /\ \A k \in Links : stage'[k] \in Entering => stage[k] \in Entering
  <2>1. AgentsStandStill
        /\ (Refuses(l) \/ AttachInstall(l) \/ CloseForShutdown(l) \/ Proceeds(l))
    BY <1>1, DialledIs
  <2>2. CASE Refuses(l)
    BY <2>1, <2>2, RefusalTells DEF Entering
  <2>3. CASE AttachInstall(l)
    BY <2>1, <2>3, InstallTells DEF Entering
  <2>4. CASE CloseForShutdown(l)
    BY <2>1, <2>4, ShutdownTells
  <2>5. CASE Proceeds(l)
    BY <2>1, <2>5, ProceedsTells
  <2> QED
    BY <2>1, <2>2, <2>3, <2>4, <2>5
<1>2. CASE Befalls
  <2>1. AgentsStandStill
    BY <1>2, BefallingTells
  <2>2. now' = now
        /\ (stage' = stage \/ stage' = [l \in Links |-> IF stage[l] = "idle" THEN "idle" ELSE "finished"])
    BY <1>2 DEF Befalls, Operate, Claim, RevokeCommit, RevokeEvict, ServerDies, Crash, Restart,
       handler, vars
  <2> QED
    BY <2>1, <2>2 DEF Entering
<1> QED
  BY <1>1, <1>2

LEMMA EarlyStep ==
  ASSUME IndInv, AgentInv, EarlyInv, [AgentNext]_allvars
  PROVE  EarlyInv'
<1> SUFFICES ASSUME NEW b \in Agents, NEW l \in Links, owner'[l] = b, stage'[l] \in Entering
             PROVE  on'[b] = l \/ (run'[b] = "waiting" /\ now' < wake'[b])
  BY DEF EarlyInv, Entering
<1>0. /\ run \in [Agents -> {"waiting", "dialing", "serving", "stopped"}]
      /\ on \in [Agents -> Links \cup {None}] /\ wake \in [Agents -> Nat] /\ now \in Nat
      /\ owner \in [Links -> Agents \cup {None}] /\ b # None
  BY AgentAssumption DEF AgentInv, AgentTypeOK, HandlerTypeOK, TypeOK
<1>1. ASSUME owner[l] = b, stage[l] \in Entering
      PROVE  on[b] = l \/ (run[b] = "waiting" /\ now < wake[b])
  BY <1>1 DEF EarlyInv, Entering
<1>2. ASSUME NEW a \in Agents, Departs(a) PROVE on'[b] = l \/ (run'[b] = "waiting" /\ now' < wake'[b])
  <2>1. /\ UNCHANGED <<hvars, owner>>
        /\ \/ \E count \in 0..Len(Delays) : Pause(a, count)
           \/ Stop(a) /\ on[a] # None /\ Permanent(told[on[a]])
    BY <1>2, DepartureIs
  <2>2. UNCHANGED <<stage, told, now>>
    BY <2>1, ServiceStandsStill
  <2>3. on[b] = l \/ (run[b] = "waiting" /\ now < wake[b])
    BY <1>1, <2>1, <2>2
  <2>4. CASE \E count \in 0..Len(Delays) : Pause(a, count)
    <3>1. PICK count \in 0..Len(Delays) : Pause(a, count)
      BY <2>4
    <3>2. Delay(count) \in Nat /\ Delay(count) > 0
      BY DelayIsPositive
    <3>3. CASE a = b
      <4>1. run'[b] = "waiting" /\ wake'[b] = now + Delay(count)
        BY <1>0, <3>1, <3>3 DEF Pause
      <4> QED
        BY <1>0, <2>2, <3>2, <4>1
    <3>4. CASE a # b
      BY <1>0, <2>2, <2>3, <3>1, <3>4 DEF Pause
    <3> QED
      BY <3>3, <3>4
  <2>5. CASE Stop(a) /\ on[a] # None /\ Permanent(told[on[a]])
    <3>1. CASE a = b
      <4>1. run[b] # "waiting"
        BY <2>5, <3>1 DEF AgentInv, DialledInv
      <4>2. on[b] = l
        BY <2>3, <4>1
      <4>3. told[l] = "none"
        BY <2>2 DEF AgentInv, ToldInv, IndInv, HeldInv, Entering, Early
      <4> QED
        BY <2>5, <3>1, <4>2, <4>3 DEF Permanent
    <3>2. CASE a # b
      BY <1>0, <2>2, <2>3, <2>5, <3>2 DEF Stop
    <3> QED
      BY <3>1, <3>2
  <2> QED
    BY <2>1, <2>4, <2>5
<1>3. ASSUME NEW a \in Agents, DialEstablished(a)
      PROVE  on'[b] = l \/ (run'[b] = "waiting" /\ now' < wake'[b])
  <2>1. /\ UNCHANGED <<stage, now, on, wake, owner>> /\ run[a] = "dialing"
        /\ run' = [run EXCEPT ![a] = "serving"]
    BY <1>3 DEF DialEstablished, hvars, vars
  <2> QED
    BY <1>0, <1>1, <2>1
<1>4. ASSUME NEW a \in Agents, NEW k \in Links, Dial(a, k)
      PROVE  on'[b] = l \/ (run'[b] = "waiting" /\ now' < wake'[b])
  <2>1. /\ UNCHANGED <<stage, now, wake>> /\ run[a] = "waiting" /\ now >= wake[a]
        /\ owner' = [owner EXCEPT ![k] = a] /\ on' = [on EXCEPT ![a] = k]
        /\ run' = [run EXCEPT ![a] = "dialing"]
    BY <1>4 DEF Dial, CanDial, hvars, vars
  <2>2. CASE a # b
    BY <1>0, <1>1, <2>1, <2>2
  <2>3. CASE a = b /\ l = k
    BY <1>0, <2>1, <2>3
  <2>4. CASE a = b /\ l # k
    <3>1. owner[l] = b /\ stage[l] \in Entering
      BY <1>0, <2>1, <2>4
    <3>2. on[b] = None
      BY <2>1, <2>4 DEF AgentInv, DialledInv
    <3>3. l # None
      BY NoneAssumption
    <3> QED
      BY <1>0, <1>1, <2>1, <2>4, <3>1, <3>2, <3>3
  <2> QED
    BY <2>2, <2>3, <2>4
<1>5. CASE (\E k \in Links : ServeDialled(k)) \/ Befalls
  BY <1>1, <1>5, ServerKeepsEarly DEF AgentsStandStill
<1>6. CASE Pass
  <2>1. UNCHANGED <<stage, owner>>
    BY <1>6 DEF Pass, Tick, handler, avars
  <2>2. mu = None /\ stage[l] \notin {"idle", "looked", "authorised"}
    BY <1>0, <1>6, <2>1 DEF Pass, Busy
  <2>3. stage[l] # "committed"
    BY <2>2, NoneAssumption DEF IndInv, LockInv
  <2> QED
    BY <2>1, <2>2, <2>3 DEF Entering
<1>7. CASE UNCHANGED allvars
  BY <1>1, <1>7 DEF allvars, hvars, vars, avars
<1> QED
  BY <1>2, <1>3, <1>4, <1>5, <1>6, <1>7, AgentStepKinds DEF Moves

(* The claim is there and active.                                           *)
Active == \E s \in Claimed : ~claims[s].revoked

(* Where nothing permanent was said and no route is new, the survivors are  *)
(* who they were.                                                           *)
LEMMA CalmKeepsSurvivors ==
  ASSUME IndInv, AgentInv, SurvivorInv, AgentsStandStill, met \subseteq met',
         Active' => Active,
         \A k \in Links : told'[k] = told[k] \/ ~Permanent(told'[k]),
         \A q \in Subdomains : live'[q].link # None => live'[q].link = live[q].link
  PROVE  SurvivorInv'
<1>1. \A a \in Agents : Doomed(a)' => Doomed(a)
  BY DoomedByWord
<1> SUFFICES ASSUME Active', met' = {}
             PROVE  /\ \E a \in Agents : ~Doomed(a)'
                    /\ \A s \in Subdomains : live'[s].link # None =>
                         \E a \in Agents : owner'[live'[s].link] = a /\ ~Doomed(a)'
  BY DEF SurvivorInv, Active
<1>2. Active /\ met = {}
  OBVIOUS
<1> QED
  BY <1>1, <1>2 DEF SurvivorInv, Active, AgentsStandStill

(* A revocation settles the matter.                                         *)
LEMMA RevokedIsInactive ==
  ASSUME CredentialInv', \E s \in Claimed' : claims'[s].revoked
  PROVE  SurvivorInv'
BY DEF CredentialInv, SurvivorInv

(* Links that hold a claim hold the same one.                               *)
LEMMA OneClaim ==
  ASSUME IndInv, AgentInv, NEW l \in Links, held[l].subdomain \in Subdomains,
         NEW q \in Subdomains, live[q].link # None
  PROVE  q = held[l].subdomain
<1>1. live[q].link \in Links /\ held[live[q].link].subdomain = q
  BY DisplacedWasAttached
<1>2. q # None /\ held[l].subdomain # None
  BY NoneAssumption
<1>3. q \in Claimed /\ held[l].subdomain \in Claimed
  BY <1>1, <1>2, HoldsClaimed
<1> QED
  BY <1>3 DEF AgentInv, CredentialInv

LEMMA RefusalKeepsSurvivors ==
  ASSUME IndInv, IndInv', AgentInv, AgentInv', SurvivorInv, NEW l \in Links,
         ServeDialled(l), Refuses(l)
  PROVE  SurvivorInv'
<1>0. /\ owner[l] # None /\ AgentsStandStill /\ owner' = owner
      /\ met' = IF MeetsItself(l) THEN met \cup {owner[l]} ELSE met
      /\ UNCHANGED <<claims, live>>
      /\ \A k \in Links : k # l => told'[k] = told[k]
  BY DialledIs, RefusalTells DEF AgentsStandStill
<1>1. CASE ~Permanent(told'[l])
  <2>1. Active' => Active
    BY <1>0 DEF Active, Claimed
  <2> QED
    BY <1>0, <1>1, <2>1, CalmKeepsSurvivors
<1>2. CASE \E s \in Claimed' : claims'[s].revoked
  BY <1>2, RevokedIsInactive DEF AgentInv
<1>3. CASE /\ stage'[l] # stage[l] /\ told'[l] = "conflict"
           /\ held[l].subdomain \in Subdomains
           /\ live[held[l].subdomain].link \notin {None, l}
  <2> SUFFICES ASSUME Active', met' = {}
               PROVE  /\ \E a \in Agents : ~Doomed(a)'
                      /\ \A s \in Subdomains : live'[s].link # None =>
                           \E a \in Agents : owner'[live'[s].link] = a /\ ~Doomed(a)'
    BY DEF SurvivorInv, Active
  <2>1. PICK s \in Subdomains : s = held[l].subdomain
    BY <1>3
  <2>2. ~MeetsItself(l) /\ met = {}
    BY <1>0
  <2>3. owner[live[s].link] # owner[l]
    BY <1>3, <2>1, <2>2 DEF MeetsItself
  <2>4. Active
    BY <1>0 DEF Active, Claimed
  <2>5. PICK c \in Agents : owner[live[s].link] = c /\ ~Doomed(c)
    BY <1>3, <2>1, <2>2, <2>4 DEF SurvivorInv, Active
  <2>6. ~Doomed(c)'
    BY <1>0, <2>3, <2>5, DoomedByWord
  <2>7. \A q \in Subdomains : live[q].link # None => q = s
    BY <2>1, OneClaim
  <2> QED
    BY <1>0, <2>5, <2>6, <2>7
<1> QED
  BY <1>0, <1>1, <1>2, <1>3, RefusalHasCause

(* The link that is installed belongs to an agent that waits for it, or has *)
(* gone to dial anew.                                                       *)
LEMMA InstallKeepsSurvivors ==
  ASSUME IndInv, AgentInv, EarlyInv, NEW l \in Links, ServeDialled(l), AttachInstall(l)
  PROVE  SurvivorInv'
<1> DEFINE s == held[l].subdomain
<1>0. /\ owner[l] # None /\ AgentsStandStill /\ owner' = owner
      /\ s \in Subdomains /\ stage[l] = "committed"
      /\ \A q \in Subdomains : live'[q].link = IF q = s THEN l ELSE live[q].link
      /\ told'[l] = told[l]
  BY DialledIs, InstallTells DEF AgentsStandStill
<1>1. owner[l] \in Agents
  BY <1>0 DEF AgentInv, AgentTypeOK
<1>2. told[l] = "none"
  BY <1>0 DEF AgentInv, ToldInv
<1>3. on[owner[l]] = l \/ run[owner[l]] = "waiting"
  BY <1>0, <1>1 DEF EarlyInv
<1>4. on[owner[l]] # None <=> run[owner[l]] \in {"dialing", "serving"}
  BY <1>1 DEF AgentInv, DialledInv
<1>5. ~Doomed(owner[l])'
  BY <1>0, <1>2, <1>3, <1>4, NoneAssumption DEF Doomed, Permanent, AgentsStandStill
<1>6. \A q \in Subdomains : live'[q].link # None => live'[q].link = l
  BY <1>0, OneClaim
<1> QED
  BY <1>0, <1>1, <1>5, <1>6 DEF SurvivorInv

(* Before there is a claim nobody dials, so nobody is doomed.               *)
LEMMA FirstClaimFindsAll ==
  ASSUME IndInv, AgentInv, CauseInv, Claimed = {}, met = {}
  PROVE  /\ \A a \in Agents : ~Doomed(a)
         /\ \A q \in Subdomains : live[q].link = None
<1>1. \A l \in Links : owner[l] = None
  BY DEF AgentInv, DialledInv
<1>2. \A a \in Agents : ~Beaten(a)
  BY <1>1 DEF Beaten
<1>3. ASSUME NEW q \in Subdomains, live[q].link # None PROVE FALSE
  BY <1>1, <1>3, DisplacedWasAttached DEF AgentInv, DialledInv
<1> QED
  BY <1>2, <1>3 DEF CauseInv

LEMMA BefallingKeepsSurvivors ==
  ASSUME IndInv, AgentInv, AgentInv', CauseInv, SurvivorInv, Agents # {}, Befalls \/ Pass
  PROVE  SurvivorInv'
<1>0. /\ AgentsStandStill /\ met' = met
      /\ \A k \in Links : told'[k] # told[k] => \E s \in Claimed' : claims'[s].revoked
      /\ \A q \in Subdomains : live'[q].link # None => live'[q].link = live[q].link
      /\ claims \in [Subdomains -> [token : Tokens \cup {None}, revision : 0..2, revoked : BOOLEAN]]
  BY BefallingTells DEF IndInv, TypeOK
<1>1. CASE \E k \in Links : told'[k] # told[k]
  BY <1>0, <1>1, RevokedIsInactive DEF AgentInv
<1>2. CASE (\A k \in Links : told'[k] = told[k]) /\ (Active' => Active)
  BY <1>0, <1>2, CalmKeepsSurvivors
<1>3. CASE (\A k \in Links : told'[k] = told[k]) /\ Claimed = {}
  <2> SUFFICES ASSUME met' = {}
               PROVE  /\ \E a \in Agents : ~Doomed(a)'
                      /\ \A s \in Subdomains : live'[s].link = None
    BY DEF SurvivorInv
  <2>1. /\ \A a \in Agents : ~Doomed(a)
        /\ \A q \in Subdomains : live[q].link = None
    BY <1>0, <1>3, FirstClaimFindsAll
  <2>2. \A a \in Agents : ~Doomed(a)'
    BY <1>0, <1>3, <2>1, DoomedByWord
  <2> QED
    BY <1>0, <2>1, <2>2
<1>4. ASSUME NEW s \in Subdomains, NEW t \in Tokens, Claim(s, t)
      PROVE  Claimed = {} \/ (Active' => Active)
  <2>1. /\ \A r \in Subdomains : claims[r].token # t
        /\ claims' = [claims EXCEPT ![s] = [token |-> t, revision |-> 1, revoked |-> FALSE]]
    BY <1>4 DEF Claim, InsertClaim
  <2>2. CASE t = Credential
    BY <2>1, <2>2 DEF Claimed
  <2>3. CASE t # Credential
    <3>1. \A r \in Subdomains : claims'[r].token = Credential =>
            claims[r].token = Credential /\ claims'[r] = claims[r]
      BY <1>0, <2>1, <2>3
    <3> QED
      BY <3>1 DEF Active, Claimed
  <2> QED
    BY <2>2, <2>3
<1>5. ASSUME NEW s \in Subdomains, NEW r \in 1..2, RevokeCommit(s, r) PROVE Active' => Active
  <2>1. claims' = [claims EXCEPT ![s].revision = @ + 1, ![s].revoked = TRUE]
    BY <1>5 DEF RevokeCommit, RevokeClaim
  <2>2. \A q \in Subdomains : /\ claims'[q].token = claims[q].token
                              /\ ~claims'[q].revoked => ~claims[q].revoked
    BY <1>0, <2>1
  <2> QED
    BY <2>2 DEF Active, Claimed
<1>6. ASSUME claims' = claims PROVE Active' => Active
  BY <1>6 DEF Active, Claimed
<1>7. Claimed = {} \/ (Active' => Active)
  <2>1. ASSUME NEW s \in Subdomains, RevokeEvict(s) PROVE claims' = claims
    BY <2>1, EvictionTells
  <2>2. UNCHANGED vars \/ ServerDies \/ Pass => claims' = claims
    BY DEF vars, ServerDies, Crash, Restart, durable, Pass, Tick
  <2> QED
    BY <1>4, <1>5, <1>6, <2>1, <2>2 DEF Befalls, Operate
<1> QED
  BY <1>1, <1>2, <1>3, <1>7

LEMMA SurvivorStep ==
  ASSUME IndInv, IndInv', AgentInv, AgentInv', CauseInv, EarlyInv, SurvivorInv, Agents # {},
         [AgentNext]_allvars
  PROVE  SurvivorInv'
<1>1. ASSUME NEW a \in Agents, Moves(a) PROVE SurvivorInv'
  <2>1. /\ UNCHANGED <<claims, live, met>>
        /\ \A l \in Links : owner[l] # None => owner'[l] = owner[l]
        /\ \A b \in Agents : Doomed(b)' => Doomed(b)
    BY <1>1, MoveDoomsNobody DEF hvars, vars
  <2>2. \A s \in Subdomains : live[s].link # None => live[s].link \in Links
    BY DisplacedWasAttached
  <2>3. None \notin Agents
    BY AgentAssumption
  <2> QED
    BY <2>1, <2>2, <2>3 DEF SurvivorInv, Claimed
<1>2. ASSUME NEW l \in Links, ServeDialled(l) PROVE SurvivorInv'
  <2>1. /\ AgentsStandStill /\ met \subseteq met'
        /\ Refuses(l) \/ AttachInstall(l) \/ CloseForShutdown(l) \/ Proceeds(l)
    BY <1>2, DialledIs
  <2>2. CASE CloseForShutdown(l) \/ Proceeds(l)
    <3>1. /\ claims' = claims
          /\ \A k \in Links : told'[k] = told[k] \/ ~Permanent(told'[k])
          /\ \A q \in Subdomains : live'[q].link # None => live'[q].link = live[q].link
      BY <2>2, ShutdownTells, ProceedsTells DEF Permanent
    <3>2. Active' => Active
      BY <3>1 DEF Active, Claimed
    <3> QED
      BY <2>1, <3>1, <3>2, CalmKeepsSurvivors
  <2> QED
    BY <1>2, <2>1, <2>2, RefusalKeepsSurvivors, InstallKeepsSurvivors
<1>3. CASE UNCHANGED allvars
  <2>1. UNCHANGED <<claims, live, told, run, on, owner, met>>
    BY <1>3 DEF allvars, hvars, vars, avars
  <2> QED
    BY <2>1 DEF SurvivorInv, Claimed, Doomed
<1> QED
  BY <1>1, <1>2, <1>3, AgentStepKinds, BefallingKeepsSurvivors

(* For any schedule, keep-alive and disturbance: as long as the claim is    *)
(* active and no redial met a link of its own agent, the agents that share  *)
(* the credential have not all stopped.                                     *)
THEOREM ClaimKeepsAnAgent ==
  ASSUME Agents # {}
  PROVE  AgentSpec => []SomeAgentSurvives
<1>1. AgentInit => CauseInv /\ EarlyInv /\ SurvivorInv
  <2> SUFFICES ASSUME AgentInit PROVE CauseInv /\ EarlyInv /\ SurvivorInv
    OBVIOUS
  <2>1. /\ \A a \in Agents : ~Doomed(a)
        /\ \A l \in Links : owner[l] = None
    BY DEF AgentInit, Doomed
  <2>2. \A s \in Subdomains : live[s].link = None
    BY DEF AgentInit, HandlerInit, Init, NoAttachment
  <2> QED
    BY <2>1, <2>2, AgentAssumption DEF CauseInv, EarlyInv, SurvivorInv
<1>2. IndInv /\ IndInv' /\ AgentInv /\ AgentInv' /\ (CauseInv /\ EarlyInv /\ SurvivorInv)
        /\ [AgentNext]_allvars => (CauseInv /\ EarlyInv /\ SurvivorInv)'
  BY CauseStep, EarlyStep, SurvivorStep
<1>3. SurvivorInv => SomeAgentSurvives
  BY DEF SurvivorInv, SomeAgentSurvives, Doomed
<1> QED
  BY <1>1, <1>2, <1>3, AgentInductive, AgentsKeepService, PTL DEF AgentSpec

-----------------------------------------------------------------------------
(* Where a loss is noticed before the next dial, and recorded.              *)

(* Links that were left stay left while the agents stand still.             *)
LEMMA AbandonedStays ==
  ASSUME IndInv, AgentInv, AbandonedInv, [HandlerNext]_hvars, AgentsStandStill,
         \A l \in Links : deadAt[l] # NoMark => deadAt'[l] = deadAt[l]
  PROVE  AbandonedInv'
<1> SUFFICES ASSUME NEW a \in Agents, NEW l \in Links, owner[l] = a, on[a] # l, ~Ended(l)'
             PROVE  \/ run[a] = "stopped" /\ told'[l] # "none"
                    \/ /\ run[a] = "waiting" /\ deadAt'[l] # NoMark
                       /\ deadAt'[l] + KeepAlive < wake[a]
  BY DEF AbandonedInv, AgentsStandStill
<1>1. ~Ended(l) /\ (told[l] # "none" => told'[l] # "none")
  BY HandlerLinksAdvance
<1> QED
  BY <1>1 DEF AbandonedInv

(* Whoever pauses has closed its end, and outsleeps the keep-alive.         *)
LEMMA PauseAbandons ==
  ASSUME AgentInv, AbandonedInv, LossNoticedFirst, NEW a \in Agents,
         NEW count \in 0..Len(Delays), Pause(a, count), UNCHANGED <<hvars, owner>>,
         deadAt' = deadAt \/ Closes(a), run[a] # "stopped",
         on[a] # None => Ended(on[a]) \/ Closes(a)
  PROVE  AbandonedInv'
<1>0. UNCHANGED hvars /\ owner' = owner
  OBVIOUS
<1>1. /\ \A b \in Agents : /\ run'[b] = IF b = a THEN "waiting" ELSE run[b]
                           /\ on'[b] = IF b = a THEN None ELSE on[b]
                           /\ wake'[b] = IF b = a THEN now + Delay(count) ELSE wake[b]
  BY DEF Pause, AgentInv, AgentTypeOK
<1>2. /\ told' = told /\ now \in Nat /\ KeepAlive \in Nat
      /\ \A l \in Links : Ended(l)' = Ended(l)
      /\ Delay(count) \in Nat /\ KeepAlive < Delay(count)
  BY <1>0, ServiceStandsStill, DelayIsPositive, AgentAssumption DEF AgentInv, AgentTypeOK, HandlerTypeOK, TypeOK
<1>3. ASSUME NEW b \in Agents, NEW l \in Links, owner[l] = b, on'[b] # l, ~Ended(l)
      PROVE  \/ run'[b] = "stopped" /\ told[l] # "none"
             \/ /\ run'[b] = "waiting" /\ deadAt'[l] # NoMark
                /\ deadAt'[l] + KeepAlive < wake'[b]
  <2>1. CASE b # a
    <3>1. on[a] # l
      BY <1>3, <2>1, NoneAssumption DEF AgentInv, DialledInv
    <3>2. deadAt'[l] = deadAt[l] \/ (l = on[a] /\ deadAt'[l] = now)
      BY ClosingEffect
    <3>3. /\ deadAt'[l] = deadAt[l] /\ run'[b] = run[b]
          /\ on'[b] = on[b] /\ wake'[b] = wake[b]
      BY <1>1, <2>1, <3>1, <3>2
    <3>4. \/ run[b] = "stopped" /\ told[l] # "none"
          \/ run[b] = "waiting" /\ deadAt[l] # NoMark /\ deadAt[l] + KeepAlive < wake[b]
      BY <1>3, <3>3 DEF AbandonedInv
    <3> QED
      BY <3>3, <3>4
  <2>2. CASE b = a
    <3>1. deadAt'[l] # NoMark /\ deadAt'[l] \in Nat /\ deadAt'[l] <= now
      <4>1. CASE l = on[a]
        <5>1. Closes(a)
          BY <1>3, <4>1, NoneAssumption
        <5>2. deadAt'[l] # NoMark /\ deadAt' \in [Links -> Nat \cup {NoMark}]
          BY <4>1, <5>1, ClosingEffect
        <5>3. deadAt'[l] = deadAt[l] \/ deadAt'[l] = now
          BY ClosingEffect
        <5> QED
          BY <1>2, <5>2, <5>3 DEF AgentInv, DeadInv
      <4>2. CASE l # on[a]
        <5>1. deadAt[l] # NoMark
          BY <1>3, <2>2, <4>2 DEF AbandonedInv
        <5>2. deadAt'[l] = deadAt[l] /\ deadAt[l] \in Nat
          BY <5>1, ClosingEffect DEF AgentInv, AgentTypeOK
        <5> QED
          BY <5>1, <5>2 DEF AgentInv, DeadInv
      <4> QED
        BY <4>1, <4>2
    <3>2. run'[b] = "waiting" /\ wake'[b] = now + Delay(count)
      BY <1>1, <2>2
    <3> QED
      BY <1>2, <3>1, <3>2
  <2> QED
    BY <2>1, <2>2
<1> QED
  BY <1>0, <1>2, <1>3 DEF AbandonedInv

(* Whoever stops was told to on the one link it still had.                  *)
LEMMA StopAbandons ==
  ASSUME AgentInv, AbandonedInv, NEW a \in Agents, Stop(a), on[a] # None,
         Permanent(told[on[a]]), UNCHANGED <<hvars, owner>>, deadAt' = deadAt \/ Closes(a)
  PROVE  AbandonedInv'
<1>0. UNCHANGED hvars /\ owner' = owner
  OBVIOUS
<1>1. /\ \A b \in Agents : /\ run'[b] = IF b = a THEN "stopped" ELSE run[b]
                           /\ on'[b] = IF b = a THEN None ELSE on[b]
                           /\ wake'[b] = wake[b]
  BY DEF Stop, AgentInv, AgentTypeOK
<1>2. told' = told /\ \A l \in Links : Ended(l)' = Ended(l)
  BY <1>0, ServiceStandsStill
<1>3. ASSUME NEW b \in Agents, NEW l \in Links, owner[l] = b, on'[b] # l, ~Ended(l)
      PROVE  \/ run'[b] = "stopped" /\ told[l] # "none"
             \/ /\ run'[b] = "waiting" /\ deadAt'[l] # NoMark
                /\ deadAt'[l] + KeepAlive < wake'[b]
  <2>1. CASE b # a
    <3>1. on[a] # l
      BY <1>3, <2>1, NoneAssumption DEF AgentInv, DialledInv
    <3>2. deadAt'[l] = deadAt[l] \/ (l = on[a] /\ deadAt'[l] = now)
      BY ClosingEffect
    <3>3. /\ deadAt'[l] = deadAt[l] /\ run'[b] = run[b]
          /\ on'[b] = on[b] /\ wake'[b] = wake[b]
      BY <1>1, <2>1, <3>1, <3>2
    <3>4. \/ run[b] = "stopped" /\ told[l] # "none"
          \/ run[b] = "waiting" /\ deadAt[l] # NoMark /\ deadAt[l] + KeepAlive < wake[b]
      BY <1>3, <3>3 DEF AbandonedInv
    <3> QED
      BY <3>3, <3>4
  <2>2. CASE b = a
    <3>1. run[a] \in {"dialing", "serving"}
      BY DEF AgentInv, DialledInv
    <3>2. l = on[a]
      BY <1>3, <2>2, <3>1 DEF AbandonedInv
    <3> QED
      BY <1>1, <2>2, <3>2 DEF Permanent
  <2> QED
    BY <2>1, <2>2
<1> QED
  BY <1>0, <1>2, <1>3 DEF AbandonedInv

(* By the time an agent dials again, its earlier links are gone.            *)
LEMMA DialLeavesNone ==
  ASSUME AgentInv, AbandonedInv, NEW a \in Agents, run[a] = "waiting", now >= wake[a],
         NEW k \in Links, owner[k] = a
  PROVE  Ended(k)
<1> SUFFICES ASSUME ~Ended(k) PROVE FALSE
  OBVIOUS
<1>1. on[a] = None
  BY DEF AgentInv, DialledInv
<1>2. deadAt[k] # NoMark /\ deadAt[k] + KeepAlive < wake[a]
  BY <1>1, NoneAssumption DEF AbandonedInv
<1>3. now <= deadAt[k] + KeepAlive
  BY <1>2 DEF AgentInv, DeadInv
<1>4. now \in Nat /\ wake[a] \in Nat /\ deadAt[k] \in Nat /\ KeepAlive \in Nat
  BY <1>2, AgentAssumption DEF AgentInv, AgentTypeOK, HandlerTypeOK, TypeOK
<1> QED
  BY <1>2, <1>3, <1>4

LEMMA MoveKeepsAlone ==
  ASSUME IndInv, AgentInv, AloneInv, LossNoticedFirst, NEW a \in Agents, Moves(a)
  PROVE  AloneInv'
<1>0. UNCHANGED <<hvars, met>>
  BY MoveDoomsNobody
<1>1. UNCHANGED <<live, stage, told>> /\ \A k \in Links : Ended(k)' = Ended(k)
  BY <1>0, ServiceStandsStill
<1>2. (\A s \in Subdomains : live[s].link # None => ~Ended(live[s].link))' /\ met' = {}
  BY <1>0, <1>1 DEF AloneInv, Ended
<1>3. ASSUME AbandonedInv', owner' = owner PROVE AloneInv'
  BY <1>1, <1>2, <1>3 DEF AloneInv, Ended
<1>4. CASE Departs(a)
  <2>1. CASE \E count \in 0..Len(Delays) : Pause(a, count)
    BY <1>3, <1>4, <2>1, DepartureIs, PauseAbandons DEF AloneInv
  <2>2. CASE Stop(a) /\ on[a] # None /\ Permanent(told[on[a]])
    BY <1>3, <1>4, <2>2, DepartureIs, StopAbandons DEF AloneInv
  <2> QED
    BY <1>4, <2>1, <2>2, DepartureIs
<1>5. CASE DialEstablished(a)
  <2>1. UNCHANGED <<on, wake, owner, deadAt>> /\ run[a] = "dialing"
    BY <1>5 DEF DialEstablished
  <2>2. \A b \in Agents : run'[b] = IF b = a THEN "serving" ELSE run[b]
    BY <1>5 DEF DialEstablished, AgentInv, AgentTypeOK
  <2>3. AbandonedInv'
    BY <1>1, <2>1, <2>2 DEF AloneInv, AbandonedInv
  <2> QED
    BY <1>3, <2>1, <2>3
<1>6. ASSUME NEW l \in Links, Dial(a, l) PROVE AloneInv'
  <2>1. /\ owner[l] = None /\ deadAt' = deadAt /\ wake' = wake
        /\ run[a] = "waiting" /\ now >= wake[a] /\ a # None
    BY <1>6, AgentAssumption DEF Dial, CanDial
  <2>2. /\ \A b \in Agents : /\ run'[b] = IF b = a THEN "dialing" ELSE run[b]
                             /\ on'[b] = IF b = a THEN l ELSE on[b]
        /\ \A k \in Links : owner'[k] = IF k = l THEN a ELSE owner[k]
    BY <1>6 DEF Dial, AgentInv, AgentTypeOK
  <2>3. \A k \in Links : owner[k] = a => Ended(k)
    BY <2>1, DialLeavesNone DEF AloneInv
  <2>4. AbandonedInv'
    <3> SUFFICES ASSUME NEW b \in Agents, NEW k \in Links, owner'[k] = b, on'[b] # k, ~Ended(k)
                 PROVE  \/ run'[b] = "stopped" /\ told[k] # "none"
                        \/ /\ run'[b] = "waiting" /\ deadAt[k] # NoMark
                           /\ deadAt[k] + KeepAlive < wake[b]
      BY <1>1, <2>1 DEF AbandonedInv
    <3>1. k # l /\ owner[k] = b /\ b # a
      BY <2>2, <2>3
    <3> QED
      BY <2>2, <3>1 DEF AloneInv, AbandonedInv
  <2>5. \A j, k \in Links :
          owner'[j] = owner'[k] /\ owner'[j] # None /\ ~Ended(j) /\ ~Ended(k) => j = k
    <3> SUFFICES ASSUME NEW j \in Links, NEW k \in Links, owner'[j] = owner'[k],
                        owner'[j] # None, ~Ended(j), ~Ended(k)
                 PROVE  j = k
      OBVIOUS
    <3>1. CASE j = l \/ k = l
      BY <2>2, <2>3, <3>1
    <3>2. CASE j # l /\ k # l
      BY <2>2, <3>2 DEF AloneInv
    <3> QED
      BY <3>1, <3>2
  <2> QED
    BY <1>1, <1>2, <2>4, <2>5 DEF AloneInv
<1> QED
  BY <1>4, <1>5, <1>6 DEF Moves

(* A handler whose link moves on had not ended.                             *)
LEMMA MovingHasNotEnded ==
  ASSUME IndInv, AgentInv, NEW l \in Links, ServeDialled(l), stage'[l] # stage[l]
  PROVE  ~Ended(l)
<1>1. Refuses(l) \/ AttachInstall(l) \/ CloseForShutdown(l) \/ Proceeds(l)
  BY DialledIs
<1>2. CASE Refuses(l)
  BY <1>2, RefusalTells DEF Early, Ended
<1>3. CASE AttachInstall(l)
  BY <1>3, InstallTells DEF Ended
<1>4. CASE CloseForShutdown(l)
  BY <1>4, ShutdownTells
<1>5. CASE Proceeds(l)
  BY <1>5 DEF Proceeds, Lookup, Authenticate, AttachCommit, SessionEnds, LostCommit,
     LostDetach, LostIgnored, LostFails, vars, Ended
<1> QED
  BY <1>1, <1>2, <1>3, <1>4, <1>5

LEMMA ServedKeepsAlone ==
  ASSUME IndInv, AgentInv, AloneInv, ~StoreFails, AgentNext, NEW l \in Links, ServeDialled(l)
  PROVE  AloneInv'
<1>0. /\ [HandlerNext]_hvars /\ owner[l] # None /\ AgentsStandStill /\ owner' = owner
      /\ met' = IF MeetsItself(l) THEN met \cup {owner[l]} ELSE met
      /\ Refuses(l) \/ AttachInstall(l) \/ CloseForShutdown(l) \/ Proceeds(l)
  BY AgentStepIsHandler, DialledIs DEF AgentsStandStill
<1>1. AbandonedInv'
  <2>1. deadAt \in [Links -> Nat \cup {NoMark}]
    BY DEF AgentInv, AgentTypeOK
  <2>2. \A k \in Links : deadAt[k] # NoMark => deadAt'[k] = deadAt[k]
    BY <2>1 DEF ServeDialled
  <2> QED
    BY <1>0, <2>2, AbandonedStays DEF AloneInv
<1>2. \A j, k \in Links :
        owner'[j] = owner'[k] /\ owner'[j] # None /\ ~Ended(j)' /\ ~Ended(k)' => j = k
  BY <1>0, HandlerLinksAdvance DEF AloneInv
<1>3. ASSUME NEW q \in Subdomains, live'[q].link # None PROVE stage'[live'[q].link] \notin {"refused", "finished"}
  <2>1. live[q].link # None => /\ live[q].link \in Links
                               /\ stage[live[q].link] \in {"attached", "recorded"}
    BY DisplacedWasAttached DEF AloneInv, Ended
  <2>2. CASE Refuses(l)
    BY <1>3, <2>1, <2>2, RefusalTells DEF Early
  <2>3. CASE AttachInstall(l)
    BY <1>3, <2>1, <2>3, InstallTells
  <2>4. CASE CloseForShutdown(l)
    BY <1>3, <2>1, <2>4, ShutdownTells
  <2>5. CASE Proceeds(l)
    <3>1. live'[q].link = live[q].link /\ live[q].link \in Links
      BY <1>3, <2>1, <2>5, ProceedsTells
    <3>2. CASE live[q].link = l
      BY <2>1, <2>5, <3>1, <3>2, <1>3, ProceedsTells DEF Ended
    <3>3. CASE live[q].link # l
      BY <2>1, <2>5, <3>1, <3>3, <1>3, ProceedsTells
    <3> QED
      BY <3>2, <3>3
  <2> QED
    BY <1>0, <2>2, <2>3, <2>4, <2>5
<1>4. ~MeetsItself(l)
  <2> SUFFICES ASSUME MeetsItself(l) PROVE FALSE
    OBVIOUS
  <2>1. PICK s \in Subdomains : /\ stage'[l] # stage[l] /\ live[s].link \notin {None, l}
                                /\ owner[live[s].link] = owner[l]
    BY DEF MeetsItself
  <2>2. live[s].link \in Links /\ ~Ended(live[s].link)
    BY <2>1, DisplacedWasAttached DEF AloneInv
  <2>3. ~Ended(l)
    BY <2>1, MovingHasNotEnded
  <2> QED
    BY <1>0, <2>1, <2>2, <2>3 DEF AloneInv
<1> QED
  BY <1>0, <1>1, <1>2, <1>3, <1>4 DEF AloneInv, Ended

LEMMA BefallingKeepsAlone ==
  ASSUME IndInv, AgentInv, AloneInv, AgentNext, Befalls \/ Pass
  PROVE  AloneInv'
<1>0. /\ [HandlerNext]_hvars /\ AgentsStandStill /\ owner' = owner /\ met' = met
      /\ \A q \in Subdomains : live'[q].link # None => live'[q].link = live[q].link
  BY AgentStepIsHandler, BefallingTells DEF AgentsStandStill
<1>1. AbandonedInv'
  <2>1. deadAt \in [Links -> Nat \cup {NoMark}]
    BY DEF AgentInv, AgentTypeOK
  <2>2. \A k \in Links : deadAt[k] # NoMark => deadAt'[k] = deadAt[k]
    BY <2>1 DEF Befalls, Pass, ServerDies, avars
  <2> QED
    BY <1>0, <2>2, AbandonedStays DEF AloneInv
<1>2. \A j, k \in Links :
        owner'[j] = owner'[k] /\ owner'[j] # None /\ ~Ended(j)' /\ ~Ended(k)' => j = k
  BY <1>0, HandlerLinksAdvance DEF AloneInv
<1>3. stage' = stage \/ \A q \in Subdomains : live'[q].link = None
  BY DEF Befalls, Pass, Tick, Operate, Claim, RevokeCommit, RevokeEvict, ServerDies, Crash,
     Restart, NoAttachment, handler, vars
<1> QED
  BY <1>0, <1>1, <1>2, <1>3 DEF AloneInv, Ended

LEMMA AloneStep ==
  ASSUME IndInv, AgentInv, AloneInv, LossNoticedFirst, ~StoreFails, [AgentNext]_allvars
  PROVE  AloneInv'
<1>1. CASE UNCHANGED allvars
  <2>1. UNCHANGED <<run, on, wake, owner, deadAt, met, stage, told, live>>
    BY <1>1 DEF allvars, avars, hvars, vars
  <2> QED
    BY <2>1 DEF AloneInv, AbandonedInv, Ended
<1> QED
  BY <1>1, AgentStepKinds, MoveKeepsAlone, ServedKeepsAlone, BefallingKeepsAlone

(* Where every loss is noticed before the agent dials again, and the store  *)
(* records it, no agent has two links at once and none meets itself.        *)
THEOREM AloneInductive ==
  ASSUME LossNoticedFirst, ~StoreFails
  PROVE  AgentSpec => []AloneInv
<1>1. AgentInit => AloneInv
  BY AgentAssumption DEF AgentInit, HandlerInit, Init, NoAttachment, AloneInv, AbandonedInv
<1>2. IndInv /\ IndInv' /\ AgentInv /\ AgentInv' /\ AloneInv /\ [AgentNext]_allvars => AloneInv'
  BY AloneStep
<1> QED
  BY <1>1, <1>2, AgentInductive, AgentsKeepService, PTL DEF AgentSpec

(* Where every loss is noticed before the agent dials again and no write of *)
(* the store fails, a lost link never ends an agent: it stops only if the   *)
(* claim was revoked or another agent's link took it, for any number of     *)
(* agents, any schedule, shutdowns and crashes.                             *)
THEOREM OnlyTheBeatenStop ==
  ASSUME LossNoticedFirst, ~StoreFails
  PROVE  AgentSpec => []StopsOnlyWhenBeaten
<1>1. AloneInv /\ StopsOnlyByTakeover => StopsOnlyWhenBeaten
  BY DEF AloneInv, StopsOnlyByTakeover, StopsOnlyWhenBeaten
<1> QED
  BY <1>1, AloneInductive, OnlyTakeoversStop, PTL
=============================================================================
