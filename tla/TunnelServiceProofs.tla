------------------------ MODULE TunnelServiceProofs ------------------------
(***************************************************************************)
(* Proofs about TunnelService, for every set of subdomains, tokens and     *)
(* links, every cooldown and clock bound, and stores that fail or do not.  *)
(***************************************************************************)
EXTENDS TunnelService, TLAPS, SequenceTheorems

-----------------------------------------------------------------------------
(* The lifecycle table.                                                     *)

(* A connect is accepted only on an active claim; it is recorded by one row *)
(* on a free subdomain and by two on a live one.                            *)
LEMMA ConnectAccepted ==
  ASSUME NEW c \in ClaimStates, NEW p \in Presences,
         Transition(Status(c, p), "connect").err = "none"
  PROVE  /\ c = "active"
         /\ Transition(Status(c, p), "connect").audit =
              IF p = "live" THEN <<"superseded", "connected">> ELSE <<"connected">>
BY DEF Transition, ConnectTransition, LinkLostTransition, RevokeTransition,
       RevokedTransition, Status, Accept, Refuse,
       ClaimStates, Presences

(* A revoke is accepted only on an active claim and its last row says so.   *)
LEMMA RevokeAccepted ==
  ASSUME NEW c \in ClaimStates, NEW p \in Presences,
         Transition(Status(c, p), "revoke").err = "none"
  PROVE  /\ c = "active"
         /\ Transition(Status(c, p), "revoke").audit =
              IF p = "live" THEN <<"disconnected", "revoked">> ELSE <<"revoked">>
BY DEF Transition, ConnectTransition, LinkLostTransition, RevokeTransition,
       RevokedTransition, Status, Accept, Refuse,
       ClaimStates, Presences

(* The loss of a live link is recorded by one row.                          *)
LEMMA LostAccepted ==
  Transition(Status("active", "live"), "link-lost").audit = <<"disconnected">>
BY DEF Transition, LinkLostTransition, Status, Accept

(* The table panics only on a revoked claim with a live link.               *)
LEMMA PanicsOnlyRevokedLive ==
  ASSUME NEW c \in ClaimStates, NEW p \in Presences, NEW e \in Events,
         Transition(Status(c, p), e).err = "panic"
  PROVE  c = "revoked" /\ p = "live"
BY DEF Transition, ConnectTransition, LinkLostTransition, RevokeTransition,
       RevokedTransition, Status, Accept, Refuse,
       ClaimStates, Presences, Events

LEMMA StatusIsTyped ==
  ASSUME NEW s
  PROVE  \E c \in ClaimStates, p \in Presences :
           /\ StatusOf(s) = Status(c, p)
           /\ p = Presence(s)
           /\ c = IF claims[s].revoked THEN "revoked" ELSE "active"
BY DEF StatusOf, Presence, ClaimStates, Presences

-----------------------------------------------------------------------------
(* Audit rows.                                                              *)

LEMMA AppendAuditTyped ==
  ASSUME audit \in [Subdomains -> Seq(Rows)], now \in Nat,
         NEW s \in Subdomains, NEW kinds \in Seq(AuditKinds), NEW d \in Nat,
         AppendAudit(s, kinds, d)
  PROVE  audit' \in [Subdomains -> Seq(Rows)]
<1>1. Entries(kinds, d) \in Seq(Rows)
  <2>1. \A i \in 1..Len(kinds) : kinds[i] \in AuditKinds
    OBVIOUS
  <2>2. Entries(kinds, d) \in [1..Len(kinds) -> Rows]
    BY <2>1 DEF Entries, Rows
  <2> QED
    BY <2>2, SeqDef, LenProperties
<1>2. audit[s] \o Entries(kinds, d) \in Seq(Rows)
  BY <1>1, ConcatProperties
<1> QED
  BY <1>2 DEF AppendAudit

(* What Attach decided when it answers no error.                            *)
LEMMA AttachAccepted ==
  ASSUME NEW l \in Links, AttachError(l) = "none"
  PROVE  LET s == held[l].subdomain IN
         /\ claims[s].token = held[l].token
         /\ TakeoverAllowed(s)
         /\ ~claims[s].revoked
         /\ ConnectOutcome(s).audit =
              IF Presence(s) = "live" THEN <<"superseded", "connected">>
                                      ELSE <<"connected">>
<1> DEFINE s == held[l].subdomain
<1>1. /\ claims[s].token = held[l].token
      /\ TakeoverAllowed(s)
      /\ ConnectOutcome(s).err = "none"
  BY DEF AttachError
<1>2. PICK c \in ClaimStates, p \in Presences :
           /\ StatusOf(s) = Status(c, p)
           /\ p = Presence(s)
           /\ c = IF claims[s].revoked THEN "revoked" ELSE "active"
  BY StatusIsTyped
<1>3. /\ c = "active"
      /\ ConnectOutcome(s).audit =
            IF p = "live" THEN <<"superseded", "connected">> ELSE <<"connected">>
  BY <1>1, <1>2, ConnectAccepted DEF ConnectOutcome
<1> QED
  BY <1>1, <1>2, <1>3

-----------------------------------------------------------------------------
(* The inductive invariant.                                                 *)

(* Close keeps the first reason of the link it is called on.                *)
LEMMA TellEffect ==
  ASSUME told \in [Links -> Reasons], NEW m \in Links, NEW r \in Reasons
  PROVE  /\ Tell(m, r) \in [Links -> Reasons]
         /\ \A k \in Links :
              Tell(m, r)[k] = IF k = m /\ told[k] = "none" THEN r ELSE told[k]
BY DEF Tell

LEMMA InstallPreserves ==
  ASSUME IndInv, NEW l \in Links, AttachInstall(l)
  PROVE  IndInv'
<1> DEFINE s == held[l].subdomain
           old == live[s].link
<1> USE NoneAssumption, HoldersAssumption DEF IndInv
<1>0. s \in Subdomains /\ gen[l] = generation + 1 /\ gen[l] \in Nat /\ generation \in Nat
  BY DEF TypeOK, HeldInv, GenerationInv, AttachInstall, Admitted
<1>a. /\ told' \in [Links -> Reasons]
      /\ \A k \in Links :
           told'[k] = IF k = old /\ told[k] = "none" THEN "superseded" ELSE told[k]
      /\ superseded' \in [Subdomains -> Nat \cup {NoMark}]
  <2>1. CASE Presence(s) = "live"
    <3>1. old \in Links
      BY <1>0, <2>1 DEF TypeOK, Presence
    <3>2. told' = Tell(old, "superseded") /\ superseded' = [superseded EXCEPT ![s] = now]
      BY <2>1 DEF AttachInstall, Presence
    <3>3. told \in [Links -> Reasons] /\ "superseded" \in Reasons
      BY DEF TypeOK, Reasons
    <3>4. superseded' \in [Subdomains -> Nat \cup {NoMark}]
      BY <1>0, <3>2 DEF TypeOK
    <3>5. /\ Tell(old, "superseded") \in [Links -> Reasons]
          /\ \A k \in Links : Tell(old, "superseded")[k] =
               IF k = old /\ told[k] = "none" THEN "superseded" ELSE told[k]
      BY <3>1, <3>3, TellEffect
    <3> QED
      BY <3>2, <3>4, <3>5
  <2>2. CASE Presence(s) = "absent"
    BY <1>0, <2>2 DEF TypeOK, AttachInstall, Presence
  <2> QED
    BY <2>1, <2>2 DEF Presence
<1>b. /\ stage' = [stage EXCEPT ![l] = "attached"]
      /\ live' = [live EXCEPT ![s] = [link |-> l, generation |-> gen[l]]]
      /\ generation' = gen[l]
      /\ mu' = None /\ mu = l /\ stage[l] = "committed"
      /\ UNCHANGED <<claims, audit, held, gen, done, now, boot>>
  BY DEF AttachInstall, durable
<1>1. TypeOK'
  BY <1>0, <1>a, <1>b DEF TypeOK, Stages
<1>2. ClaimsInv'
  BY <1>b DEF ClaimsInv
<1>3. LockInv'
  BY <1>0, <1>b DEF LockInv, TypeOK
<1>4. HeldInv'
  <2>0. \A k \in Links : k = old => stage[k] \in {"attached", "recorded", "finished"}
    BY <1>0 DEF RouteInv
  <2>1. \A k \in Links : stage'[k] \in Early => stage[k] \in Early /\ k # old
    BY <1>b, <2>0 DEF TypeOK, Early
  <2>2. \A k \in Links : stage'[k] \in Admitted => stage[k] \in Admitted
    BY <1>b DEF TypeOK, Admitted
  <2> QED
    BY <1>a, <1>b, <2>1, <2>2 DEF HeldInv
<1>5. RouteInv'
  BY <1>0, <1>b DEF RouteInv, TypeOK
<1>6. GenerationInv'
  <2>1. \A m \in Links : Numbered(m)' => m = l \/ Numbered(m)
    BY <1>0, <1>b DEF TypeOK, Numbered
  <2>2. \A m \in Links : Numbered(m) => gen[m] \in 1..generation
    BY DEF GenerationInv
  <2> QED
    BY <1>0, <1>b, <2>1, <2>2 DEF GenerationInv, TypeOK, LockInv
<1>7. RevokedInv'
  BY <1>0, <1>b DEF RevokedInv, TypeOK, LockInv
<1>8. OrphanInv'
  BY <1>0, <1>a, <1>b DEF OrphanInv, TypeOK, LockInv
<1>9. ReasonsAreTrue'
  <2>1. ASSUME NEW k \in Links, told'[k] = "superseded"
        PROVE  \E m \in Links : held[m].subdomain = held[k].subdomain /\ gen[m] > gen[k]
    <3>1. CASE k = old
      <4>1. held[old].subdomain = s /\ gen[old] <= generation
        BY <1>0, <3>1 DEF RouteInv, GenerationInv, Numbered, TypeOK
      <4> QED
        BY <1>0, <3>1, <4>1 DEF TypeOK
    <3>2. CASE k # old
      BY <1>a, <2>1, <3>2 DEF ReasonsAreTrue
    <3> QED
      BY <3>1, <3>2
  <2> QED
    BY <1>a, <1>b, <2>1 DEF ReasonsAreTrue
<1> QED
  BY <1>1, <1>2, <1>3, <1>4, <1>5, <1>6, <1>7, <1>8, <1>9

(* Every refusal: a link that is not attached leaves with a true reason.    *)
LEMMA LeavePreserves ==
  ASSUME IndInv, NEW l \in Links, NEW r \in Reasons,
         stage[l] \in Early, Leave(l, r),
         r # "superseded", r = "revoked" => /\ held[l].subdomain # None
                          /\ claims[held[l].subdomain].revoked,
         UNCHANGED <<durable, volatile, mu, held, gen, done, now, boot>>
  PROVE  IndInv'
<1> USE NoneAssumption, HoldersAssumption DEF IndInv
<1>a. /\ told' \in [Links -> Reasons]
      /\ \A k \in Links : told'[k] = IF k = l /\ told[k] = "none" THEN r ELSE told[k]
  <2>1. told' = Tell(l, r) /\ told \in [Links -> Reasons]
    BY DEF Leave, TypeOK
  <2> QED
    BY <2>1, TellEffect
<1>b. /\ stage' = [stage EXCEPT ![l] = "refused"]
      /\ UNCHANGED <<claims, audit, live, superseded, generation, mu, held, gen, done, now, boot>>
  BY DEF Leave, durable, volatile
<1>c. told[l] = "none" /\ mu # l
  BY DEF HeldInv, LockInv, Early
<1>1. TypeOK'
  BY <1>a, <1>b DEF TypeOK, Stages
<1>2. ClaimsInv'
  BY <1>b DEF ClaimsInv
<1>3. LockInv'
  BY <1>b, <1>c DEF LockInv, TypeOK
<1>4. HeldInv'
  <2>1. \A k \in Links : stage'[k] \in Early => stage[k] \in Early /\ k # l
    BY <1>b DEF TypeOK, Early
  <2>2. \A k \in Links : stage'[k] \in Admitted => stage[k] \in Admitted
    BY <1>b DEF TypeOK, Admitted
  <2> QED
    BY <1>a, <1>b, <2>1, <2>2 DEF HeldInv
<1>5. RouteInv'
  <2>1. \A q \in Subdomains : live[q].link # None => live[q].link \in Links
    BY DEF TypeOK
  <2>2. \A q \in Subdomains : live[q].link # l
    BY <2>1 DEF RouteInv, Early
  <2> QED
    BY <1>b, <2>1, <2>2 DEF RouteInv, TypeOK
<1>6. GenerationInv'
  <2>1. \A k \in Links : Numbered(k)' => Numbered(k)
    BY <1>b DEF Numbered, TypeOK
  <2> QED
    BY <1>b, <2>1 DEF GenerationInv, TypeOK
<1>7. RevokedInv'
  BY <1>b DEF RevokedInv, TypeOK
<1>8. OrphanInv'
  BY <1>a, <1>b DEF OrphanInv, TypeOK
<1>9. ReasonsAreTrue'
  BY <1>a, <1>b, <1>c DEF ReasonsAreTrue
<1> QED
  BY <1>1, <1>2, <1>3, <1>4, <1>5, <1>6, <1>7, <1>8, <1>9

LEMMA LookupPreserves ==
  ASSUME IndInv, NEW l \in Links, NEW t \in Tokens, Lookup(l, t)
  PROVE  IndInv'
<1> USE NoneAssumption, HoldersAssumption DEF IndInv
<1>a. PICK s \in Subdomains :
        /\ claims[s].token = t
        /\ held' = [held EXCEPT ![l] = [subdomain |-> s, token |-> t]]
  BY DEF Lookup, ClaimByTokenHash
<1>b. /\ stage' = [stage EXCEPT ![l] = "looked"]
      /\ stage[l] = "idle"
      /\ UNCHANGED <<claims, audit, live, superseded, generation, mu, gen, told, done, now, boot>>
  BY DEF Lookup, durable, volatile
<1>c. /\ gen[l] = 0 /\ told[l] = "none" /\ mu # l
      /\ \A q \in Subdomains : live[q].link # l
  <2>1. \A q \in Subdomains : live[q].link = l => live[q].link # None
    OBVIOUS
  <2> QED
    BY <1>b, <2>1 DEF HeldInv, LockInv, RouteInv, Early
<1>d. \A k \in Links : k # l => held'[k] = held[k] /\ stage'[k] = stage[k]
  BY <1>a, <1>b DEF TypeOK
<1>e. stage'[l] = "looked" /\ held'[l] = [subdomain |-> s, token |-> t]
  BY <1>a, <1>b DEF TypeOK
<1>1. TypeOK'
  BY <1>a, <1>b DEF TypeOK, Stages
<1>2. ClaimsInv'
  BY <1>b DEF ClaimsInv
<1>3. LockInv'
  BY <1>b, <1>c, <1>d, <1>e DEF LockInv
<1>4. HeldInv'
  BY <1>a, <1>b, <1>c, <1>d, <1>e DEF HeldInv
<1>5. RouteInv'
  <2>1. \A q \in Subdomains : live[q].link # None => live[q].link \in Links
    BY DEF TypeOK
  <2> QED
    BY <1>b, <1>c, <1>d, <2>1 DEF RouteInv
<1>6. GenerationInv'
  <2>1. \A k \in Links : Numbered(k)' => Numbered(k)
    BY <1>b, <1>d, <1>e DEF Numbered
  <2> QED
    BY <1>b, <1>d, <1>e, <2>1 DEF GenerationInv
<1>7. RevokedInv'
  BY <1>b, <1>d, <1>e DEF RevokedInv
<1>8. OrphanInv'
  BY <1>b, <1>d, <1>e DEF OrphanInv
<1>9. ReasonsAreTrue'
  <2>1. ASSUME NEW k \in Links, told'[k] = "revoked"
        PROVE  claims'[held'[k].subdomain].revoked
    BY <1>b, <1>c, <1>d, <2>1 DEF ReasonsAreTrue
  <2>2. ASSUME NEW k \in Links, told'[k] = "superseded"
        PROVE  \E m \in Links : held'[m].subdomain = held'[k].subdomain /\ gen'[m] > gen'[k]
    <3>1. k # l
      BY <1>b, <1>c, <2>2
    <3>2. PICK m \in Links : held[m].subdomain = held[k].subdomain /\ gen[m] > gen[k]
      BY <1>b, <2>2 DEF ReasonsAreTrue
    <3>3. m # l
      BY <1>c, <3>2 DEF TypeOK
    <3> QED
      BY <1>b, <1>d, <3>1, <3>2, <3>3
  <2> QED
    BY <2>1, <2>2 DEF ReasonsAreTrue
<1> QED
  BY <1>1, <1>2, <1>3, <1>4, <1>5, <1>6, <1>7, <1>8, <1>9

LEMMA AuthenticatePreserves ==
  ASSUME IndInv, NEW l \in Links, Authenticate(l)
  PROVE  IndInv'
<1> USE NoneAssumption, HoldersAssumption DEF IndInv
<1>b. /\ stage' = [stage EXCEPT ![l] = "authorised"]
      /\ stage[l] = "looked"
      /\ UNCHANGED <<claims, audit, live, superseded, generation, mu, held, gen, told, done, now, boot>>
  BY DEF Authenticate, durable, volatile
<1>d. /\ \A k \in Links : k # l => stage'[k] = stage[k]
      /\ stage'[l] = "authorised"
  BY <1>b DEF TypeOK
<1>c. \A q \in Subdomains : live[q].link # l
  <2>1. \A q \in Subdomains : live[q].link = l => live[q].link # None
    OBVIOUS
  <2> QED
    BY <1>b, <2>1 DEF RouteInv
<1>1. TypeOK'
  BY <1>b DEF TypeOK, Stages
<1>2. ClaimsInv'
  BY <1>b DEF ClaimsInv
<1>3. LockInv'
  BY <1>b, <1>d DEF LockInv
<1>4. HeldInv'
  BY <1>b, <1>d DEF HeldInv, Early, Admitted
<1>5. RouteInv'
  <2>1. \A q \in Subdomains : live[q].link # None => live[q].link \in Links
    BY DEF TypeOK
  <2> QED
    BY <1>b, <1>c, <1>d, <2>1 DEF RouteInv
<1>6. GenerationInv'
  <2>1. \A k \in Links : Numbered(k)' => Numbered(k)
    BY <1>b, <1>d DEF Numbered
  <2> QED
    BY <1>b, <1>d, <2>1 DEF GenerationInv
<1>7. RevokedInv'
  BY <1>b, <1>d DEF RevokedInv
<1>8. OrphanInv'
  BY <1>b, <1>d DEF OrphanInv
<1>9. ReasonsAreTrue'
  BY <1>b DEF ReasonsAreTrue
<1> QED
  BY <1>1, <1>2, <1>3, <1>4, <1>5, <1>6, <1>7, <1>8, <1>9

LEMMA AttachCommitPreserves ==
  ASSUME IndInv, NEW l \in Links, AttachCommit(l)
  PROVE  IndInv'
<1> DEFINE s == held[l].subdomain
<1> USE NoneAssumption, HoldersAssumption DEF IndInv
<1>a. /\ s \in Subdomains /\ generation \in Nat
      /\ gen[l] = 0 /\ told[l] = "none"
      /\ \A q \in Subdomains : live[q].link # l
  <2>1. stage[l] = "authorised"
    BY DEF AttachCommit
  <2>2. \A q \in Subdomains : live[q].link = l => live[q].link # None
    OBVIOUS
  <2>3. s \in Subdomains /\ generation \in Nat
    BY <2>1 DEF HeldInv, TypeOK, Admitted
  <2>4. gen[l] = 0 /\ told[l] = "none"
    BY <2>1 DEF HeldInv, Early
  <2>5. \A q \in Subdomains : live[q].link # l
    BY <2>1, <2>2 DEF RouteInv
  <2> QED
    BY <2>3, <2>4, <2>5
<1>b. /\ stage' = [stage EXCEPT ![l] = "committed"]
      /\ gen' = [gen EXCEPT ![l] = generation + 1]
      /\ mu = None /\ mu' = l
      /\ UNCHANGED <<claims, live, superseded, generation, held, told, done, now, boot>>
  BY DEF AttachCommit, volatile
<1>c. ~claims[s].revoked /\ audit' \in [Subdomains -> Seq(Rows)]
  <2>1. AttachError(l) = "none"
    BY DEF AttachCommit
  <2>2. ConnectOutcome(s).audit \in Seq(AuditKinds)
    <3>1. ConnectOutcome(s).audit = <<"superseded", "connected">>
          \/ ConnectOutcome(s).audit = <<"connected">>
      BY <2>1, AttachAccepted
    <3>2. <<"superseded", "connected">> \in Seq(AuditKinds) /\ <<"connected">> \in Seq(AuditKinds)
      BY DEF AuditKinds
    <3> QED
      BY <3>1, <3>2
  <2>3. AppendAudit(s, ConnectOutcome(s).audit, generation + 1)
    BY DEF AttachCommit
  <2>4. audit \in [Subdomains -> Seq(Rows)] /\ now \in Nat /\ generation + 1 \in Nat
    BY <1>a DEF TypeOK
  <2>5. audit' \in [Subdomains -> Seq(Rows)]
    BY <1>a, <2>2, <2>3, <2>4, AppendAuditTyped
  <2> QED
    BY <2>1, <2>5, AttachAccepted
<1>d. /\ \A k \in Links : k # l => stage'[k] = stage[k] /\ gen'[k] = gen[k]
      /\ stage'[l] = "committed" /\ gen'[l] = generation + 1
  BY <1>b DEF TypeOK
<1>1. TypeOK'
  BY <1>a, <1>b, <1>c DEF TypeOK, Stages
<1>2. ClaimsInv'
  BY <1>b DEF ClaimsInv
<1>3. LockInv'
  BY <1>b, <1>d DEF LockInv
<1>4. HeldInv'
  BY <1>a, <1>b, <1>d DEF HeldInv, Early, Admitted
<1>5. RouteInv'
  <2>1. \A q \in Subdomains : live[q].link # None => live[q].link \in Links
    BY DEF TypeOK
  <2> QED
    BY <1>a, <1>b, <1>d, <2>1 DEF RouteInv
<1>6. GenerationInv'
  <2>1. \A k \in Links : Numbered(k)' => Numbered(k) /\ k # l
    BY <1>a, <1>b, <1>d DEF Numbered
  <2>2. \A k \in Links : k # l => stage'[k] # "committed"
    BY <1>b, <1>d DEF LockInv
  <2> QED
    BY <1>b, <1>d, <2>1, <2>2 DEF GenerationInv
<1>7. RevokedInv'
  BY <1>a, <1>b, <1>c, <1>d DEF RevokedInv
<1>8. OrphanInv'
  BY <1>b, <1>d DEF OrphanInv
<1>9. ReasonsAreTrue'
  <2>1. ASSUME NEW k \in Links, told'[k] = "superseded"
        PROVE  \E m \in Links : held'[m].subdomain = held'[k].subdomain /\ gen'[m] > gen'[k]
    <3>1. k # l
      BY <1>a, <1>b, <2>1
    <3>2. PICK m \in Links : held[m].subdomain = held[k].subdomain /\ gen[m] > gen[k]
      BY <1>b, <2>1 DEF ReasonsAreTrue
    <3>3. m # l
      BY <1>a, <3>2 DEF TypeOK
    <3> QED
      BY <1>b, <1>d, <3>1, <3>2, <3>3
  <2> QED
    BY <1>b, <2>1 DEF ReasonsAreTrue
<1> QED
  BY <1>1, <1>2, <1>3, <1>4, <1>5, <1>6, <1>7, <1>8, <1>9

LEMMA SessionEndsPreserves ==
  ASSUME IndInv, NEW l \in Links, SessionEnds(l)
  PROVE  IndInv'
<1> USE NoneAssumption, HoldersAssumption DEF IndInv
<1>b. /\ done' = done \cup {l}
      /\ UNCHANGED <<claims, audit, live, superseded, generation, mu, stage, held, gen, told, now, boot>>
  BY DEF SessionEnds, durable, volatile
<1>1. TypeOK'
  BY <1>b DEF TypeOK
<1>2. ClaimsInv' /\ LockInv' /\ HeldInv' /\ RouteInv' /\ RevokedInv'
  BY <1>b DEF ClaimsInv, LockInv, HeldInv, RouteInv, RevokedInv
<1>3. GenerationInv'
  BY <1>b DEF GenerationInv, Numbered
<1>4. OrphanInv' /\ ReasonsAreTrue'
  BY <1>b DEF OrphanInv, ReasonsAreTrue
<1> QED
  BY <1>1, <1>2, <1>3, <1>4

LEMMA CloseForShutdownPreserves ==
  ASSUME IndInv, NEW l \in Links, CloseForShutdown(l)
  PROVE  IndInv'
<1> USE NoneAssumption, HoldersAssumption DEF IndInv
<1>a. /\ told' \in [Links -> Reasons]
      /\ \A k \in Links : told'[k] = IF k = l /\ told[k] = "none" THEN "shutdown" ELSE told[k]
  <2>1. told' = Tell(l, "shutdown") /\ told \in [Links -> Reasons] /\ "shutdown" \in Reasons
    BY DEF CloseForShutdown, TypeOK, Reasons
  <2> QED
    BY <2>1, TellEffect
<1>b. /\ stage[l] = "attached"
      /\ UNCHANGED <<claims, audit, live, superseded, generation, mu, stage, held, gen, done, now, boot>>
  BY DEF CloseForShutdown, durable, volatile
<1>1. TypeOK'
  BY <1>a, <1>b DEF TypeOK
<1>2. ClaimsInv' /\ LockInv' /\ RouteInv' /\ RevokedInv'
  BY <1>b DEF ClaimsInv, LockInv, RouteInv, RevokedInv
<1>3. HeldInv'
  BY <1>a, <1>b DEF HeldInv, Early
<1>4. GenerationInv'
  BY <1>b DEF GenerationInv, Numbered
<1>5. OrphanInv' /\ ReasonsAreTrue'
  BY <1>a, <1>b DEF OrphanInv, ReasonsAreTrue
<1> QED
  BY <1>1, <1>2, <1>3, <1>4, <1>5

LEMMA LostCommitPreserves ==
  ASSUME IndInv, NEW l \in Links, LostCommit(l)
  PROVE  IndInv'
<1> DEFINE s == held[l].subdomain
<1> USE NoneAssumption, HoldersAssumption DEF IndInv
<1>a. /\ stage[l] = "attached" /\ l \in done /\ mu = None
      /\ s \in Subdomains /\ gen[l] \in Nat
  <2>1. stage[l] = "attached" /\ l \in done /\ mu = None
    BY DEF LostCommit
  <2> QED
    BY <2>1 DEF HeldInv, TypeOK, Admitted
<1>b. /\ stage' = [stage EXCEPT ![l] = "recorded"]
      /\ mu' = l
      /\ UNCHANGED <<claims, live, superseded, generation, held, gen, told, done, now, boot>>
  BY DEF LostCommit, volatile
<1>c. audit' \in [Subdomains -> Seq(Rows)]
  <2>1. AppendAudit(s, <<"disconnected">>, gen[l])
    BY LostAccepted DEF LostCommit
  <2>2. audit \in [Subdomains -> Seq(Rows)] /\ now \in Nat
    BY DEF TypeOK
  <2>3. <<"disconnected">> \in Seq(AuditKinds)
    BY DEF AuditKinds
  <2> QED
    BY <1>a, <2>1, <2>2, <2>3, AppendAuditTyped
<1>d. /\ \A k \in Links : k # l => stage'[k] = stage[k]
      /\ stage'[l] = "recorded"
  BY <1>b DEF TypeOK
<1>e. live[s].link = l
  <2>1. live[s].link # None /\ live[s].generation = gen[l]
    BY DEF LostCommit, Matches
  <2>2. live[s].link \in Links /\ gen[live[s].link] = gen[l]
    BY <1>a, <2>1 DEF TypeOK, RouteInv
  <2> QED
    BY <1>a, <2>2 DEF GenerationInv, Numbered
<1>1. TypeOK'
  BY <1>a, <1>b, <1>c DEF TypeOK, Stages
<1>2. ClaimsInv'
  BY <1>b DEF ClaimsInv
<1>3. LockInv'
  BY <1>a, <1>b, <1>d DEF LockInv
<1>4. HeldInv'
  BY <1>a, <1>b, <1>d DEF HeldInv, Early, Admitted
<1>5. RouteInv'
  <2>1. \A q \in Subdomains : live[q].link # None => live[q].link \in Links
    BY DEF TypeOK
  <2> QED
    BY <1>a, <1>b, <1>d, <2>1 DEF RouteInv
<1>6. GenerationInv'
  <2>1. \A k \in Links : Numbered(k)' => Numbered(k)
    BY <1>a, <1>b, <1>d DEF Numbered
  <2> QED
    BY <1>b, <1>d, <2>1 DEF GenerationInv
<1>7. RevokedInv'
  BY <1>a, <1>b, <1>d DEF RevokedInv
<1>8. OrphanInv'
  BY <1>a, <1>b, <1>d, <1>e DEF OrphanInv
<1>9. ReasonsAreTrue'
  BY <1>b DEF ReasonsAreTrue
<1> QED
  BY <1>1, <1>2, <1>3, <1>4, <1>5, <1>6, <1>7, <1>8, <1>9

LEMMA LostDetachPreserves ==
  ASSUME IndInv, NEW l \in Links, LostDetach(l)
  PROVE  IndInv'
<1> DEFINE s == held[l].subdomain
<1> USE NoneAssumption, HoldersAssumption DEF IndInv
<1>a. /\ stage[l] = "recorded" /\ mu = l
      /\ s \in Subdomains /\ live[s].link = l
  <2>1. stage[l] = "recorded" /\ mu = l
    BY DEF LostDetach
  <2> QED
    BY <2>1 DEF HeldInv, TypeOK, Admitted, OrphanInv
<1>b. /\ stage' = [stage EXCEPT ![l] = "finished"]
      /\ live' = [live EXCEPT ![s] = NoAttachment]
      /\ superseded' = [superseded EXCEPT ![s] = NoMark]
      /\ mu' = None
      /\ UNCHANGED <<claims, audit, generation, held, gen, told, done, now, boot>>
  <2>1. Matches(s, gen[l])
    BY <1>a DEF Matches, RouteInv
  <2> QED
    BY <2>1 DEF LostDetach, durable
<1>d. /\ \A k \in Links : k # l => stage'[k] = stage[k]
      /\ stage'[l] = "finished"
      /\ \A q \in Subdomains : q # s => live'[q] = live[q]
      /\ live'[s] = NoAttachment /\ NoAttachment.link = None
  BY <1>a, <1>b DEF TypeOK, NoAttachment
<1>1. TypeOK'
  BY <1>a, <1>b DEF TypeOK, Stages, NoAttachment
<1>2. ClaimsInv'
  BY <1>b DEF ClaimsInv
<1>3. LockInv'
  BY <1>a, <1>b, <1>d DEF LockInv
<1>4. HeldInv'
  BY <1>b, <1>d DEF HeldInv, Early, Admitted
<1>5. RouteInv'
  <2>1. \A q \in Subdomains : live[q].link # None => live[q].link \in Links
    BY DEF TypeOK
  <2> QED
    BY <1>a, <1>b, <1>d, <2>1 DEF RouteInv
<1>6. GenerationInv'
  <2>1. \A k \in Links : Numbered(k)' => Numbered(k)
    BY <1>b, <1>d DEF Numbered
  <2> QED
    BY <1>b, <1>d, <2>1 DEF GenerationInv
<1>7. RevokedInv'
  <2>1. \A q \in Subdomains : mu # q
    BY <1>a
  <2> QED
    BY <1>b, <1>d, <2>1 DEF RevokedInv
<1>8. OrphanInv'
  <2>1. \A k \in Links : k # l => stage'[k] # "recorded"
    BY <1>a, <1>d DEF LockInv
  <2>2. ASSUME NEW k \in Links, stage'[k] = "attached"
        PROVE  live'[held'[k].subdomain].link = k \/ told'[k] # "none"
    <3>1. k # l /\ stage[k] = "attached"
      BY <1>d, <2>2
    <3>2. held[k].subdomain \in Subdomains
      BY <3>1 DEF HeldInv, Admitted, TypeOK
    <3>3. CASE told[k] # "none"
      BY <1>b, <3>3
    <3>4. CASE live[held[k].subdomain].link = k
      <4>1. held[k].subdomain # s
        BY <1>a, <3>1, <3>4
      <4> QED
        BY <1>b, <1>d, <3>2, <3>4, <4>1
    <3> QED
      BY <3>1, <3>3, <3>4 DEF OrphanInv
  <2> QED
    BY <1>d, <2>1, <2>2 DEF OrphanInv
<1>9. ReasonsAreTrue'
  BY <1>b DEF ReasonsAreTrue
<1> QED
  BY <1>1, <1>2, <1>3, <1>4, <1>5, <1>6, <1>7, <1>8, <1>9

(* A loss that is ignored, or that the store would not record.              *)
LEMMA FinishPreserves ==
  ASSUME IndInv, NEW l \in Links, stage[l] = "attached",
         stage' = [stage EXCEPT ![l] = "finished"],
         UNCHANGED <<durable, volatile, mu, held, gen, told, done, now, boot>>
  PROVE  IndInv'
<1> USE NoneAssumption, HoldersAssumption DEF IndInv
<1>b. UNCHANGED <<claims, audit, live, superseded, generation, mu, held, gen, told, done, now, boot>>
  BY DEF durable, volatile
<1>d. /\ \A k \in Links : k # l => stage'[k] = stage[k]
      /\ stage'[l] = "finished"
  BY DEF TypeOK
<1>1. TypeOK'
  BY <1>b DEF TypeOK, Stages
<1>2. ClaimsInv'
  BY <1>b DEF ClaimsInv
<1>3. LockInv'
  BY <1>b, <1>d DEF LockInv
<1>4. HeldInv'
  BY <1>b, <1>d DEF HeldInv, Early, Admitted
<1>5. RouteInv'
  <2>1. \A q \in Subdomains : live[q].link # None => live[q].link \in Links
    BY DEF TypeOK
  <2> QED
    BY <1>b, <1>d, <2>1 DEF RouteInv
<1>6. GenerationInv'
  <2>1. \A k \in Links : Numbered(k)' => Numbered(k)
    BY <1>b, <1>d DEF Numbered
  <2> QED
    BY <1>b, <1>d, <2>1 DEF GenerationInv
<1>7. RevokedInv'
  BY <1>b, <1>d DEF RevokedInv
<1>8. OrphanInv'
  BY <1>b, <1>d DEF OrphanInv
<1>9. ReasonsAreTrue'
  BY <1>b DEF ReasonsAreTrue
<1> QED
  BY <1>1, <1>2, <1>3, <1>4, <1>5, <1>6, <1>7, <1>8, <1>9

LEMMA TickPreserves ==
  ASSUME IndInv, Tick
  PROVE  IndInv'
<1> USE DEF IndInv
<1>b. /\ now' = now + 1
      /\ UNCHANGED <<claims, audit, live, superseded, generation, mu, stage, held, gen, told, done, boot>>
  BY DEF Tick, durable, volatile, handler
<1>1. TypeOK'
  BY <1>b DEF TypeOK
<1>2. ClaimsInv' /\ LockInv' /\ HeldInv' /\ RouteInv' /\ RevokedInv'
  BY <1>b DEF ClaimsInv, LockInv, HeldInv, RouteInv, RevokedInv
<1>3. GenerationInv' /\ OrphanInv' /\ ReasonsAreTrue'
  BY <1>b DEF GenerationInv, Numbered, OrphanInv, ReasonsAreTrue
<1> QED
  BY <1>1, <1>2, <1>3

LEMMA StutterPreserves ==
  ASSUME IndInv, UNCHANGED vars
  PROVE  IndInv'
<1> USE DEF IndInv
<1>b. UNCHANGED <<claims, audit, live, superseded, generation, mu, stage, held, gen, told, done, now, boot>>
  BY DEF vars
<1>1. TypeOK'
  BY <1>b DEF TypeOK
<1>2. ClaimsInv' /\ LockInv' /\ HeldInv' /\ RouteInv' /\ RevokedInv'
  BY <1>b DEF ClaimsInv, LockInv, HeldInv, RouteInv, RevokedInv
<1>3. GenerationInv' /\ OrphanInv' /\ ReasonsAreTrue'
  BY <1>b DEF GenerationInv, Numbered, OrphanInv, ReasonsAreTrue
<1> QED
  BY <1>1, <1>2, <1>3

LEMMA RestartPreserves ==
  ASSUME IndInv, Restart
  PROVE  IndInv'
<1> USE NoneAssumption, HoldersAssumption DEF IndInv
<1>b. /\ live' = [q \in Subdomains |-> NoAttachment]
      /\ superseded' = [q \in Subdomains |-> NoMark]
      /\ generation' = 0 /\ mu' = None
      /\ stage' = [k \in Links |-> IF stage[k] = "idle" THEN "idle" ELSE "finished"]
      /\ boot' = [q \in Subdomains |-> Len(audit[q])]
      /\ UNCHANGED <<claims, audit, held, gen, told, done, now>>
  BY DEF Restart, durable
<1>d. /\ \A q \in Subdomains : live'[q].link = None
      /\ \A k \in Links : /\ stage'[k] \in {"idle", "finished"}
                          /\ stage'[k] = "idle" => stage[k] = "idle"
  BY <1>b DEF NoAttachment
<1>1. TypeOK'
  <2>1. boot' \in [Subdomains -> Nat]
    BY <1>b, LenProperties DEF TypeOK
  <2> QED
    BY <1>b, <2>1 DEF TypeOK, Stages, NoAttachment
<1>2. ClaimsInv'
  BY <1>b DEF ClaimsInv
<1>3. LockInv'
  BY <1>b, <1>d DEF LockInv
<1>4. HeldInv'
  BY <1>b, <1>d DEF HeldInv, Early, Admitted
<1>5. RouteInv'
  BY <1>b, <1>d DEF RouteInv
<1>6. GenerationInv'
  <2>1. \A k \in Links : ~Numbered(k)'
    BY <1>d DEF Numbered
  <2> QED
    BY <1>d, <2>1 DEF GenerationInv
<1>7. RevokedInv'
  BY <1>d DEF RevokedInv
<1>8. OrphanInv'
  BY <1>d DEF OrphanInv
<1>9. ReasonsAreTrue'
  BY <1>b DEF ReasonsAreTrue
<1> QED
  BY <1>1, <1>2, <1>3, <1>4, <1>5, <1>6, <1>7, <1>8, <1>9

LEMMA ClaimPreserves ==
  ASSUME IndInv, NEW s \in Subdomains, NEW t \in Tokens, Claim(s, t)
  PROVE  IndInv'
<1> USE NoneAssumption, HoldersAssumption DEF IndInv
<1>a. /\ claims[s].token = None /\ ~claims[s].revoked
      /\ claims' = [claims EXCEPT ![s] = [token |-> t, revision |-> 1, revoked |-> FALSE]]
  BY DEF Claim, InsertClaim, NoRow
<1>b. UNCHANGED <<live, superseded, generation, mu, stage, held, gen, told, done, now, boot>>
  BY DEF Claim, volatile, handler
<1>c. audit' \in [Subdomains -> Seq(Rows)]
  <2>1. AppendAudit(s, <<"claimed">>, 1)
    BY DEF Claim, InsertClaim
  <2>2. audit \in [Subdomains -> Seq(Rows)] /\ now \in Nat
    BY DEF TypeOK
  <2>3. <<"claimed">> \in Seq(AuditKinds)
    BY DEF AuditKinds
  <2> QED
    BY <2>1, <2>2, <2>3, AppendAuditTyped
<1>d. /\ \A q \in Subdomains : q # s => claims'[q] = claims[q]
      /\ claims'[s] = [token |-> t, revision |-> 1, revoked |-> FALSE]
  BY <1>a DEF TypeOK
<1>e. \A k \in Links : held[k].subdomain # s
  BY <1>a DEF HeldInv
<1>f. \A k \in Links : held[k].subdomain # None => claims'[held[k].subdomain] = claims[held[k].subdomain]
  BY <1>d, <1>e DEF TypeOK
<1>1. TypeOK'
  <2>1. claims' \in [Subdomains -> [token : Tokens \cup {None}, revision : 0..2,
                                    revoked : BOOLEAN]]
    BY <1>a DEF TypeOK
  <2> QED
    BY <1>b, <1>c, <2>1 DEF TypeOK
<1>2. ClaimsInv'
  BY <1>d DEF ClaimsInv
<1>3. LockInv'
  BY <1>a, <1>b, <1>d DEF LockInv
<1>4. HeldInv'
  BY <1>b, <1>f DEF HeldInv
<1>5. RouteInv'
  BY <1>b DEF RouteInv
<1>6. GenerationInv'
  BY <1>b DEF GenerationInv, Numbered
<1>7. RevokedInv'
  <2>1. \A k \in Links : stage[k] = "committed" => held[k].subdomain # None
    BY DEF HeldInv, Admitted
  <2> QED
    BY <1>b, <1>d, <1>f, <2>1 DEF RevokedInv
<1>8. OrphanInv'
  BY <1>b DEF OrphanInv
<1>9. ReasonsAreTrue'
  <2>1. \A k \in Links : told[k] = "revoked" => claims'[held[k].subdomain].revoked
    BY <1>f DEF ReasonsAreTrue, HeldInv
  <2> QED
    BY <1>b, <2>1 DEF ReasonsAreTrue
<1> QED
  BY <1>1, <1>2, <1>3, <1>4, <1>5, <1>6, <1>7, <1>8, <1>9

(* A row at revision 1 stays a row when it is revoked.                      *)
LEMMA RevokedRowTyped ==
  ASSUME NEW T, NEW row \in [token : T, revision : 0..2, revoked : BOOLEAN],
         row.revision = 1
  PROVE  [row EXCEPT !.revision = @ + 1, !.revoked = TRUE]
           \in [token : T, revision : 0..2, revoked : BOOLEAN]
<1> DEFINE advanced == [row EXCEPT !.revision = @ + 1]
<1>1. advanced \in [token : T, revision : 0..2, revoked : BOOLEAN]
  OBVIOUS
<1>2. [row EXCEPT !.revision = @ + 1, !.revoked = TRUE] = [advanced EXCEPT !.revoked = TRUE]
  OBVIOUS
<1> HIDE DEF advanced
<1>3. [advanced EXCEPT !.revoked = TRUE] \in [token : T, revision : 0..2, revoked : BOOLEAN]
  BY <1>1
<1> QED
  BY <1>2, <1>3

LEMMA RevokeCommitPreserves ==
  ASSUME IndInv, NEW s \in Subdomains, NEW r \in 1..2, RevokeCommit(s, r)
  PROVE  IndInv'
<1> DEFINE outcome == RevokeOutcome(s)
<1> USE NoneAssumption, HoldersAssumption DEF IndInv
<1>a. /\ claims[s] # NoRow /\ ~claims[s].revoked /\ mu = None /\ mu' = s
      /\ outcome.err = "none"
      /\ claims' = [claims EXCEPT ![s].revision = @ + 1, ![s].revoked = TRUE]
      /\ AppendAudit(s, outcome.audit, claims[s].revision + 1)
  BY DEF RevokeCommit, RevokeClaim, ListClaims
<1>b. UNCHANGED <<live, superseded, generation, stage, held, gen, told, done, now, boot>>
  BY DEF RevokeCommit, volatile, handler
<1>c. claims[s].revision = 1 /\ claims[s].token \in Tokens
  BY <1>a DEF ClaimsInv
<1>d. audit' \in [Subdomains -> Seq(Rows)]
  <2>1. PICK c \in ClaimStates, p \in Presences : StatusOf(s) = Status(c, p)
    BY StatusIsTyped
  <2>2. \/ outcome.audit = <<"disconnected", "revoked">>
        \/ outcome.audit = <<"revoked">>
    BY <1>a, <2>1, RevokeAccepted DEF RevokeOutcome
  <2>3. outcome.audit \in Seq(AuditKinds)
    <3>1. <<"disconnected", "revoked">> \in Seq(AuditKinds) /\ <<"revoked">> \in Seq(AuditKinds)
      BY DEF AuditKinds
    <3> QED
      BY <2>2, <3>1
  <2>4. audit \in [Subdomains -> Seq(Rows)] /\ now \in Nat /\ claims[s].revision + 1 \in Nat
    BY <1>c DEF TypeOK
  <2> QED
    BY <1>a, <2>3, <2>4, AppendAuditTyped
<1>e. /\ \A q \in Subdomains : q # s => claims'[q] = claims[q]
      /\ claims'[s].token = claims[s].token
      /\ claims'[s].revision = 2
      /\ claims'[s].revoked
  BY <1>a, <1>c DEF TypeOK
<1>f. \A k \in Links : held[k].subdomain # None =>
        /\ claims'[held[k].subdomain].token = claims[held[k].subdomain].token
        /\ claims[held[k].subdomain].revoked => claims'[held[k].subdomain].revoked
  BY <1>e DEF TypeOK
<1>1. TypeOK'
  <2>1. claims' \in [Subdomains -> [token : Tokens \cup {None}, revision : 0..2,
                                    revoked : BOOLEAN]]
    <3> DEFINE ClaimRows == [token : Tokens \cup {None}, revision : 0..2, revoked : BOOLEAN]
    <3>1. claims \in [Subdomains -> ClaimRows]
      BY DEF TypeOK
    <3>2. [claims[s] EXCEPT !.revision = @ + 1, !.revoked = TRUE] \in ClaimRows
      BY <1>c, <3>1, RevokedRowTyped
    <3>3. claims' = [claims EXCEPT ![s] = [claims[s] EXCEPT !.revision = @ + 1, !.revoked = TRUE]]
      BY <1>a, <3>1
    <3> HIDE DEF ClaimRows
    <3>4. claims' \in [Subdomains -> ClaimRows]
      BY <3>1, <3>2, <3>3
    <3> QED
      BY <3>4 DEF ClaimRows
  <2> QED
    BY <1>a, <1>b, <1>d, <2>1 DEF TypeOK
<1>2. ClaimsInv'
  BY <1>c, <1>e DEF ClaimsInv
<1>3. LockInv'
  BY <1>a, <1>b, <1>e DEF LockInv
<1>4. HeldInv'
  BY <1>b, <1>f DEF HeldInv
<1>5. RouteInv'
  BY <1>b DEF RouteInv
<1>6. GenerationInv'
  BY <1>b DEF GenerationInv, Numbered
<1>7. RevokedInv'
  <2>1. \A k \in Links : stage[k] # "committed"
    BY <1>a DEF LockInv
  <2> QED
    BY <1>a, <1>b, <1>e, <2>1 DEF RevokedInv
<1>8. OrphanInv'
  BY <1>b DEF OrphanInv
<1>9. ReasonsAreTrue'
  <2>1. \A k \in Links : told[k] = "revoked" => claims'[held[k].subdomain].revoked
    BY <1>f DEF ReasonsAreTrue, HeldInv
  <2> QED
    BY <1>b, <2>1 DEF ReasonsAreTrue
<1> QED
  BY <1>1, <1>2, <1>3, <1>4, <1>5, <1>6, <1>7, <1>8, <1>9

LEMMA RevokeEvictPreserves ==
  ASSUME IndInv, NEW s \in Subdomains, RevokeEvict(s)
  PROVE  IndInv'
<1> DEFINE old == live[s].link
<1> USE NoneAssumption, HoldersAssumption DEF IndInv
<1>a. /\ told' \in [Links -> Reasons]
      /\ \A k \in Links :
           told'[k] = IF k = old /\ told[k] = "none" THEN "revoked" ELSE told[k]
      /\ superseded' \in [Subdomains -> Nat \cup {NoMark}]
  <2>1. CASE Presence(s) = "live"
    <3>1. old \in Links
      BY <2>1 DEF TypeOK, Presence
    <3>2. told' = Tell(old, "revoked") /\ superseded' = [superseded EXCEPT ![s] = NoMark]
      BY <2>1 DEF RevokeEvict, Presence
    <3>3. told \in [Links -> Reasons] /\ "revoked" \in Reasons
      BY DEF TypeOK, Reasons
    <3>4. superseded' \in [Subdomains -> Nat \cup {NoMark}]
      BY <3>2 DEF TypeOK
    <3>5. /\ Tell(old, "revoked") \in [Links -> Reasons]
          /\ \A k \in Links : Tell(old, "revoked")[k] =
               IF k = old /\ told[k] = "none" THEN "revoked" ELSE told[k]
      BY <3>1, <3>3, TellEffect
    <3> QED
      BY <3>2, <3>4, <3>5
  <2>2. CASE Presence(s) = "absent"
    BY <2>2 DEF TypeOK, RevokeEvict, Presence
  <2> QED
    BY <2>1, <2>2 DEF Presence
<1>b. /\ live' = [live EXCEPT ![s] = NoAttachment]
      /\ mu = s /\ mu' = None
      /\ UNCHANGED <<claims, audit, generation, stage, held, gen, done, now, boot>>
  BY DEF RevokeEvict, durable
<1>c. /\ claims[s].revoked
      /\ \A k \in Links : k = old => /\ held[k].subdomain = s
                                     /\ stage[k] \in {"attached", "recorded", "finished"}
  BY <1>b DEF LockInv, RouteInv
<1>d. /\ \A q \in Subdomains : q # s => live'[q] = live[q]
      /\ live'[s] = NoAttachment /\ NoAttachment.link = None
  BY <1>b DEF TypeOK, NoAttachment
<1>e. \A k \in Links : stage[k] \notin {"committed", "recorded"}
  BY <1>b DEF LockInv
<1>1. TypeOK'
  BY <1>a, <1>b DEF TypeOK, NoAttachment
<1>2. ClaimsInv'
  BY <1>b DEF ClaimsInv
<1>3. LockInv'
  BY <1>b, <1>e DEF LockInv
<1>4. HeldInv'
  <2>1. \A k \in Links : stage[k] \in Early => told'[k] = told[k]
    BY <1>a, <1>c DEF Early
  <2>2. \A k \in Links : told'[k] = "revoked" => held[k].subdomain # None
    BY <1>a, <1>c DEF HeldInv
  <2> QED
    BY <1>b, <2>1, <2>2 DEF HeldInv
<1>5. RouteInv'
  BY <1>b, <1>d DEF RouteInv
<1>6. GenerationInv'
  <2>1. \A k \in Links : Numbered(k)' => Numbered(k)
    BY <1>b, <1>d DEF Numbered
  <2> QED
    BY <1>b, <2>1 DEF GenerationInv
<1>7. RevokedInv'
  BY <1>b, <1>d DEF RevokedInv
<1>8. OrphanInv'
  <2>1. ASSUME NEW k \in Links, stage[k] = "attached"
        PROVE  live'[held[k].subdomain].link = k \/ told'[k] # "none"
    <3>1. held[k].subdomain \in Subdomains
      BY <2>1 DEF HeldInv, Admitted, TypeOK
    <3>2. CASE told[k] # "none"
      BY <1>a, <3>2
    <3>3. CASE live[held[k].subdomain].link = k
      <4>1. CASE held[k].subdomain = s
        BY <1>a, <3>3, <4>1
      <4>2. CASE held[k].subdomain # s
        BY <1>d, <3>1, <3>3, <4>2
      <4> QED
        BY <4>1, <4>2
    <3> QED
      BY <2>1, <3>2, <3>3 DEF OrphanInv
  <2> QED
    BY <1>b, <1>e, <2>1 DEF OrphanInv
<1>9. ReasonsAreTrue'
  <2>1. \A k \in Links : told'[k] = "revoked" => claims[held[k].subdomain].revoked
    BY <1>a, <1>c DEF ReasonsAreTrue
  <2>2. \A k \in Links : told'[k] = "superseded" => told[k] = "superseded"
    BY <1>a
  <2> QED
    BY <1>b, <2>1, <2>2 DEF ReasonsAreTrue
<1> QED
  BY <1>1, <1>2, <1>3, <1>4, <1>5, <1>6, <1>7, <1>8, <1>9

-----------------------------------------------------------------------------
(* The invariant holds in every state of every behaviour.                   *)

LEMMA InitEstablishes == Init => IndInv
<1> SUFFICES ASSUME Init PROVE IndInv
  OBVIOUS
<1> USE NoneAssumption, HoldersAssumption DEF Init
<1>1. TypeOK
  <2>1. audit \in [Subdomains -> Seq(Rows)]
    BY EmptySeq
  <2> QED
    BY <2>1 DEF TypeOK, NoRow, NoAttachment, NoClaim, Stages, Reasons
<1>2. ClaimsInv /\ LockInv
  BY DEF ClaimsInv, LockInv
<1>3. HeldInv /\ RouteInv /\ ReasonsAreTrue
  BY DEF HeldInv, RouteInv, ReasonsAreTrue, NoClaim, NoAttachment, Admitted
<1>4. GenerationInv
  BY DEF GenerationInv, Numbered, NoAttachment
<1>5. RevokedInv /\ OrphanInv
  BY DEF RevokedInv, OrphanInv, NoRow, NoAttachment
<1> QED
  BY <1>1, <1>2, <1>3, <1>4, <1>5 DEF IndInv

LEMMA RefusalsPreserve ==
  ASSUME IndInv, NEW l \in Links,
         \/ \E t \in Tokens : LookupRefused(l, t)
         \/ LookupFails(l)
         \/ AuthenticateRefused(l)
         \/ AttachFails(l)
  PROVE  IndInv'
<1>1. PICK r \in Reasons :
        /\ Leave(l, r) /\ stage[l] \in Early
        /\ r \notin {"superseded", "revoked"}
        /\ UNCHANGED <<durable, volatile, mu, held, gen, done, now, boot>>
  BY DEF LookupRefused, LookupFails, AuthenticateRefused, AttachFails,
         CloseReasonFor, Early, Reasons
<1> QED
  BY <1>1, LeavePreserves

LEMMA AttachRefusedPreserves ==
  ASSUME IndInv, NEW l \in Links, AttachRefused(l)
  PROVE  IndInv'
<1> DEFINE s == held[l].subdomain
           r == CloseReasonFor(AttachError(l))
<1>1. /\ Leave(l, r) /\ stage[l] = "authorised"
      /\ UNCHANGED <<durable, volatile, mu, held, gen, done, now, boot>>
  BY DEF AttachRefused
<1>2. s # None /\ claims[s].token = held[l].token
  BY <1>1 DEF IndInv, HeldInv, Admitted
<1>3. AttachError(l) = IF ~TakeoverAllowed(s) THEN "conflict" ELSE ConnectOutcome(s).err
  BY <1>2 DEF AttachError
<1>4. ~claims[s].revoked => ConnectOutcome(s).err = "none"
  BY DEF ConnectOutcome, StatusOf, Transition, ConnectTransition, Status, Accept
<1>5. r \in Reasons /\ r # "superseded"
  BY DEF CloseReasonFor, Reasons
<1>6. r = "revoked" => claims[s].revoked
  BY <1>3, <1>4 DEF CloseReasonFor
<1> QED
  BY <1>1, <1>2, <1>5, <1>6, LeavePreserves DEF Early

LEMMA StepPreserves == IndInv /\ [Next]_vars => IndInv'
<1> SUFFICES ASSUME IndInv, [Next]_vars PROVE IndInv'
  OBVIOUS
<1>1. CASE \E s \in Subdomains : Operate(s)
  <2>1. PICK s \in Subdomains : Operate(s)
    BY <1>1
  <2> QED
    BY <2>1, ClaimPreserves, RevokeCommitPreserves, RevokeEvictPreserves DEF Operate
<1>2. CASE \E l \in Links : ServeLink(l)
  <2>1. PICK l \in Links : ServeLink(l)
    BY <1>2
  <2>2. CASE \/ \E t \in Tokens : LookupRefused(l, t)
             \/ LookupFails(l) \/ AuthenticateRefused(l) \/ AttachFails(l)
    BY <2>2, RefusalsPreserve
  <2>3. CASE \E t \in Tokens : Lookup(l, t)
    BY <2>3, LookupPreserves
  <2>4. CASE LostIgnored(l) \/ LostFails(l)
    BY <2>4, FinishPreserves DEF LostIgnored, LostFails
  <2> QED
    BY <2>1, <2>2, <2>3, <2>4, AuthenticatePreserves, AttachCommitPreserves,
       InstallPreserves, AttachRefusedPreserves, SessionEndsPreserves,
       CloseForShutdownPreserves, LostCommitPreserves, LostDetachPreserves
       DEF ServeLink
<1>3. CASE Tick
  BY <1>3, TickPreserves
<1>4. CASE Restart
  BY <1>4, RestartPreserves
<1>5. CASE UNCHANGED vars
  BY <1>5, StutterPreserves
<1> QED
  BY <1>1, <1>2, <1>3, <1>4, <1>5 DEF Next

(* Claims, lock, handlers, routing table and generations fit together in    *)
(* every reachable state of the service, at every step inside the critical  *)
(* sections of Attach, Lost and Revoke, and across restarts.                *)
THEOREM Inductive == Spec => []IndInv
BY InitEstablishes, StepPreserves, PTL DEF Spec

(* Type correctness: every value the service and its handlers hold has the  *)
(* type the code declares for it.                                           *)
THEOREM TypeCorrect == Spec => []TypeOK
<1>1. IndInv => TypeOK
  BY DEF IndInv
<1> QED
  BY <1>1, Inductive, PTL

(* The panic of revokedTransition is unreachable, for any number of         *)
(* subdomains, tokens and links: outside Revoke's own critical section no   *)
(* revoked claim has a live link.                                           *)
THEOREM PanicUnreachable == Spec => []NeverPanics
<1>1. IndInv => NeverPanics
  <2> SUFFICES ASSUME IndInv, NEW s \in Subdomains, mu # s, NEW e \in Events,
                      Transition(StatusOf(s), e).err = "panic"
               PROVE  FALSE
    BY DEF NeverPanics
  <2>1. PICK c \in ClaimStates, p \in Presences :
           /\ StatusOf(s) = Status(c, p)
           /\ p = Presence(s)
           /\ c = IF claims[s].revoked THEN "revoked" ELSE "active"
    BY StatusIsTyped
  <2>2. c = "revoked" /\ p = "live"
    BY <2>1, PanicsOnlyRevokedLive
  <2> QED
    BY <2>1, <2>2 DEF IndInv, RevokedInv, Presence
<1> QED
  BY <1>1, Inductive, PTL

(* Routing: Registry.Lookup hands a subdomain only to a link that proved    *)
(* the credential of that very claim, whatever Attach, Lost, Revoke and     *)
(* Restart raced.                                                           *)
THEOREM RoutingIsSafe == Spec => []RoutesToHolder
<1>1. IndInv => RoutesToHolder
  <2> SUFFICES ASSUME IndInv, NEW s \in Subdomains, live[s].link # None
               PROVE  /\ held[live[s].link] = [subdomain |-> s, token |-> claims[s].token]
                      /\ live[s].generation = gen[live[s].link]
                      /\ gen[live[s].link] <= generation
    BY DEF RoutesToHolder, Presence
  <2> DEFINE l == live[s].link
  <2>1. /\ l \in Links
        /\ held[l] \in [subdomain : Subdomains \cup {None}, token : Tokens \cup {None}]
    BY DEF IndInv, TypeOK
  <2>2. held[l].subdomain = s /\ live[s].generation = gen[l]
    BY DEF IndInv, RouteInv
  <2>3. held[l].token = claims[s].token
    BY <2>1, <2>2, NoneAssumption DEF IndInv, HeldInv
  <2>4. gen[l] <= generation
    BY <2>1 DEF IndInv, GenerationInv, Numbered, TypeOK
  <2> QED
    BY <2>1, <2>2, <2>3, <2>4
<1> QED
  BY <1>1, Inductive, PTL

(* No attached link is displaced and left open: it serves its subdomain or  *)
(* Attach or Revoke told it why not.                                        *)
THEOREM NoneIsOrphaned == Spec => []NoOrphanedLink
<1>1. IndInv => NoOrphanedLink
  <2> SUFFICES ASSUME IndInv, NEW l \in Links, stage[l] = "attached",
                      live[held[l].subdomain].link = l
               PROVE  live[held[l].subdomain] = [link |-> l, generation |-> gen[l]]
    BY DEF NoOrphanedLink, IndInv, OrphanInv
  <2> DEFINE s == held[l].subdomain
  <2>1. s \in Subdomains
    BY DEF IndInv, HeldInv, Admitted, TypeOK
  <2>2. live[s] \in [link : Links \cup {None}, generation : Nat]
    BY <2>1 DEF IndInv, TypeOK
  <2>3. live[s].generation = gen[l]
    BY <2>1, NoneAssumption DEF IndInv, RouteInv
  <2> QED
    BY <2>2, <2>3
<1> QED
  BY <1>1, Inductive, PTL

(* Close reasons are true: "revoked" only on a revoked claim, "superseded"  *)
(* only when a later generation took the subdomain.                         *)
THEOREM ReasonsHold == Spec => []ReasonsAreTrue
<1>1. IndInv => ReasonsAreTrue
  BY DEF IndInv
<1> QED
  BY <1>1, Inductive, PTL

(* A subdomain loses its service only by the end of the link that serves    *)
(* it, a revocation or a restart: the generation check of Lost and Detach   *)
(* keeps a superseded link's late report from detaching its successor.      *)
THEOREM ServiceIsKept == Spec => ServiceEndsForAReason
<1> DEFINE Kept == \A s \in Subdomains :
                     (Presence(s) = "live" /\ Presence(s)' = "absent") =>
                       \/ live[s].link \in done
                       \/ claims[s].revoked
                       \/ generation' = 0
<1>1. IndInv /\ [Next]_vars => [Kept]_vars
  <2> SUFFICES ASSUME IndInv, Next, NEW s \in Subdomains,
                      Presence(s) = "live", Presence(s)' = "absent"
               PROVE  \/ live[s].link \in done
                      \/ claims[s].revoked
                      \/ generation' = 0
    OBVIOUS
  <2>0. live[s].link # None /\ live'[s].link = None
    BY DEF Presence
  <2>1. CASE Restart
    BY <2>1 DEF Restart
  <2>2. ASSUME NEW q \in Subdomains, Operate(q)
        PROVE  claims[s].revoked
    <3>1. RevokeEvict(q)
      BY <2>0, <2>2 DEF Operate, Claim, RevokeCommit, volatile
    <3>2. q = s
      BY <2>0, <3>1 DEF RevokeEvict, IndInv, TypeOK
    <3> QED
      BY <3>1, <3>2 DEF RevokeEvict, IndInv, LockInv
  <2>3. ASSUME NEW l \in Links, ServeLink(l)
        PROVE  live[s].link \in done
    <3>1. AttachInstall(l) \/ LostDetach(l)
      BY <2>0, <2>3
         DEF ServeLink, Lookup, LookupRefused, LookupFails, Authenticate,
             AuthenticateRefused, AttachCommit, AttachRefused, AttachFails,
             SessionEnds, CloseForShutdown, LostCommit, LostIgnored, LostFails,
             volatile
    <3>2. held[l].subdomain \in Subdomains
      BY <3>1 DEF AttachInstall, LostDetach, IndInv, HeldInv, Admitted, TypeOK
    <3>3. ~AttachInstall(l)
      <4> SUFFICES ASSUME AttachInstall(l) PROVE FALSE
        OBVIOUS
      <4>1. live' = [live EXCEPT ![held[l].subdomain] = [link |-> l, generation |-> gen[l]]]
        BY DEF AttachInstall
      <4>2. live'[s].link = IF s = held[l].subdomain THEN l ELSE live[s].link
        BY <3>2, <4>1 DEF IndInv, TypeOK
      <4> QED
        BY <2>0, <4>2, NoneAssumption
    <3>4. held[l].subdomain = s
      BY <2>0, <3>1, <3>2, <3>3 DEF LostDetach, IndInv, TypeOK
    <3> QED
      BY <3>1, <3>3, <3>4 DEF LostDetach, IndInv, OrphanInv
  <2>4. CASE Tick
    BY <2>0, <2>4 DEF Tick, volatile
  <2> QED
    BY <2>1, <2>2, <2>3, <2>4 DEF Next
<1> QED
  BY <1>1, Inductive, PTL DEF Spec, ServiceEndsForAReason

-----------------------------------------------------------------------------
(* The audit is the history of the tunnel: on top of IndInv, what its rows  *)
(* say of the claim, the link and the takeover mark, which words they can   *)
(* form, and how far apart takeovers are.                                   *)

(* Rows.                                                                    *)

(* A concatenation, read from both sides.                                   *)
LEMMA ConcatReads ==
  ASSUME NEW a \in Seq(Rows), NEW b \in Seq(Rows)
  PROVE  /\ Len(a \o b) = Len(a) + Len(b)
         /\ \A i \in 1..Len(a) : (a \o b)[i] = a[i]
         /\ \A j \in 1..Len(b) : (a \o b)[Len(a) + j] = b[j]
<1>1. /\ Len(a) \in Nat /\ Len(b) \in Nat
      /\ Len(a \o b) = Len(a) + Len(b)
      /\ \A i \in 1..Len(a) + Len(b) :
           (a \o b)[i] = IF i <= Len(a) THEN a[i] ELSE b[i - Len(a)]
  BY ConcatProperties, LenProperties
<1>2. \A j \in 1..Len(b) : (a \o b)[Len(a) + j] = b[j]
  <2> SUFFICES ASSUME NEW j \in 1..Len(b) PROVE (a \o b)[Len(a) + j] = b[j]
    OBVIOUS
  <2>1. /\ Len(a) + j \in 1..Len(a) + Len(b)
        /\ ~(Len(a) + j <= Len(a)) /\ (Len(a) + j) - Len(a) = j
    BY <1>1
  <2> QED
    BY <1>1, <2>1
<1> QED
  BY <1>1, <1>2

(* Service.entries and the store's insert: the new rows come after the old  *)
(* ones, one per kind, stamped with the clock; other subdomains keep theirs. *)
LEMMA AppendEffect ==
  ASSUME IndInv, NEW s \in Subdomains, NEW kinds \in Seq(AuditKinds), NEW d \in Nat,
         AppendAudit(s, kinds, d)
  PROVE  /\ Len(audit[s]) \in Nat /\ Len(kinds) \in Nat
         /\ Len(audit'[s]) = Len(audit[s]) + Len(kinds)
         /\ \A i \in 1..Len(audit[s]) : audit'[s][i] = audit[s][i]
         /\ \A j \in 1..Len(kinds) : audit'[s][Len(audit[s]) + j] =
              [kind |-> kinds[j], at |-> now, detail |-> d]
         /\ \A q \in Subdomains : q # s => audit'[q] = audit[q]
<1>1. /\ audit[s] \in Seq(Rows) /\ Len(audit[s]) \in Nat /\ Len(kinds) \in Nat
      /\ audit \in [Subdomains -> Seq(Rows)] /\ now \in Nat
  BY LenProperties DEF IndInv, TypeOK
<1>2. /\ Entries(kinds, d) \in Seq(Rows)
      /\ Len(Entries(kinds, d)) = Len(kinds)
      /\ \A j \in 1..Len(kinds) : Entries(kinds, d)[j] =
           [kind |-> kinds[j], at |-> now, detail |-> d]
  <2>1. \A i \in 1..Len(kinds) : kinds[i] \in AuditKinds
    OBVIOUS
  <2>2. Entries(kinds, d) \in [1..Len(kinds) -> Rows]
    BY <1>1, <2>1 DEF Entries, Rows
  <2>3. Entries(kinds, d) \in Seq(Rows) /\ Len(Entries(kinds, d)) = Len(kinds)
    BY <1>1, <2>2, SeqDef, LenProperties
  <2> QED
    BY <2>3 DEF Entries
<1>3. audit' = [audit EXCEPT ![s] = audit[s] \o Entries(kinds, d)]
  BY DEF AppendAudit
<1>4. audit'[s] = audit[s] \o Entries(kinds, d)
      /\ \A q \in Subdomains : q # s => audit'[q] = audit[q]
  BY <1>1, <1>3
<1>5. /\ Len(audit'[s]) = Len(audit[s]) + Len(kinds)
      /\ \A i \in 1..Len(audit[s]) : audit'[s][i] = audit[s][i]
      /\ \A j \in 1..Len(kinds) : audit'[s][Len(audit[s]) + j] = Entries(kinds, d)[j]
  <2> DEFINE old == audit[s]
             new == Entries(kinds, d)
  <2>1. old \in Seq(Rows) /\ new \in Seq(Rows)
    BY <1>1, <1>2
  <2> HIDE DEF old, new
  <2>2. /\ Len(old \o new) = Len(old) + Len(new)
        /\ \A i \in 1..Len(old) : (old \o new)[i] = old[i]
        /\ \A j \in 1..Len(new) : (old \o new)[Len(old) + j] = new[j]
    BY <2>1, ConcatReads
  <2> QED
    BY <1>2, <1>4, <2>2 DEF old, new
<1> QED
  BY <1>1, <1>2, <1>4, <1>5

(* The last row, read off a non-empty audit.                                *)
LEMMA LastKindRead ==
  ASSUME IndInv, NEW s \in Subdomains
  PROVE  /\ Len(audit[s]) \in Nat
         /\ audit[s] = << >> <=> Len(audit[s]) = 0
         /\ Len(audit[s]) > 0 => LastKind(s) = audit[s][Len(audit[s])].kind
         /\ Len(audit[s]) = 0 => LastKind(s) = "none"
         /\ \A i \in 1..Len(audit[s]) : audit[s][i] \in Rows
<1>1. audit[s] \in Seq(Rows)
  BY DEF IndInv, TypeOK
<1>2. Len(audit[s]) \in Nat /\ (audit[s] = << >> <=> Len(audit[s]) = 0)
  BY <1>1, LenProperties, EmptySeq
<1> QED
  BY <1>1, <1>2, ElementOfSeq DEF LastKind, LastRow

(* A step that does not work on s keeps what is known of its rows.          *)
LEMMA AuditFrame ==
  ASSUME IndInv, IndInv', NEW s \in Subdomains, AuditInv(s),
         claims'[s] = claims[s], audit'[s] = audit[s], live'[s] = live[s],
         superseded'[s] = superseded[s], boot'[s] = boot[s], now' >= now,
         mu' = s <=> mu = s,
         \A l \in Links : InSection(l, s)' <=> InSection(l, s),
         \A l \in Links : InSection(l, s) => stage'[l] = stage[l] /\ gen'[l] = gen[l]
  PROVE  AuditInv(s)'
<1>1. LastKind(s)' = LastKind(s) /\ LastRow(s)' = LastRow(s) /\ Presence(s)' = Presence(s)
  BY DEF LastKind, LastRow, Presence
<1>2. AuditPresence(s)' = AuditPresence(s) /\ TookOver(s)' = TookOver(s)
  BY <1>1 DEF AuditPresence, TookOver
<1>3. Settled(s)' <=> Settled(s)
  BY DEF Settled
<1>4. RowsTellClaim(s)'
  BY <1>1 DEF AuditInv, RowsTellClaim
<1>5. RowsTellPresence(s)'
  BY <1>1, <1>2, <1>3 DEF AuditInv, RowsTellPresence
<1>6. RowsTellSection(s)'
  <2> SUFFICES ASSUME NEW l \in Links, InSection(l, s)'
               PROVE  /\ stage'[l] = "committed" =>
                           /\ Len(audit'[s]) > boot'[s]
                           /\ LastKind(s)' = "connected" /\ LastRow(s)'.detail = gen'[l]
                           /\ Presence(s)' = "live" <=> TookOver(s)'
                      /\ stage'[l] = "recorded" => LastKind(s)' = "disconnected"
    BY DEF RowsTellSection, InSection
  <2>1. InSection(l, s) /\ stage'[l] = stage[l] /\ gen'[l] = gen[l]
    OBVIOUS
  <2> QED
    BY <1>1, <1>2, <2>1 DEF AuditInv, RowsTellSection, InSection
<1>7. MarkCoversTakeovers(s)'
  <2>1. \A i \in 1..Len(audit[s]) : audit[s][i].at \in Nat
    BY LastKindRead DEF Rows
  <2>2. \A i \in 1..Len(audit[s]) : audit'[s][i].at <= now'
    <3>1. now \in Nat /\ now' \in Nat
      BY DEF IndInv, TypeOK
    <3>2. \A i \in 1..Len(audit[s]) : audit[s][i].at <= now
      BY DEF AuditInv, MarkCoversTakeovers
    <3> QED
      BY <2>1, <3>1, <3>2
  <2>3. \A i \in 1..Len(audit[s]) : OpenTakeover(s, i)' <=> OpenTakeover(s, i)
    BY DEF OpenTakeover
  <2>4. \A l \in Links :
          held[l].subdomain = s /\ stage[l] = "committed" =>
          held'[l].subdomain = s /\ stage'[l] = "committed"
    BY DEF InSection
  <2>5. \A i \in 1..Len(audit[s]) : OpenTakeover(s, i) =>
       /\ ~claims[s].revoked
       /\ \/ superseded[s] # NoMark /\ audit[s][i].at <= superseded[s]
          \/ \E l \in Links : /\ held'[l].subdomain = s
                              /\ stage'[l] = "committed"
                              /\ live[s].link # None
    BY <2>4 DEF AuditInv, MarkCoversTakeovers
  <2> QED
    BY <2>2, <2>3, <2>5 DEF AuditInv, MarkCoversTakeovers
<1>8. \A i \in 1..Len(audit'[s]) : FollowsLegally(s, i)'
  BY <1>1 DEF AuditInv, FollowsLegally
<1>9. TakeoversSpaced(s)'
  BY DEF AuditInv, TakeoversSpaced
<1> QED
  BY <1>4, <1>5, <1>6, <1>7, <1>8, <1>9 DEF AuditInv

-----------------------------------------------------------------------------
(* Appending rows.                                                          *)

(* The audit of s got one row per kind, stamped now, with detail d.         *)
Grown(s, kinds, d) ==
  /\ Len(audit'[s]) = Len(audit[s]) + Len(kinds)
  /\ \A i \in 1..Len(audit[s]) : audit'[s][i] = audit[s][i]
  /\ \A j \in 1..Len(kinds) : audit'[s][Len(audit[s]) + j] =
       [kind |-> kinds[j], at |-> now, detail |-> d]

(* One appended row is the last one; two are the last two.                  *)
LEMMA GrownByOne ==
  ASSUME NEW s, Len(audit[s]) \in Nat, NEW kinds, NEW d, Grown(s, kinds, d), Len(kinds) = 1
  PROVE  /\ Len(audit'[s]) = Len(audit[s]) + 1
         /\ audit'[s][Len(audit[s]) + 1] = [kind |-> kinds[1], at |-> now, detail |-> d]
<1>1. 1 \in 1..Len(kinds)
  OBVIOUS
<1> QED
  BY <1>1 DEF Grown

LEMMA GrownByTwo ==
  ASSUME NEW s, Len(audit[s]) \in Nat, NEW kinds, NEW d, Grown(s, kinds, d), Len(kinds) = 2
  PROVE  /\ Len(audit'[s]) = Len(audit[s]) + 2
         /\ audit'[s][Len(audit[s]) + 1] = [kind |-> kinds[1], at |-> now, detail |-> d]
         /\ audit'[s][Len(audit[s]) + 2] = [kind |-> kinds[2], at |-> now, detail |-> d]
<1>1. 1 \in 1..Len(kinds) /\ 2 \in 1..Len(kinds)
  OBVIOUS
<1> QED
  BY <1>1 DEF Grown

(* Without a lock every subdomain is settled.                               *)
LEMMA UnlockedIsSettled ==
  ASSUME IndInv, mu = None, NEW s \in Subdomains
  PROVE  Settled(s)
BY NoneAssumption DEF IndInv, LockInv, Settled, InSection

(* Rows stay legal when rows follow them, unless the claim was revoked.     *)
LEMMA OldRowsStayLegal ==
  ASSUME IndInv, NEW s \in Subdomains, AuditInv(s), LastKind(s) # "revoked",
         NEW kinds \in Seq(AuditKinds), NEW d \in Nat, Grown(s, kinds, d),
         boot'[s] = boot[s],
         NEW i \in 1..Len(audit[s])
  PROVE  FollowsLegally(s, i)'
<1>1. FollowsLegally(s, i) /\ Len(audit[s]) \in Nat
  BY LastKindRead DEF AuditInv
<1>2. audit'[s][i] = audit[s][i] /\ (i # 1 => audit'[s][i-1] = audit[s][i-1])
  BY <1>1 DEF Grown
<1>3. CASE i = 1
  BY <1>1, <1>2, <1>3 DEF FollowsLegally
<1>4. CASE i # 1
  BY <1>1, <1>2, <1>4 DEF FollowsLegally
<1> QED
  BY <1>3, <1>4

(* Rows of other kinds than superseded bring no takeovers closer.           *)
LEMMA OldTakeoversStaySpaced ==
  ASSUME IndInv, NEW s \in Subdomains, AuditInv(s),
         NEW kinds \in Seq(AuditKinds), NEW d \in Nat, Grown(s, kinds, d),
         \A j \in 1..Len(kinds) : kinds[j] # "superseded",
         boot'[s] = boot[s]
  PROVE  TakeoversSpaced(s)'
<1>1. Len(audit[s]) \in Nat /\ Len(kinds) \in Nat /\ boot[s] \in Nat
  BY LastKindRead, LenProperties DEF IndInv, TypeOK
<1>2. \A j \in boot[s]+1..Len(audit'[s]) :
        audit'[s][j].kind = "superseded" => j \in boot[s]+1..Len(audit[s])
  <2> SUFFICES ASSUME NEW j \in boot[s]+1..Len(audit'[s]), j > Len(audit[s])
               PROVE  audit'[s][j].kind # "superseded"
    BY <1>1
  <2> DEFINE n == j - Len(audit[s])
  <2>1. n \in 1..Len(kinds) /\ j = Len(audit[s]) + n
    BY <1>1 DEF Grown
  <2>2. audit'[s][j] = [kind |-> kinds[n], at |-> now, detail |-> d]
    BY <2>1 DEF Grown
  <2> QED
    BY <2>1, <2>2
<1> SUFFICES ASSUME NEW i \in boot[s]+1..Len(audit[s]),
                    NEW j \in boot[s]+1..Len(audit[s]), i < j,
                    audit'[s][i].kind = "superseded", audit'[s][j].kind = "superseded",
                    \A k \in i..j : audit'[s][k].kind # "disconnected"
             PROVE  audit'[s][j].at - audit'[s][i].at >= SupersedeCooldown
  BY <1>1, <1>2 DEF TakeoversSpaced
<1>3. \A k \in i..j : k \in 1..Len(audit[s]) /\ audit'[s][k] = audit[s][k]
  BY <1>1 DEF Grown
<1>4. audit'[s][i] = audit[s][i] /\ audit'[s][j] = audit[s][j]
  BY <1>1, <1>3
<1> QED
  BY <1>3, <1>4 DEF AuditInv, TakeoversSpaced

(* A takeover that is open after rows were appended was open before, or is  *)
(* among them.                                                              *)
LEMMA OpenTakeoverWas ==
  ASSUME IndInv, NEW s \in Subdomains, NEW kinds \in Seq(AuditKinds), NEW d \in Nat,
         Grown(s, kinds, d), boot'[s] = boot[s],
         NEW i \in 1..Len(audit'[s]), OpenTakeover(s, i)'
  PROVE  \/ i \in 1..Len(audit[s]) /\ OpenTakeover(s, i) /\ audit'[s][i] = audit[s][i]
         \/ \E j \in 1..Len(kinds) : /\ kinds[j] = "superseded"
                                     /\ i = Len(audit[s]) + j
                                     /\ audit'[s][i].at = now
<1>1. Len(audit[s]) \in Nat /\ Len(kinds) \in Nat /\ boot[s] \in Nat
  BY LastKindRead, LenProperties DEF IndInv, TypeOK
<1>2. CASE i <= Len(audit[s])
  <2>1. /\ i \in boot[s]+1..Len(audit[s]) /\ i \in 1..Len(audit[s])
        /\ audit'[s][i] = audit[s][i]
    BY <1>1, <1>2 DEF OpenTakeover, Grown
  <2>2. \A k \in i..Len(audit[s]) : k \in i..Len(audit'[s]) /\ audit'[s][k] = audit[s][k]
    BY <1>1, <2>1 DEF Grown
  <2> QED
    BY <2>1, <2>2 DEF OpenTakeover
<1>3. CASE i > Len(audit[s])
  <2> DEFINE n == i - Len(audit[s])
  <2>1. n \in 1..Len(kinds) /\ i = Len(audit[s]) + n
    BY <1>1, <1>3 DEF Grown
  <2>2. audit'[s][i] = [kind |-> kinds[n], at |-> now, detail |-> d]
    BY <2>1 DEF Grown
  <2>3. audit'[s][i].kind = "superseded"
    BY DEF OpenTakeover
  <2> QED
    BY <2>1, <2>2, <2>3
<1> QED
  BY <1>1, <1>2, <1>3

(* No row is stamped in the future.                                         *)
LEMMA RowsInThePast ==
  ASSUME IndInv, NEW s \in Subdomains, AuditInv(s),
         NEW kinds \in Seq(AuditKinds), NEW d \in Nat, Grown(s, kinds, d), now' = now
  PROVE  \A i \in 1..Len(audit'[s]) : audit'[s][i].at <= now'
<1>1. Len(audit[s]) \in Nat /\ Len(kinds) \in Nat /\ now \in Nat
  BY LastKindRead, LenProperties DEF IndInv, TypeOK
<1> SUFFICES ASSUME NEW i \in 1..Len(audit'[s]) PROVE audit'[s][i].at <= now
  OBVIOUS
<1>2. CASE i <= Len(audit[s])
  <2>1. i \in 1..Len(audit[s])
    BY <1>1, <1>2
  <2>2. audit'[s][i] = audit[s][i] /\ audit[s][i].at <= now
    BY <2>1 DEF Grown, AuditInv, MarkCoversTakeovers
  <2> QED
    BY <2>2
<1>3. CASE i > Len(audit[s])
  <2> DEFINE n == i - Len(audit[s])
  <2>1. n \in 1..Len(kinds) /\ i = Len(audit[s]) + n
    BY <1>1, <1>3 DEF Grown
  <2>2. audit'[s][i] = [kind |-> kinds[n], at |-> now, detail |-> d]
    BY <2>1 DEF Grown
  <2> QED
    BY <1>1, <2>2
<1> QED
  BY <1>1, <1>2, <1>3

-----------------------------------------------------------------------------
(* The audit invariant, action by action.                                   *)

LEMMA ClaimKeepsAudit ==
  ASSUME IndInv, IndInv', AuditIndInv, NEW s \in Subdomains, NEW t \in Tokens, Claim(s, t)
  PROVE  AuditIndInv'
<1> DEFINE kinds == <<"claimed">>
<1>1. /\ claims[s] = NoRow
      /\ claims' = [claims EXCEPT ![s] = [token |-> t, revision |-> 1, revoked |-> FALSE]]
      /\ AppendAudit(s, kinds, 1)
      /\ UNCHANGED <<live, superseded, mu, stage, held, gen, now, boot>>
  BY DEF Claim, InsertClaim, volatile, handler
<1>2. kinds \in Seq(AuditKinds) /\ Len(kinds) = 1 /\ kinds[1] = "claimed"
  BY DEF AuditKinds
<1> HIDE DEF kinds
<1>3. Grown(s, kinds, 1) /\ \A q \in Subdomains : q # s => audit'[q] = audit[q]
  BY <1>1, <1>2, AppendEffect DEF Grown
<1>4. ASSUME NEW q \in Subdomains, q # s PROVE AuditInv(q)'
  <2>1. claims'[q] = claims[q]
    BY <1>1, <1>4 DEF IndInv, TypeOK
  <2>2. now' >= now /\ \A l \in Links : InSection(l, q)' <=> InSection(l, q)
    BY <1>1 DEF InSection, IndInv, TypeOK
  <2> QED
    BY <1>1, <1>3, <1>4, <2>1, <2>2, AuditFrame DEF AuditIndInv
<1>5. AuditInv(s) /\ Len(audit[s]) = 0 /\ LastKind(s) = "none" /\ boot[s] \in Nat
  BY <1>1, LastKindRead DEF AuditIndInv, AuditInv, RowsTellClaim, IndInv, TypeOK
<1>6. /\ Len(audit'[s]) = 1 /\ audit'[s][1] = [kind |-> "claimed", at |-> now, detail |-> 1]
      /\ LastKind(s)' = "claimed" /\ audit'[s] # << >>
  <2>1. Len(audit'[s]) = 1 /\ audit'[s][1] = [kind |-> "claimed", at |-> now, detail |-> 1]
    BY <1>2, <1>3, <1>5 DEF Grown
  <2> QED
    BY <2>1, LenProperties DEF LastKind, LastRow
<1>7. \A l \in Links : ~InSection(l, s)
  BY <1>5 DEF AuditInv, RowsTellSection, InSection
<1>8. mu # s
  BY <1>1 DEF NoRow, IndInv, LockInv
<1>9. Presence(s) = "absent" /\ superseded[s] = NoMark
  BY <1>5, <1>7, <1>8
     DEF AuditInv, RowsTellPresence, AuditPresence, Settled, TookOver
<1>10. claims'[s] # NoRow /\ ~claims'[s].revoked
  <2>1. claims'[s] = [token |-> t, revision |-> 1, revoked |-> FALSE]
    BY <1>1 DEF IndInv, TypeOK
  <2> QED
    BY <2>1 DEF NoRow
<1>a. RowsTellClaim(s)'
  BY <1>1, <1>5, <1>6, <1>10 DEF AuditInv, RowsTellClaim
<1>b. RowsTellPresence(s)'
  <2>1. Presence(s)' = "absent" /\ superseded'[s] = NoMark
    BY <1>1, <1>9 DEF Presence
  <2> QED
    BY <1>6, <2>1 DEF RowsTellPresence, AuditPresence
<1>c. RowsTellSection(s)'
  BY <1>1, <1>7 DEF RowsTellSection, InSection
<1>d. MarkCoversTakeovers(s)'
  <2>1. \A i \in 1..Len(audit'[s]) : ~OpenTakeover(s, i)'
    BY <1>6 DEF OpenTakeover
  <2> QED
    BY <1>1, <1>2, <1>3, <1>5, <1>9, <2>1, RowsInThePast DEF MarkCoversTakeovers
<1>e. \A i \in 1..Len(audit'[s]) : FollowsLegally(s, i)'
  BY <1>6 DEF FollowsLegally
<1>f. TakeoversSpaced(s)'
  <2>1. \A i, j \in boot'[s]+1..Len(audit'[s]) : ~(i < j)
    BY <1>1, <1>5, <1>6
  <2> QED
    BY <2>1 DEF TakeoversSpaced
<1> QED
  BY <1>4, <1>a, <1>b, <1>c, <1>d, <1>e, <1>f DEF AuditIndInv, AuditInv

(* What Revoke writes: the claim's last rows.                               *)
LEMMA RevokeCommitKeepsAudit ==
  ASSUME IndInv, IndInv', AuditIndInv, NEW s \in Subdomains, NEW r \in 1..2,
         RevokeCommit(s, r)
  PROVE  AuditIndInv'
<1> DEFINE kinds == RevokeOutcome(s).audit
           d == claims[s].revision + 1
<1>1. /\ mu = None /\ mu' = s
      /\ claims[s] # NoRow /\ ~claims[s].revoked
      /\ claims' = [claims EXCEPT ![s].revision = @ + 1, ![s].revoked = TRUE]
      /\ AppendAudit(s, kinds, d)
      /\ UNCHANGED <<live, superseded, stage, held, gen, now, boot>>
      /\ RevokeOutcome(s).err = "none"
  BY DEF RevokeCommit, RevokeClaim, ListClaims, volatile, handler
<1>2. kinds = IF Presence(s) = "live" THEN <<"disconnected", "revoked">> ELSE <<"revoked">>
  <2>1. PICK c \in ClaimStates, p \in Presences :
           /\ StatusOf(s) = Status(c, p)
           /\ p = Presence(s)
           /\ c = IF claims[s].revoked THEN "revoked" ELSE "active"
    BY StatusIsTyped
  <2> QED
    BY <1>1, <2>1, RevokeAccepted DEF RevokeOutcome
<1>3. /\ kinds \in Seq(AuditKinds) /\ d \in Nat
      /\ Presence(s) = "live" => Len(kinds) = 2 /\ kinds[1] = "disconnected" /\ kinds[2] = "revoked"
      /\ Presence(s) # "live" => Len(kinds) = 1 /\ kinds[1] = "revoked"
  <2>1. d \in Nat
    <3>1. claims[s].revision \in 0..2
      BY DEF IndInv, TypeOK
    <3> QED
      BY <3>1
  <2> HIDE DEF kinds, d
  <2>2. CASE Presence(s) = "live"
    BY <1>2, <2>1, <2>2 DEF AuditKinds
  <2>3. CASE Presence(s) # "live"
    BY <1>2, <2>1, <2>3 DEF AuditKinds
  <2> QED
    BY <2>2, <2>3
<1> HIDE DEF kinds, d
<1>4. Grown(s, kinds, d) /\ \A q \in Subdomains : q # s => audit'[q] = audit[q]
  BY <1>1, <1>3, AppendEffect DEF Grown
<1>5. ASSUME NEW q \in Subdomains, q # s PROVE AuditInv(q)'
  <2>1. claims'[q] = claims[q]
    BY <1>1, <1>5 DEF IndInv, TypeOK
  <2>2. now' >= now /\ \A l \in Links : InSection(l, q)' <=> InSection(l, q)
    BY <1>1 DEF InSection, IndInv, TypeOK
  <2>3. mu # q /\ mu' # q
    BY <1>1, <1>5, NoneAssumption
  <2> QED
    BY <1>1, <1>4, <1>5, <2>1, <2>2, <2>3, AuditFrame DEF AuditIndInv
<1>6. /\ AuditInv(s) /\ Len(audit[s]) \in Nat /\ Len(audit[s]) > 0
      /\ LastKind(s) = audit[s][Len(audit[s])].kind
      /\ LastKind(s) \in {"claimed", "connected", "disconnected"}
      /\ boot[s] \in Nat
  <2>1. AuditInv(s) /\ Len(audit[s]) \in Nat /\ boot[s] \in Nat
    BY LastKindRead DEF AuditIndInv, IndInv, TypeOK
  <2>2. Len(audit[s]) > 0 /\ LastKind(s) # "revoked" /\ LastKind(s) # "superseded"
    BY <1>1, <2>1, LastKindRead DEF AuditInv, RowsTellClaim
  <2>3. LastKind(s) \in AuditKinds /\ LastKind(s) = audit[s][Len(audit[s])].kind
    BY <2>1, <2>2, LastKindRead DEF Rows
  <2> QED
    BY <2>1, <2>2, <2>3 DEF AuditKinds
<1>0. /\ Presence(s) = "live" =>
           /\ Len(audit'[s]) = Len(audit[s]) + 2
           /\ audit'[s][Len(audit[s]) + 1] = [kind |-> "disconnected", at |-> now, detail |-> d]
           /\ audit'[s][Len(audit[s]) + 2] = [kind |-> "revoked", at |-> now, detail |-> d]
      /\ Presence(s) # "live" =>
           /\ Len(audit'[s]) = Len(audit[s]) + 1
           /\ audit'[s][Len(audit[s]) + 1] = [kind |-> "revoked", at |-> now, detail |-> d]
  <2>1. CASE Presence(s) = "live"
    BY <1>3, <1>4, <1>6, <2>1, GrownByTwo
  <2>2. CASE Presence(s) # "live"
    BY <1>3, <1>4, <1>6, <2>2, GrownByOne
  <2> QED
    BY <2>1, <2>2
<1>7. Settled(s)
  BY <1>1, UnlockedIsSettled
<1>8. /\ Presence(s) = "live" <=> Len(audit[s]) > boot[s] /\ LastKind(s) = "connected"
      /\ superseded[s] # NoMark => Presence(s) = "live"
  BY <1>6, <1>7 DEF AuditInv, RowsTellPresence, AuditPresence
<1>9. LastKind(s)' = "revoked" /\ audit'[s] # << >> /\ Len(audit'[s]) > 0
      /\ Len(audit'[s]) = Len(audit[s]) + Len(kinds)
      /\ Len(kinds) \in Nat
  <2>1. Len(audit'[s]) = Len(audit[s]) + Len(kinds) /\ Len(kinds) \in Nat
    BY <1>3, <1>4, LenProperties DEF Grown
  <2>2. audit'[s][Len(audit'[s])].kind = "revoked"
    <3>1. CASE Presence(s) = "live"
      BY <1>0, <3>1
    <3>2. CASE Presence(s) # "live"
      BY <1>0, <3>2
    <3> QED
      BY <3>1, <3>2
  <2>3. Len(audit'[s]) > 0 /\ audit'[s] # << >>
    BY <1>3, <1>6, <2>1, LenProperties
  <2> QED
    BY <2>1, <2>2, <2>3 DEF LastKind, LastRow
<1>10. claims'[s] # NoRow /\ claims'[s].revoked
  BY <1>1 DEF NoRow, IndInv, TypeOK
<1>a. RowsTellClaim(s)'
  <2>1. boot'[s] <= Len(audit'[s])
    BY <1>1, <1>6, <1>9 DEF AuditInv, RowsTellClaim
  <2> QED
    BY <1>9, <1>10, <2>1 DEF RowsTellClaim
<1>b. RowsTellPresence(s)'
  BY <1>1 DEF RowsTellPresence, Settled
<1>c. RowsTellSection(s)'
  BY <1>1, <1>7 DEF RowsTellSection, Settled, InSection
<1>d. MarkCoversTakeovers(s)'
  <2>1. \A i \in 1..Len(audit'[s]) : ~OpenTakeover(s, i)'
    <3> SUFFICES ASSUME NEW i \in 1..Len(audit'[s]), OpenTakeover(s, i)' PROVE FALSE
      OBVIOUS
    <3>1. \A j \in 1..Len(kinds) : kinds[j] # "superseded"
      BY <1>3
    <3>2. i \in 1..Len(audit[s]) /\ OpenTakeover(s, i)
      BY <1>1, <1>3, <1>4, <3>1, OpenTakeoverWas
    <3>3. superseded[s] # NoMark
      BY <1>6, <1>7, <3>2 DEF AuditInv, MarkCoversTakeovers, Settled, InSection
    <3>4. Presence(s) = "live"
      BY <1>8, <3>3
    <3>5. audit'[s][Len(audit[s]) + 1].kind = "disconnected"
      BY <1>0, <3>4
    <3>6. Len(audit[s]) + 1 \in i..Len(audit'[s])
      <4>1. Len(audit'[s]) = Len(audit[s]) + 2
        BY <1>0, <3>4
      <4> QED
        BY <1>6, <3>2, <4>1
    <3> QED
      BY <3>5, <3>6 DEF OpenTakeover
  <2> QED
    BY <1>1, <1>3, <1>4, <1>6, <2>1, RowsInThePast DEF AuditInv, MarkCoversTakeovers
<1>e. \A i \in 1..Len(audit'[s]) : FollowsLegally(s, i)'
  <2> SUFFICES ASSUME NEW i \in 1..Len(audit'[s]), i > Len(audit[s])
               PROVE  FollowsLegally(s, i)'
    BY <1>1, <1>3, <1>4, <1>6, OldRowsStayLegal
  <2>1. i # 1 /\ Len(audit[s]) \in 1..Len(audit[s]) /\ audit'[s][Len(audit[s])] = audit[s][Len(audit[s])]
    BY <1>4, <1>6 DEF Grown
  <2>2. CASE Presence(s) = "live"
    <3>1. Len(audit'[s]) = Len(audit[s]) + 2
      BY <1>3, <1>9, <2>2
    <3>2. /\ audit'[s][Len(audit[s]) + 1].kind = "disconnected"
          /\ audit'[s][Len(audit[s]) + 2].kind = "revoked"
      BY <1>0, <2>2
    <3>3. CASE i = Len(audit[s]) + 1
      <4>1. i - 1 = Len(audit[s]) /\ i = Len(audit'[s]) - 1
        BY <1>6, <3>1, <3>3
      <4> QED
        BY <1>6, <1>8, <1>9, <2>1, <2>2, <3>2, <3>3, <4>1
           DEF FollowsLegally, Successors, SuccessorsAcrossRestart
    <3>4. CASE i = Len(audit[s]) + 2
      <4>1. i - 1 = Len(audit[s]) + 1
        BY <1>6, <3>4
      <4> QED
        BY <2>1, <3>2, <3>4, <4>1 DEF FollowsLegally, Successors, SuccessorsAcrossRestart
    <3> QED
      BY <1>6, <3>1, <3>3, <3>4
  <2>3. CASE Presence(s) # "live"
    <3>1. Len(audit'[s]) = Len(audit[s]) + 1
      BY <1>3, <1>9, <2>3
    <3>2. i = Len(audit[s]) + 1 /\ i - 1 = Len(audit[s])
      BY <1>6, <3>1
    <3>3. audit'[s][i].kind = "revoked"
      BY <1>0, <2>3, <3>2
    <3>4. i - 1 > boot'[s] => LastKind(s) # "connected"
      BY <1>1, <1>8, <2>3, <3>2
    <3> QED
      BY <1>6, <2>1, <3>2, <3>3, <3>4 DEF FollowsLegally, Successors, SuccessorsAcrossRestart
  <2> QED
    BY <2>2, <2>3
<1>f. TakeoversSpaced(s)'
  <2>1. \A j \in 1..Len(kinds) : kinds[j] # "superseded"
    BY <1>3
  <2> QED
    BY <1>1, <1>3, <1>4, <1>6, <2>1, OldTakeoversStaySpaced
<1> QED
  BY <1>5, <1>a, <1>b, <1>c, <1>d, <1>e, <1>f DEF AuditIndInv, AuditInv

LEMMA RevokeEvictKeepsAudit ==
  ASSUME IndInv, IndInv', AuditIndInv, NEW s \in Subdomains, RevokeEvict(s)
  PROVE  AuditIndInv'
<1>1. /\ mu = s /\ mu' = None
      /\ live' = [live EXCEPT ![s] = NoAttachment]
      /\ \/ Presence(s) = "live" /\ superseded' = [superseded EXCEPT ![s] = NoMark]
         \/ Presence(s) = "absent" /\ superseded' = superseded
      /\ UNCHANGED <<claims, audit, stage, held, gen, now, boot>>
  BY DEF RevokeEvict, durable
<1>2. AuditInv(s) /\ claims[s].revoked
  BY <1>1 DEF AuditIndInv, IndInv, LockInv
<1>3. /\ live'[s].link = None /\ Presence(s)' = "absent" /\ superseded'[s] = NoMark
      /\ \A q \in Subdomains : q # s => live'[q] = live[q] /\ superseded'[q] = superseded[q]
  <2>1. Presence(s) = "absent" => superseded[s] = NoMark
    BY <1>2 DEF AuditInv, MarkCoversTakeovers, Presence
  <2> QED
    BY <1>1, <2>1 DEF IndInv, TypeOK, Presence, NoAttachment
<1>4. ASSUME NEW q \in Subdomains, q # s PROVE AuditInv(q)'
  <2>1. now' >= now /\ \A l \in Links : InSection(l, q)' <=> InSection(l, q)
    BY <1>1 DEF InSection, IndInv, TypeOK
  <2>2. mu # q /\ mu' # q
    BY <1>1, <1>4, NoneAssumption
  <2> QED
    BY <1>1, <1>3, <1>4, <2>1, <2>2, AuditFrame DEF AuditIndInv
<1>5. LastKind(s)' = LastKind(s) /\ LastKind(s) = "revoked"
  BY <1>1, <1>2 DEF AuditInv, RowsTellClaim, LastKind, LastRow
<1>6. \A l \in Links : ~InSection(l, s)
  BY <1>1, HoldersAssumption DEF IndInv, LockInv, InSection
<1>a. RowsTellClaim(s)'
  BY <1>1, <1>2, <1>5 DEF AuditInv, RowsTellClaim
<1>b. RowsTellPresence(s)'
  BY <1>3, <1>5 DEF RowsTellPresence, AuditPresence
<1>c. RowsTellSection(s)'
  BY <1>1, <1>6 DEF RowsTellSection, InSection
<1>d. MarkCoversTakeovers(s)'
  <2>1. \A i \in 1..Len(audit[s]) : ~OpenTakeover(s, i)'
    BY <1>1, <1>2 DEF AuditInv, MarkCoversTakeovers, OpenTakeover
  <2> QED
    BY <1>1, <1>2, <1>3, <2>1 DEF AuditInv, MarkCoversTakeovers
<1>e. \A i \in 1..Len(audit'[s]) : FollowsLegally(s, i)'
  BY <1>1, <1>2, <1>5 DEF AuditInv, FollowsLegally
<1>f. TakeoversSpaced(s)'
  BY <1>1, <1>2 DEF AuditInv, TakeoversSpaced
<1> QED
  BY <1>4, <1>a, <1>b, <1>c, <1>d, <1>e, <1>f DEF AuditIndInv, AuditInv

LEMMA RestartKeepsAudit ==
  ASSUME IndInv, IndInv', AuditIndInv, Restart
  PROVE  AuditIndInv'
<1> SUFFICES ASSUME NEW s \in Subdomains PROVE AuditInv(s)'
  BY DEF AuditIndInv
<1>1. /\ live'[s] = NoAttachment /\ superseded'[s] = NoMark /\ boot'[s] = Len(audit[s])
      /\ mu' = None /\ UNCHANGED <<claims, audit, held, gen, now>>
      /\ \A l \in Links : stage'[l] \in {"idle", "finished"}
  BY DEF Restart, durable
<1>2. AuditInv(s) /\ Len(audit[s]) \in Nat
  BY LastKindRead DEF AuditIndInv
<1>3. LastKind(s)' = LastKind(s) /\ Presence(s)' = "absent" /\ live'[s].link = None
  BY <1>1 DEF LastKind, LastRow, Presence, NoAttachment
<1>a. RowsTellClaim(s)'
  BY <1>1, <1>2, <1>3 DEF AuditInv, RowsTellClaim
<1>b. RowsTellPresence(s)'
  BY <1>1, <1>2, <1>3 DEF RowsTellPresence, AuditPresence
<1>c. RowsTellSection(s)'
  BY <1>1 DEF RowsTellSection
<1>d. MarkCoversTakeovers(s)'
  <2>1. \A i \in 1..Len(audit[s]) : ~OpenTakeover(s, i)'
    BY <1>1, <1>2 DEF OpenTakeover
  <2> QED
    BY <1>1, <1>2, <1>3, <2>1 DEF AuditInv, MarkCoversTakeovers
<1>e. \A i \in 1..Len(audit'[s]) : FollowsLegally(s, i)'
  <2> SUFFICES ASSUME NEW i \in 1..Len(audit[s]) PROVE FollowsLegally(s, i)'
    BY <1>1
  <2>1. ~(i - 1 > boot'[s]) /\ FollowsLegally(s, i)
    BY <1>1, <1>2 DEF AuditInv
  <2> QED
    BY <1>1, <2>1 DEF FollowsLegally
<1>f. TakeoversSpaced(s)'
  <2>1. \A i \in boot'[s]+1..Len(audit'[s]) : FALSE
    BY <1>1, <1>2
  <2> QED
    BY <2>1 DEF TakeoversSpaced
<1> QED
  BY <1>a, <1>b, <1>c, <1>d, <1>e, <1>f DEF AuditInv

(* Steps outside the critical sections write no row and change no presence. *)
LEMMA QuietKeepsAudit ==
  ASSUME IndInv, IndInv', AuditIndInv,
         UNCHANGED <<claims, audit, live, superseded, mu, gen, boot>>, now' >= now,
         NEW l \in Links, stage[l] \notin {"committed", "recorded"},
         stage'[l] \notin {"committed", "recorded"},
         \A m \in Links : m # l => stage'[m] = stage[m] /\ held'[m] = held[m]
  PROVE  AuditIndInv'
<1> SUFFICES ASSUME NEW s \in Subdomains PROVE AuditInv(s)'
  BY DEF AuditIndInv
<1>1. \A m \in Links : /\ InSection(m, s)' <=> InSection(m, s)
                       /\ InSection(m, s) => stage'[m] = stage[m] /\ gen'[m] = gen[m]
  <2> SUFFICES ASSUME NEW m \in Links
               PROVE  /\ InSection(m, s)' <=> InSection(m, s)
                      /\ InSection(m, s) => stage'[m] = stage[m] /\ gen'[m] = gen[m]
    OBVIOUS
  <2>1. CASE m = l
    BY <2>1 DEF InSection
  <2>2. CASE m # l
    BY <2>2 DEF InSection
  <2> QED
    BY <2>1, <2>2
<1> QED
  BY <1>1, AuditFrame DEF AuditIndInv

LEMMA LostDetachKeepsAudit ==
  ASSUME IndInv, IndInv', AuditIndInv, NEW l \in Links, LostDetach(l)
  PROVE  AuditIndInv'
<1>0. PICK s \in Subdomains : s = held[l].subdomain
  BY DEF LostDetach, IndInv, HeldInv, Admitted, TypeOK
<1>1. /\ mu = l /\ mu' = None /\ stage[l] = "recorded"
      /\ live' = IF Matches(s, gen[l]) THEN [live EXCEPT ![s] = NoAttachment] ELSE live
      /\ superseded' = [superseded EXCEPT ![s] = NoMark]
      /\ stage' = [stage EXCEPT ![l] = "finished"]
      /\ UNCHANGED <<claims, audit, held, gen, now, boot>>
  BY <1>0 DEF LostDetach, durable
<1>2. Matches(s, gen[l])
  BY <1>0, <1>1, NoneAssumption DEF Matches, IndInv, OrphanInv, RouteInv
<1>3. /\ live'[s].link = None /\ Presence(s)' = "absent" /\ superseded'[s] = NoMark
      /\ \A q \in Subdomains : q # s => live'[q] = live[q] /\ superseded'[q] = superseded[q]
      /\ \A m \in Links : stage'[m] = IF m = l THEN "finished" ELSE stage[m]
  BY <1>1, <1>2 DEF IndInv, TypeOK, Presence, NoAttachment
<1>4. ASSUME NEW q \in Subdomains, q # s PROVE AuditInv(q)'
  <2>1. \A m \in Links : /\ InSection(m, q)' <=> InSection(m, q)
                         /\ InSection(m, q) => stage'[m] = stage[m] /\ gen'[m] = gen[m]
    BY <1>0, <1>1, <1>3, <1>4 DEF InSection
  <2>2. mu # q /\ mu' # q /\ now' >= now
    BY <1>1, NoneAssumption, HoldersAssumption DEF IndInv, TypeOK
  <2> QED
    BY <1>1, <1>3, <1>4, <2>1, <2>2, AuditFrame DEF AuditIndInv
<1>5. AuditInv(s) /\ Len(audit[s]) \in Nat /\ Len(audit[s]) > 0 /\ boot[s] \in Nat
      /\ LastKind(s)' = "disconnected" /\ LastKind(s) = "disconnected"
      /\ audit[s][Len(audit[s])].kind = "disconnected"
  <2>1. AuditInv(s) /\ LastKind(s) = "disconnected"
    BY <1>0, <1>1 DEF AuditIndInv, AuditInv, RowsTellSection
  <2>2. Len(audit[s]) \in Nat /\ Len(audit[s]) > 0
        /\ audit[s][Len(audit[s])].kind = "disconnected"
    BY <2>1, LastKindRead
  <2> QED
    BY <1>1, <2>1, <2>2 DEF LastKind, LastRow, IndInv, TypeOK
<1>6. \A m \in Links : ~InSection(m, s)'
  BY <1>1, <1>3 DEF IndInv, LockInv, InSection
<1>a. RowsTellClaim(s)'
  BY <1>1, <1>5 DEF AuditInv, RowsTellClaim
<1>b. RowsTellPresence(s)'
  BY <1>3, <1>5 DEF RowsTellPresence, AuditPresence
<1>c. RowsTellSection(s)'
  BY <1>6 DEF RowsTellSection, InSection
<1>d. MarkCoversTakeovers(s)'
  <2>1. \A i \in 1..Len(audit[s]) : ~OpenTakeover(s, i)'
    <3> SUFFICES ASSUME NEW i \in 1..Len(audit[s]), OpenTakeover(s, i)' PROVE FALSE
      OBVIOUS
    <3>1. Len(audit[s]) \in i..Len(audit'[s])
      BY <1>1, <1>5
    <3> QED
      BY <1>1, <1>5, <3>1 DEF OpenTakeover
  <2> QED
    BY <1>1, <1>3, <1>5, <2>1 DEF AuditInv, MarkCoversTakeovers
<1>e. \A i \in 1..Len(audit'[s]) : FollowsLegally(s, i)'
  BY <1>1, <1>5 DEF AuditInv, FollowsLegally
<1>f. TakeoversSpaced(s)'
  BY <1>1, <1>5 DEF AuditInv, TakeoversSpaced
<1> QED
  BY <1>4, <1>a, <1>b, <1>c, <1>d, <1>e, <1>f DEF AuditIndInv, AuditInv

LEMMA LostCommitKeepsAudit ==
  ASSUME IndInv, IndInv', AuditIndInv, NEW l \in Links, LostCommit(l)
  PROVE  AuditIndInv'
<1>0. PICK s \in Subdomains : s = held[l].subdomain
  BY DEF LostCommit, IndInv, HeldInv, Admitted, TypeOK
<1> DEFINE kinds == <<"disconnected">>
           n == Len(audit[s])
<1>1. /\ mu = None /\ mu' = l /\ Matches(s, gen[l])
      /\ AppendAudit(s, kinds, gen[l])
      /\ stage' = [stage EXCEPT ![l] = "recorded"]
      /\ UNCHANGED <<claims, live, superseded, held, gen, now, boot>>
  BY <1>0, LostAccepted DEF LostCommit, volatile
<1>2. kinds \in Seq(AuditKinds) /\ Len(kinds) = 1 /\ kinds[1] = "disconnected" /\ gen[l] \in Nat
  BY DEF AuditKinds, IndInv, TypeOK
<1> HIDE DEF kinds
<1>3. Grown(s, kinds, gen[l]) /\ \A q \in Subdomains : q # s => audit'[q] = audit[q]
  BY <1>1, <1>2, AppendEffect DEF Grown
<1>4. \A m \in Links : stage'[m] = IF m = l THEN "recorded" ELSE stage[m]
  BY <1>1 DEF IndInv, TypeOK
<1>5. \A m \in Links : stage[m] \notin {"committed", "recorded"}
  BY <1>1, NoneAssumption DEF IndInv, LockInv
<1>6. ASSUME NEW q \in Subdomains, q # s PROVE AuditInv(q)'
  <2>1. \A m \in Links : /\ InSection(m, q)' <=> InSection(m, q)
                         /\ InSection(m, q) => stage'[m] = stage[m] /\ gen'[m] = gen[m]
    BY <1>0, <1>1, <1>4, <1>5, <1>6 DEF InSection
  <2>2. mu # q /\ mu' # q /\ now' >= now
    BY <1>1, NoneAssumption, HoldersAssumption DEF IndInv, TypeOK
  <2> QED
    BY <1>1, <1>3, <1>6, <2>1, <2>2, AuditFrame DEF AuditIndInv
<1>7. AuditInv(s) /\ Settled(s) /\ n \in Nat /\ boot[s] \in Nat
  BY <1>1, UnlockedIsSettled, LastKindRead DEF AuditIndInv, IndInv, TypeOK
<1>8. /\ n > boot[s] /\ n > 0 /\ LastKind(s) = "connected"
      /\ audit[s][n].kind = "connected" /\ audit[s][n].detail = gen[l]
  <2>1. Presence(s) = "live" /\ live[s].generation = gen[l]
    BY <1>1 DEF Matches, Presence
  <2>2. n > boot[s] /\ LastKind(s) = "connected" /\ LastRow(s).detail = gen[l]
    BY <1>7, <2>1 DEF AuditInv, RowsTellPresence, AuditPresence
  <2> QED
    BY <1>7, <2>2, LastKindRead DEF LastRow
<1>9. /\ Len(audit'[s]) = n + 1 /\ audit'[s][n] = audit[s][n]
      /\ audit'[s][n + 1] = [kind |-> "disconnected", at |-> now, detail |-> gen[l]]
      /\ LastKind(s)' = "disconnected" /\ audit'[s] # << >>
  <2>1. /\ Len(audit'[s]) = n + 1
        /\ audit'[s][n + 1] = [kind |-> "disconnected", at |-> now, detail |-> gen[l]]
    BY <1>2, <1>3, <1>7, GrownByOne
  <2>2. n \in 1..Len(audit[s])
    BY <1>7, <1>8
  <2>3. audit'[s][n] = audit[s][n]
    BY <1>3, <2>2 DEF Grown
  <2>4. audit'[s] # << >>
    BY <1>7, <2>1, LenProperties
  <2> QED
    BY <2>1, <2>3, <2>4 DEF LastKind, LastRow
<1>a. RowsTellClaim(s)'
  <2>1. audit[s] # << >> /\ ~claims[s].revoked /\ claims[s] # NoRow
    BY <1>7, <1>8, LastKindRead DEF AuditInv, RowsTellClaim
  <2> QED
    BY <1>1, <1>7, <1>8, <1>9, <2>1 DEF RowsTellClaim
<1>b. RowsTellPresence(s)'
  <2>1. InSection(l, s)'
    BY <1>0, <1>1, <1>4 DEF InSection
  <2> QED
    BY <2>1 DEF RowsTellPresence, Settled
<1>c. RowsTellSection(s)'
  <2>1. \A m \in Links : stage'[m] = "committed" => FALSE
    BY <1>4, <1>5
  <2> QED
    BY <1>9, <2>1 DEF RowsTellSection
<1>d. MarkCoversTakeovers(s)'
  <2>1. \A i \in 1..Len(audit'[s]) : ~OpenTakeover(s, i)'
    <3> SUFFICES ASSUME NEW i \in 1..Len(audit'[s]), OpenTakeover(s, i)' PROVE FALSE
      OBVIOUS
    <3>1. n + 1 \in i..Len(audit'[s])
      BY <1>7, <1>9
    <3> QED
      BY <1>9, <3>1 DEF OpenTakeover
  <2> QED
    BY <1>1, <1>2, <1>3, <1>7, <2>1, RowsInThePast DEF AuditInv, MarkCoversTakeovers
<1>e. \A i \in 1..Len(audit'[s]) : FollowsLegally(s, i)'
  <2> SUFFICES ASSUME NEW i \in 1..Len(audit'[s]), i > n PROVE FollowsLegally(s, i)'
    <3>1. LastKind(s) # "revoked"
      BY <1>8
    <3> QED
      BY <1>1, <1>2, <1>3, <1>7, <3>1, OldRowsStayLegal
  <2>1. i = n + 1 /\ i - 1 = n /\ i # 1
    BY <1>7, <1>8, <1>9
  <2> QED
    BY <1>8, <1>9, <2>1 DEF FollowsLegally, Successors, SuccessorsAcrossRestart
<1>f. TakeoversSpaced(s)'
  <2>1. \A j \in 1..Len(kinds) : kinds[j] # "superseded"
    BY <1>2
  <2> QED
    BY <1>1, <1>2, <1>3, <1>7, <2>1, OldTakeoversStaySpaced
<1> QED
  BY <1>6, <1>a, <1>b, <1>c, <1>d, <1>e, <1>f DEF AuditIndInv, AuditInv

LEMMA AttachInstallKeepsAudit ==
  ASSUME IndInv, IndInv', AuditIndInv, NEW l \in Links, AttachInstall(l)
  PROVE  AuditIndInv'
<1>0. PICK s \in Subdomains : s = held[l].subdomain
  BY DEF AttachInstall, IndInv, HeldInv, Admitted, TypeOK
<1>1. /\ mu = l /\ mu' = None /\ stage[l] = "committed"
      /\ live' = [live EXCEPT ![s] = [link |-> l, generation |-> gen[l]]]
      /\ \/ Presence(s) = "live" /\ superseded' = [superseded EXCEPT ![s] = now]
         \/ Presence(s) = "absent" /\ superseded' = superseded
      /\ stage' = [stage EXCEPT ![l] = "attached"]
      /\ UNCHANGED <<claims, audit, held, gen, now, boot>>
  BY <1>0 DEF AttachInstall, durable
<1>2. AuditInv(s) /\ Len(audit[s]) \in Nat /\ boot[s] \in Nat /\ now \in Nat
  BY LastKindRead DEF AuditIndInv, IndInv, TypeOK
<1>3. /\ live'[s] = [link |-> l, generation |-> gen[l]] /\ Presence(s)' = "live"
      /\ superseded'[s] = IF Presence(s) = "live" THEN now ELSE NoMark
      /\ \A q \in Subdomains : q # s => live'[q] = live[q] /\ superseded'[q] = superseded[q]
      /\ \A m \in Links : stage'[m] = IF m = l THEN "attached" ELSE stage[m]
  <2>1. Presence(s) = "absent" => superseded[s] = NoMark
    BY <1>2 DEF AuditInv, MarkCoversTakeovers, Presence
  <2> QED
    BY <1>1, <2>1, NoneAssumption DEF IndInv, TypeOK, Presence
<1>4. ASSUME NEW q \in Subdomains, q # s PROVE AuditInv(q)'
  <2>1. \A m \in Links : /\ InSection(m, q)' <=> InSection(m, q)
                         /\ InSection(m, q) => stage'[m] = stage[m] /\ gen'[m] = gen[m]
    BY <1>0, <1>1, <1>3, <1>4 DEF InSection
  <2>2. mu # q /\ mu' # q /\ now' >= now
    BY <1>1, NoneAssumption, HoldersAssumption DEF IndInv, TypeOK
  <2> QED
    BY <1>1, <1>3, <1>4, <2>1, <2>2, AuditFrame DEF AuditIndInv
<1>5. /\ Len(audit[s]) > boot[s] /\ LastKind(s) = "connected" /\ LastRow(s).detail = gen[l]
      /\ Presence(s) = "live" <=> TookOver(s)
  BY <1>0, <1>1, <1>2 DEF AuditInv, RowsTellSection
<1>6. LastKind(s)' = LastKind(s) /\ LastRow(s)' = LastRow(s) /\ TookOver(s)' = TookOver(s)
  BY <1>1 DEF LastKind, LastRow, TookOver
<1>7. \A m \in Links : ~InSection(m, s)'
  BY <1>1, <1>3 DEF IndInv, LockInv, InSection
<1>8. now # NoMark
  BY <1>2 DEF NoMark
<1>a. RowsTellClaim(s)'
  BY <1>1, <1>2, <1>6 DEF AuditInv, RowsTellClaim
<1>b. RowsTellPresence(s)'
  BY <1>1, <1>3, <1>5, <1>6, <1>8 DEF RowsTellPresence, AuditPresence
<1>c. RowsTellSection(s)'
  BY <1>7 DEF RowsTellSection, InSection
<1>d. MarkCoversTakeovers(s)'
  <2>1. live'[s].link # None
    BY <1>3, NoneAssumption
  <2>2. ASSUME NEW i \in 1..Len(audit[s]), OpenTakeover(s, i)'
        PROVE  ~claims[s].revoked /\ superseded'[s] # NoMark /\ audit[s][i].at <= superseded'[s]
    <3>1. OpenTakeover(s, i)
      BY <1>1, <2>2 DEF OpenTakeover
    <3>2. ~claims[s].revoked /\ audit[s][i].at <= now
      BY <1>2, <3>1 DEF AuditInv, MarkCoversTakeovers
    <3>3. Presence(s) = "live"
      BY <1>2, <3>1 DEF AuditInv, MarkCoversTakeovers, Presence
    <3> QED
      BY <1>3, <1>8, <3>2, <3>3
  <2> QED
    BY <1>1, <1>2, <2>1, <2>2 DEF AuditInv, MarkCoversTakeovers
<1>e. \A i \in 1..Len(audit'[s]) : FollowsLegally(s, i)'
  BY <1>1, <1>2, <1>6 DEF AuditInv, FollowsLegally
<1>f. TakeoversSpaced(s)'
  BY <1>1, <1>2 DEF AuditInv, TakeoversSpaced
<1> QED
  BY <1>4, <1>a, <1>b, <1>c, <1>d, <1>e, <1>f DEF AuditIndInv, AuditInv

(* Attach writes its rows before anything volatile changes: the takeover is *)
(* legal, and spaced, because the cooldown was checked under the same lock. *)
LEMMA AttachCommitKeepsAudit ==
  ASSUME IndInv, IndInv', AuditIndInv, NEW l \in Links, AttachCommit(l)
  PROVE  AuditIndInv'
<1>0. PICK s \in Subdomains : s = held[l].subdomain
  BY DEF AttachCommit, IndInv, HeldInv, Admitted, TypeOK
<1> DEFINE kinds == ConnectOutcome(s).audit
           n == Len(audit[s])
           d == generation + 1
<1>1. /\ mu = None /\ mu' = l /\ AttachError(l) = "none" /\ stage[l] = "authorised"
      /\ AppendAudit(s, kinds, d)
      /\ gen' = [gen EXCEPT ![l] = d]
      /\ stage' = [stage EXCEPT ![l] = "committed"]
      /\ UNCHANGED <<claims, live, superseded, held, now, boot>>
  BY <1>0 DEF AttachCommit, volatile
<1>2. /\ TakeoverAllowed(s) /\ ~claims[s].revoked
      /\ kinds = IF Presence(s) = "live" THEN <<"superseded", "connected">> ELSE <<"connected">>
      /\ claims[s].token = held[l].token
  BY <1>0, <1>1, AttachAccepted
<1>3. /\ kinds \in Seq(AuditKinds) /\ d \in Nat
      /\ Presence(s) = "live" => Len(kinds) = 2 /\ kinds[1] = "superseded" /\ kinds[2] = "connected"
      /\ Presence(s) # "live" => Len(kinds) = 1 /\ kinds[1] = "connected"
  <2>1. d \in Nat
    BY DEF IndInv, TypeOK
  <2> HIDE DEF kinds, d
  <2>2. CASE Presence(s) = "live"
    BY <1>2, <2>1, <2>2 DEF AuditKinds
  <2>3. CASE Presence(s) # "live"
    BY <1>2, <2>1, <2>3 DEF AuditKinds
  <2> QED
    BY <2>2, <2>3
<1>x. /\ \A m \in Links : stage'[m] = IF m = l THEN "committed" ELSE stage[m]
      /\ \A m \in Links : gen'[m] = IF m = l THEN d ELSE gen[m]
      /\ \A m \in Links : stage[m] \notin {"committed", "recorded"}
  BY <1>1, NoneAssumption DEF IndInv, TypeOK, LockInv
<1>y. /\ AuditInv(s) /\ Settled(s) /\ n \in Nat /\ boot[s] \in Nat /\ n > 0 /\ boot[s] <= n
      /\ LastKind(s) = audit[s][n].kind
      /\ LastKind(s) \in {"claimed", "connected", "disconnected"}
  <2>1. AuditInv(s) /\ Settled(s) /\ n \in Nat /\ boot[s] \in Nat
    BY <1>1, UnlockedIsSettled, LastKindRead DEF AuditIndInv, IndInv, TypeOK
  <2>2. claims[s] # NoRow
    BY <1>0, <1>1, <1>2, NoneAssumption DEF NoRow, IndInv, HeldInv, Admitted
  <2>3. n > 0 /\ boot[s] <= n /\ LastKind(s) # "revoked" /\ LastKind(s) # "superseded"
    BY <1>2, <2>1, <2>2, LastKindRead DEF AuditInv, RowsTellClaim
  <2>4. LastKind(s) \in AuditKinds /\ LastKind(s) = audit[s][n].kind
    BY <2>1, <2>3, LastKindRead DEF Rows
  <2> QED
    BY <2>1, <2>3, <2>4 DEF AuditKinds
<1> HIDE DEF kinds, d
<1>4. Grown(s, kinds, d) /\ \A q \in Subdomains : q # s => audit'[q] = audit[q]
  BY <1>1, <1>3, AppendEffect DEF Grown
<1>5. ASSUME NEW q \in Subdomains, q # s PROVE AuditInv(q)'
  <2>1. \A m \in Links : /\ InSection(m, q)' <=> InSection(m, q)
                         /\ InSection(m, q) => stage'[m] = stage[m] /\ gen'[m] = gen[m]
    BY <1>0, <1>1, <1>x, <1>5 DEF InSection
  <2>2. mu # q /\ mu' # q /\ now' >= now
    BY <1>1, NoneAssumption, HoldersAssumption DEF IndInv, TypeOK
  <2> QED
    BY <1>1, <1>4, <1>5, <2>1, <2>2, AuditFrame DEF AuditIndInv
<1>6. /\ Presence(s) = "live" =>
           /\ Len(audit'[s]) = n + 2
           /\ audit'[s][n + 1] = [kind |-> "superseded", at |-> now, detail |-> d]
           /\ audit'[s][n + 2] = [kind |-> "connected", at |-> now, detail |-> d]
      /\ Presence(s) # "live" =>
           /\ Len(audit'[s]) = n + 1
           /\ audit'[s][n + 1] = [kind |-> "connected", at |-> now, detail |-> d]
      /\ audit'[s][n] = audit[s][n]
  <2>0. audit'[s][n] = audit[s][n]
    <3>1. n \in 1..n
      BY <1>y
    <3> QED
      BY <1>4, <3>1 DEF Grown
  <2>1. CASE Presence(s) = "live"
    BY <1>3, <1>4, <1>y, <2>0, <2>1, GrownByTwo
  <2>2. CASE Presence(s) # "live"
    BY <1>3, <1>4, <1>y, <2>0, <2>2, GrownByOne
  <2> QED
    BY <2>1, <2>2
<1>7. /\ Presence(s) = "live" <=> n > boot[s] /\ LastKind(s) = "connected"
      /\ Presence(s) = "live" => audit[s][n].detail = live[s].generation
  BY <1>y DEF AuditInv, RowsTellPresence, AuditPresence, LastRow
<1>8. LastKind(s)' = "connected" /\ LastRow(s)'.detail = d /\ audit'[s] # << >>
      /\ Len(audit'[s]) > boot[s] /\ Len(audit'[s]) \in Nat
  <2>1. /\ audit'[s][Len(audit'[s])] = [kind |-> "connected", at |-> now, detail |-> d]
        /\ Len(audit'[s]) > boot[s] /\ Len(audit'[s]) \in Nat /\ Len(audit'[s]) > 0
    BY <1>6, <1>y
  <2>2. audit'[s] # << >>
    BY <2>1, LenProperties
  <2> QED
    BY <2>1, <2>2 DEF LastKind, LastRow
<1>a. RowsTellClaim(s)'
  <2>1. claims[s] # NoRow
    BY <1>y, LastKindRead DEF AuditInv, RowsTellClaim
  <2> QED
    BY <1>1, <1>2, <1>8, <1>y, <2>1 DEF RowsTellClaim
<1>b. RowsTellPresence(s)'
  <2>1. InSection(l, s)'
    BY <1>0, <1>1, <1>x DEF InSection
  <2> QED
    BY <2>1 DEF RowsTellPresence, Settled
<1>c. RowsTellSection(s)'
  <2>1. Presence(s)' = "live" <=> TookOver(s)'
    <3>1. CASE Presence(s) = "live"
      <4>1. Len(audit'[s]) - 1 = n + 1 /\ Len(audit'[s]) > boot[s] + 1
        BY <1>6, <1>7, <1>y, <3>1
      <4> QED
        BY <1>1, <1>6, <3>1, <4>1 DEF TookOver, Presence
    <3>2. CASE Presence(s) # "live"
      <4>1. Len(audit'[s]) - 1 = n /\ audit'[s][n].kind # "superseded"
        BY <1>6, <1>y, <3>2
      <4> QED
        BY <1>1, <3>2, <4>1 DEF TookOver, Presence
    <3> QED
      BY <3>1, <3>2
  <2> QED
    BY <1>1, <1>8, <1>x, <2>1 DEF RowsTellSection
<1>d. MarkCoversTakeovers(s)'
  <2>1. ASSUME NEW i \in 1..Len(audit'[s]), OpenTakeover(s, i)'
        PROVE  \/ superseded[s] # NoMark /\ audit'[s][i].at <= superseded[s]
               \/ /\ held'[l].subdomain = s
                  /\ stage'[l] = "committed"
                  /\ live'[s].link # None
    <3>1. CASE i \in 1..n /\ OpenTakeover(s, i) /\ audit'[s][i] = audit[s][i]
      BY <1>x, <1>y, <3>1 DEF AuditInv, MarkCoversTakeovers
    <3>2. CASE \E j \in 1..Len(kinds) : kinds[j] = "superseded"
      <4>1. Presence(s) = "live"
        BY <1>3, <3>2
      <4> QED
        BY <1>0, <1>1, <1>x, <4>1 DEF Presence
    <3> QED
      BY <1>1, <1>3, <1>4, <2>1, <3>1, <3>2, OpenTakeoverWas
  <2>2. \A i \in 1..Len(audit'[s]) : audit'[s][i].at <= now'
    BY <1>1, <1>3, <1>4, <1>y, RowsInThePast
  <2>3. superseded'[s] # NoMark => live'[s].link # None
    BY <1>1, <1>y DEF AuditInv, MarkCoversTakeovers
  <2> QED
    BY <1>1, <1>2, <2>1, <2>2, <2>3 DEF MarkCoversTakeovers
<1>e. \A i \in 1..Len(audit'[s]) : FollowsLegally(s, i)'
  <2> SUFFICES ASSUME NEW i \in 1..Len(audit'[s]), i > n PROVE FollowsLegally(s, i)'
    <3>1. LastKind(s) # "revoked"
      BY <1>y
    <3> QED
      BY <1>1, <1>3, <1>4, <1>y, <3>1, OldRowsStayLegal
  <2>1. i # 1
    BY <1>y
  <2>2. CASE Presence(s) = "live"
    <3>1. d > audit[s][n].detail
      <4>1. live[s].link \in Links /\ live[s].generation = gen[live[s].link]
        <5>1. live[s].link # None /\ live[s].link \in Links \cup {None}
          BY <2>2 DEF Presence, IndInv, TypeOK
        <5> QED
          BY <5>1 DEF IndInv, RouteInv
      <4>2. gen[live[s].link] \in 1..generation
        BY <4>1 DEF IndInv, GenerationInv, Numbered
      <4> QED
        BY <1>7, <2>2, <4>1, <4>2 DEF d, IndInv, TypeOK
    <3>2. CASE i = n + 1
      <4>1. i - 1 = n
        BY <1>y, <3>2
      <4> QED
        BY <1>6, <1>7, <1>y, <2>1, <2>2, <3>1, <3>2, <4>1
           DEF FollowsLegally, Successors, SuccessorsAcrossRestart
    <3>3. CASE i = n + 2
      <4>1. i - 1 = n + 1
        BY <1>y, <3>3
      <4> QED
        BY <1>6, <2>1, <2>2, <3>3, <4>1 DEF FollowsLegally, Successors, SuccessorsAcrossRestart
    <3> QED
      BY <1>6, <1>y, <2>2, <3>2, <3>3
  <2>3. CASE Presence(s) # "live"
    <3>1. i = n + 1 /\ i - 1 = n /\ (i - 1 > boot'[s] => LastKind(s) # "connected")
      BY <1>1, <1>6, <1>7, <1>y, <2>3
    <3> QED
      BY <1>6, <1>y, <2>1, <2>3, <3>1 DEF FollowsLegally, Successors, SuccessorsAcrossRestart
  <2> QED
    BY <2>2, <2>3
<1>f. TakeoversSpaced(s)'
  <2>1. CASE Presence(s) # "live"
    <3>1. Len(kinds) = 1 /\ kinds[1] # "superseded"
      BY <1>3, <2>1
    <3>2. \A j \in 1..Len(kinds) : kinds[j] # "superseded"
      BY <3>1
    <3> QED
      BY <1>1, <1>3, <1>4, <1>y, <3>2, OldTakeoversStaySpaced
  <2>2. CASE Presence(s) = "live"
    <3> SUFFICES ASSUME NEW i \in boot[s]+1..n+2, NEW j \in boot[s]+1..n+2, i < j,
                        audit'[s][i].kind = "superseded", audit'[s][j].kind = "superseded",
                        \A k \in i..j : audit'[s][k].kind # "disconnected"
                 PROVE  audit'[s][j].at - audit'[s][i].at >= SupersedeCooldown
      BY <1>1, <1>6, <2>2 DEF TakeoversSpaced
    <3>1. j # n + 2
      BY <1>6, <2>2
    <3>2. i \in 1..n /\ i \in boot[s]+1..n
      BY <1>y, <3>1
    <3>3. \A k \in i..n : k \in 1..n /\ audit'[s][k] = audit[s][k]
      BY <1>4, <1>y, <3>2 DEF Grown
    <3>4. CASE j = n + 1
      <4>1. \A k \in i..n : k \in i..j
        BY <1>y, <3>2, <3>4
      <4>2. audit'[s][i] = audit[s][i]
        BY <1>y, <3>2, <3>3
      <4>3. OpenTakeover(s, i)
        BY <3>2, <3>3, <4>1, <4>2 DEF OpenTakeover
      <4>4. superseded[s] # NoMark /\ audit[s][i].at <= superseded[s]
        BY <1>x, <1>y, <3>2, <4>3 DEF AuditInv, MarkCoversTakeovers
      <4>5. now - superseded[s] >= SupersedeCooldown
        BY <1>2, <2>2, <4>4 DEF TakeoverAllowed
      <4>6. /\ superseded[s] \in Nat /\ now \in Nat /\ SupersedeCooldown \in Nat
            /\ audit[s][i].at \in Nat
        BY <3>2, <4>4, LastKindRead, TimeAssumption DEF IndInv, TypeOK, Rows
      <4>7. audit'[s][j].at = now
        BY <1>6, <2>2, <3>4
      <4> QED
        BY <4>2, <4>4, <4>5, <4>6, <4>7
    <3>5. CASE j \in boot[s]+1..n
      <4>1. /\ j \in 1..n /\ audit'[s][i] = audit[s][i] /\ audit'[s][j] = audit[s][j]
            /\ \A k \in i..j : k \in i..n
        BY <1>y, <3>2, <3>3, <3>5
      <4>2. \A k \in i..j : audit[s][k].kind # "disconnected"
        BY <3>3, <4>1
      <4> QED
        BY <1>y, <3>2, <3>5, <4>1, <4>2 DEF AuditInv, TakeoversSpaced
    <3> QED
      BY <1>y, <3>1, <3>4, <3>5
  <2> QED
    BY <2>1, <2>2
<1> QED
  BY <1>5, <1>a, <1>b, <1>c, <1>d, <1>e, <1>f DEF AuditIndInv, AuditInv

-----------------------------------------------------------------------------
(* Every step, then every behaviour.                                        *)

LEMMA InitKeepsAudit == Init => AuditIndInv
<1> SUFFICES ASSUME Init, NEW s \in Subdomains PROVE AuditInv(s)
  BY DEF AuditIndInv
<1>1. /\ audit[s] = << >> /\ Len(audit[s]) = 0 /\ claims[s] = NoRow /\ boot[s] = 0
      /\ live[s] = NoAttachment /\ superseded[s] = NoMark
      /\ \A l \in Links : stage[l] = "idle"
  BY DEF Init
<1>2. LastKind(s) = "none" /\ Presence(s) = "absent" /\ ~claims[s].revoked
  BY <1>1 DEF LastKind, Presence, NoAttachment, NoRow
<1>3. RowsTellClaim(s)
  BY <1>1, <1>2 DEF RowsTellClaim
<1>4. RowsTellPresence(s) /\ RowsTellSection(s)
  BY <1>1, <1>2 DEF RowsTellPresence, RowsTellSection, AuditPresence
<1>5. MarkCoversTakeovers(s) /\ TakeoversSpaced(s)
  BY <1>1 DEF MarkCoversTakeovers, TakeoversSpaced
<1>6. \A i \in 1..Len(audit[s]) : FollowsLegally(s, i)
  BY <1>1
<1> QED
  BY <1>3, <1>4, <1>5, <1>6 DEF AuditInv

LEMMA ServeLinkKeepsAudit ==
  ASSUME IndInv, IndInv', AuditIndInv, NEW l \in Links, ServeLink(l)
  PROVE  AuditIndInv'
<1>0. stage \in [Links -> Stages] /\ held \in [Links -> [subdomain : Subdomains \cup {None},
                         token : Tokens \cup {None}]] /\ now \in Nat
  BY DEF IndInv, TypeOK
<1>1. CASE \E t \in Tokens : Lookup(l, t)
  <2>1. /\ UNCHANGED <<claims, audit, live, superseded, mu, gen, boot, now>>
        /\ stage[l] = "idle" /\ stage' = [stage EXCEPT ![l] = "looked"]
        /\ \A m \in Links : m # l => held'[m] = held[m]
    BY <1>0, <1>1 DEF Lookup, durable, volatile
  <2> QED
    BY <1>0, <2>1, QuietKeepsAudit
<1>2. ASSUME NEW stageNext \in {"authorised", "refused", "finished"},
             UNCHANGED <<claims, audit, live, superseded, mu, gen, boot, now, held>>,
             stage[l] \in {"idle", "looked", "authorised", "attached"},
             stage' = [stage EXCEPT ![l] = stageNext]
      PROVE  AuditIndInv'
  BY <1>0, <1>2, QuietKeepsAudit
<1>3. CASE (\E t \in Tokens : LookupRefused(l, t)) \/ LookupFails(l)
           \/ Authenticate(l) \/ AuthenticateRefused(l)
           \/ AttachRefused(l) \/ AttachFails(l) \/ LostIgnored(l) \/ LostFails(l)
  BY <1>2, <1>3 DEF LookupRefused, LookupFails, Authenticate, AuthenticateRefused,
       AttachRefused, AttachFails, LostIgnored, LostFails, Leave, durable, volatile
<1>4. CASE SessionEnds(l) \/ CloseForShutdown(l)
  <2> SUFFICES ASSUME NEW s \in Subdomains PROVE AuditInv(s)'
    BY DEF AuditIndInv
  <2>1. UNCHANGED <<claims, audit, live, superseded, mu, gen, boot, now, stage, held>>
    BY <1>4 DEF SessionEnds, CloseForShutdown, durable, volatile
  <2>2. now' >= now /\ \A m \in Links : InSection(m, s)' <=> InSection(m, s)
    BY <1>0, <2>1 DEF InSection
  <2> QED
    BY <2>1, <2>2, AuditFrame DEF AuditIndInv
<1>5. CASE AttachCommit(l)
  BY <1>5, AttachCommitKeepsAudit
<1>6. CASE AttachInstall(l)
  BY <1>6, AttachInstallKeepsAudit
<1>7. CASE LostCommit(l)
  BY <1>7, LostCommitKeepsAudit
<1>8. CASE LostDetach(l)
  BY <1>8, LostDetachKeepsAudit
<1> QED
  BY <1>1, <1>3, <1>4, <1>5, <1>6, <1>7, <1>8 DEF ServeLink

LEMMA StepKeepsAudit ==
  ASSUME IndInv, IndInv', AuditIndInv, [Next]_vars
  PROVE  AuditIndInv'
<1>1. CASE \E s \in Subdomains : Operate(s)
  BY <1>1, ClaimKeepsAudit, RevokeCommitKeepsAudit, RevokeEvictKeepsAudit DEF Operate
<1>2. CASE \E l \in Links : ServeLink(l)
  BY <1>2, ServeLinkKeepsAudit
<1>3. CASE Tick \/ UNCHANGED vars
  <2> SUFFICES ASSUME NEW s \in Subdomains PROVE AuditInv(s)'
    BY DEF AuditIndInv
  <2>1. UNCHANGED <<claims, audit, live, superseded, mu, gen, boot, stage, held>>
    BY <1>3 DEF Tick, durable, volatile, handler, vars
  <2>2. now' >= now
    BY <1>3 DEF Tick, vars, IndInv, TypeOK
  <2>3. \A m \in Links : InSection(m, s)' <=> InSection(m, s)
    BY <2>1 DEF InSection
  <2> QED
    BY <2>1, <2>2, <2>3, AuditFrame DEF AuditIndInv
<1>4. CASE Restart
  BY <1>4, RestartKeepsAudit
<1> QED
  BY <1>1, <1>2, <1>3, <1>4 DEF Next

(* The rows of every subdomain, its claim, link and mark agree at every     *)
(* step, half-done critical sections and crashes included.                  *)
THEOREM AuditInductive == Spec => []AuditIndInv
<1>1. AuditIndInv /\ IndInv /\ IndInv' /\ [Next]_vars => AuditIndInv'
  BY StepKeepsAudit
<1> QED
  BY <1>1, InitKeepsAudit, Inductive, PTL DEF Spec

(* While the lock is free, the last audit row of a subdomain tells whether  *)
(* it is claimed, revoked and live, and which generation serves it (Claim,  *)
(* Revoke, Attach, Lost).                                                   *)
THEOREM AuditIsTruthful == Spec => []AuditTellsStatus
<1>1. IndInv /\ AuditIndInv => AuditTellsStatus
  <2> SUFFICES ASSUME IndInv, AuditIndInv, mu = None, NEW s \in Subdomains
               PROVE  /\ claims[s] = NoRow <=> LastKind(s) = "none"
                      /\ claims[s].revoked <=> LastKind(s) = "revoked"
                      /\ Presence(s) = AuditPresence(s)
                      /\ Presence(s) = "live" => LastRow(s).detail = live[s].generation
    BY DEF AuditTellsStatus
  <2>1. Settled(s) /\ AuditInv(s)
    BY UnlockedIsSettled DEF AuditIndInv
  <2>2. LastKind(s) = "none" <=> audit[s] = << >>
    <3>1. Len(audit[s]) > 0 => LastKind(s) \in AuditKinds
      BY LastKindRead DEF Rows
    <3> QED
      BY <3>1, LastKindRead DEF AuditKinds
  <2> QED
    BY <2>1, <2>2 DEF AuditInv, RowsTellClaim, RowsTellPresence
<1> QED
  BY <1>1, Inductive, AuditInductive, PTL

(* Each subdomain's audit is a legal lifecycle word at every moment, across *)
(* crashes between a commit and its effect (transition.go, entries).        *)
THEOREM AuditIsLegal == Spec => []AuditIsALifecycle
<1>1. AuditIndInv => AuditIsALifecycle
  BY DEF AuditIndInv, AuditInv, AuditIsALifecycle
<1> QED
  BY <1>1, AuditInductive, PTL

(* The takeover mark stands exactly for a serving link that arrived by      *)
(* supersession in this process (Attach, Lost, Revoke).                     *)
THEOREM MarkIsExact == Spec => []MarkMeansTakeover
<1>1. IndInv /\ AuditIndInv => MarkMeansTakeover
  BY UnlockedIsSettled DEF MarkMeansTakeover, AuditIndInv, AuditInv, RowsTellPresence
<1> QED
  BY <1>1, Inductive, AuditInductive, PTL

(* Takeovers of one subdomain with no disconnection between them are at     *)
(* least SupersedeCooldown apart (takeoverAllowed, re-checked by Attach).   *)
THEOREM CooldownHolds == Spec => []TakeoversAreSpaced
<1>1. AuditIndInv => TakeoversAreSpaced
  BY DEF AuditIndInv, AuditInv, TakeoversAreSpaced
<1> QED
  BY <1>1, AuditInductive, PTL

-----------------------------------------------------------------------------
(* What no step of the service takes back.                                  *)

(* Claims only grow: what a claim was stays.                                *)
LEMMA ClaimsGrow ==
  ASSUME IndInv, [Next]_vars, NEW s \in Subdomains
  PROVE  /\ s \in ListClaims => s \in ListClaims' /\ claims'[s].token = claims[s].token
         /\ claims[s].revoked => claims'[s].revoked
<1>0. claims \in [Subdomains -> [token : Tokens \cup {None}, revision : 0..2, revoked : BOOLEAN]]
  BY DEF IndInv, TypeOK
<1>1. ASSUME NEW q \in Subdomains, NEW t \in Tokens, Claim(q, t)
      PROVE  claims[q] = NoRow /\ \A p \in Subdomains : p # q => claims'[p] = claims[p]
  BY <1>0, <1>1 DEF Claim, InsertClaim
<1>2. ASSUME NEW q \in Subdomains, NEW r \in 1..2, RevokeCommit(q, r)
      PROVE  /\ \A p \in Subdomains : p # q => claims'[p] = claims[p]
             /\ claims'[q].revoked /\ claims'[q].token = claims[q].token
             /\ claims'[q] # NoRow
  BY <1>0, <1>2 DEF RevokeCommit, RevokeClaim, NoRow
<1>3. CASE UNCHANGED claims
  BY <1>3 DEF ListClaims
<1>4. CASE \E q \in Subdomains : \E t \in Tokens : Claim(q, t)
  <2>1. PICK q \in Subdomains : claims[q] = NoRow
                                 /\ \A p \in Subdomains : p # q => claims'[p] = claims[p]
    BY <1>1, <1>4
  <2>2. CASE s = q
    BY <2>1, <2>2 DEF ListClaims, NoRow
  <2>3. CASE s # q
    BY <2>1, <2>3 DEF ListClaims
  <2> QED
    BY <2>2, <2>3
<1>5. CASE \E q \in Subdomains : \E r \in 1..2 : RevokeCommit(q, r)
  BY <1>2, <1>5 DEF ListClaims
<1>6. CASE \E q \in Subdomains : RevokeEvict(q)
  BY <1>3, <1>6 DEF RevokeEvict, durable
<1>7. CASE \E l \in Links : ServeLink(l)
  BY <1>3, <1>7 DEF ServeLink, Lookup, LookupRefused, LookupFails, Authenticate,
       AuthenticateRefused, AttachCommit, AttachInstall, AttachRefused, AttachFails,
       SessionEnds, CloseForShutdown, LostCommit, LostDetach, LostIgnored, LostFails, durable
<1>8. CASE Tick \/ Restart \/ UNCHANGED vars
  BY <1>3, <1>8 DEF Tick, Restart, durable, vars
<1> QED
  BY <1>4, <1>5, <1>6, <1>7, <1>8 DEF Next, Operate

(* The audit is append-only.                                                *)
LEMMA RowsStay ==
  ASSUME IndInv, [Next]_vars, NEW s \in Subdomains
  PROVE  /\ Len(audit[s]) \in Nat /\ Len(audit'[s]) \in Nat
         /\ Len(audit[s]) <= Len(audit'[s])
         /\ \A i \in 1..Len(audit[s]) : audit'[s][i] = audit[s][i]
<1>0. Len(audit[s]) \in Nat
  BY LastKindRead
<1>1. ASSUME NEW q \in Subdomains, NEW kinds \in Seq(AuditKinds), NEW d \in Nat,
             AppendAudit(q, kinds, d)
      PROVE  /\ Len(audit'[s]) \in Nat
             /\ Len(audit[s]) <= Len(audit'[s])
             /\ \A i \in 1..Len(audit[s]) : audit'[s][i] = audit[s][i]
  <2>1. CASE q = s
    BY <1>0, <1>1, <2>1, AppendEffect
  <2>2. CASE q # s
    BY <1>0, <1>1, <2>2, AppendEffect
  <2> QED
    BY <2>1, <2>2
<1>2. CASE UNCHANGED audit
  BY <1>0, <1>2
<1>3. CASE \E q \in Subdomains : \E t \in Tokens : Claim(q, t)
  <2>1. PICK q \in Subdomains : AppendAudit(q, <<"claimed">>, 1)
    BY <1>3 DEF Claim, InsertClaim
  <2>2. <<"claimed">> \in Seq(AuditKinds) /\ 1 \in Nat
    BY DEF AuditKinds
  <2> QED
    BY <1>0, <1>1, <2>1, <2>2
<1>4. CASE \E q \in Subdomains : \E r \in 1..2 : RevokeCommit(q, r)
  <2>1. PICK q \in Subdomains :
          /\ AppendAudit(q, RevokeOutcome(q).audit, claims[q].revision + 1)
          /\ RevokeOutcome(q).err = "none"
    BY <1>4 DEF RevokeCommit, RevokeClaim
  <2>2. claims[q].revision + 1 \in Nat
    <3>1. claims[q].revision \in 0..2
      BY DEF IndInv, TypeOK
    <3> QED
      BY <3>1
  <2>3. RevokeOutcome(q).audit \in Seq(AuditKinds)
    <3>1. PICK c \in ClaimStates, p \in Presences : StatusOf(q) = Status(c, p)
      BY StatusIsTyped
    <3>2. RevokeOutcome(q).audit \in {<<"disconnected", "revoked">>, <<"revoked">>}
      BY <2>1, <3>1, RevokeAccepted DEF RevokeOutcome
    <3>3. <<"disconnected", "revoked">> \in Seq(AuditKinds) /\ <<"revoked">> \in Seq(AuditKinds)
      BY DEF AuditKinds
    <3> QED
      BY <3>2, <3>3
  <2> QED
    BY <1>0, <1>1, <2>1, <2>2, <2>3
<1>5. CASE \E l \in Links : AttachCommit(l)
  <2>1. PICK l \in Links :
          /\ AppendAudit(held[l].subdomain, ConnectOutcome(held[l].subdomain).audit, generation + 1)
          /\ AttachError(l) = "none" /\ stage[l] = "authorised"
    BY <1>5 DEF AttachCommit
  <2>2. held[l].subdomain \in Subdomains /\ generation + 1 \in Nat
    BY <2>1 DEF IndInv, TypeOK, HeldInv, Admitted
  <2>3. ConnectOutcome(held[l].subdomain).audit \in Seq(AuditKinds)
    <3>1. ConnectOutcome(held[l].subdomain).audit
            \in {<<"superseded", "connected">>, <<"connected">>}
      BY <2>1, AttachAccepted
    <3>2. <<"superseded", "connected">> \in Seq(AuditKinds) /\ <<"connected">> \in Seq(AuditKinds)
      BY DEF AuditKinds
    <3> QED
      BY <3>1, <3>2
  <2> QED
    BY <1>0, <1>1, <2>1, <2>2, <2>3
<1>6. CASE \E l \in Links : LostCommit(l)
  <2>1. PICK l \in Links :
          /\ AppendAudit(held[l].subdomain,
                         Transition(Status("active", "live"), "link-lost").audit, gen[l])
          /\ stage[l] = "attached"
    BY <1>6 DEF LostCommit
  <2>2. held[l].subdomain \in Subdomains /\ gen[l] \in Nat
    BY <2>1 DEF IndInv, TypeOK, HeldInv, Admitted
  <2>3. Transition(Status("active", "live"), "link-lost").audit \in Seq(AuditKinds)
    <3>1. <<"disconnected">> \in Seq(AuditKinds)
      BY DEF AuditKinds
    <3> QED
      BY <3>1, LostAccepted
  <2> QED
    BY <1>0, <1>1, <2>1, <2>2, <2>3
<1>7. CASE \E q \in Subdomains : RevokeEvict(q)
  BY <1>2, <1>7 DEF RevokeEvict, durable
<1>8. CASE \E l \in Links : ServeLink(l)
  BY <1>2, <1>5, <1>6, <1>8
     DEF ServeLink, Lookup, LookupRefused, LookupFails, Authenticate,
         AuthenticateRefused, AttachInstall, AttachRefused, AttachFails,
         SessionEnds, CloseForShutdown, LostDetach, LostIgnored, LostFails, durable
<1>9. CASE Tick \/ Restart \/ UNCHANGED vars
  BY <1>2, <1>9 DEF Tick, Restart, durable, vars
<1> QED
  BY <1>3, <1>4, <1>7, <1>8, <1>9 DEF Next, Operate

(* A handler that is through stays so, a generation once handed out is not  *)
(* taken away, and the first reason a link was given is the one it keeps.   *)
LEMMA LinksAdvance ==
  ASSUME IndInv, [Next]_vars, NEW k \in Links
  PROVE  /\ stage[k] \in {"refused", "finished"} => stage'[k] \in {"refused", "finished"}
         /\ gen[k] > 0 => gen'[k] > 0
         /\ told[k] # "none" => told'[k] = told[k]
         /\ stage'[k] = "idle" => stage[k] = "idle"
<1>0. /\ stage \in [Links -> Stages] /\ gen \in [Links -> Nat]
      /\ told \in [Links -> Reasons] /\ generation \in Nat
  BY DEF IndInv, TypeOK
<1>1. CASE \E l \in Links : ServeLink(l)
  <2>1. PICK l \in Links : ServeLink(l)
    BY <1>1
  <2>2. CASE AttachInstall(l)
    BY <1>0, <2>2 DEF AttachInstall, Tell
  <2>3. CASE \/ \E t \in Tokens : LookupRefused(l, t)
             \/ LookupFails(l) \/ AuthenticateRefused(l) \/ AttachRefused(l) \/ AttachFails(l)
    BY <1>0, <2>3 DEF LookupRefused, LookupFails, AuthenticateRefused, AttachRefused,
       AttachFails, Leave, Tell
  <2>4. CASE CloseForShutdown(l)
    BY <1>0, <2>4 DEF CloseForShutdown, Tell
  <2>5. CASE AttachCommit(l)
    BY <1>0, <2>5 DEF AttachCommit
  <2>6. CASE \/ \E t \in Tokens : Lookup(l, t)
             \/ Authenticate(l) \/ SessionEnds(l) \/ LostCommit(l) \/ LostDetach(l)
             \/ LostIgnored(l) \/ LostFails(l)
    BY <1>0, <2>6 DEF Lookup, Authenticate, SessionEnds, LostCommit, LostDetach,
       LostIgnored, LostFails
  <2> QED
    BY <2>1, <2>2, <2>3, <2>4, <2>5, <2>6 DEF ServeLink
<1>2. CASE \E q \in Subdomains : Operate(q)
  BY <1>0, <1>2 DEF Operate, Claim, RevokeCommit, RevokeEvict, Tell, handler
<1>3. CASE Tick \/ Restart \/ UNCHANGED vars
  BY <1>0, <1>3 DEF Tick, Restart, handler, vars
<1> QED
  BY <1>1, <1>2, <1>3 DEF Next
=============================================================================
