-------------------------- MODULE TunnelFrontProofs -------------------------
(***************************************************************************)
(* Proofs about what drives the service over the network: the accept       *)
(* handler with its graceful shutdown, then the management and read routes *)
(* for any number of callers.  Both keep every invariant of the service,   *)
(* a Shutdown that returned left no session that could still write, and    *)
(* what a caller was answered stays true.                                  *)
(***************************************************************************)
EXTENDS LinkHandler, TunnelApi, TunnelServiceProofs

-----------------------------------------------------------------------------
(* The handler drives the service by the service's own steps; the requests  *)
(* it turns away itself leave like those the service refuses.               *)

(* The steps of the handler that are not steps of the service.              *)
TurnsAway(l) == RejectClosing(l) \/ UpgradeFails(l) \/ TrackRefused(l)

LEMMA TurnsAwayKeepsService ==
  ASSUME IndInv, AuditIndInv, NEW l \in Links, TurnsAway(l)
  PROVE  IndInv' /\ AuditIndInv'
<1>1. /\ stage[l] \in Early
      /\ stage' = [stage EXCEPT ![l] = "refused"]
      /\ UNCHANGED <<durable, volatile, mu, held, gen, done, now, boot>>
  BY DEF TurnsAway, RejectClosing, UpgradeFails, TrackRefused, Leave, Early
<1>2. PICK r \in {"unavailable", "shutdown", "none"} : Leave(l, r)
  <2>1. CASE RejectClosing(l) \/ TrackRefused(l)
    BY <2>1 DEF RejectClosing, TrackRefused
  <2>2. CASE UpgradeFails(l)
    <3>1. told[l] = "none" /\ told \in [Links -> Reasons]
      BY <1>1 DEF IndInv, HeldInv, TypeOK
    <3>2. Tell(l, "none") = told
      BY <3>1 DEF Tell
    <3> QED
      BY <2>2, <3>2 DEF UpgradeFails, Leave
  <2> QED
    BY <2>1, <2>2 DEF TurnsAway
<1>3. IndInv'
  BY <1>1, <1>2, LeavePreserves DEF Reasons
<1>4. AuditIndInv'
  <2>1. /\ stage \in [Links -> Stages] /\ now \in Nat
        /\ UNCHANGED <<claims, audit, live, superseded, mu, gen, boot, now, held>>
    BY <1>1 DEF IndInv, TypeOK, durable, volatile
  <2> QED
    BY <1>1, <1>3, <2>1, QuietKeepsAudit DEF Early
<1> QED
  BY <1>3, <1>4

(* Every step of the handler is a step of the service, or turns a request   *)
(* away, or leaves the service alone.                                       *)
LEMMA HandlerStepKinds ==
  ASSUME [HandlerNext]_hvars
  PROVE  [Next]_vars \/ \E l \in Links : TurnsAway(l)
BY DEF HandlerNext, hvars, TurnsAway, ServeRequest, Track, AttachReturns, Install,
       SessionDone, CloseOnShutdown, LostReturns, Detach, Untrack, Cut,
       ShutdownBegins, ShutdownDeadline, ShutdownReturns, Crash, Next, ServeLink

LEMMA HandlerKeepsServiceStep ==
  ASSUME IndInv, AuditIndInv, [HandlerNext]_hvars
  PROVE  IndInv' /\ AuditIndInv'
<1>1. CASE [Next]_vars
  <2>1. IndInv'
    BY <1>1, StepPreserves
  <2> QED
    BY <1>1, <2>1, StepKeepsAudit
<1>2. CASE \E l \in Links : TurnsAway(l)
  BY <1>2, TurnsAwayKeepsService
<1> QED
  BY <1>1, <1>2, HandlerStepKinds

(* Under the handler, shutdown included, the service keeps its invariants:  *)
(* everything proved of TunnelService holds of the composed server.         *)
THEOREM HandlerKeepsService == HandlerSpec => [](IndInv /\ AuditIndInv)
<1>1. HandlerInit => IndInv /\ AuditIndInv
  BY InitEstablishes, InitKeepsAudit DEF HandlerInit
<1>2. (IndInv /\ AuditIndInv) /\ [HandlerNext]_hvars => (IndInv /\ AuditIndInv)'
  BY HandlerKeepsServiceStep
<1> QED
  BY <1>1, <1>2, PTL DEF HandlerSpec

-----------------------------------------------------------------------------
(* The stages in which a session must be tracked are entered only by a      *)
(* tracked one, and left before it is untracked.                            *)

LEMMA HandlerInvStep ==
  ASSUME IndInv, HandlerInv, [HandlerNext]_hvars
  PROVE  HandlerInv'
<1> DEFINE Serving == {"committed", "attached", "recorded"}
<1>0. stage \in [Links -> Stages]
  BY DEF IndInv, TypeOK
<1>1. ASSUME UNCHANGED <<tracked, shut>>,
             NEW l \in Links, l \in tracked \/ stage'[l] \notin Serving \/ stage[l] \in Serving,
             \A m \in Links : m # l => stage'[m] = stage[m]
      PROVE  HandlerInv'
  BY <1>1 DEF HandlerInv, ServedLinksAreTracked, ReturnedMeansUntracked
<1>2. ASSUME UNCHANGED stage, tracked' \in SUBSET Links, shut' \in ShutStages,
             \A l \in Links : stage[l] \in Serving /\ l \in tracked => l \in tracked',
             shut' = "returned" => tracked' = {}
      PROVE  HandlerInv'
  BY <1>2 DEF HandlerInv, ServedLinksAreTracked, ReturnedMeansUntracked
<1>3. CASE \E s \in Subdomains : Operate(s) /\ UNCHANGED <<tracked, shut>>
  BY <1>3 DEF Operate, Claim, RevokeCommit, RevokeEvict, handler,
       HandlerInv, ServedLinksAreTracked, ReturnedMeansUntracked
<1>4. ASSUME NEW l \in Links, RejectClosing(l) \/ UpgradeFails(l) \/ TrackRefused(l)
      PROVE  HandlerInv'
  BY <1>0, <1>1, <1>4 DEF RejectClosing, UpgradeFails, TrackRefused, Leave
<1>5. ASSUME NEW l \in Links, NEW t \in Tokens, ServeRequest(l, t)
      PROVE  HandlerInv'
  BY <1>0, <1>1, <1>5 DEF ServeRequest, Lookup, LookupRefused, LookupFails,
       Authenticate, AuthenticateRefused, Leave
<1>6. ASSUME NEW l \in Links, Track(l)
      PROVE  HandlerInv'
  BY <1>2, <1>6 DEF Track, Closing, HandlerInv, vars
<1>7. ASSUME NEW l \in Links, AttachReturns(l)
      PROVE  HandlerInv'
  BY <1>0, <1>1, <1>7 DEF AttachReturns, AttachCommit, AttachRefused, AttachFails, Leave
<1>8. ASSUME NEW l \in Links, Install(l)
      PROVE  HandlerInv'
  BY <1>0, <1>1, <1>8 DEF Install, AttachInstall
<1>9. ASSUME NEW l \in Links, SessionDone(l) \/ CloseOnShutdown(l) \/ Cut(l)
      PROVE  HandlerInv'
  BY <1>1, <1>9 DEF SessionDone, CloseOnShutdown, Cut, SessionEnds, CloseForShutdown
<1>10. ASSUME NEW l \in Links, LostReturns(l) \/ Detach(l)
       PROVE  HandlerInv'
  BY <1>0, <1>1, <1>10 DEF LostReturns, LostCommit, LostIgnored, LostFails, Detach, LostDetach
<1>11. ASSUME NEW l \in Links, Untrack(l)
       PROVE  HandlerInv'
  BY <1>2, <1>11 DEF Untrack, Served, HandlerInv, ReturnedMeansUntracked, vars
<1>12. CASE ShutdownBegins \/ ShutdownDeadline \/ ShutdownReturns
  BY <1>2, <1>12 DEF ShutdownBegins, ShutdownDeadline, ShutdownReturns, HandlerInv,
       ShutStages, vars
<1>13. CASE (Tick /\ UNCHANGED <<tracked, shut>>) \/ UNCHANGED hvars
  BY <1>13 DEF Tick, hvars, vars, handler, HandlerInv, ServedLinksAreTracked,
       ReturnedMeansUntracked
<1>14. CASE Crash
  BY <1>14 DEF Crash, Restart, HandlerInv, ServedLinksAreTracked,
       ReturnedMeansUntracked, ShutStages
<1> QED
  BY <1>3, <1>4, <1>5, <1>6, <1>7, <1>8, <1>9, <1>10, <1>11, <1>12, <1>13, <1>14
     DEF HandlerNext

(* A session is tracked from before Attach until after Lost, and Shutdown   *)
(* returns with none tracked.                                               *)
THEOREM HandlerInductive == HandlerSpec => []HandlerInv
<1>1. HandlerInit => HandlerInv
  BY DEF HandlerInit, Init, HandlerInv, ServedLinksAreTracked, ReturnedMeansUntracked,
         ShutStages
<1>2. IndInv /\ AuditIndInv /\ HandlerInv /\ [HandlerNext]_hvars => HandlerInv'
  BY HandlerInvStep
<1> QED
  BY <1>1, <1>2, HandlerKeepsService, PTL DEF HandlerSpec

(* No path attaches a session that Shutdown cannot see: whatever is routed  *)
(* is tracked until its handler left (track, serve, untrack).               *)
THEOREM RoutedIsTracked == HandlerSpec => []RoutedLinksAreTracked
<1>1. IndInv /\ HandlerInv => RoutedLinksAreTracked
  <2> SUFFICES ASSUME IndInv, HandlerInv, NEW s \in Subdomains, Presence(s) = "live"
               PROVE  live[s].link \in tracked \/ stage[live[s].link] = "finished"
    BY DEF RoutedLinksAreTracked
  <2>1. live[s].link \in Links /\ stage[live[s].link] \in {"attached", "recorded", "finished"}
    BY DEF Presence, IndInv, TypeOK, RouteInv
  <2> QED
    BY <2>1 DEF HandlerInv, ServedLinksAreTracked
<1> QED
  BY <1>1, HandlerKeepsService, HandlerInductive, PTL

(* A returned Shutdown left no loss unreported: what is still routed has a  *)
(* handler that finished, and the audit says the same as the table.         *)
THEOREM ShutdownRecordsLosses == HandlerSpec => []ShutdownIsRecorded
<1>1. IndInv /\ AuditIndInv /\ HandlerInv => ShutdownIsRecorded
  <2> SUFFICES ASSUME IndInv, AuditIndInv, HandlerInv, shut = "returned",
                      NEW s \in Subdomains
               PROVE  /\ Presence(s) = "live" => stage[live[s].link] = "finished"
                      /\ mu = None => Presence(s) = AuditPresence(s)
    BY DEF ShutdownIsRecorded
  <2>1. ASSUME Presence(s) = "live" PROVE stage[live[s].link] = "finished"
    <3>1. live[s].link \in Links /\ stage[live[s].link] \in {"attached", "recorded", "finished"}
      BY <2>1 DEF Presence, IndInv, TypeOK, RouteInv
    <3> QED
      BY <3>1 DEF HandlerInv, ServedLinksAreTracked, ReturnedMeansUntracked
  <2>2. ASSUME mu = None PROVE Presence(s) = AuditPresence(s)
    BY <2>2, UnlockedIsSettled DEF AuditIndInv, AuditInv, RowsTellPresence
  <2> QED
    BY <2>1, <2>2
<1> QED
  BY <1>1, HandlerKeepsService, HandlerInductive, PTL

-----------------------------------------------------------------------------
(* After Shutdown only an operator's calls can write: every write of a link *)
(* is made by a tracked session.                                            *)

LEMMA ClaimWritesClaimed ==
  ASSUME IndInv, IndInv', AuditIndInv', NEW s \in Subdomains, NEW t \in Tokens, Claim(s, t),
         AuditIndInv
  PROVE  LastKind(s)' = "claimed"
<1> DEFINE kinds == <<"claimed">>
<1>1. claims[s] = NoRow /\ AppendAudit(s, kinds, 1)
  BY DEF Claim, InsertClaim
<1>2. kinds \in Seq(AuditKinds) /\ Len(kinds) = 1 /\ 1 \in Nat
  BY DEF AuditKinds
<1> HIDE DEF kinds
<1>3. Len(audit[s]) = 0
  BY <1>1, LastKindRead DEF AuditIndInv, AuditInv, RowsTellClaim
<1>4. Len(audit'[s]) = 1
  BY <1>1, <1>2, <1>3, AppendEffect
<1>5. FollowsLegally(s, 1)'
  BY <1>4 DEF AuditIndInv, AuditInv
<1>6. audit'[s][1].kind = "claimed"
  BY <1>5 DEF FollowsLegally
<1>7. audit'[s] # << >>
  BY <1>4, LenProperties
<1> QED
  BY <1>4, <1>6, <1>7 DEF LastKind, LastRow

(* Once Shutdown returned, no link writes to the store any more: the only   *)
(* rows that appear are an operator's claim or revoke (Shutdown, track).    *)
THEOREM ShutdownSilencesLinks == HandlerSpec => NoLinkWritesAfterShutdown
<1> DEFINE Silent == shut = "returned" =>
                       \A s \in Subdomains : audit'[s] # audit[s] =>
                         LastKind(s)' \in {"claimed", "revoked"}
<1>1. IndInv /\ AuditIndInv /\ HandlerInv /\ (IndInv /\ AuditIndInv)' /\ [HandlerNext]_hvars
        => [Silent]_hvars
  <2> SUFFICES ASSUME IndInv, AuditIndInv, HandlerInv, IndInv', AuditIndInv',
                      HandlerNext, shut = "returned",
                      NEW s \in Subdomains, audit'[s] # audit[s]
               PROVE  LastKind(s)' \in {"claimed", "revoked"}
    OBVIOUS
  <2>1. tracked = {} /\ \A l \in Links : stage[l] \notin {"committed", "attached", "recorded"}
    BY DEF HandlerInv, ReturnedMeansUntracked, ServedLinksAreTracked
  <2>2. CASE \E q \in Subdomains : Operate(q) /\ UNCHANGED <<tracked, shut>>
    <3>1. PICK q \in Subdomains : Operate(q)
      BY <2>2
    <3>2. CASE \E t \in Tokens : Claim(q, t)
      <4>1. audit' = [audit EXCEPT ![q] = @ \o Entries(<<"claimed">>, 1)]
        BY <3>2 DEF Claim, InsertClaim, AppendAudit
      <4>2. q = s
        BY <4>1 DEF IndInv, TypeOK
      <4> QED
        BY <3>2, <4>2, ClaimWritesClaimed
    <3>3. CASE \E r \in 1..2 : RevokeCommit(q, r)
      <4>1. q = s
        BY <3>3 DEF RevokeCommit, RevokeClaim, AppendAudit, IndInv, TypeOK
      <4>2. claims'[s].revoked
        BY <3>3, <4>1 DEF RevokeCommit, RevokeClaim, IndInv, TypeOK
      <4> QED
        BY <4>2 DEF AuditIndInv, AuditInv, RowsTellClaim
    <3>4. CASE RevokeEvict(q)
      BY <3>4 DEF RevokeEvict, durable
    <3> QED
      BY <3>1, <3>2, <3>3, <3>4 DEF Operate
  <2>3. ASSUME NEW l \in Links,
               \/ RejectClosing(l) \/ (\E t \in Tokens : ServeRequest(l, t)) \/ UpgradeFails(l)
               \/ Track(l)         \/ TrackRefused(l) \/ AttachReturns(l)
               \/ Install(l)       \/ SessionDone(l)  \/ CloseOnShutdown(l)
               \/ LostReturns(l)   \/ Detach(l)       \/ Untrack(l)
               \/ Cut(l)
        PROVE  audit' = audit
    <3>1. ~AttachReturns(l) /\ ~LostReturns(l)
      BY <2>1 DEF AttachReturns, LostReturns, LostCommit, LostIgnored, LostFails
    <3> QED
      BY <2>3, <3>1 DEF RejectClosing, ServeRequest, Lookup, LookupRefused, LookupFails,
           Authenticate, AuthenticateRefused, UpgradeFails, Track, TrackRefused,
           Install, AttachInstall, SessionDone, SessionEnds, CloseOnShutdown,
           CloseForShutdown, Detach, LostDetach, Untrack, Cut, durable, vars
  <2>5. \A l \in Links :
          ~(\/ RejectClosing(l) \/ (\E t \in Tokens : ServeRequest(l, t)) \/ UpgradeFails(l)
            \/ Track(l)         \/ TrackRefused(l) \/ AttachReturns(l)
            \/ Install(l)       \/ SessionDone(l)  \/ CloseOnShutdown(l)
            \/ LostReturns(l)   \/ Detach(l)       \/ Untrack(l)
            \/ Cut(l))
    BY <2>3
  <2>4. CASE ShutdownBegins \/ ShutdownDeadline \/ ShutdownReturns
             \/ (Tick /\ UNCHANGED <<tracked, shut>>) \/ Crash
    BY <2>4 DEF ShutdownBegins, ShutdownDeadline, ShutdownReturns, Tick, Crash, Restart,
         durable, vars
  <2> QED
    BY <2>2, <2>4, <2>5 DEF HandlerNext
<1> QED
  BY <1>1, HandlerKeepsService, HandlerInductive, PTL
     DEF HandlerSpec, NoLinkWritesAfterShutdown

-----------------------------------------------------------------------------
(* The routes drive the service by the service's own steps.                 *)

LEMMA RequestShape ==
  ASSUME ApiTypeOK, NEW c \in Callers
  PROVE  /\ request[c].label \in Subdomains \cup {None}
         /\ request[c].route = "revoke" =>
              request[c].label \in Subdomains /\ request[c].expectedRevision \in 1..2
BY DEF ApiTypeOK, Requests, NoRequest, Labels

LEMMA CallIsService ==
  ASSUME ApiInv, NEW c \in Callers, Call(c)
  PROVE  [Next]_vars
<1> DEFINE s == request[c].label
<1>1. CASE ClaimTunnel(c)
  <2>1. s \in Subdomains
    BY <1>1, RequestShape DEF ApiInv, ClaimTunnel, ClaimError
  <2> QED
    BY <1>1, <2>1 DEF ClaimTunnel, Next, Operate
<1>2. CASE RevokeTunnel(c)
  <2>1. s \in Subdomains /\ request[c].expectedRevision \in 1..2
    BY <1>2, RequestShape DEF ApiInv, RevokeTunnel, Pending
  <2> QED
    BY <1>2, <2>1 DEF RevokeTunnel, Next, Operate
<1>3. CASE RevokeReturns(c)
  <2>1. s \in Subdomains
    BY <1>3, RequestShape DEF ApiInv, CallInv, RevokeReturns
  <2> QED
    BY <1>3, <2>1 DEF RevokeReturns, Next, Operate
<1> QED
  BY <1>1, <1>2, <1>3
     DEF Call, ClaimRefused, RevokeRefused, ListTunnels, CallFails

LEMMA ApiStepIsService ==
  ASSUME ApiInv, [ApiNext]_apiVars
  PROVE  [Next]_vars
<1>1. CASE \E c \in Callers : Call(c)
  BY <1>1, CallIsService
<1>2. CASE Background /\ UNCHANGED calls
  BY <1>2 DEF Background, Next
<1>3. CASE ApiRestart
  BY <1>3 DEF ApiRestart, Next
<1> QED
  BY <1>1, <1>2, <1>3 DEF ApiNext, apiVars, Reject, Admit

(* While a revocation holds the lock, no link's handler releases it.        *)
LEMMA RevokeKeepsLock ==
  ASSUME IndInv, NEW s \in Subdomains, mu = s, NEW l \in Links, ServeLink(l)
  PROVE  mu' = mu
BY NoneAssumption, HoldersAssumption
   DEF ServeLink, Lookup, LookupRefused, LookupFails, Authenticate,
       AuthenticateRefused, AttachCommit, AttachInstall, AttachRefused, AttachFails,
       SessionEnds, CloseForShutdown, LostCommit, LostDetach, LostIgnored, LostFails

-----------------------------------------------------------------------------
(* A caller whose own request did not move.                                 *)

LEMMA BystanderKeeps ==
  ASSUME IndInv, [Next]_vars, ApiTypeOK, NEW c \in Callers, CallInv(c),
         request'[c] = request[c], progress'[c] = progress[c], answer'[c] = answer[c],
         progress[c] = "committed" => mu' = mu
  PROVE  CallInv(c)'
<1> DEFINE s == request[c].label
<1>1. \A route, status : Answered(c, route, status)' <=> Answered(c, route, status)
  BY DEF Answered
<1>2. \A q : (RevokedBy(c, q)' <=> RevokedBy(c, q)) /\ (ClaimedBy(c, q)' <=> ClaimedBy(c, q))
  BY <1>1 DEF RevokedBy, ClaimedBy
<1>3. s \in ListClaims => s \in Subdomains
  BY DEF ListClaims
<1>4. /\ s \in Subdomains /\ claims[s].revoked => claims'[s].revoked
      /\ s \in ListClaims => s \in ListClaims' /\ claims'[s].token = claims[s].token
  BY <1>3, ClaimsGrow
<1> QED
  BY <1>1, <1>2, <1>3, <1>4 DEF CallInv

(* When only c's request moves, at most one call still claimed or revoked a *)
(* label: what c newly did nobody had done before.                          *)
LEMMA OneCallKeeps ==
  ASSUME OneCallInv, NEW c \in Callers,
         \A d \in Callers : d # c => /\ request'[d] = request[d]
                                     /\ progress'[d] = progress[d]
                                     /\ answer'[d] = answer[d],
         \A s \in Subdomains :
           /\ ClaimedBy(c, s)' => \A d \in Callers : d # c => ~ClaimedBy(d, s)
           /\ RevokedBy(c, s)' => \A d \in Callers : d # c => ~RevokedBy(d, s)
  PROVE  OneCallInv'
<1>1. ASSUME NEW d \in Callers, d # c, NEW s \in Subdomains
      PROVE  (ClaimedBy(d, s)' <=> ClaimedBy(d, s)) /\ (RevokedBy(d, s)' <=> RevokedBy(d, s))
  BY <1>1 DEF ClaimedBy, RevokedBy, Answered
<1> SUFFICES ASSUME NEW d \in Callers, NEW e \in Callers, NEW s \in Subdomains
             PROVE  /\ ClaimedBy(d, s)' /\ ClaimedBy(e, s)' => d = e
                    /\ RevokedBy(d, s)' /\ RevokedBy(e, s)' => d = e
  BY DEF OneCallInv
<1>2. CASE d = c /\ e = c
  BY <1>2
<1>3. CASE d # c /\ e # c
  BY <1>1, <1>3 DEF OneCallInv
<1>4. CASE d = c /\ e # c
  BY <1>1, <1>4
<1>5. CASE d # c /\ e = c
  BY <1>1, <1>5
<1> QED
  BY <1>2, <1>3, <1>4, <1>5

-----------------------------------------------------------------------------
(* The invariant, route by route.                                           *)

LEMMA NoViewsTyped ==
  /\ NoViews \in [Subdomains -> Views]
  /\ \A s \in Subdomains : ConsistentView(NoViews[s])
BY DEF NoViews, NoView, Views, Presences, ConsistentView

(* An answer of c: the others' calls keep, c's own type and views follow    *)
(* from what it was given.                                                  *)
LEMMA AnswerTyped ==
  ASSUME ApiTypeOK, NEW c \in Callers, NEW status \in Nat, NEW token \in Tokens \cup {None},
         NEW views \in [Subdomains -> Views], Answer(c, status, token, views)
  PROVE  /\ progress' \in [Callers -> CallStages] /\ answer' \in [Callers -> Answers]
         /\ progress'[c] = "answered"
         /\ answer'[c] = [status |-> status, token |-> token, views |-> views]
         /\ \A d \in Callers : d # c => progress'[d] = progress[d] /\ answer'[d] = answer[d]
BY DEF ApiTypeOK, Answer, CallStages, Answers

LEMMA ViewsKeep ==
  ASSUME ViewsAreConsistent, NEW c \in Callers,
         \A d \in Callers : d # c => answer'[d] = answer[d],
         \A s \in Subdomains : ConsistentView(answer'[c].views[s])
  PROVE  ViewsAreConsistent'
<1> SUFFICES ASSUME NEW d \in Callers, NEW s \in Subdomains
             PROVE  ConsistentView(answer'[d].views[s])
  BY DEF ViewsAreConsistent, ConsistentView, NoView
<1> QED
  BY DEF ViewsAreConsistent

(* A call that leaves the lock as it was: only c's own record is at stake.  *)
LEMMA CallKeeps ==
  ASSUME IndInv, ApiInv, [Next]_vars, NEW c \in Callers,
         \A d \in Callers : d # c => /\ request'[d] = request[d]
                                     /\ progress'[d] = progress[d]
                                     /\ answer'[d] = answer[d],
         \A d \in Callers : d # c /\ progress[d] = "committed" => mu' = mu,
         ApiTypeOK', CallInv(c)',
         \A s \in Subdomains :
           /\ ClaimedBy(c, s)' => \A d \in Callers : d # c => ~ClaimedBy(d, s)
           /\ RevokedBy(c, s)' => \A d \in Callers : d # c => ~RevokedBy(d, s),
         \A s \in Subdomains : ConsistentView(answer'[c].views[s])
  PROVE  ApiInv'
<1>1. \A d \in Callers : CallInv(d)'
  <2> SUFFICES ASSUME NEW d \in Callers, d # c PROVE CallInv(d)'
    OBVIOUS
  <2> QED
    BY BystanderKeeps DEF ApiInv
<1>2. OneCallInv'
  BY OneCallKeeps DEF ApiInv
<1>3. ViewsAreConsistent'
  BY ViewsKeep DEF ApiInv
<1> QED
  BY <1>1, <1>2, <1>3 DEF ApiInv

(* A request that neither commits nor succeeds: rejected, admitted, refused *)
(* or failed.  What it is told must already hold.                           *)
LEMMA QuietCallKeeps ==
  ASSUME IndInv, ApiInv, UNCHANGED vars, NEW c \in Callers,
         \A d \in Callers : d # c => /\ request'[d] = request[d]
                                     /\ progress'[d] = progress[d]
                                     /\ answer'[d] = answer[d],
         ApiTypeOK', progress'[c] # "committed",
         ~Answered(c, "claim", 201)', ~Answered(c, "revoke", 200)',
         Answered(c, "revoke", 409)' /\ request'[c].expectedRevision = 1 =>
           request'[c].label \in Subdomains /\ claims[request'[c].label].revoked,
         Answered(c, "claim", 409)' => request'[c].label \in ListClaims,
         \A s \in Subdomains : ConsistentView(answer'[c].views[s])
  PROVE  ApiInv'
<1>1. UNCHANGED <<claims, mu>> /\ ListClaims' = ListClaims
  BY DEF vars, ListClaims
<1>2. \A s : ~ClaimedBy(c, s)' /\ ~RevokedBy(c, s)'
  BY DEF ClaimedBy, RevokedBy
<1>3. CallInv(c)'
  BY <1>1, <1>2 DEF CallInv
<1> QED
  BY <1>1, <1>2, <1>3, CallKeeps

LEMMA RejectKeeps ==
  ASSUME IndInv, ApiInv, NEW c \in Callers, NEW status \in Rejections, Reject(c, status)
  PROVE  ApiInv'
<1>1. status \in Nat
  BY DEF Rejections, RejectStatus
<1>2. /\ progress' \in [Callers -> CallStages] /\ answer' \in [Callers -> Answers]
      /\ progress'[c] = "answered"
      /\ answer'[c] = [status |-> status, token |-> None, views |-> NoViews]
      /\ \A d \in Callers : d # c => progress'[d] = progress[d] /\ answer'[d] = answer[d]
  BY <1>1, AnswerTyped, NoViewsTyped DEF Reject, ApiInv
<1>3. /\ request' = [request EXCEPT ![c] = NoRequest] /\ UNCHANGED vars
      /\ request \in [Callers -> Requests \cup {NoRequest}]
  BY DEF Reject, ApiInv, ApiTypeOK
<1>4. request'[c].route = "none"
  BY <1>3 DEF NoRequest
<1>5. ApiTypeOK'
  BY <1>2, <1>3 DEF ApiTypeOK
<1>6. /\ ~Answered(c, "claim", 201)' /\ ~Answered(c, "revoke", 200)'
      /\ ~Answered(c, "revoke", 409)' /\ ~Answered(c, "claim", 409)'
  BY <1>4 DEF Answered
<1>7. \A s \in Subdomains : ConsistentView(answer'[c].views[s])
  BY <1>2, NoViewsTyped
<1> QED
  BY <1>2, <1>3, <1>5, <1>6, <1>7, QuietCallKeeps

LEMMA AdmitKeeps ==
  ASSUME IndInv, ApiInv, NEW c \in Callers, NEW r \in Requests, Admit(c, r)
  PROVE  ApiInv'
<1>1. /\ request' = [request EXCEPT ![c] = r]
      /\ progress' = [progress EXCEPT ![c] = "admitted"]
      /\ answer' = [answer EXCEPT ![c] = NoAnswer]
      /\ UNCHANGED vars /\ ApiTypeOK
  BY DEF Admit, ApiInv
<1>2. NoAnswer \in Answers /\ \A s \in Subdomains : ConsistentView(NoAnswer.views[s])
  BY NoViewsTyped DEF NoAnswer, Answers
<1>3. ApiTypeOK'
  BY <1>1, <1>2 DEF ApiTypeOK, CallStages
<1>4. /\ progress'[c] = "admitted" /\ answer'[c] = NoAnswer
      /\ \A d \in Callers : d # c => /\ request'[d] = request[d]
                                     /\ progress'[d] = progress[d]
                                     /\ answer'[d] = answer[d]
  BY <1>1 DEF ApiTypeOK
<1>5. \A route, status : ~Answered(c, route, status)'
  BY <1>4 DEF Answered
<1> QED
  BY <1>1, <1>2, <1>3, <1>4, <1>5, QuietCallKeeps

(* An answer that changes nothing but the caller's record.                  *)
LEMMA AnsweredQuietly ==
  ASSUME IndInv, ApiInv, UNCHANGED <<vars, request>>, NEW c \in Callers,
         NEW status \in Nat, NEW views \in [Subdomains -> Views],
         Answer(c, status, None, views),
         request[c].route = "claim" => status # 201,
         request[c].route = "revoke" => status # 200,
         request[c].route = "revoke" /\ status = 409 /\ request[c].expectedRevision = 1 =>
           request[c].label \in Subdomains /\ claims[request[c].label].revoked,
         request[c].route = "claim" /\ status = 409 => request[c].label \in ListClaims,
         \A s \in Subdomains : ConsistentView(views[s])
  PROVE  ApiInv'
<1>1. /\ progress' \in [Callers -> CallStages] /\ answer' \in [Callers -> Answers]
      /\ progress'[c] = "answered"
      /\ answer'[c] = [status |-> status, token |-> None, views |-> views]
      /\ \A d \in Callers : d # c => progress'[d] = progress[d] /\ answer'[d] = answer[d]
  BY AnswerTyped DEF ApiInv
<1>2. ApiTypeOK'
  BY <1>1 DEF ApiInv, ApiTypeOK
<1>3. \A route, code : Answered(c, route, code)' <=> request[c].route = route /\ status = code
  BY <1>1 DEF Answered
<1> QED
  BY <1>1, <1>2, <1>3, QuietCallKeeps

(* writePolicyError answers 409 for conflicts and revoked claims only.      *)
LEMMA PolicyStatusValues ==
  ASSUME NEW error
  PROVE  /\ PolicyStatus(error) \in {400, 404, 409, 500}
         /\ PolicyStatus(error) = 409 => error \in {"conflict", "revoked"}
<1>1. CASE error = "invalid"
  BY <1>1 DEF PolicyStatus
<1>2. CASE error \in {"conflict", "revoked"}
  <2>1. PolicyStatus(error) = 409
    BY <1>2 DEF PolicyStatus
  <2> QED
    BY <1>2, <2>1
<1>3. CASE error = "not found"
  <2>1. PolicyStatus(error) = 404
    BY <1>3 DEF PolicyStatus
  <2> QED
    BY <2>1
<1>4. CASE error # "invalid" /\ error \notin {"conflict", "revoked"} /\ error # "not found"
  <2>1. PolicyStatus(error) = 500
    BY <1>4 DEF PolicyStatus
  <2> QED
    BY <2>1
<1> QED
  BY <1>1, <1>2, <1>3, <1>4

LEMMA ClaimRefusedKeeps ==
  ASSUME IndInv, ApiInv, NEW c \in Callers, ClaimRefused(c)
  PROVE  ApiInv'
<1> DEFINE error == ClaimError(request[c].label)
<1>1. /\ error \in {"invalid", "conflict"} /\ request[c].route = "claim"
      /\ error = "conflict" => request[c].label \in ListClaims
      /\ Answer(c, PolicyStatus(error), None, NoViews) /\ UNCHANGED <<vars, request>>
  BY DEF ClaimRefused, ClaimError, Pending
<1> HIDE DEF error
<1>2. /\ PolicyStatus(error) \in Nat /\ PolicyStatus(error) # 201
      /\ PolicyStatus(error) = 409 => error = "conflict"
  BY <1>1, PolicyStatusValues
<1> QED
  BY <1>1, <1>2, NoViewsTyped, AnsweredQuietly

(* A revoke at revision 1 is refused as a conflict only when the claim is   *)
(* revoked: an active claim has revision 1.                                 *)
LEMMA RevokeRefusedKeeps ==
  ASSUME IndInv, ApiInv, NEW c \in Callers, RevokeRefused(c)
  PROVE  ApiInv'
<1> DEFINE s == request[c].label
           error == RevokeError(s, request[c].expectedRevision)
<1>1. /\ request[c].route = "revoke" /\ error # "none"
      /\ Answer(c, PolicyStatus(error), None, NoViews) /\ UNCHANGED <<vars, request>>
  BY DEF RevokeRefused, Pending
<1>2. s \in Subdomains
  BY <1>1, RequestShape DEF ApiInv
<1>3. PolicyStatus(error) \in {400, 404, 409, 500}
  BY PolicyStatusValues
<1>4. ASSUME PolicyStatus(error) = 409, request[c].expectedRevision = 1
      PROVE  claims[s].revoked
  <2>1. error \in {"conflict", "revoked"}
    BY <1>4, PolicyStatusValues
  <2>2. s \in ListClaims /\ claims[s] # NoRow
    BY <2>1 DEF RevokeError, ListClaims
  <2>3. claims[s].revision = (IF claims[s].revoked THEN 2 ELSE 1) /\ claims[s].revoked \in BOOLEAN
    BY <1>2, <2>2 DEF IndInv, ClaimsInv, TypeOK
  <2>4. ~claims[s].revoked => RevokeOutcome(s).err = "none"
    BY DEF RevokeOutcome, StatusOf, Transition, RevokeTransition, Status, Accept
  <2> QED
    BY <1>4, <2>1, <2>2, <2>3, <2>4 DEF RevokeError
<1> HIDE DEF error
<1>5. PolicyStatus(error) \in Nat /\ PolicyStatus(error) # 200
  BY <1>3
<1> QED
  BY <1>1, <1>2, <1>4, <1>5, NoViewsTyped, AnsweredQuietly

(* Tunnels reads claims and presence under mu, when no revocation is half   *)
(* done: a revoked claim has no link.                                       *)
LEMMA ListTunnelsKeeps ==
  ASSUME IndInv, ApiInv, NEW c \in Callers, ListTunnels(c)
  PROVE  ApiInv'
<1> DEFINE views == [s \in Subdomains |-> View(s)]
<1>1. /\ mu = None /\ request[c].route = "list"
      /\ Answer(c, 200, None, views) /\ UNCHANGED <<vars, request>>
  BY DEF ListTunnels, Pending
<1>2. ASSUME NEW s \in Subdomains
      PROVE  View(s) \in Views /\ ConsistentView(View(s))
  <2>1. CASE s \notin ListClaims
    BY <2>1 DEF View, NoView, Views, Presences, ConsistentView
  <2>2. CASE s \in ListClaims
    <3>1. /\ claims[s].revision = (IF claims[s].revoked THEN 2 ELSE 1)
          /\ claims[s].revoked \in BOOLEAN
      BY <2>2 DEF IndInv, ClaimsInv, TypeOK, ListClaims
    <3>2. claims[s].revoked => Presence(s) = "absent"
      BY <1>1, NoneAssumption DEF IndInv, RevokedInv, Presence
    <3>3. Presence(s) \in Presences
      BY DEF Presence, Presences
    <3>4. View(s) = [revision |-> claims[s].revision,
                     state |-> IF claims[s].revoked THEN "revoked" ELSE "active",
                     presence |-> Presence(s)]
      BY <2>2 DEF View
    <3>5. View(s) \in Views
      BY <3>1, <3>3, <3>4 DEF Views
    <3>6. CASE claims[s].revoked
      BY <3>1, <3>2, <3>4, <3>5, <3>6 DEF ConsistentView
    <3>7. CASE ~claims[s].revoked
      BY <3>1, <3>4, <3>5, <3>7 DEF ConsistentView
    <3> QED
      BY <3>6, <3>7
  <2> QED
    BY <2>1, <2>2
<1>3. views \in [Subdomains -> Views] /\ \A s \in Subdomains : ConsistentView(views[s])
  BY <1>2
<1> HIDE DEF views
<1> QED
  BY <1>1, <1>3, AnsweredQuietly

LEMMA CallFailsKeeps ==
  ASSUME IndInv, ApiInv, NEW c \in Callers, CallFails(c)
  PROVE  ApiInv'
<1>1. Answer(c, 500, None, NoViews) /\ UNCHANGED <<vars, request>>
  BY DEF CallFails, PolicyStatus
<1> QED
  BY <1>1, NoViewsTyped, AnsweredQuietly

-----------------------------------------------------------------------------
(* The calls that write.                                                    *)

LEMMA ClaimTunnelKeeps ==
  ASSUME IndInv, ApiInv, NEW c \in Callers, ClaimTunnel(c)
  PROVE  ApiInv'
<1>1. PICK s \in Subdomains : s = request[c].label
  BY RequestShape DEF ApiInv, ClaimTunnel, ClaimError
<1>2. PICK t \in Tokens : Claim(s, t) /\ Answer(c, 201, t, NoViews)
  BY <1>1 DEF ClaimTunnel
<1>3. request' = request /\ request[c].route = "claim" /\ s \notin ListClaims /\ [Next]_vars
  BY <1>1, CallIsService DEF ClaimTunnel, Call, Pending, ClaimError
<1>4. mu' = mu /\ claims' = [claims EXCEPT ![s] = [token |-> t, revision |-> 1, revoked |-> FALSE]]
  BY <1>2 DEF Claim, InsertClaim
<1>5. /\ progress' \in [Callers -> CallStages] /\ answer' \in [Callers -> Answers]
      /\ progress'[c] = "answered"
      /\ answer'[c] = [status |-> 201, token |-> t, views |-> NoViews]
      /\ \A d \in Callers : d # c => progress'[d] = progress[d] /\ answer'[d] = answer[d]
  BY <1>2, AnswerTyped, NoViewsTyped DEF ApiInv
<1>6. ApiTypeOK'
  BY <1>3, <1>5 DEF ApiInv, ApiTypeOK
<1>7. claims \in [Subdomains -> [token : Tokens \cup {None}, revision : 0..2, revoked : BOOLEAN]]
  BY DEF IndInv, TypeOK
<1>8. s \in ListClaims' /\ claims'[s].token = t
  BY <1>4, <1>7 DEF ListClaims, NoRow
<1>9. \A route, code : Answered(c, route, code)' <=> route = "claim" /\ code = 201
  BY <1>3, <1>5 DEF Answered
<1>10. CallInv(c)'
  BY <1>1, <1>3, <1>5, <1>8, <1>9 DEF CallInv, RevokedBy, ClaimedBy
<1>11. ASSUME NEW q \in Subdomains
       PROVE  /\ ClaimedBy(c, q)' => \A d \in Callers : d # c => ~ClaimedBy(d, q)
              /\ RevokedBy(c, q)' => \A d \in Callers : d # c => ~RevokedBy(d, q)
  <2>1. ~RevokedBy(c, q)'
    BY <1>3 DEF RevokedBy
  <2>2. ClaimedBy(c, q)' => q = s
    BY <1>1, <1>3 DEF ClaimedBy
  <2>3. \A d \in Callers : ~ClaimedBy(d, s)
    BY <1>3 DEF ApiInv, CallInv, ClaimedBy
  <2> QED
    BY <2>1, <2>2, <2>3
<1>12. \A q \in Subdomains : ConsistentView(answer'[c].views[q])
  BY <1>5, NoViewsTyped
<1> QED
  BY <1>3, <1>4, <1>5, <1>6, <1>10, <1>11, <1>12, CallKeeps

LEMMA RevokeTunnelKeeps ==
  ASSUME IndInv, ApiInv, NEW c \in Callers, RevokeTunnel(c)
  PROVE  ApiInv'
<1>1. PICK s \in Subdomains : s = request[c].label
  BY DEF RevokeTunnel
<1>2. /\ request' = request /\ answer' = answer
      /\ progress' = [progress EXCEPT ![c] = "committed"]
      /\ request[c].route = "revoke" /\ [Next]_vars
  BY CallIsService DEF RevokeTunnel, Call, Pending
<1>3. /\ mu = None /\ mu' = s /\ ~claims[s].revoked
      /\ claims' = [claims EXCEPT ![s].revision = @ + 1, ![s].revoked = TRUE]
  BY <1>1 DEF RevokeTunnel, RevokeCommit, RevokeClaim
<1>4. claims'[s].revoked
  BY <1>3 DEF IndInv, TypeOK
<1>5. ApiTypeOK /\ ApiTypeOK'
  BY <1>2 DEF ApiInv, ApiTypeOK, CallStages
<1>6. /\ progress'[c] = "committed"
      /\ \A d \in Callers : d # c => progress'[d] = progress[d]
  BY <1>2, <1>5 DEF ApiTypeOK
<1>7. \A d \in Callers : progress[d] # "committed"
  BY <1>3, <1>5, RequestShape, NoneAssumption DEF ApiInv, CallInv
<1>8. \A route, code : ~Answered(c, route, code)'
  BY <1>6 DEF Answered
<1>9. CallInv(c)'
  BY <1>1, <1>2, <1>3, <1>4, <1>8 DEF CallInv, ClaimedBy
<1>10. ASSUME NEW q \in Subdomains
       PROVE  /\ ClaimedBy(c, q)' => \A d \in Callers : d # c => ~ClaimedBy(d, q)
              /\ RevokedBy(c, q)' => \A d \in Callers : d # c => ~RevokedBy(d, q)
  <2>1. ~ClaimedBy(c, q)'
    BY <1>8 DEF ClaimedBy
  <2>2. RevokedBy(c, q)' => q = s
    BY <1>1, <1>2 DEF RevokedBy
  <2>3. \A d \in Callers : ~RevokedBy(d, s)
    BY <1>3 DEF ApiInv, CallInv, RevokedBy
  <2> QED
    BY <2>1, <2>2, <2>3
<1>11. \A q \in Subdomains : ConsistentView(answer'[c].views[q])
  BY <1>2 DEF ApiInv, ViewsAreConsistent
<1> QED
  BY <1>2, <1>5, <1>6, <1>7, <1>9, <1>10, <1>11, CallKeeps

(* Only one call at a time is between its commit and its answer: the lock   *)
(* names the subdomain, and one call revoked it.                            *)
LEMMA RevokeReturnsKeeps ==
  ASSUME IndInv, ApiInv, NEW c \in Callers, RevokeReturns(c)
  PROVE  ApiInv'
<1>0. request[c].route = "revoke" /\ mu = request[c].label /\ progress[c] = "committed"
  BY DEF RevokeReturns, ApiInv, CallInv
<1>1. PICK s \in Subdomains : s = request[c].label
  BY <1>0, RequestShape DEF ApiInv
<1> DEFINE view == [revision |-> claims[s].revision, state |-> "revoked", presence |-> "absent"]
           views == [NoViews EXCEPT ![s] = view]
<1>2. Answer(c, 200, None, views) /\ request' = request /\ [Next]_vars
  BY <1>1, CallIsService DEF RevokeReturns, Call
<1>3. UNCHANGED claims /\ claims[s].revoked
  BY <1>0, <1>1 DEF RevokeReturns, RevokeEvict, durable, IndInv, LockInv
<1>4. claims[s].revision = 2
  BY <1>3 DEF IndInv, ClaimsInv, NoRow
<1>5. view \in Views /\ ConsistentView(view)
  BY <1>4 DEF Views, Presences, ConsistentView
<1> HIDE DEF view
<1>6. views \in [Subdomains -> Views] /\ \A q \in Subdomains : ConsistentView(views[q])
  BY <1>5, NoViewsTyped
<1> HIDE DEF views
<1>7. /\ progress' \in [Callers -> CallStages] /\ answer' \in [Callers -> Answers]
      /\ progress'[c] = "answered"
      /\ answer'[c] = [status |-> 200, token |-> None, views |-> views]
      /\ \A d \in Callers : d # c => progress'[d] = progress[d] /\ answer'[d] = answer[d]
  BY <1>2, <1>6, AnswerTyped DEF ApiInv
<1>8. ApiTypeOK'
  BY <1>2, <1>7 DEF ApiInv, ApiTypeOK
<1>9. RevokedBy(c, s) /\ \A d \in Callers : d # c => ~RevokedBy(d, s)
  BY <1>0, <1>1 DEF RevokedBy, ApiInv, OneCallInv
<1>10. \A d \in Callers : d # c => progress[d] # "committed"
  BY <1>0, <1>1, <1>9 DEF RevokedBy, ApiInv, CallInv
<1>11. \A route, code : Answered(c, route, code)' <=> route = "revoke" /\ code = 200
  BY <1>0, <1>2, <1>7 DEF Answered
<1>12. CallInv(c)'
  BY <1>1, <1>2, <1>3, <1>7, <1>11 DEF CallInv, ClaimedBy
<1>13. \A q \in Subdomains :
         /\ ~ClaimedBy(c, q)'
         /\ RevokedBy(c, q)' => q = s
  BY <1>1, <1>2, <1>11 DEF ClaimedBy, RevokedBy
<1>14. \A q \in Subdomains : ConsistentView(answer'[c].views[q])
  BY <1>6, <1>7
<1> QED
  BY <1>2, <1>7, <1>8, <1>9, <1>10, <1>12, <1>13, <1>14, CallKeeps

-----------------------------------------------------------------------------
(* The steps that no caller takes.                                          *)

LEMMA BackgroundKeeps ==
  ASSUME IndInv, ApiInv, Background, UNCHANGED calls
  PROVE  ApiInv'
<1>1. [Next]_vars /\ UNCHANGED <<request, progress, answer>>
  BY DEF Background, Next, calls
<1>2. ASSUME NEW c \in Callers, progress[c] = "committed"
      PROVE  mu' = mu
  <2>1. mu \in Subdomains
    BY <1>2, RequestShape DEF ApiInv, CallInv
  <2> QED
    BY <2>1, RevokeKeepsLock DEF Background, Tick
<1>3. \A c \in Callers : CallInv(c)'
  BY <1>1, <1>2, BystanderKeeps DEF ApiInv
<1>4. \A c, d, s : (ClaimedBy(c, s)' <=> ClaimedBy(c, s)) /\ (RevokedBy(c, s)' <=> RevokedBy(c, s))
  BY <1>1 DEF ClaimedBy, RevokedBy, Answered
<1>5. OneCallInv'
  BY <1>4 DEF ApiInv, OneCallInv
<1>6. ApiTypeOK' /\ ViewsAreConsistent'
  BY <1>1 DEF ApiInv, ApiTypeOK, ViewsAreConsistent
<1> QED
  BY <1>3, <1>5, <1>6 DEF ApiInv

(* An interrupted call is forgotten; an answered one was not interrupted.   *)
LEMMA ApiRestartKeeps ==
  ASSUME IndInv, ApiInv, ApiRestart
  PROVE  ApiInv'
<1>1. /\ [Next]_vars /\ answer' = answer
      /\ \A c \in Callers :
           /\ progress[c] \in {"admitted", "committed"} =>
                progress'[c] = "lost" /\ request'[c] = NoRequest
           /\ progress[c] \notin {"admitted", "committed"} =>
                progress'[c] = progress[c] /\ request'[c] = request[c]
  BY DEF ApiRestart, Next
<1>2. ApiTypeOK'
  BY DEF ApiRestart, ApiInv, ApiTypeOK, CallStages
<1>3. ASSUME NEW c \in Callers
      PROVE  CallInv(c)'
  <2>1. CASE progress[c] \in {"admitted", "committed"}
    BY <1>1, <2>1 DEF CallInv, RevokedBy, ClaimedBy, Answered
  <2>2. CASE progress[c] \notin {"admitted", "committed"}
    BY <1>1, <2>2, BystanderKeeps DEF ApiInv
  <2> QED
    BY <2>1, <2>2
<1>4. ASSUME NEW c \in Callers, NEW s
      PROVE  (ClaimedBy(c, s)' => ClaimedBy(c, s)) /\ (RevokedBy(c, s)' => RevokedBy(c, s))
  <2>1. CASE progress[c] \in {"admitted", "committed"}
    BY <1>1, <2>1 DEF RevokedBy, ClaimedBy, Answered
  <2>2. CASE progress[c] \notin {"admitted", "committed"}
    BY <1>1, <2>2 DEF RevokedBy, ClaimedBy, Answered
  <2> QED
    BY <2>1, <2>2
<1>5. OneCallInv'
  BY <1>4 DEF ApiInv, OneCallInv
<1>6. ViewsAreConsistent'
  BY <1>1 DEF ApiInv, ViewsAreConsistent
<1> QED
  BY <1>2, <1>3, <1>5, <1>6 DEF ApiInv

LEMMA ApiInvStep ==
  ASSUME IndInv, ApiInv, [ApiNext]_apiVars
  PROVE  ApiInv'
<1>1. CASE \E c \in Callers : \E status \in Rejections : Reject(c, status)
  BY <1>1, RejectKeeps
<1>2. CASE \E c \in Callers : \E r \in Requests : Admit(c, r)
  BY <1>2, AdmitKeeps
<1>3. CASE \E c \in Callers : Call(c)
  BY <1>3, ClaimTunnelKeeps, ClaimRefusedKeeps, RevokeTunnelKeeps, RevokeReturnsKeeps,
     RevokeRefusedKeeps, ListTunnelsKeeps, CallFailsKeeps DEF Call
<1>4. CASE Background /\ UNCHANGED calls
  BY <1>4, BackgroundKeeps
<1>5. CASE ApiRestart
  BY <1>5, ApiRestartKeeps
<1>6. CASE UNCHANGED apiVars
  BY <1>6 DEF apiVars, vars, calls, ApiInv, ApiTypeOK, CallInv, OneCallInv,
       ViewsAreConsistent, ClaimedBy, RevokedBy, Answered, ListClaims
<1> QED
  BY <1>1, <1>2, <1>3, <1>4, <1>5, <1>6 DEF ApiNext

LEMMA ApiInvInit == ApiInit => ApiInv
<1> SUFFICES ASSUME ApiInit PROVE ApiInv
  OBVIOUS
<1>1. \A c \in Callers : request[c] = NoRequest /\ progress[c] = "unsent" /\ answer[c] = NoAnswer
  BY DEF ApiInit
<1>2. NoAnswer \in Answers /\ \A s \in Subdomains : ConsistentView(NoAnswer.views[s])
  BY NoViewsTyped DEF NoAnswer, Answers
<1>3. ApiTypeOK
  BY <1>2 DEF ApiInit, ApiTypeOK, CallStages
<1>4. \A c \in Callers : CallInv(c)
  BY <1>1 DEF CallInv, RevokedBy, ClaimedBy, Answered
<1>5. OneCallInv
  BY <1>1 DEF OneCallInv, RevokedBy, ClaimedBy, Answered
<1>6. ViewsAreConsistent
  BY <1>1, <1>2 DEF ViewsAreConsistent
<1> QED
  BY <1>3, <1>4, <1>5, <1>6 DEF ApiInv

-----------------------------------------------------------------------------
(* The claims, the lock, the handlers, the audit and every call's record    *)
(* fit together at every step, however requests, retries, agents and        *)
(* restarts interleave.                                                     *)
THEOREM ApiInductive == ApiSpec => [](IndInv /\ AuditIndInv /\ ApiInv)
<1>1. ApiInit => IndInv /\ AuditIndInv /\ ApiInv
  BY InitEstablishes, InitKeepsAudit, ApiInvInit DEF ApiInit
<1>2. (IndInv /\ AuditIndInv /\ ApiInv) /\ [ApiNext]_apiVars
        => (IndInv /\ AuditIndInv /\ ApiInv)'
  <2> SUFFICES ASSUME IndInv, AuditIndInv, ApiInv, [ApiNext]_apiVars
               PROVE  (IndInv /\ AuditIndInv /\ ApiInv)'
    OBVIOUS
  <2>1. [Next]_vars
    BY ApiStepIsService
  <2>2. IndInv'
    BY <2>1, StepPreserves
  <2>3. AuditIndInv'
    BY <2>1, <2>2, StepKeepsAudit
  <2>4. ApiInv'
    BY ApiInvStep
  <2> QED
    BY <2>2, <2>3, <2>4
<1> QED
  BY <1>1, <1>2, PTL DEF ApiSpec

(* Behind the routes runs the service of TunnelService, step for step: what *)
(* is proved of that specification holds of the server that callers see.    *)
THEOREM RoutesDriveService == ApiSpec => Spec
<1>1. ApiInit => Init
  BY DEF ApiInit
<1>2. ApiInv /\ [ApiNext]_apiVars => [Next]_vars
  BY ApiStepIsService
<1> QED
  BY <1>1, <1>2, ApiInductive, PTL DEF ApiSpec, Spec

(* What a caller was told stays true, whatever later calls, agents and      *)
(* restarts do, and one call only is told that it claimed or revoked a      *)
(* label, for any number of callers.                                        *)
THEOREM AnswersHold == ApiSpec => []AnswersStayTrue
<1>1. IndInv /\ ApiInv => AnswersStayTrue
  <2> SUFFICES ASSUME IndInv, ApiInv, NEW c \in Callers, NEW s, s = request[c].label
               PROVE  /\ ToldRevoked(c) => claims[s].revoked /\ (mu # s => Presence(s) = "absent")
                      /\ Answered(c, "claim", 201) => claims[s].token = answer[c].token
                      /\ Answered(c, "claim", 409) => s \in ListClaims
                      /\ \A d \in Callers :
                           request[c] = request[d] /\ Succeeded(c) /\ Succeeded(d) => c = d
    BY DEF AnswersStayTrue
  <2>1. CallInv(c)
    BY DEF ApiInv
  <2>2. ToldRevoked(c) => s \in Subdomains /\ claims[s].revoked
    BY <2>1 DEF ToldRevoked, CallInv, RevokedBy, Answered
  <2>3. s \in Subdomains /\ claims[s].revoked /\ mu # s => Presence(s) = "absent"
    BY DEF IndInv, RevokedInv, Presence
  <2>4. /\ Answered(c, "claim", 201) => claims[s].token = answer[c].token
        /\ Answered(c, "claim", 409) => s \in ListClaims
    BY <2>1 DEF CallInv, ClaimedBy
  <2>5. ASSUME NEW d \in Callers, request[c] = request[d], Succeeded(c), Succeeded(d)
        PROVE  c = d
    <3>1. (ClaimedBy(c, s) /\ ClaimedBy(d, s)) \/ (RevokedBy(c, s) /\ RevokedBy(d, s))
      BY <2>5 DEF Succeeded, Answered, ClaimedBy, RevokedBy
    <3>2. s \in Subdomains
      BY <2>1, <3>1 DEF CallInv, ListClaims
    <3> QED
      BY <3>1, <3>2 DEF ApiInv, OneCallInv
  <2> QED
    BY <2>2, <2>3, <2>4, <2>5
<1> QED
  BY <1>1, ApiInductive, PTL

(* No answer shows a revoked tunnel as live, or a state and a revision that *)
(* never held together: listings read the pair under the lock, and a        *)
(* revocation answers with the row its transaction wrote.                   *)
THEOREM ViewsHold == ApiSpec => []ViewsAreConsistent
<1>1. ApiInv => ViewsAreConsistent
  BY DEF ApiInv
<1> QED
  BY <1>1, ApiInductive, PTL
=============================================================================
