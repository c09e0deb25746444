------------------------------ MODULE TunnelApi ------------------------------
(***************************************************************************)
(* The management and read routes in front of the tunnel service           *)
(* (specimens/ingress-tunnel/internal/api): operators claim and revoke,    *)
(* readers list, while agents attach and lose links and the process        *)
(* restarts.  A caller has one HTTP request under way and may send another *)
(* once it has an answer or lost the connection: a retry is the same       *)
(* request again, from it or from another caller.                          *)
(***************************************************************************)
EXTENDS TunnelService

CONSTANTS Callers  \* operators and readers, each with one request at a time

VARIABLES
  request,   \* what each caller's last admitted request asks of the policy
  progress,  \* where that request's handler is
  answer     \* what it wrote

calls == <<request, progress, answer>>
apiVars == <<vars, calls>>

Routes == {"claim", "revoke", "list"}
Credentials == {"management", "read", "other"}
Bodies == {"json", "malformed", "text"}

(* None stands for a label that ValidateSubdomain refuses.                  *)
Labels == Subdomains \cup {None}
Requests == [route : {"claim"}, label : Labels, expectedRevision : {0}]
       \cup [route : {"revoke"}, label : Subdomains, expectedRevision : 1..2]
       \cup [route : {"list"}, label : {None}, expectedRevision : {0}]
NoRequest == [route |-> "none", label |-> None, expectedRevision |-> 0]

NoView == [revision |-> 0, state |-> "none", presence |-> "absent"]
NoViews == [s \in Subdomains |-> NoView]
NoAnswer == [status |-> 0, token |-> None, views |-> NoViews]

ApiInit ==
  /\ Init
  /\ request = [c \in Callers |-> NoRequest]
  /\ progress = [c \in Callers |-> "unsent"]
  /\ answer = [c \in Callers |-> NoAnswer]

-----------------------------------------------------------------------------
Answer(c, status, token, views) ==
  /\ progress' = [progress EXCEPT ![c] = "answered"]
  /\ answer' = [answer EXCEPT ![c] = [status |-> status, token |-> token, views |-> views]]

(* authorize, then requireJSON and decodeJSON where a body is expected.     *)
Authority(route) == IF route = "list" THEN "read" ELSE "management"

RejectStatus(route, credential, body) ==
  IF credential # Authority(route)             THEN 401
  ELSE IF route # "list" /\ body = "text"      THEN 415
  ELSE IF route # "list" /\ body = "malformed" THEN 400
  ELSE 0

Ready(c) == progress[c] \in {"unsent", "answered", "lost"}

Rejections ==
  {RejectStatus(route, credential, body) :
     route \in Routes, credential \in Credentials, body \in Bodies} \ {0}

Reject(c, status) ==
  /\ Ready(c)
  /\ Answer(c, status, None, NoViews)
  /\ request' = [request EXCEPT ![c] = NoRequest]
  /\ UNCHANGED vars

Admit(c, r) ==
  /\ Ready(c)
  /\ \E credential \in Credentials, body \in Bodies : RejectStatus(r.route, credential, body) = 0
  /\ request' = [request EXCEPT ![c] = r]
  /\ progress' = [progress EXCEPT ![c] = "admitted"]
  /\ answer' = [answer EXCEPT ![c] = NoAnswer]
  /\ UNCHANGED vars

Pending(c, route) == progress[c] = "admitted" /\ request[c].route = route

(* writePolicyError *)
PolicyStatus(error) ==
  CASE error = "invalid"                -> 400
    [] error \in {"conflict", "revoked"} -> 409
    [] error = "not found"              -> 404
    [] OTHER                            -> 500

(* What Claim answers without writing: the label is refused, or taken.      *)
ClaimError(s) ==
  IF s = None THEN "invalid" ELSE IF s \in ListClaims THEN "conflict" ELSE "none"

ClaimTunnel(c) ==
  /\ Pending(c, "claim")
  /\ ClaimError(request[c].label) = "none"
  /\ \E t \in Tokens :
       /\ Claim(request[c].label, t)
       /\ Answer(c, 201, t, NoViews)
  /\ UNCHANGED request

ClaimRefused(c) ==
  /\ Pending(c, "claim")
  /\ ClaimError(request[c].label) # "none"
  /\ Answer(c, PolicyStatus(ClaimError(request[c].label)), None, NoViews)
  /\ UNCHANGED <<vars, request>>

-----------------------------------------------------------------------------
(* What Revoke answers without writing, in the code's order.                *)
RevokeError(s, expectedRevision) ==
  IF s \notin ListClaims                        THEN "not found"
  ELSE IF claims[s].revision # expectedRevision THEN "conflict"
  ELSE RevokeOutcome(s).err

RevokeTunnel(c) ==
  /\ Pending(c, "revoke")
  /\ request[c].label \in Subdomains
  /\ RevokeCommit(request[c].label, request[c].expectedRevision)
  /\ progress' = [progress EXCEPT ![c] = "committed"]
  /\ UNCHANGED <<request, answer>>

(* The answer shows the row the transaction read back, and absence.         *)
RevokeReturns(c) ==
  LET s == request[c].label IN
  /\ progress[c] = "committed"
  /\ RevokeEvict(s)
  /\ Answer(c, 200, None,
            [NoViews EXCEPT ![s] = [revision |-> claims[s].revision,
                                    state |-> "revoked", presence |-> "absent"]])
  /\ UNCHANGED request

(* Mutant: a refusal returns with mu held.                                  *)
RefusalKeepsMu(c) ==
  LET error == RevokeError(request[c].label, request[c].expectedRevision) IN
  /\ mu = None
  /\ Pending(c, "revoke")
  /\ error # "none"
  /\ Answer(c, PolicyStatus(error), None, NoViews)
  /\ mu' = c
  /\ UNCHANGED <<durable, volatile, handler, now, boot, request>>

RevokeRefused(c) ==
  LET error == RevokeError(request[c].label, request[c].expectedRevision) IN
  /\ mu = None
  /\ Pending(c, "revoke")
  /\ error # "none"
  /\ Answer(c, PolicyStatus(error), None, NoViews)
  /\ UNCHANGED <<vars, request>>

-----------------------------------------------------------------------------
(* Tunnels: every claim joined with its presence.                           *)
View(s) ==
  IF s \in ListClaims
  THEN [revision |-> claims[s].revision,
        state |-> IF claims[s].revoked THEN "revoked" ELSE "active",
        presence |-> Presence(s)]
  ELSE NoView

(* Mutant: the listing does not take the lock.                              *)
ListUnlocked(c) ==
  /\ Pending(c, "list")
  /\ Answer(c, 200, None, [s \in Subdomains |-> View(s)])
  /\ UNCHANGED <<vars, request>>

ListTunnels(c) ==
  /\ mu = None
  /\ Pending(c, "list")
  /\ Answer(c, 200, None, [s \in Subdomains |-> View(s)])
  /\ UNCHANGED <<vars, request>>

(* The store or the random source fails, or the caller goes away and takes  *)
(* the request's context along: nothing was written.                        *)
CallFails(c) ==
  /\ progress[c] = "admitted"
  /\ request[c].route # "claim" => mu = None
  /\ Answer(c, PolicyStatus("store"), None, NoViews)
  /\ UNCHANGED <<vars, request>>

-----------------------------------------------------------------------------
(* A restart leaves the requests it interrupts without an answer.           *)
ApiRestart ==
  LET interrupted == {c \in Callers : progress[c] \in {"admitted", "committed"}} IN
  /\ Restart
  /\ progress' = [c \in Callers |-> IF c \in interrupted THEN "lost" ELSE progress[c]]
  /\ request' = [c \in Callers |-> IF c \in interrupted THEN NoRequest ELSE request[c]]
  /\ UNCHANGED answer

Call(c) ==
  \/ ClaimTunnel(c) \/ ClaimRefused(c)
  \/ RevokeTunnel(c) \/ RevokeReturns(c) \/ RevokeRefused(c)
  \/ ListTunnels(c)
  \/ CallFails(c)

(* What goes on without the callers: the agents' links and the clock.       *)
Background ==
  \/ \E l \in Links : ServeLink(l)
  \/ Tick

ApiNext ==
  \/ \E c \in Callers : \E status \in Rejections : Reject(c, status)
  \/ \E c \in Callers : \E r \in Requests : Admit(c, r)
  \/ \E c \in Callers : Call(c)
  \/ Background /\ UNCHANGED calls
  \/ ApiRestart

ApiSpec == ApiInit /\ [][ApiNext]_apiVars

(* The service's fairness, and every admitted request runs on.               *)
ApiFairSpec ==
  /\ ApiSpec
  /\ \A l \in Links :
       /\ SF_apiVars(GateAnswers(l) /\ UNCHANGED calls)
       /\ SF_apiVars(AttachAnswers(l) /\ UNCHANGED calls)
       /\ WF_apiVars(AttachInstall(l) /\ UNCHANGED calls)
       /\ SF_apiVars(LostAnswers(l) /\ UNCHANGED calls)
       /\ WF_apiVars(LostDetach(l) /\ UNCHANGED calls)
  /\ \A c \in Callers : SF_apiVars(Call(c))

-----------------------------------------------------------------------------
Answered(c, route, status) ==
  progress[c] = "answered" /\ request[c].route = route /\ answer[c].status = status

Succeeded(c) == Answered(c, "claim", 201) \/ Answered(c, "revoke", 200)

(* Revision 1 is the only one that an active claim ever has.                *)
ToldRevoked(c) ==
  \/ Answered(c, "revoke", 200)
  \/ Answered(c, "revoke", 409) /\ request[c].expectedRevision = 1

(* What a caller was told stays true, whatever later calls, agents and      *)
(* restarts do: a revocation answered 200 is final and its subdomain is     *)
(* never served again; so it is when a retry at revision 1 is answered 409; *)
(* the token of a 201 is the claim's own; a label refused as taken stays    *)
(* taken; and one call only is told that it claimed, or revoked, a label.   *)
AnswersStayTrue ==
  \A c \in Callers : LET s == request[c].label IN
    /\ ToldRevoked(c) => claims[s].revoked /\ (mu # s => Presence(s) = "absent")
    /\ Answered(c, "claim", 201) => claims[s].token = answer[c].token
    /\ Answered(c, "claim", 409) => s \in ListClaims
    /\ \A d \in Callers : request[c] = request[d] /\ Succeeded(c) /\ Succeeded(d) => c = d

ConsistentView(view) ==
  \/ view = NoView
  \/ view.state = "active" /\ view.revision = 1
  \/ view.state = "revoked" /\ view.revision = 2 /\ view.presence = "absent"

(* A view shows the pair that mu protects: no answer ever shows a revoked   *)
(* tunnel as live, or a state and a revision that never held together.      *)
ViewsAreConsistent ==
  \A c \in Callers : \A s \in Subdomains : ConsistentView(answer[c].views[s])

(* Every request is answered: an agent's whose token was found, and a       *)
(* call's once it is admitted, unless the process dies with it.  No path    *)
(* returns with mu held, so nobody waits for it forever.                    *)
RequestsAreAnswered ==
  /\ \A l \in Links :
       stage[l] = "looked" ~> stage[l] \in {"attached", "refused", "finished"}
  /\ \A c \in Callers : progress[c] = "admitted" ~> progress[c] \in {"answered", "lost"}

-----------------------------------------------------------------------------
(* The inductive invariant of the routes, beside those of the service.      *)

CallStages == {"unsent", "admitted", "committed", "answered", "lost"}
Views == [revision : 0..2, state : {"none", "active", "revoked"}, presence : Presences]
Answers == [status : Nat, token : Tokens \cup {None}, views : [Subdomains -> Views]]

ApiTypeOK ==
  /\ request \in [Callers -> Requests \cup {NoRequest}]
  /\ progress \in [Callers -> CallStages]
  /\ answer \in [Callers -> Answers]

(* The call c is the one that claimed, or revoked, s.                       *)
ClaimedBy(c, s) == Answered(c, "claim", 201) /\ request[c].label = s
RevokedBy(c, s) ==
  /\ request[c].route = "revoke" /\ request[c].label = s
  /\ progress[c] = "committed" \/ Answered(c, "revoke", 200)

(* What a call did, or was refused for, is still visible in the claims.     *)
CallInv(c) ==
  LET s == request[c].label IN
  /\ progress[c] = "committed" => request[c].route = "revoke" /\ mu = s
  /\ RevokedBy(c, s) => s \in Subdomains /\ claims[s].revoked
  /\ Answered(c, "revoke", 409) /\ request[c].expectedRevision = 1 =>
       s \in Subdomains /\ claims[s].revoked
  /\ ClaimedBy(c, s) => s \in ListClaims /\ claims[s].token = answer[c].token
  /\ Answered(c, "claim", 409) => s \in ListClaims

(* One call at most did it.                                                 *)
OneCallInv ==
  \A c, d \in Callers : \A s \in Subdomains :
    /\ ClaimedBy(c, s) /\ ClaimedBy(d, s) => c = d
    /\ RevokedBy(c, s) /\ RevokedBy(d, s) => c = d

ApiInv ==
  /\ ApiTypeOK
  /\ \A c \in Callers : CallInv(c)
  /\ OneCallInv
  /\ ViewsAreConsistent
=============================================================================
