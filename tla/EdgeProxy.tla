----------------------------- MODULE EdgeProxy -----------------------------
(***************************************************************************)
(* Visitors' requests over agent links that come and go: the edge looks a  *)
(* link up once, opens one fresh stream on it and proxies the answer       *)
(* (specimens/ingress-tunnel/internal/edge), while sessions are replaced,  *)
(* evicted, shut down or lost (internal/link/link.go).  One subdomain is   *)
(* modelled; a request that names no tunnel is refused before any lookup.  *)
(***************************************************************************)
EXTENDS Integers

CONSTANTS
  Sessions,  \* the server's ends of agent links
  Requests,  \* visitors' requests
  None       \* no session

ASSUME SessionAssumption == None \notin Sessions

VARIABLES
  routed,    \* the routing table's entry for the subdomain
  doomed,    \* sessions taken from the table whose Close is still to come
  closed,    \* Session.closed
  socket,    \* the WebSocket and the multiplexer over it
  farewell,  \* sessions whose farewell goroutine runs
  at,        \* where each request is
  gone,      \* history: the sessions that were closed when a request arrived
  link,      \* the route a request resolved to
  canceled,  \* requests whose context has ended
  stalled,   \* requests whose visitor neither reads nor leaves
  opener,    \* the goroutine of Open that waits for the multiplexer
  drain,     \* abandoned Opens whose late stream somebody still closes
  stream,    \* the request's stream
  recorded,  \* recorder.status
  wire,      \* the final status the visitor was sent
  body,      \* history: how much of an answer's body the visitor was sent
  seen       \* what the observer was told

sessionVars == <<routed, doomed, closed, socket, farewell>>
visitorVars == <<canceled, stalled>>
openVars == <<opener, drain, stream>>
answerVars == <<recorded, wire, body, seen>>
vars == <<routed, doomed, closed, socket, farewell, at, gone, link, canceled, stalled,
          opener, drain, stream, recorded, wire, body, seen>>

Places == {"new", "resolved", "routed", "opening", "waiting", "copying", "upgraded",
           "failed", "given up", "finished", "aborted", "observed"}
Statuses == {0, 101, 200, 404, 502}
NoObservation == [status |-> -1, aborted |-> FALSE]

TypeOK ==
  /\ routed \in Sessions \cup {None}
  /\ doomed \subseteq Sessions /\ closed \subseteq Sessions /\ farewell \subseteq Sessions
  /\ socket \in [Sessions -> {"unused", "open", "closing", "cut"}]
  /\ at \in [Requests -> Places]
  /\ gone \in [Requests -> SUBSET Sessions]
  /\ link \in [Requests -> Sessions \cup {None}]
  /\ canceled \subseteq Requests /\ stalled \subseteq Requests /\ drain \subseteq Requests
  /\ opener \in [Requests -> {"none", "pending", "opened", "failed"}]
  /\ stream \in [Requests -> {"none", "open", "closed"}]
  /\ recorded \in [Requests -> Statuses]
  /\ wire \in [Requests -> Statuses]
  /\ body \in [Requests -> {"none", "part", "whole"}]
  /\ seen \in [Requests -> [status : Statuses \cup {-1}, aborted : BOOLEAN]]

Init ==
  /\ routed = None
  /\ doomed = {} /\ closed = {} /\ farewell = {}
  /\ socket = [s \in Sessions |-> "unused"]
  /\ at = [r \in Requests |-> "new"]
  /\ gone = [r \in Requests |-> {}]
  /\ link = [r \in Requests |-> None]
  /\ canceled = {} /\ stalled = {} /\ drain = {}
  /\ opener = [r \in Requests |-> "none"]
  /\ stream = [r \in Requests |-> "none"]
  /\ recorded = [r \in Requests |-> 0]
  /\ wire = [r \in Requests |-> 0]
  /\ body = [r \in Requests |-> "none"]
  /\ seen = [r \in Requests |-> NoObservation]

-----------------------------------------------------------------------------
(* The life of a session.  The table forgets a session before it is closed. *)

Attach(s) ==
  /\ socket[s] = "unused"
  /\ doomed = {}
  /\ socket' = [socket EXCEPT ![s] = "open"]
  /\ routed' = s
  /\ doomed' = {routed} \ {None}
  /\ UNCHANGED <<closed, farewell, at, gone, link, visitorVars, openVars, answerVars>>

Evict ==
  /\ routed # None
  /\ doomed = {}
  /\ routed' = None
  /\ doomed' = {routed}
  /\ UNCHANGED <<closed, socket, farewell, at, gone, link, visitorVars, openVars,
                 answerVars>>

(* Close refuses later Opens and spawns farewell, once: by the service for  *)
(* a doomed session, by the handler for the routed one at shutdown.         *)
Close(s) ==
  /\ s \in doomed \cup {routed}
  /\ doomed' = doomed \ {s}
  /\ closed' = closed \cup {s}
  /\ farewell' = IF s \in closed THEN farewell ELSE farewell \cup {s}
  /\ UNCHANGED <<routed, socket, at, gone, link, visitorVars, openVars, answerVars>>

(* farewell writes the close frame; from then on the WebSocket takes no     *)
(* other frame, and a mux.Open waits.                                       *)
CloseFrame(s) ==
  /\ s \in farewell
  /\ socket[s] = "open"
  /\ socket' = [socket EXCEPT ![s] = "closing"]
  /\ UNCHANGED <<routed, doomed, closed, farewell, at, gone, link, visitorVars, openVars,
                 answerVars>>

(* Every stream of a session ends with its multiplexer.                     *)
StreamsWithout(s) ==
  [r \in Requests |-> IF link[r] = s /\ stream[r] = "open" THEN "closed" ELSE stream[r]]

(* Mutant: farewell trusts the agent to acknowledge and has no grace.       *)
CutOnAcknowledgement(s, acknowledged) ==
  /\ acknowledged
  /\ s \in farewell
  /\ socket' = [socket EXCEPT ![s] = "cut"]
  /\ stream' = StreamsWithout(s)
  /\ closed' = closed \cup {s}
  /\ farewell' = farewell \ {s}
  /\ UNCHANGED <<routed, doomed, at, gone, link, visitorVars, opener, drain, answerVars>>

(* The agent acknowledged the frame, or farewellGrace has passed whether or *)
(* not the frame could be written.                                          *)
Cut(s, acknowledged) ==
  /\ s \in farewell
  /\ acknowledged => socket[s] # "open"
  /\ socket' = [socket EXCEPT ![s] = "cut"]
  /\ stream' = StreamsWithout(s)
  /\ closed' = closed \cup {s}
  /\ farewell' = farewell \ {s}
  /\ UNCHANGED <<routed, doomed, at, gone, link, visitorVars, opener, drain, answerVars>>

(* A missed keep-alive or a broken connection ends the multiplexer.         *)
Break(s) ==
  /\ socket[s] \in {"open", "closing"}
  /\ socket' = [socket EXCEPT ![s] = "cut"]
  /\ stream' = StreamsWithout(s)
  /\ UNCHANGED <<routed, doomed, closed, farewell, at, gone, link, visitorVars, opener, drain,
                 answerVars>>

(* The shutdown deadline cuts whatever session is left.                     *)
ShutdownCut(s) ==
  /\ socket[s] \in {"open", "closing"}
  /\ socket' = [socket EXCEPT ![s] = "cut"]
  /\ stream' = StreamsWithout(s)
  /\ closed' = closed \cup {s}
  /\ UNCHANGED <<routed, doomed, farewell, at, gone, link, visitorVars, opener, drain,
                 answerVars>>

(* The handler reports the loss of a session that still is the routed one.  *)
Detach(s) ==
  /\ doomed = {}
  /\ socket[s] = "cut"
  /\ routed = s
  /\ routed' = None
  /\ UNCHANGED <<doomed, closed, socket, farewell, at, gone, link, visitorVars, openVars,
                 answerVars>>

-----------------------------------------------------------------------------
(* One request.  Move changes its place only.                               *)

Move(r, from, to) == at[r] = from /\ at' = [at EXCEPT ![r] = to]

(* recorder.WriteHeader: 1xx other than 101 passes without settling.        *)
Settles(status) == status = 101 \/ status >= 200

WriteHeader(r, status) ==
  /\ recorded' = [recorded EXCEPT ![r] =
       IF @ = 0 /\ Settles(status) THEN status ELSE @]
  /\ wire' = [wire EXCEPT ![r] =
       IF @ = 0 /\ status \in Statuses THEN status ELSE @]

Resolve(r) ==
  /\ Move(r, "new", "resolved")
  /\ gone' = [gone EXCEPT ![r] = closed]
  /\ UNCHANGED <<sessionVars, link, visitorVars, openVars, answerVars>>

NoSuchHost(r) ==
  /\ Move(r, "new", "finished")
  /\ WriteHeader(r, 404)
  /\ UNCHANGED <<sessionVars, gone, link, visitorVars, openVars, body, seen>>

Lookup(r) ==
  /\ routed # None
  /\ Move(r, "resolved", "routed")
  /\ link' = [link EXCEPT ![r] = routed]
  /\ UNCHANGED <<sessionVars, gone, visitorVars, openVars, answerVars>>

NoAgent(r) ==
  /\ routed = None
  /\ Move(r, "resolved", "finished")
  /\ WriteHeader(r, 502)
  /\ UNCHANGED <<sessionVars, gone, link, visitorVars, openVars, body, seen>>

(* The visitor goes away, which ends the request's context and any Write    *)
(* that waits for it.                                                       *)
Cancel(r) ==
  /\ at[r] \in {"resolved", "routed", "opening", "waiting", "copying"}
  /\ canceled' = canceled \cup {r}
  /\ stalled' = stalled \ {r}
  /\ UNCHANGED <<sessionVars, at, gone, link, openVars, answerVars>>

(* The visitor stops reading and stays.  The edge sets no write timeout, so *)
(* the copy is held in its Write, whatever becomes of the stream, until the *)
(* visitor reads on or leaves.                                              *)
Stall(r) ==
  /\ at[r] \in {"copying", "upgraded"}
  /\ r \notin canceled
  /\ stalled' = stalled \cup {r}
  /\ UNCHANGED <<sessionVars, at, gone, link, canceled, openVars, answerVars>>

Resume(r) ==
  /\ r \in stalled
  /\ stalled' = stalled \ {r}
  /\ UNCHANGED <<sessionVars, at, gone, link, canceled, openVars, answerVars>>

-----------------------------------------------------------------------------
(* Session.Open.                                                            *)

(* Mutant: the closed flag is not consulted.                                *)
MayOpenAnyway(r) == r \notin canceled

MayOpen(r) == r \notin canceled /\ link[r] \notin closed

OpenRefused(r) ==
  /\ ~MayOpen(r)
  /\ Move(r, "routed", IF r \in canceled THEN "given up" ELSE "failed")
  /\ UNCHANGED <<sessionVars, gone, link, visitorVars, openVars, answerVars>>

OpenStarts(r) ==
  /\ MayOpen(r)
  /\ Move(r, "routed", "opening")
  /\ opener' = [opener EXCEPT ![r] = "pending"]
  /\ UNCHANGED <<sessionVars, gone, link, visitorVars, drain, stream, answerVars>>

MuxOpens(r) ==
  /\ opener[r] = "pending"
  /\ socket[link[r]] = "open"
  /\ opener' = [opener EXCEPT ![r] = "opened"]
  /\ stream' = [stream EXCEPT ![r] = "open"]
  /\ UNCHANGED <<sessionVars, at, gone, link, visitorVars, drain, answerVars>>

MuxFails(r) ==
  /\ opener[r] = "pending"
  /\ socket[link[r]] = "cut"
  /\ opener' = [opener EXCEPT ![r] = "failed"]
  /\ UNCHANGED <<sessionVars, at, gone, link, visitorVars, drain, stream, answerVars>>

OpenReturns(r) ==
  /\ opener[r] \in {"opened", "failed"}
  /\ Move(r, "opening", IF opener[r] = "opened" THEN "waiting" ELSE "failed")
  /\ UNCHANGED <<sessionVars, gone, link, visitorVars, openVars, answerVars>>

(* Mutant: an abandoned Open leaves its late stream to nobody.              *)
AbandonWithoutDrain(r) ==
  /\ r \in canceled
  /\ Move(r, "opening", "given up")
  /\ UNCHANGED <<sessionVars, gone, link, visitorVars, openVars, answerVars>>

(* select may prefer the ended context to a result that is ready.           *)
OpenAbandoned(r) ==
  /\ r \in canceled
  /\ Move(r, "opening", "given up")
  /\ drain' = drain \cup {r}
  /\ UNCHANGED <<sessionVars, gone, link, visitorVars, opener, stream, answerVars>>

Discard(r) == stream' = [stream EXCEPT ![r] = IF @ = "open" THEN "closed" ELSE @]

DrainLate(r) ==
  /\ r \in drain
  /\ opener[r] \in {"opened", "failed"}
  /\ Discard(r)
  /\ drain' = drain \ {r}
  /\ UNCHANGED <<sessionVars, at, gone, link, visitorVars, opener, answerVars>>

-----------------------------------------------------------------------------
(* The reverse proxy over the stream.                                       *)

(* The agent ends one stream while its link lives: its origin broke off, or *)
(* never answered.                                                          *)
Truncate(r) ==
  /\ stream[r] = "open"
  /\ stream' = [stream EXCEPT ![r] = "closed"]
  /\ UNCHANGED <<sessionVars, at, gone, link, visitorVars, opener, drain, answerVars>>

EarlyHints(r) ==
  /\ at[r] = "waiting"
  /\ stream[r] = "open"
  /\ WriteHeader(r, 103)
  /\ UNCHANGED <<sessionVars, at, gone, link, visitorVars, openVars, body, seen>>

Answer(r) ==
  /\ stream[r] = "open"
  /\ \/ /\ Move(r, "waiting", "copying") /\ WriteHeader(r, 200)
        /\ body' = [body EXCEPT ![r] = "part"]
     \/ /\ Move(r, "waiting", "upgraded") /\ WriteHeader(r, 101)
        /\ UNCHANGED body
  /\ UNCHANGED <<sessionVars, gone, link, visitorVars, openVars, seen>>

(* No answer: the stream ended, the header timeout passed, or the visitor   *)
(* left.  The transport closes its connection.                              *)
RoundTripFails(r) ==
  /\ \/ Move(r, "waiting", "failed")
     \/ r \in canceled /\ Move(r, "waiting", "given up")
  /\ Discard(r)
  /\ UNCHANGED <<sessionVars, gone, link, visitorVars, opener, drain, answerVars>>

(* upstreamError answers 502, or nothing when the visitor left.             *)
UpstreamError(r) ==
  /\ \/ Move(r, "failed", "finished") /\ WriteHeader(r, 502)
     \/ Move(r, "given up", "finished") /\ UNCHANGED <<recorded, wire>>
  /\ UNCHANGED <<sessionVars, gone, link, visitorVars, openVars, body, seen>>

(* The body, or the upgraded connection, is copied to its end.              *)
CopyEnds(r) ==
  /\ r \notin stalled
  /\ \/ /\ stream[r] = "open" /\ Move(r, "copying", "finished")
        /\ body' = [body EXCEPT ![r] = "whole"]
     \/ Move(r, "upgraded", "finished") /\ UNCHANGED body
  /\ Discard(r)
  /\ UNCHANGED <<sessionVars, gone, link, visitorVars, opener, drain, recorded, wire, seen>>

(* A copy that fails, because the stream ended within the body or the       *)
(* visitor left, panics with ErrAbortHandler.                               *)
CopyFails(r) ==
  /\ r \notin stalled
  /\ stream[r] # "open" \/ r \in canceled
  /\ Move(r, "copying", "aborted")
  /\ Discard(r)
  /\ UNCHANGED <<sessionVars, gone, link, visitorVars, opener, drain, answerVars>>

(* Mutant: a deferred call of record, whose arguments, recover() among      *)
(* them, are evaluated when it is deferred and not when the handler ends.   *)
RecordDeferredDirectly(r) ==
  /\ at[r] \in {"finished", "aborted"}
  /\ at' = [at EXCEPT ![r] = "observed"]
  /\ seen' = [seen EXCEPT ![r] = [status |-> recorded[r], aborted |-> FALSE]]
  /\ UNCHANGED <<sessionVars, gone, link, visitorVars, openVars, recorded, wire, body>>

(* The deferred record, on return and on panic.                             *)
Record(r) ==
  /\ at[r] \in {"finished", "aborted"}
  /\ at' = [at EXCEPT ![r] = "observed"]
  /\ seen' = [seen EXCEPT ![r] = [status |-> recorded[r], aborted |-> at[r] = "aborted"]]
  /\ UNCHANGED <<sessionVars, gone, link, visitorVars, openVars, recorded, wire, body>>

-----------------------------------------------------------------------------
(* Goroutines of the edge that proceed by themselves.                       *)
Proceed(r) ==
  \/ Lookup(r) \/ NoAgent(r)
  \/ OpenRefused(r) \/ OpenStarts(r) \/ OpenReturns(r) \/ OpenAbandoned(r)
  \/ RoundTripFails(r) \/ UpstreamError(r) \/ CopyFails(r) \/ Record(r)

(* An agent that has not answered yet; how long the edge then waits depends *)
(* on the visitor too, who may be slow to send the request's body.          *)
Unanswering(r) == at[r] = "waiting" /\ stream[r] = "open" /\ r \notin canceled

Carry(r) == MuxOpens(r) \/ MuxFails(r)

Next ==
  \/ Evict
  \/ \E s \in Sessions :
       \/ Attach(s) \/ Close(s) \/ CloseFrame(s) \/ Break(s) \/ ShutdownCut(s)
       \/ Detach(s)
       \/ \E acknowledged \in BOOLEAN : Cut(s, acknowledged)
  \/ \E r \in Requests :
       \/ Resolve(r) \/ NoSuchHost(r) \/ Cancel(r) \/ Stall(r) \/ Resume(r)
       \/ Truncate(r) \/ EarlyHints(r) \/ Answer(r) \/ CopyEnds(r)
       \/ Proceed(r) \/ Carry(r) \/ DrainLate(r)

Spec == Init /\ [][Next]_vars

(* Goroutines run, farewellGrace passes, and a stream that ended ends the   *)
(* wait for an answer and the upgraded connection.  Agents, visitors and    *)
(* operators need do nothing: nobody has to answer, to read or to leave.    *)
FairSpec ==
  /\ Spec
  /\ \A s \in Sessions : WF_vars(s \in doomed /\ Close(s)) /\ WF_vars(Cut(s, FALSE))
  /\ \A r \in Requests :
       /\ WF_vars(~Unanswering(r) /\ Proceed(r))
       /\ WF_vars(Carry(r)) /\ WF_vars(DrainLate(r))
       /\ WF_vars(stream[r] # "open" /\ CopyEnds(r))

-----------------------------------------------------------------------------
(* A request that arrives after a link was closed is never carried by it,   *)
(* whether the link was replaced, evicted, or shut down while still routed: *)
(* Open checks the flag that Close sets (link.go Open, proxy.go serve).     *)
NeverOnAClosedLink ==
  \A r \in Requests : stream[r] # "none" => link[r] \notin gone[r]

ObservedTruly(r) ==
  at[r] = "observed" =>
    /\ seen[r].status = wire[r]
    /\ wire[r] = 0 => r \in canceled
    /\ seen[r].aborted <=> body[r] = "part"

(* What the observer is told of a request is what its visitor was sent, and *)
(* aborted exactly when a response was started and cut short, by the loss   *)
(* of the link, by the agent or by the visitor (record, recorder).          *)
ObservationIsTrue == \A r \in Requests : ObservedTruly(r)

(* A request routed to a link that is then closed ends and is observed, by  *)
(* return or by panic, even if the agent is wedged and never acknowledges   *)
(* the close frame (farewell, cut, record), unless its own visitor holds it *)
(* by neither reading nor leaving, and then as soon as the visitor does.    *)
EvictionEndsRequests ==
  \A r \in Requests : \A s \in Sessions :
    (link[r] = s /\ s \in closed) ~> (at[r] = "observed" \/ r \in stalled)

(* Nobody's stream outlives its request: one that arrives after its caller  *)
(* gave up is closed as well (link.go Open).                                *)
NoStreamLeaks ==
  \A r \in Requests : (at[r] = "observed" /\ opener[r] # "none") ~> stream[r] # "open"
                      /\ opener[r] # "pending"

-----------------------------------------------------------------------------
(* The inductive invariant behind the safety proofs.                        *)

Unanswered == {"new", "resolved", "routed", "opening", "waiting", "failed", "given up"}

(* A stream exists once the multiplexer opened it, for a request whose link *)
(* was not closed when Open looked, hence not when the request arrived.     *)
StreamInv(r) ==
  /\ gone[r] \subseteq closed
  /\ at[r] \in {"new", "resolved", "routed"} => opener[r] = "none"
  /\ at[r] \in {"waiting", "copying", "upgraded", "aborted"} => opener[r] = "opened"
  /\ opener[r] = "opened" <=> stream[r] # "none"
  /\ opener[r] # "none" => link[r] \notin gone[r]

(* The recorder has what the visitor was sent, and every way to the end of  *)
(* the handler has sent something, or has lost its visitor.  A body that    *)
(* was started is whole when the handler returns, and not when it panics.   *)
AnswerInv(r) ==
  /\ recorded[r] = wire[r]
  /\ at[r] \in Unanswered => wire[r] = 0 /\ body[r] = "none"
  /\ at[r] = "copying" => wire[r] = 200 /\ body[r] = "part"
  /\ at[r] = "upgraded" => wire[r] = 101 /\ body[r] = "none"
  /\ at[r] = "aborted" => wire[r] = 200 /\ body[r] = "part"
  /\ at[r] = "given up" => r \in canceled
  /\ at[r] = "finished" => body[r] # "part" /\ (wire[r] # 0 \/ r \in canceled)

IndInv ==
  /\ TypeOK
  /\ \A r \in Requests : StreamInv(r) /\ AnswerInv(r) /\ ObservedTruly(r)
=============================================================================
