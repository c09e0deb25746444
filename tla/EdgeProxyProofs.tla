-------------------------- MODULE EdgeProxyProofs --------------------------
(***************************************************************************)
(* Proofs about the edge proxy, for any number of requests and sessions:   *)
(* no request is carried by a link that was closed before it arrived, and  *)
(* what the observer is told is what the visitor was sent.                 *)
(***************************************************************************)
EXTENDS EdgeProxy, TLAPS

LEMMA InitEstablishes == Init => IndInv
BY DEF Init, IndInv, TypeOK, StreamInv, AnswerInv, ObservedTruly, Places, Statuses,
       NoObservation, Unanswered

-----------------------------------------------------------------------------
(* What a session's life does to requests: their streams may end, nothing   *)
(* else, and no session is ever opened again once it was closed.            *)
LEMMA SessionsKeepRequests ==
  ASSUME IndInv, TypeOK', closed \subseteq closed',
         UNCHANGED <<at, gone, link, visitorVars, canceled, opener, answerVars>>,
         \A r \in Requests : \/ stream'[r] = stream[r]
                             \/ stream[r] = "open" /\ stream'[r] = "closed"
  PROVE  IndInv'
<1> SUFFICES ASSUME NEW r \in Requests
             PROVE  StreamInv(r)' /\ AnswerInv(r)' /\ ObservedTruly(r)'
  BY DEF IndInv
<1>1. StreamInv(r) /\ AnswerInv(r) /\ ObservedTruly(r)
  BY DEF IndInv
<1>2. UNCHANGED <<recorded, wire, body, seen>>
  BY DEF answerVars
<1>3. StreamInv(r)'
  BY <1>1 DEF StreamInv
<1>4. AnswerInv(r)'
  BY <1>1, <1>2 DEF AnswerInv
<1>5. ObservedTruly(r)'
  BY <1>1, <1>2 DEF ObservedTruly
<1> QED
  BY <1>3, <1>4, <1>5

LEMMA StutterKeeps ==
  ASSUME IndInv, UNCHANGED vars
  PROVE  IndInv'
<1>1. TypeOK'
  BY DEF IndInv, TypeOK, vars
<1> QED
  BY <1>1, SessionsKeepRequests DEF vars, answerVars, visitorVars

(* A step of one request leaves the others alone.                           *)
LEMMA OthersKeep ==
  ASSUME IndInv, NEW r \in Requests, TypeOK', UNCHANGED sessionVars,
         \A q \in Requests : q # r =>
           /\ at'[q] = at[q] /\ gone'[q] = gone[q] /\ link'[q] = link[q]
           /\ opener'[q] = opener[q] /\ stream'[q] = stream[q]
           /\ recorded'[q] = recorded[q] /\ wire'[q] = wire[q] /\ seen'[q] = seen[q]
           /\ body'[q] = body[q],
         canceled \subseteq canceled',
         StreamInv(r)', AnswerInv(r)', ObservedTruly(r)'
  PROVE  IndInv'
<1> SUFFICES ASSUME NEW q \in Requests, q # r
             PROVE  StreamInv(q)' /\ AnswerInv(q)' /\ ObservedTruly(q)'
  BY DEF IndInv
<1>1. StreamInv(q) /\ AnswerInv(q) /\ ObservedTruly(q)
  BY DEF IndInv
<1>2. /\ closed' = closed
      /\ q \in canceled => q \in canceled'
      /\ at'[q] = at[q] /\ stream'[q] = stream[q]
      /\ recorded'[q] = recorded[q] /\ wire'[q] = wire[q] /\ body'[q] = body[q]
  BY DEF sessionVars
<1>3. StreamInv(q)'
  BY <1>1, <1>2 DEF StreamInv
<1>4. AnswerInv(q)'
  <2>1. /\ recorded'[q] = wire'[q]
        /\ at'[q] \in Unanswered => wire'[q] = 0 /\ body'[q] = "none"
    BY <1>1, <1>2, Zenon DEF AnswerInv
  <2>5. /\ at'[q] = "copying" => wire'[q] = 200 /\ body'[q] = "part"
        /\ at'[q] = "upgraded" => wire'[q] = 101 /\ body'[q] = "none"
    BY <1>1, <1>2, Zenon DEF AnswerInv
  <2>2. at'[q] = "aborted" => wire'[q] = 200 /\ body'[q] = "part"
    BY <1>1, <1>2, Zenon DEF AnswerInv
  <2>3. /\ at'[q] = "given up" => q \in canceled'
        /\ at'[q] = "finished" => body'[q] # "part"
    BY <1>1, <1>2, Zenon DEF AnswerInv
  <2>4. at'[q] = "finished" => wire'[q] # 0 \/ q \in canceled'
    BY <1>1, <1>2, Zenon DEF AnswerInv
  <2> QED
    BY <2>1, <2>2, <2>3, <2>4, <2>5, Zenon DEF AnswerInv, Unanswered
<1>5. ObservedTruly(q)'
  BY <1>1, <1>2 DEF ObservedTruly
<1> QED
  BY <1>3, <1>4, <1>5

LEMMA SessionStep ==
  ASSUME IndInv, NEW s \in Sessions,
         \/ Attach(s) \/ Close(s) \/ CloseFrame(s) \/ Break(s) \/ ShutdownCut(s)
         \/ Detach(s)
         \/ \E acknowledged \in BOOLEAN : Cut(s, acknowledged)
  PROVE  IndInv'
<1>1. TypeOK
  BY DEF IndInv
<1>2. TypeOK'
  <2>1. CASE Attach(s)
    BY <1>1, <2>1 DEF TypeOK, Attach, openVars, answerVars, visitorVars
  <2>2. CASE Close(s)
    BY <1>1, <2>2 DEF TypeOK, Close, openVars, answerVars, visitorVars
  <2>3. CASE CloseFrame(s) \/ Detach(s)
    BY <1>1, <2>3 DEF TypeOK, CloseFrame, Detach, openVars, answerVars, visitorVars
  <2>4. CASE Break(s) \/ ShutdownCut(s)
    BY <1>1, <2>4 DEF TypeOK, Break, ShutdownCut, StreamsWithout, answerVars, visitorVars
  <2>5. CASE \E acknowledged \in BOOLEAN : Cut(s, acknowledged)
    BY <1>1, <2>5 DEF TypeOK, Cut, StreamsWithout, answerVars, visitorVars
  <2> QED
    BY <2>1, <2>2, <2>3, <2>4, <2>5
<1>3. stream' = stream \/ stream' = StreamsWithout(s)
  BY DEF Attach, Close, CloseFrame, Break, ShutdownCut, Detach, Cut, openVars, visitorVars
<1>4. \A r \in Requests : \/ stream'[r] = stream[r]
                          \/ stream[r] = "open" /\ stream'[r] = "closed"
  BY <1>3 DEF StreamsWithout
<1>5. closed \subseteq closed' /\ UNCHANGED <<at, gone, link, visitorVars, canceled, opener, answerVars>>
  BY DEF Attach, Close, CloseFrame, Break, ShutdownCut, Detach, Cut, openVars, visitorVars
<1> QED
  BY <1>2, <1>4, <1>5, SessionsKeepRequests

LEMMA EvictStep ==
  ASSUME IndInv, Evict
  PROVE  IndInv'
<1>1. TypeOK'
  BY DEF IndInv, TypeOK, Evict, openVars, answerVars, visitorVars
<1> QED
  BY <1>1, SessionsKeepRequests DEF Evict, openVars, visitorVars

-----------------------------------------------------------------------------
(* The invariant, step by step along a request.                             *)

(* A final status settles the recorder and reaches the visitor, if none did *)
(* before.                                                                  *)
LEMMA FinalStatusIsSent ==
  ASSUME TypeOK, NEW r \in Requests, NEW status \in {101, 200, 404, 502},
         recorded[r] = 0, wire[r] = 0, WriteHeader(r, status)
  PROVE  /\ recorded' \in [Requests -> Statuses] /\ wire' \in [Requests -> Statuses]
         /\ recorded'[r] = status /\ wire'[r] = status
         /\ \A q \in Requests : q # r => recorded'[q] = recorded[q] /\ wire'[q] = wire[q]
<1>1. Settles(status) /\ status \in Statuses
  BY DEF Settles, Statuses
<1> QED
  BY <1>1 DEF WriteHeader, TypeOK

(* The request has no stream yet, and gets none by this step.               *)
LEMMA ArriveSteps ==
  ASSUME IndInv, NEW r \in Requests, Resolve(r) \/ NoSuchHost(r) \/ Lookup(r) \/ NoAgent(r)
  PROVE  IndInv'
<1>1. TypeOK /\ StreamInv(r) /\ AnswerInv(r)
  BY DEF IndInv
<1>2. CASE Resolve(r)
  <2>1. /\ TypeOK' /\ at'[r] = "resolved" /\ gone'[r] = closed /\ at[r] = "new"
        /\ \A q \in Requests : q # r => at'[q] = at[q] /\ gone'[q] = gone[q]
    BY <1>1, <1>2 DEF Resolve, Move, TypeOK, Places, sessionVars, openVars, answerVars, visitorVars
  <2>2. UNCHANGED <<sessionVars, closed, link, visitorVars, canceled, opener, stream, recorded, wire, body, seen>>
    BY <1>2 DEF Resolve, sessionVars, openVars, answerVars, visitorVars
  <2>3. StreamInv(r)' /\ AnswerInv(r)' /\ ObservedTruly(r)'
    BY <1>1, <2>1, <2>2 DEF StreamInv, AnswerInv, ObservedTruly, Unanswered
  <2> QED
    BY <2>1, <2>2, <2>3, OthersKeep
<1>3. CASE Lookup(r)
  <2>1. /\ TypeOK' /\ at'[r] = "routed" /\ at[r] = "resolved"
        /\ \A q \in Requests : q # r => at'[q] = at[q] /\ link'[q] = link[q]
    BY <1>1, <1>3 DEF Lookup, Move, TypeOK, Places, sessionVars, openVars, answerVars, visitorVars
  <2>2. UNCHANGED <<sessionVars, closed, gone, visitorVars, canceled, opener, stream, recorded, wire, body, seen>>
    BY <1>3 DEF Lookup, sessionVars, openVars, answerVars, visitorVars
  <2>3. StreamInv(r)' /\ AnswerInv(r)' /\ ObservedTruly(r)'
    BY <1>1, <2>1, <2>2 DEF StreamInv, AnswerInv, ObservedTruly, Unanswered
  <2> QED
    BY <2>1, <2>2, <2>3, OthersKeep
<1>4. CASE NoSuchHost(r) \/ NoAgent(r)
  <2>1. PICK status \in {404, 502} : WriteHeader(r, status)
    BY <1>4 DEF NoSuchHost, NoAgent
  <2>2. /\ at' = [at EXCEPT ![r] = "finished"] /\ at[r] \in {"new", "resolved"}
        /\ recorded[r] = 0 /\ wire[r] = 0
    BY <1>1, <1>4 DEF NoSuchHost, NoAgent, Move, AnswerInv, Unanswered
  <2>3. /\ recorded' \in [Requests -> Statuses] /\ wire' \in [Requests -> Statuses]
        /\ recorded'[r] = status /\ wire'[r] = status
        /\ \A q \in Requests : q # r => recorded'[q] = recorded[q] /\ wire'[q] = wire[q]
    BY <1>1, <2>1, <2>2, FinalStatusIsSent
  <2>4. /\ TypeOK' /\ at'[r] = "finished" /\ at[r] \in {"new", "resolved"}
        /\ \A q \in Requests : q # r => at'[q] = at[q]
    <3>1. /\ at' \in [Requests -> Places] /\ at'[r] = "finished"
          /\ \A q \in Requests : q # r => at'[q] = at[q]
      <4>1. at \in [Requests -> Places] /\ "finished" \in Places
        BY <1>1 DEF TypeOK, Places
      <4> QED
        BY <2>2, <4>1
    <3> QED
      BY <1>1, <1>4, <2>2, <2>3, <3>1
         DEF NoSuchHost, NoAgent, TypeOK, sessionVars, openVars, visitorVars
  <2>5. /\ UNCHANGED <<sessionVars, closed, gone, link, visitorVars, canceled, opener, stream>>
        /\ UNCHANGED <<body, seen>>
    BY <1>4 DEF NoSuchHost, NoAgent, sessionVars, openVars, visitorVars
  <2>6. StreamInv(r)'
    BY <1>1, <2>4, <2>5 DEF StreamInv
  <2>7. AnswerInv(r)' /\ ObservedTruly(r)'
    <3>1. body[r] = "none"
      BY <1>1, <2>4 DEF AnswerInv, Unanswered
    <3> QED
      BY <2>3, <2>4, <2>5, <3>1 DEF AnswerInv, ObservedTruly, Unanswered
  <2> QED
    BY <2>3, <2>4, <2>5, <2>6, <2>7, OthersKeep
<1> QED
  BY <1>2, <1>3, <1>4

(* What the visitor does: leave, stop reading, read on.                     *)
LEMMA VisitorSteps ==
  ASSUME IndInv, NEW r \in Requests, Cancel(r) \/ Stall(r) \/ Resume(r)
  PROVE  IndInv'
<1>1. TypeOK /\ StreamInv(r) /\ AnswerInv(r) /\ ObservedTruly(r)
  BY DEF IndInv
<1>2. /\ UNCHANGED <<sessionVars, closed, at, gone, link, opener, stream>>
      /\ UNCHANGED <<recorded, wire, body, seen>>
      /\ canceled \subseteq canceled'
  BY DEF Cancel, Stall, Resume, sessionVars, openVars, answerVars
<1>3. TypeOK'
  BY <1>1 DEF Cancel, Stall, Resume, TypeOK, sessionVars, openVars, answerVars
<1>4. StreamInv(r)' /\ AnswerInv(r)' /\ ObservedTruly(r)'
  BY <1>1, <1>2 DEF StreamInv, AnswerInv, ObservedTruly
<1> QED
  BY <1>2, <1>3, <1>4, OthersKeep

(* Open looks at the closed flag before it asks the multiplexer.            *)
LEMMA OpenSteps ==
  ASSUME IndInv, NEW r \in Requests,
         OpenRefused(r) \/ OpenStarts(r) \/ OpenReturns(r) \/ OpenAbandoned(r)
  PROVE  IndInv'
<1>1. TypeOK /\ StreamInv(r) /\ AnswerInv(r)
  BY DEF IndInv
<1>2. UNCHANGED <<sessionVars, closed, gone, link, visitorVars, canceled, stream, recorded, wire, body, seen>>
  BY DEF OpenRefused, OpenStarts, OpenReturns, OpenAbandoned, sessionVars, openVars, answerVars, visitorVars
<1>3. CASE OpenRefused(r)
  <2>1. /\ TypeOK' /\ opener' = opener /\ at[r] = "routed"
        /\ at'[r] = IF r \in canceled THEN "given up" ELSE "failed"
        /\ \A q \in Requests : q # r => at'[q] = at[q]
    BY <1>1, <1>3 DEF OpenRefused, Move, TypeOK, Places, sessionVars, openVars, answerVars, visitorVars
  <2>2. StreamInv(r)' /\ AnswerInv(r)' /\ ObservedTruly(r)'
    BY <1>1, <1>2, <2>1 DEF StreamInv, AnswerInv, ObservedTruly, Unanswered
  <2> QED
    BY <1>2, <2>1, <2>2, OthersKeep
<1>4. CASE OpenStarts(r)
  <2>1. /\ TypeOK' /\ opener'[r] = "pending" /\ at[r] = "routed" /\ at'[r] = "opening"
        /\ link[r] \notin closed
        /\ \A q \in Requests : q # r => at'[q] = at[q] /\ opener'[q] = opener[q]
    BY <1>1, <1>4 DEF OpenStarts, MayOpen, Move, TypeOK, Places, sessionVars, answerVars, visitorVars
  <2>2. StreamInv(r)' /\ AnswerInv(r)' /\ ObservedTruly(r)'
    BY <1>1, <1>2, <2>1 DEF StreamInv, AnswerInv, ObservedTruly, Unanswered
  <2> QED
    BY <1>2, <2>1, <2>2, OthersKeep
<1>5. CASE OpenReturns(r)
  <2>1. /\ TypeOK' /\ opener' = opener /\ at[r] = "opening"
        /\ at'[r] = IF opener[r] = "opened" THEN "waiting" ELSE "failed"
        /\ \A q \in Requests : q # r => at'[q] = at[q]
    BY <1>1, <1>5 DEF OpenReturns, Move, TypeOK, Places, sessionVars, openVars, answerVars, visitorVars
  <2>2. StreamInv(r)' /\ AnswerInv(r)' /\ ObservedTruly(r)'
    BY <1>1, <1>2, <2>1 DEF StreamInv, AnswerInv, ObservedTruly, Unanswered
  <2> QED
    BY <1>2, <2>1, <2>2, OthersKeep
<1>6. CASE OpenAbandoned(r)
  <2>1. /\ TypeOK' /\ opener' = opener /\ at[r] = "opening" /\ at'[r] = "given up"
        /\ r \in canceled
        /\ \A q \in Requests : q # r => at'[q] = at[q]
    BY <1>1, <1>6 DEF OpenAbandoned, Move, TypeOK, Places, sessionVars, answerVars, visitorVars
  <2>2. StreamInv(r)' /\ AnswerInv(r)' /\ ObservedTruly(r)'
    BY <1>1, <1>2, <2>1 DEF StreamInv, AnswerInv, ObservedTruly, Unanswered
  <2> QED
    BY <1>2, <2>1, <2>2, OthersKeep
<1> QED
  BY <1>3, <1>4, <1>5, <1>6

(* The multiplexer, the agent that ends a stream, and the goroutine that    *)
(* closes what is opened too late.                                          *)
LEMMA CarrySteps ==
  ASSUME IndInv, NEW r \in Requests, MuxOpens(r) \/ MuxFails(r) \/ DrainLate(r) \/ Truncate(r)
  PROVE  IndInv'
<1>1. TypeOK /\ StreamInv(r) /\ AnswerInv(r) /\ ObservedTruly(r)
  BY DEF IndInv
<1>2. UNCHANGED <<sessionVars, closed, at, gone, link, visitorVars, canceled, recorded, wire, body, seen>>
  BY DEF MuxOpens, MuxFails, DrainLate, Truncate, sessionVars, answerVars, visitorVars
<1>3. CASE MuxOpens(r)
  <2>1. /\ TypeOK' /\ opener[r] = "pending" /\ opener'[r] = "opened" /\ stream'[r] = "open"
        /\ \A q \in Requests : q # r => opener'[q] = opener[q] /\ stream'[q] = stream[q]
    BY <1>1, <1>3 DEF MuxOpens, TypeOK, sessionVars, answerVars, visitorVars
  <2>2. StreamInv(r)' /\ AnswerInv(r)' /\ ObservedTruly(r)'
    BY <1>1, <1>2, <2>1 DEF StreamInv, AnswerInv, ObservedTruly
  <2> QED
    BY <1>2, <2>1, <2>2, OthersKeep
<1>4. CASE MuxFails(r)
  <2>1. /\ TypeOK' /\ opener[r] = "pending" /\ opener'[r] = "failed" /\ stream' = stream
        /\ \A q \in Requests : q # r => opener'[q] = opener[q]
    BY <1>1, <1>4 DEF MuxFails, TypeOK, sessionVars, answerVars, visitorVars
  <2>2. StreamInv(r)' /\ AnswerInv(r)' /\ ObservedTruly(r)'
    BY <1>1, <1>2, <2>1 DEF StreamInv, AnswerInv, ObservedTruly
  <2> QED
    BY <1>2, <2>1, <2>2, OthersKeep
<1>5. CASE DrainLate(r)
  <2>1. /\ TypeOK' /\ opener' = opener
        /\ stream'[r] = IF stream[r] = "open" THEN "closed" ELSE stream[r]
        /\ \A q \in Requests : q # r => stream'[q] = stream[q]
    BY <1>1, <1>5 DEF DrainLate, Discard, TypeOK, sessionVars, answerVars, visitorVars
  <2>2. StreamInv(r)' /\ AnswerInv(r)' /\ ObservedTruly(r)'
    BY <1>1, <1>2, <2>1 DEF StreamInv, AnswerInv, ObservedTruly
  <2> QED
    BY <1>2, <2>1, <2>2, OthersKeep
<1>6. CASE Truncate(r)
  <2>1. /\ TypeOK' /\ opener' = opener /\ stream[r] = "open" /\ stream'[r] = "closed"
        /\ \A q \in Requests : q # r => stream'[q] = stream[q]
    BY <1>1, <1>6 DEF Truncate, TypeOK, sessionVars, answerVars, visitorVars
  <2>2. StreamInv(r)' /\ AnswerInv(r)' /\ ObservedTruly(r)'
    BY <1>1, <1>2, <2>1 DEF StreamInv, AnswerInv, ObservedTruly
  <2> QED
    BY <1>2, <2>1, <2>2, OthersKeep
<1> QED
  BY <1>3, <1>4, <1>5, <1>6

-----------------------------------------------------------------------------
(* The answer.                                                              *)

LEMMA EarlyHintsStep ==
  ASSUME IndInv, NEW r \in Requests, EarlyHints(r)
  PROVE  IndInv'
<1>1. ~Settles(103) /\ 103 \notin Statuses
  BY DEF Settles, Statuses
<1>2. TypeOK
  BY DEF IndInv
<1>3. recorded' = recorded /\ wire' = wire
  BY <1>1, <1>2 DEF EarlyHints, WriteHeader, TypeOK
<1>4. UNCHANGED vars
  BY <1>3 DEF EarlyHints, vars, sessionVars, openVars, visitorVars
<1> QED
  BY <1>4, StutterKeeps

LEMMA AnswerStep ==
  ASSUME IndInv, NEW r \in Requests, Answer(r)
  PROVE  IndInv'
<1>1. TypeOK /\ StreamInv(r) /\ AnswerInv(r)
  BY DEF IndInv
<1>2. /\ at[r] = "waiting" /\ recorded[r] = 0 /\ wire[r] = 0 /\ body[r] = "none"
      /\ UNCHANGED <<sessionVars, closed, gone, link, visitorVars, canceled, opener, stream, seen, drain>>
  BY <1>1 DEF Answer, Move, AnswerInv, Unanswered, sessionVars, openVars, visitorVars
<1>3. PICK place \in {"copying", "upgraded"}, status \in {200, 101} :
        /\ place = "copying" <=> status = 200
        /\ at' = [at EXCEPT ![r] = place] /\ WriteHeader(r, status)
        /\ body' = IF status = 200 THEN [body EXCEPT ![r] = "part"] ELSE body
  BY DEF Answer, Move
<1>4. /\ recorded' \in [Requests -> Statuses] /\ wire' \in [Requests -> Statuses]
      /\ recorded'[r] = status /\ wire'[r] = status
      /\ \A q \in Requests : q # r => recorded'[q] = recorded[q] /\ wire'[q] = wire[q]
  BY <1>1, <1>2, <1>3, FinalStatusIsSent
<1>5. /\ body' \in [Requests -> {"none", "part", "whole"}]
      /\ body'[r] = IF status = 200 THEN "part" ELSE "none"
      /\ \A q \in Requests : q # r => body'[q] = body[q]
  BY <1>1, <1>2, <1>3 DEF TypeOK
<1>8. /\ TypeOK' /\ at'[r] = place
      /\ \A q \in Requests : q # r => at'[q] = at[q]
  <2>1. /\ at' \in [Requests -> Places] /\ at'[r] = place
        /\ \A q \in Requests : q # r => at'[q] = at[q]
    <3>1. at \in [Requests -> Places] /\ place \in Places
      BY <1>1, <1>3 DEF TypeOK, Places
    <3> QED
      BY <1>3, <3>1
  <2> QED
    BY <1>1, <1>2, <1>4, <1>5, <2>1 DEF TypeOK, sessionVars, visitorVars
<1>6. StreamInv(r)'
  BY <1>1, <1>2, <1>3, <1>8 DEF StreamInv
<1>7. AnswerInv(r)' /\ ObservedTruly(r)'
  BY <1>3, <1>4, <1>5, <1>8 DEF AnswerInv, ObservedTruly, Unanswered
<1> QED
  BY <1>2, <1>4, <1>5, <1>6, <1>7, <1>8, OthersKeep

LEMMA UpstreamErrorStep ==
  ASSUME IndInv, NEW r \in Requests, UpstreamError(r)
  PROVE  IndInv'
<1>1. TypeOK /\ StreamInv(r) /\ AnswerInv(r)
  BY DEF IndInv
<1>2. /\ recorded[r] = 0 /\ wire[r] = 0 /\ body[r] = "none" /\ body' = body
      /\ at' = [at EXCEPT ![r] = "finished"]
      /\ at[r] \in {"failed", "given up"}
      /\ UNCHANGED <<sessionVars, closed, gone, link, visitorVars, canceled, opener, stream, seen, drain>>
  BY <1>1 DEF UpstreamError, Move, AnswerInv, Unanswered, sessionVars, openVars, visitorVars
<1>3. /\ recorded' \in [Requests -> Statuses] /\ wire' \in [Requests -> Statuses]
      /\ recorded'[r] = wire'[r]
      /\ wire'[r] # 0 \/ r \in canceled
      /\ \A q \in Requests : q # r => recorded'[q] = recorded[q] /\ wire'[q] = wire[q]
  <2>1. CASE WriteHeader(r, 502)
    <3>1. /\ recorded' \in [Requests -> Statuses] /\ wire' \in [Requests -> Statuses]
          /\ recorded'[r] = 502 /\ wire'[r] = 502
          /\ \A q \in Requests : q # r => recorded'[q] = recorded[q] /\ wire'[q] = wire[q]
      BY <1>1, <1>2, <2>1, FinalStatusIsSent
    <3>2. wire'[r] # 0
      BY <3>1
    <3> QED
      BY <3>1, <3>2
  <2>2. CASE at[r] = "given up" /\ UNCHANGED <<recorded, wire>>
    BY <1>1, <2>2 DEF TypeOK, AnswerInv
  <2> QED
    BY <2>1, <2>2 DEF UpstreamError, Move
<1>4. /\ TypeOK' /\ at'[r] = "finished"
      /\ \A q \in Requests : q # r => at'[q] = at[q]
  BY <1>1, <1>2, <1>3 DEF TypeOK, Places, sessionVars, visitorVars
<1>5. StreamInv(r)' /\ AnswerInv(r)' /\ ObservedTruly(r)'
  BY <1>1, <1>2, <1>3, <1>4 DEF StreamInv, AnswerInv, ObservedTruly, Unanswered
<1> QED
  BY <1>2, <1>3, <1>4, <1>5, OthersKeep

(* The round trip or the copy ends, well or badly, and closes the stream.   *)
LEMMA StreamEndSteps ==
  ASSUME IndInv, NEW r \in Requests, RoundTripFails(r) \/ CopyEnds(r) \/ CopyFails(r)
  PROVE  IndInv'
<1>1. TypeOK /\ StreamInv(r) /\ AnswerInv(r)
  BY DEF IndInv
<1>2. /\ UNCHANGED <<sessionVars, closed, gone, link, visitorVars, canceled, opener, recorded, wire, seen, drain>>
      /\ Discard(r)
  BY DEF RoundTripFails, CopyEnds, CopyFails, sessionVars, answerVars, visitorVars
<1>3. PICK place \in {"failed", "given up", "finished", "aborted"} :
        /\ at' = [at EXCEPT ![r] = place]
        /\ place \in {"failed", "given up"} => at[r] = "waiting"
        /\ place = "given up" => r \in canceled
        /\ place = "finished" => at[r] \in {"copying", "upgraded"}
        /\ place = "aborted" => at[r] = "copying"
        /\ body' = IF place = "finished" /\ at[r] = "copying"
                   THEN [body EXCEPT ![r] = "whole"] ELSE body
  BY DEF RoundTripFails, CopyEnds, CopyFails, Move, answerVars
<1>4. /\ stream' \in [Requests -> {"none", "open", "closed"}]
      /\ stream'[r] = IF stream[r] = "open" THEN "closed" ELSE stream[r]
      /\ \A q \in Requests : q # r => stream'[q] = stream[q]
  BY <1>1, <1>2 DEF Discard, TypeOK
<1>10. /\ body' \in [Requests -> {"none", "part", "whole"}]
       /\ body'[r] = IF place = "finished" /\ at[r] = "copying" THEN "whole" ELSE body[r]
       /\ \A q \in Requests : q # r => body'[q] = body[q]
  BY <1>1, <1>3 DEF TypeOK
<1>5. /\ TypeOK' /\ at'[r] = place
      /\ \A q \in Requests : q # r => at'[q] = at[q]
  <2>1. /\ at' \in [Requests -> Places] /\ at'[r] = place
        /\ \A q \in Requests : q # r => at'[q] = at[q]
    <3>1. at \in [Requests -> Places] /\ place \in Places
      BY <1>1, <1>3 DEF TypeOK, Places
    <3> QED
      BY <1>3, <3>1
  <2> QED
    BY <1>1, <1>2, <1>4, <1>10, <2>1 DEF TypeOK, sessionVars, visitorVars
<1>6. stream[r] \in {"none", "open", "closed"}
  BY <1>1 DEF TypeOK
<1>7. StreamInv(r)'
  BY <1>1, <1>2, <1>3, <1>4, <1>5, <1>6 DEF StreamInv
<1>8. AnswerInv(r)'
  <2>1. place = "aborted" => wire[r] = 200 /\ body'[r] = "part"
    BY <1>1, <1>3, <1>10 DEF AnswerInv
  <2>2. place \in {"failed", "given up"} => wire[r] = 0 /\ body'[r] = "none"
    BY <1>1, <1>3, <1>10 DEF AnswerInv, Unanswered
  <2>3. place = "finished" => wire[r] # 0 /\ body'[r] # "part"
    <3>1. place = "finished" => wire[r] \in {101, 200}
      BY <1>1, <1>3 DEF AnswerInv
    <3>2. place = "finished" => body'[r] # "part"
      BY <1>1, <1>3, <1>10 DEF AnswerInv
    <3> QED
      BY <3>1, <3>2
  <2>4. recorded[r] = wire[r]
    BY <1>1 DEF AnswerInv
  <2> QED
    BY <1>2, <1>3, <1>5, <2>1, <2>2, <2>3, <2>4 DEF AnswerInv, Unanswered
<1>9. ObservedTruly(r)'
  BY <1>3, <1>5 DEF ObservedTruly
<1> QED
  BY <1>2, <1>4, <1>5, <1>7, <1>8, <1>9, <1>10, OthersKeep

LEMMA RecordStep ==
  ASSUME IndInv, NEW r \in Requests, Record(r)
  PROVE  IndInv'
<1>1. TypeOK /\ StreamInv(r) /\ AnswerInv(r)
  BY DEF IndInv
<1>2. /\ UNCHANGED <<sessionVars, closed, gone, link, visitorVars, canceled, opener, stream, drain>>
      /\ UNCHANGED <<recorded, wire, body>>
      /\ at[r] \in {"finished", "aborted"} /\ at' = [at EXCEPT ![r] = "observed"]
      /\ seen' = [seen EXCEPT ![r] = [status |-> recorded[r], aborted |-> at[r] = "aborted"]]
  BY DEF Record, sessionVars, openVars, visitorVars
<1>3. [status |-> recorded[r], aborted |-> at[r] = "aborted"]
        \in [status : Statuses \cup {-1}, aborted : BOOLEAN]
  BY <1>1 DEF TypeOK
<1>4. /\ TypeOK' /\ at'[r] = "observed"
      /\ seen'[r] = [status |-> recorded[r], aborted |-> at[r] = "aborted"]
      /\ \A q \in Requests : q # r => at'[q] = at[q] /\ seen'[q] = seen[q]
  BY <1>1, <1>2, <1>3 DEF TypeOK, Places, sessionVars, visitorVars
<1>5. StreamInv(r)' /\ AnswerInv(r)'
  BY <1>1, <1>2, <1>4 DEF StreamInv, AnswerInv, Unanswered
<1>6. ObservedTruly(r)'
  <2>1. CASE at[r] = "aborted"
    <3>1. recorded[r] = 200 /\ wire[r] = 200 /\ body[r] = "part"
      BY <1>1, <2>1 DEF AnswerInv
    <3>2. wire[r] # 0
      BY <3>1
    <3>3. seen'[r] = [status |-> recorded[r], aborted |-> TRUE]
      <4>1. (at[r] = "aborted") = TRUE
        BY <2>1
      <4> QED
        BY <1>4, <4>1, Zenon
    <3> QED
      BY <1>2, <3>1, <3>2, <3>3 DEF ObservedTruly
  <2>2. CASE at[r] = "finished"
    <3>1. recorded[r] = wire[r] /\ (wire[r] = 0 => r \in canceled) /\ body[r] # "part"
      BY <1>1, <2>2 DEF AnswerInv
    <3>2. seen'[r] = [status |-> recorded[r], aborted |-> FALSE]
      <4>1. (at[r] = "aborted") = FALSE
        BY <2>2
      <4> QED
        BY <1>4, <4>1, Zenon
    <3> QED
      BY <1>2, <3>1, <3>2 DEF ObservedTruly
  <2> QED
    BY <1>2, <2>1, <2>2
<1> QED
  BY <1>2, <1>4, <1>5, <1>6, OthersKeep

LEMMA StepPreserves == IndInv /\ [Next]_vars => IndInv'
<1> SUFFICES ASSUME IndInv, [Next]_vars PROVE IndInv'
  OBVIOUS
<1>1. CASE \E r \in Requests :
             \/ Resolve(r) \/ NoSuchHost(r) \/ Cancel(r) \/ Stall(r) \/ Resume(r)
             \/ Truncate(r) \/ EarlyHints(r) \/ Answer(r) \/ CopyEnds(r)
             \/ Proceed(r) \/ Carry(r) \/ DrainLate(r)
  BY <1>1, ArriveSteps, VisitorSteps, OpenSteps, CarrySteps, EarlyHintsStep, AnswerStep,
     UpstreamErrorStep, StreamEndSteps, RecordStep DEF Proceed, Carry
<1>2. CASE UNCHANGED vars
  BY <1>2, StutterKeeps
<1> QED
  BY <1>1, <1>2, EvictStep, SessionStep DEF Next

-----------------------------------------------------------------------------
(* Streams, answers and records fit together at every step, whatever        *)
(* happens to the sessions meanwhile.                                       *)
THEOREM Inductive == Spec => []IndInv
BY InitEstablishes, StepPreserves, PTL DEF Spec

(* Every value the edge and the sessions hold has its type.                 *)
THEOREM TypeCorrect == Spec => []TypeOK
<1>1. IndInv => TypeOK
  BY DEF IndInv
<1> QED
  BY <1>1, Inductive, PTL

(* No request is carried by a link that was closed before it arrived, for   *)
(* any number of requests and sessions (link.go Open, proxy.go serve).      *)
THEOREM ClosedLinksCarryNothing == Spec => []NeverOnAClosedLink
<1>1. IndInv => NeverOnAClosedLink
  BY DEF IndInv, StreamInv, NeverOnAClosedLink
<1> QED
  BY <1>1, Inductive, PTL

(* The observer is told what the visitor was sent, and an abort exactly of  *)
(* a response that was started and cut short (record, recorder).            *)
THEOREM RecordIsTrue == Spec => []ObservationIsTrue
<1>1. IndInv => ObservationIsTrue
  BY DEF IndInv, ObservationIsTrue
<1> QED
  BY <1>1, Inductive, PTL
=============================================================================
