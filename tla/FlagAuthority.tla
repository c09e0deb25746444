--------------------------- MODULE FlagAuthority ---------------------------
(***************************************************************************)
(* What api.Authority promises the generated service of its store: every   *)
(* publication takes effect at one moment between its call and its answer, *)
(* at most once, and only on the revision it names; what Load returns is   *)
(* the last publication; a conflict is true when it is decided; an error   *)
(* leaves open whether the publication took effect, or still will.         *)
(***************************************************************************)
EXTENDS Sequences, Naturals

CONSTANTS Keys, Requests

VARIABLES
  calls,    \* the flag and the revision each request names
  history,  \* per flag, the requests that were published, in order
  loaded,   \* per flag, what Load returns: a revision and whose definition
  status    \* where each request is

Publication(k, r) == [revision |-> Len(history[k]) + 1, definition |-> r]

Init ==
  /\ calls \in [Requests -> [key : Keys, expected : Nat]]
  /\ history = [k \in Keys |-> << >>]
  /\ \A k \in Keys : loaded[k].revision = 0
  /\ status = [r \in Requests |-> "called"]

Apply(r) ==
  LET k == calls[r].key IN
  /\ status[r] = "called"
  /\ Len(history[k]) = calls[r].expected
  /\ history' = [history EXCEPT ![k] = Append(@, r)]
  /\ loaded' = [loaded EXCEPT ![k] = Publication(k, r)]
  /\ status' = [status EXCEPT ![r] = "applied"]
  /\ UNCHANGED calls

Conflict(r) ==
  /\ status[r] = "called"
  /\ Len(history[calls[r].key]) # calls[r].expected
  /\ status' = [status EXCEPT ![r] = "conflict"]
  /\ UNCHANGED <<calls, history, loaded>>

Answer(r) ==
  /\ status[r] = "applied"
  /\ status' = [status EXCEPT ![r] = "published"]
  /\ UNCHANGED <<calls, history, loaded>>

Fail(r) ==
  /\ status[r] \in {"called", "applied"}
  /\ status' = [status EXCEPT ![r] = "error"]
  /\ UNCHANGED <<calls, history, loaded>>

(* The publication was on its way when its error was answered.             *)
ApplyLate(r) ==
  LET k == calls[r].key IN
  /\ status[r] = "error"
  /\ \A i \in DOMAIN history[k] : history[k][i] # r
  /\ Len(history[k]) = calls[r].expected
  /\ history' = [history EXCEPT ![k] = Append(@, r)]
  /\ loaded' = [loaded EXCEPT ![k] = Publication(k, r)]
  /\ UNCHANGED <<calls, status>>

Next == \E r \in Requests :
  Apply(r) \/ ApplyLate(r) \/ Conflict(r) \/ Answer(r) \/ Fail(r)

Spec == Init /\ [][Next]_<<calls, history, loaded, status>>
=============================================================================
