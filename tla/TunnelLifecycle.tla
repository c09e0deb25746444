-------------------------- MODULE TunnelLifecycle --------------------------
(***************************************************************************)
(* The lifecycle table of one tunnel: the durable state of its claim, the  *)
(* volatile presence of its link, the three events, and the audit rows     *)
(* each accepted event is recorded by.  Translated from                    *)
(* specimens/ingress-tunnel/internal/tunnel/transition.go.                 *)
(***************************************************************************)
EXTENDS Sequences

ClaimStates == {"active", "revoked"}
Presences   == {"absent", "live"}
Events      == {"connect", "link-lost", "revoke"}
AuditKinds  == {"claimed", "connected", "superseded", "disconnected", "revoked"}

Status(claim, presence) == [claim |-> claim, presence |-> presence]

Accept(status, rows)  == [status |-> status, audit |-> rows, err |-> "none"]
Refuse(status, error) == [status |-> status, audit |-> << >>, err |-> error]

(***************************************************************************)
(* A revoked claim is inert.  The code panics on a revoked claim with a    *)
(* live link; the table answers "panic" there, and the service's           *)
(* invariants show the pair is never reached.                              *)
(***************************************************************************)
RevokedTransition(current, event) ==
  IF current.presence = "live"    THEN Refuse(current, "panic")
  ELSE IF event = "connect"       THEN Refuse(current, "revoked")
  ELSE IF event = "revoke"        THEN Refuse(current, "conflict")
  ELSE Accept(current, << >>)

(* Mutant: the superseded link gets no row of its own.                      *)
ConnectForgetsSuperseded(current) == Accept(Status("active", "live"), <<"connected">>)

ConnectTransition(current) ==
  Accept(Status("active", "live"),
         IF current.presence = "live" THEN <<"superseded", "connected">>
                                      ELSE <<"connected">>)

LinkLostTransition(current) ==
  IF current.presence = "live" THEN Accept(Status("active", "absent"), <<"disconnected">>)
                               ELSE Accept(current, << >>)

RevokeTransition(current) ==
  Accept(Status("revoked", "absent"),
         IF current.presence = "live" THEN <<"disconnected", "revoked">>
                                      ELSE <<"revoked">>)

Transition(current, event) ==
  IF current.claim = "revoked"  THEN RevokedTransition(current, event)
  ELSE IF event = "connect"     THEN ConnectTransition(current)
  ELSE IF event = "link-lost"   THEN LinkLostTransition(current)
  ELSE RevokeTransition(current)
=============================================================================
