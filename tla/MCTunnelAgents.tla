--------------------------- MODULE MCTunnelAgents ---------------------------
(* Instances of TunnelAgents for TLC: delays, keep-alive and cooldown keep  *)
(* the order of 1s, 20s and 60s.                                           *)
EXTENDS TunnelAgents, TLC

MCDelays == <<1, 2>>

(* Every pause the schedule can give is one of these with failed dials      *)
(* between them, so what the server meets is the same, in fewer states.     *)
MCOneDelay == <<1>>

Symmetry == Permutations(Links) \cup Permutations(Agents)

(* What a later step or a checked invariant can still tell of a state: not  *)
(* the audit, nor more of a link all have left than who dialled it and      *)
(* whether it was ever attached, nor by how much a pause or a cooldown is   *)
(* over, or lasts beyond MaxTime, nor the failures of an agent whose next   *)
(* pause does not depend on them.                                           *)
Left(l) ==
  /\ Ended(l) /\ l \notin tracked
  /\ \A a \in Agents : on[a] # l
  /\ \A s \in Subdomains : live[s].link # l

Ahead(time) == IF time <= now THEN 0 ELSE IF time > MaxTime THEN MaxTime + 1 ELSE time

SeenOfAgent(a) ==
  LET pause == IF run[a] = "waiting" THEN Ahead(wake[a]) ELSE 0
      dials == run[a] = "dialing" \/ (run[a] = "waiting" /\ pause <= MaxTime)
  IN  <<run[a], on[a], pause, IF dials THEN Delay(OneMore(a)) ELSE 0>>

SeenOfLink(l) ==
  IF Left(l) THEN <<owner[l], gen[l] > 0>>
  ELSE <<owner[l], gen[l] > 0, stage[l], held[l], told[l], l \in done,
         IF deadAt[l] = NoMark THEN NoMark ELSE Ahead(deadAt[l] + KeepAlive)>>

Seen ==
  << claims, mu, now, tracked, shut, met,
     [s \in Subdomains |->
        <<live[s].link, IF TakeoverAllowed(s) THEN 0 ELSE Ahead(superseded[s] + SupersedeCooldown)>>],
     [a \in Agents |-> SeenOfAgent(a)],
     [l \in Links |-> SeenOfLink(l)] >>

(* Whoever was beaten, or met a link of its own, remains so, and a revoked  *)
(* claim revoked: TLC looks no further than the state, or the eviction,     *)
(* from which on neither invariant can fail any more.                       *)
Contested ==
  \/ met = {} /\ \A s \in Subdomains : ~claims[s].revoked
  \/ \E a \in Agents : ~Beaten(a) /\ a \notin met
  \/ mu \in Subdomains
=============================================================================
