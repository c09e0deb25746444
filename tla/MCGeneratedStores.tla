------------------------- MODULE MCGeneratedStores -------------------------
(* Instance of GeneratedStores for TLC.                                    *)
EXTENDS GeneratedStores, FiniteSets

(* Requests and flags are interchangeable and the calls never change: of    *)
(* the assignments of calls to requests that differ in names only, TLC      *)
(* starts from the one in order.                                            *)
InOrder ==
  /\ \A r, q \in Requests : r < q =>
       \/ Key(r) < Key(q)
       \/ Key(r) = Key(q) /\ calls[r].expected <= calls[q].expected
  /\ \A k, l \in Keys : k < l =>
       Cardinality({r \in Requests : Key(r) = l}) <= Cardinality({r \in Requests : Key(r) = k})
=============================================================================
