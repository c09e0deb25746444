------------------------- MODULE FlagServiceProofs -------------------------
(***************************************************************************)
(* Proofs about FlagService, for every set of flags, definitions,          *)
(* publishers and clients and every bound on revisions: whatever the       *)
(* store, the snapshot, a publisher or a client's cache holds is an entry  *)
(* of the audited history, so delayed Puts, conflicts and restarts can     *)
(* only show older or newer entries of it, never something else.           *)
(***************************************************************************)
EXTENDS FlagService, TLAPS, SequenceTheorems

Row == [definition : Definitions, basis : Flags]

-----------------------------------------------------------------------------
(* Audit histories.                                                         *)

(* An entry of the audit stays one when rows are appended to any flag.      *)
LEMMA PublishedGrows ==
  ASSUME audit \in [Keys -> Seq(Row)], audit' \in [Keys -> Seq(Row)],
         NEW k \in Keys, NEW f \in Flags,
         Len(audit[k]) <= Len(audit'[k]),
         \A i \in 1..Len(audit[k]) : audit'[k][i] = audit[k][i],
         Published(k, f)
  PROVE  /\ f.revision \in 0..Len(audit'[k])
         /\ f.definition = IF f.revision = 0 THEN None
                                             ELSE audit'[k][f.revision].definition
BY DEF Published, Flags

(* Two entries of one flag with the same revision are the same flag.        *)
LEMMA PublishedUnique ==
  ASSUME NEW k \in Keys, NEW f \in Flags, NEW g \in Flags,
         Published(k, f), Published(k, g), f.revision = g.revision
  PROVE  f = g
BY DEF Published, Flags

(* Store.Publish appends one row to the target's history, leaves what was   *)
(* there, and stores exactly the row it appended.                           *)
LEMMA StorePublishAppends ==
  ASSUME IndInv, NEW p \in Publishers, NEW d \in Definitions, StorePublish(p, d)
  PROVE  LET k == target[p]
             row == [definition |-> d, basis |-> seen[p]] IN
         /\ k \in Keys
         /\ audit' \in [Keys -> Seq(Row)]
         /\ audit'[k] = Append(audit[k], row)
         /\ Len(audit'[k]) = Len(audit[k]) + 1
         /\ audit'[k][Len(audit[k]) + 1] = row
         /\ \A q \in Keys : Len(audit[q]) \in Nat /\ Len(audit[q]) <= Len(audit'[q])
         /\ \A q \in Keys : \A i \in 1..Len(audit[q]) : audit'[q][i] = audit[q][i]
         /\ \A q \in Keys : q # k => audit'[q] = audit[q]
<1> DEFINE k == target[p]
           row == [definition |-> d, basis |-> seen[p]]
<1>1. k \in Keys /\ row \in Row /\ audit \in [Keys -> Seq(Row)]
  BY DEF IndInv, TypeOK, Row
<1>2. audit' = [audit EXCEPT ![k] = Append(audit[k], row)]
  BY <1>1 DEF StorePublish
<1>3. /\ Append(audit[k], row) \in Seq(Row)
      /\ Len(Append(audit[k], row)) = Len(audit[k]) + 1
      /\ Append(audit[k], row)[Len(audit[k]) + 1] = row
      /\ \A i \in 1..Len(audit[k]) : Append(audit[k], row)[i] = audit[k][i]
  BY <1>1, AppendProperties
<1>4. \A q \in Keys : Len(audit[q]) \in Nat
  BY <1>1, LenProperties
<1>5. audit'[k] = Append(audit[k], row) /\ \A q \in Keys : q # k => audit'[q] = audit[q]
  BY <1>1, <1>2
<1>6. audit' \in [Keys -> Seq(Row)]
  BY <1>1, <1>2, <1>3
<1> HIDE DEF k, row
<1>7. \A q \in Keys : Len(audit[q]) <= Len(audit'[q])
  BY <1>1, <1>3, <1>4, <1>5
<1>8. \A q \in Keys : \A i \in 1..Len(audit[q]) : audit'[q][i] = audit[q][i]
  BY <1>1, <1>3, <1>5
<1> QED
  BY <1>1, <1>3, <1>4, <1>5, <1>6, <1>7, <1>8 DEF k, row

-----------------------------------------------------------------------------
(* The inductive invariant, action by action.                               *)

LEMMA InitEstablishes == Init => IndInv
<1> SUFFICES ASSUME Init PROVE IndInv
  OBVIOUS
<1>0. << >> \in Seq(Row) /\ Len(<< >>) = 0 /\ NoFlag \in Flags
  BY DEF NoFlag, Flags
<1>1. \A k \in Keys : Len(audit[k]) = 0
  BY <1>0 DEF Init
<1>2. TypeOK
  BY <1>0 DEF Init, TypeOK, Row, PublisherStages
<1>3. \A k \in Keys : Published(k, NoFlag)
  BY <1>1, 0 \in 0..0 DEF Published, NoFlag
<1>4. StoreInv
  BY <1>1, <1>3 DEF Init, StoreInv, NoFlag
<1>5. ProjectionInv
  BY <1>3 DEF Init, ProjectionInv
<1>6. PublisherInv
  BY <1>1, <1>3 DEF Init, PublisherInv, NoFlag
<1>7. NoLostUpdate
  BY <1>1 DEF NoLostUpdate
<1>8. AnsweredIsVisible
  BY DEF Init, AnsweredIsVisible
<1> QED
  BY <1>2, <1>4, <1>5, <1>6, <1>7, <1>8 DEF IndInv

LEMMA StorePublishPreserves ==
  ASSUME IndInv, NEW p \in Publishers, NEW d \in Definitions, StorePublish(p, d)
  PROVE  IndInv'
<1> DEFINE k == target[p]
           row == [definition |-> d, basis |-> seen[p]]
           published == [revision |-> store[k].revision + 1, definition |-> d]
<1>1. /\ k \in Keys
      /\ audit' \in [Keys -> Seq(Row)]
      /\ Len(audit'[k]) = Len(audit[k]) + 1
      /\ audit'[k][Len(audit[k]) + 1] = row
      /\ \A q \in Keys : Len(audit[q]) \in Nat /\ Len(audit[q]) <= Len(audit'[q])
      /\ \A q \in Keys : \A i \in 1..Len(audit[q]) : audit'[q][i] = audit[q][i]
      /\ \A q \in Keys : q # k => audit'[q] = audit[q]
  BY StorePublishAppends
<1>2. /\ store' = [store EXCEPT ![k] = published]
      /\ result' = [result EXCEPT ![p] = published]
      /\ stage' = [stage EXCEPT ![p] = "committed"]
      /\ UNCHANGED <<snapshot, target, seen, cached>>
      /\ store[k].revision = seen[p].revision
  BY DEF StorePublish, Accepts
<1>3. TypeOK /\ store[k].revision \in Nat /\ store[k].revision = Len(audit[k])
  BY <1>1 DEF IndInv, StoreInv, TypeOK, Flags
<1>4. published \in Flags
  BY <1>3 DEF Flags
<1>5. TypeOK'
  <2>1. audit' \in [Keys -> Seq([definition : Definitions, basis : Flags])]
    BY <1>1 DEF Row
  <2> QED
    BY <1>1, <1>2, <1>3, <1>4, <2>1 DEF TypeOK, PublisherStages
<1>6. \A q \in Keys, f \in Flags : Published(q, f) => Published(q, f)'
  <2> SUFFICES ASSUME NEW q \in Keys, NEW f \in Flags, Published(q, f)
               PROVE  Published(q, f)'
    OBVIOUS
  <2>1. audit \in [Keys -> Seq(Row)]
    BY <1>3 DEF TypeOK, Row
  <2> QED
    BY <1>1, <2>1, PublishedGrows DEF Published
<1>7. published.revision \in 0..Len(audit'[k]) /\ published.definition =
        IF published.revision = 0 THEN None ELSE audit'[k][published.revision].definition
  BY <1>1, <1>3
<1>8. StoreInv'
  <2> SUFFICES ASSUME NEW q \in Keys
               PROVE  store'[q].revision = Len(audit'[q]) /\ Published(q, store[q])'
    BY DEF StoreInv
  <2>1. CASE q = k
    <3>1. store'[q] = published
      BY <1>2, <1>3, <2>1 DEF TypeOK
    <3> QED
      BY <1>1, <1>3, <1>7, <2>1, <3>1 DEF Published
  <2>2. CASE q # k
    <3>1. store'[q] = store[q] /\ audit'[q] = audit[q]
      BY <1>1, <1>2, <2>2, <1>3 DEF TypeOK
    <3> QED
      BY <3>1 DEF IndInv, StoreInv, Published
  <2> QED
    BY <2>1, <2>2
<1>9. ProjectionInv'
  <2>1. \A q \in Keys : snapshot[q] \in Flags /\ \A c \in Clients : cached[c][q] \in Flags
    BY <1>3 DEF TypeOK
  <2>2. \A q \in Keys : Published(q, snapshot[q])' /\ \A c \in Clients : Published(q, cached[c][q])'
    BY <1>2, <1>6, <2>1 DEF IndInv, ProjectionInv, Published
  <2> QED
    BY <2>2 DEF ProjectionInv
<1>10. PublisherInv'
  <2> SUFFICES ASSUME NEW r \in Publishers
               PROVE  /\ Published(target[r], result[r])'
                      /\ seen'[r].revision <= Len(audit'[target'[r]])
                      /\ seen'[r].definition # None => Published(target[r], seen[r])'
    BY DEF PublisherInv
  <2>1. /\ target'[r] = target[r] /\ seen'[r] = seen[r] /\ target[r] \in Keys
        /\ seen[r] \in Flags /\ result[r] \in Flags /\ seen[r].revision \in Nat
    BY <1>2, <1>3 DEF TypeOK, Flags
  <2>2. seen'[r].revision <= Len(audit'[target'[r]])
    <3>1. seen[r].revision <= Len(audit[target[r]])
      BY DEF IndInv, PublisherInv
    <3>2. Len(audit'[target[r]]) \in Nat
      BY <1>1, <2>1, LenProperties
    <3> QED
      BY <1>1, <2>1, <3>1, <3>2
  <2>3. seen'[r].definition # None => Published(target[r], seen[r])'
    BY <1>6, <2>1 DEF IndInv, PublisherInv, Published
  <2>4. Published(target[r], result[r])'
    <3>1. CASE r = p
      <4>1. result'[r] = published /\ target'[r] = k
        BY <1>2, <1>3, <2>1, <3>1 DEF TypeOK
      <4> QED
        BY <1>7, <4>1 DEF Published
    <3>2. CASE r # p
      <4>1. result'[r] = result[r]
        BY <1>2, <1>3, <3>2 DEF TypeOK
      <4> QED
        BY <1>6, <2>1, <4>1 DEF IndInv, PublisherInv, Published
    <3> QED
      BY <3>1, <3>2
  <2> QED
    BY <2>2, <2>3, <2>4
<1>11. NoLostUpdate'
  <2> SUFFICES ASSUME NEW q \in Keys, NEW i \in 1..Len(audit'[q])
               PROVE  LET basis == audit'[q][i].basis IN
                      /\ basis.revision = i - 1
                      /\ basis.definition # None =>
                           i > 1 /\ basis.definition = audit'[q][i-1].definition
    BY DEF NoLostUpdate
  <2>1. CASE i \in 1..Len(audit[q])
    <3>1. audit'[q][i] = audit[q][i] /\ (i > 1 => audit'[q][i-1] = audit[q][i-1])
      BY <1>1, <2>1
    <3>2. /\ audit[q][i].basis.revision = i - 1
          /\ audit[q][i].basis.definition # None =>
               i > 1 /\ audit[q][i].basis.definition = audit[q][i-1].definition
      BY <2>1 DEF IndInv, NoLostUpdate
    <3> QED
      BY <3>1, <3>2
  <2>2. CASE i \notin 1..Len(audit[q])
    <3>1. q = k /\ i = Len(audit[k]) + 1
      BY <1>1, <2>2
    <3>2. audit'[q][i].basis = seen[p] /\ seen[p].revision = i - 1
      BY <1>1, <1>2, <1>3, <3>1
    <3>3. seen[p].definition # None =>
            seen[p].revision # 0 /\ seen[p].definition = audit[k][seen[p].revision].definition
      BY DEF IndInv, PublisherInv, Published
    <3>4. seen[p].revision # 0 => audit'[q][i-1] = audit[k][i-1]
      BY <1>1, <3>1, <3>2
    <3> QED
      BY <3>2, <3>3, <3>4
  <2> QED
    BY <2>1, <2>2
<1>12. AnsweredIsVisible'
  BY <1>2, <1>3 DEF IndInv, AnsweredIsVisible, TypeOK
<1> QED
  BY <1>5, <1>8, <1>9, <1>10, <1>11, <1>12 DEF IndInv

(* A step that leaves the store and the audit alone preserves the invariant *)
(* when whatever it hands out is an entry of the audited history.           *)
LEMMA QuietPreserves ==
  ASSUME IndInv, UNCHANGED <<store, audit>>, TypeOK',
         ProjectionInv', PublisherInv', AnsweredIsVisible'
  PROVE  IndInv'
BY DEF IndInv, StoreInv, NoLostUpdate, Published

LEMMA ListPreserves ==
  ASSUME IndInv, NEW p \in Publishers, NEW k \in Keys, List(p, k)
  PROVE  IndInv'
<1>1. UNCHANGED <<store, audit, snapshot, cached>>
  BY DEF List
<1>2. TypeOK'
  BY DEF IndInv, TypeOK, List, PublisherStages, NoFlag, Flags
<1>3. ProjectionInv'
  BY <1>1 DEF IndInv, ProjectionInv, Published
<1>4. PublisherInv'
  <2> SUFFICES ASSUME NEW r \in Publishers
               PROVE  /\ Published(target'[r], result'[r])
                      /\ seen'[r].revision <= Len(audit[target'[r]])
                      /\ seen'[r].definition # None => Published(target'[r], seen'[r])
    BY <1>1 DEF PublisherInv, Published
  <2>1. CASE r = p
    <3>1. target'[r] = k /\ seen'[r] = snapshot[k] /\ result'[r] = NoFlag
      BY <2>1 DEF IndInv, TypeOK, List
    <3>2. Published(k, snapshot[k])
      BY DEF IndInv, ProjectionInv
    <3>3. Len(audit[k]) \in Nat
      BY LenProperties DEF IndInv, TypeOK
    <3>4. Published(k, NoFlag)
      BY <3>3 DEF Published, NoFlag
    <3>5. snapshot[k].revision <= Len(audit[k])
      BY <3>2, <3>3 DEF Published
    <3> QED
      BY <3>1, <3>2, <3>4, <3>5
  <2>2. CASE r # p
    <3>1. target'[r] = target[r] /\ seen'[r] = seen[r] /\ result'[r] = result[r]
      BY <2>2 DEF IndInv, TypeOK, List
    <3> QED
      BY <3>1 DEF IndInv, PublisherInv
  <2> QED
    BY <2>1, <2>2
<1>5. AnsweredIsVisible'
  BY DEF IndInv, TypeOK, List, AnsweredIsVisible
<1> QED
  BY <1>1, <1>2, <1>3, <1>4, <1>5, QuietPreserves

LEMMA StoreConflictPreserves ==
  ASSUME IndInv, NEW p \in Publishers, StoreConflict(p)
  PROVE  IndInv'
<1> DEFINE known == [revision |-> store[target[p]].revision, definition |-> None]
<1>1. /\ UNCHANGED <<store, audit, snapshot, stage, target, result, cached>>
      /\ seen' = [seen EXCEPT ![p] = known]
  BY DEF StoreConflict
<1>2. target[p] \in Keys /\ known \in Flags
  BY DEF IndInv, TypeOK, Flags
<1>3. TypeOK'
  BY <1>1, <1>2 DEF IndInv, TypeOK
<1>4. ProjectionInv'
  BY <1>1 DEF IndInv, ProjectionInv, Published
<1>5. PublisherInv'
  <2> SUFFICES ASSUME NEW r \in Publishers
               PROVE  /\ seen'[r].revision <= Len(audit[target[r]])
                      /\ seen'[r].definition # None => Published(target[r], seen'[r])
    BY <1>1 DEF IndInv, PublisherInv, Published
  <2>1. CASE r = p
    <3>1. seen'[r] = known
      BY <1>1, <2>1 DEF IndInv, TypeOK
    <3>2. store[target[p]].revision = Len(audit[target[p]]) /\ Len(audit[target[p]]) \in Nat
      BY <1>2, LenProperties DEF IndInv, TypeOK, StoreInv
    <3> QED
      BY <2>1, <3>1, <3>2
  <2>2. CASE r # p
    <3>1. seen'[r] = seen[r]
      BY <1>1, <2>2 DEF IndInv, TypeOK
    <3> QED
      BY <3>1 DEF IndInv, PublisherInv
  <2> QED
    BY <2>1, <2>2
<1>6. AnsweredIsVisible'
  BY <1>1 DEF IndInv, AnsweredIsVisible
<1> QED
  BY <1>1, <1>3, <1>4, <1>5, <1>6, QuietPreserves

LEMMA StoreRefusesPreserves ==
  ASSUME IndInv, NEW p \in Publishers, StoreRefuses(p)
  PROVE  IndInv'
<1>1. /\ UNCHANGED <<store, audit, snapshot, target, seen, result, cached>>
      /\ stage' = [stage EXCEPT ![p] = "idle"]
  BY DEF StoreRefuses
<1>2. TypeOK'
  BY <1>1 DEF IndInv, TypeOK, PublisherStages
<1>3. ProjectionInv' /\ PublisherInv'
  BY <1>1 DEF IndInv, ProjectionInv, PublisherInv, Published
<1>4. AnsweredIsVisible'
  BY <1>1 DEF IndInv, TypeOK, AnsweredIsVisible
<1> QED
  BY <1>1, <1>2, <1>3, <1>4, QuietPreserves

(* Memory.Put never moves the projection backwards and leaves it at least   *)
(* at the revision it was called with.                                      *)
LEMMA NewerKeepsTheNewer ==
  ASSUME NEW old \in Flags, NEW new \in Flags
  PROVE  /\ Newer(old, new) \in {old, new}
         /\ Newer(old, new).revision >= old.revision
         /\ Newer(old, new).revision >= new.revision
BY DEF Newer, Flags

LEMMA PutPreserves ==
  ASSUME IndInv, NEW p \in Publishers, Put(p)
  PROVE  IndInv'
<1> DEFINE k == target[p]
           put == Newer(snapshot[k], result[p])
<1>1. /\ UNCHANGED <<store, audit, target, seen, result, cached>>
      /\ snapshot' = [snapshot EXCEPT ![k] = put]
      /\ stage' = [stage EXCEPT ![p] = "answered"]
  BY DEF Put
<1>2. k \in Keys /\ snapshot[k] \in Flags /\ result[p] \in Flags
  BY DEF IndInv, TypeOK
<1>3. /\ put \in {snapshot[k], result[p]}
      /\ put \in Flags
      /\ put.revision >= snapshot[k].revision
      /\ put.revision >= result[p].revision
  BY <1>2, NewerKeepsTheNewer
<1> HIDE DEF put
<1>4. TypeOK'
  BY <1>1, <1>2, <1>3 DEF IndInv, TypeOK, PublisherStages
<1>5. \A q \in Keys : snapshot'[q] = IF q = k THEN put ELSE snapshot[q]
  BY <1>1 DEF IndInv, TypeOK
<1>6. ProjectionInv'
  <2>1. Published(k, put)
    BY <1>2, <1>3 DEF IndInv, ProjectionInv, PublisherInv
  <2>2. \A q \in Keys : Published(q, snapshot'[q])
    BY <1>5, <2>1 DEF IndInv, ProjectionInv
  <2> QED
    BY <1>1, <2>2 DEF IndInv, ProjectionInv, Published
<1>7. PublisherInv'
  BY <1>1 DEF IndInv, PublisherInv, Published
<1>8. AnsweredIsVisible'
  <2> SUFFICES ASSUME NEW r \in Publishers, stage'[r] = "answered"
               PROVE  snapshot'[target[r]].revision >= result[r].revision
    BY <1>1 DEF AnsweredIsVisible
  <2>1. /\ target[r] \in Keys /\ snapshot[target[r]].revision \in Nat
        /\ snapshot[k].revision \in Nat
        /\ result[r].revision \in Nat /\ put.revision \in Nat
    BY <1>2, <1>3 DEF IndInv, TypeOK, Flags
  <2>2. CASE r = p
    BY <1>3, <1>5, <2>1, <2>2
  <2>3. CASE r # p
    <3>1. snapshot[target[r]].revision >= result[r].revision
      BY <1>1, <2>3 DEF IndInv, TypeOK, AnsweredIsVisible
    <3> QED
      BY <1>3, <1>5, <2>1, <3>1
  <2> QED
    BY <2>2, <2>3
<1> QED
  BY <1>1, <1>4, <1>6, <1>7, <1>8, QuietPreserves

LEMMA EvaluateAllPreserves ==
  ASSUME IndInv, NEW c \in Clients, EvaluateAll(c)
  PROVE  IndInv'
<1>1. /\ UNCHANGED <<store, audit, snapshot, stage, target, seen, result>>
      /\ cached' = [cached EXCEPT ![c] = snapshot]
  BY DEF EvaluateAll
<1>2. TypeOK'
  BY <1>1 DEF IndInv, TypeOK
<1>3. \A b \in Clients : cached'[b] = IF b = c THEN snapshot ELSE cached[b]
  BY <1>1 DEF IndInv, TypeOK
<1>4. ProjectionInv'
  BY <1>1, <1>3 DEF IndInv, ProjectionInv, Published
<1>5. PublisherInv' /\ AnsweredIsVisible'
  BY <1>1 DEF IndInv, PublisherInv, AnsweredIsVisible, Published
<1> QED
  BY <1>1, <1>2, <1>4, <1>5, QuietPreserves

(* After a crash the rebuilt projection holds at least every revision that  *)
(* any publisher was answered with, since the store does.                   *)
LEMMA RestartPreserves ==
  ASSUME IndInv, Restart
  PROVE  IndInv'
<1>1. /\ UNCHANGED <<store, audit, target, seen, result, cached>>
      /\ snapshot' = store
      /\ stage' = [p \in Publishers |-> IF stage[p] = "committed" THEN "idle" ELSE stage[p]]
  BY DEF Restart, Load
<1>2. TypeOK'
  BY <1>1 DEF IndInv, TypeOK, PublisherStages
<1>3. ProjectionInv' /\ PublisherInv'
  BY <1>1 DEF IndInv, StoreInv, ProjectionInv, PublisherInv, Published
<1>4. AnsweredIsVisible'
  <2> SUFFICES ASSUME NEW p \in Publishers
               PROVE  store[target[p]].revision >= result[p].revision
    BY <1>1 DEF AnsweredIsVisible
  <2>1. target[p] \in Keys /\ result[p].revision \in 0..Len(audit[target[p]])
    BY DEF IndInv, TypeOK, PublisherInv, Published
  <2>2. store[target[p]].revision = Len(audit[target[p]]) /\ Len(audit[target[p]]) \in Nat
    BY <2>1, LenProperties DEF IndInv, TypeOK, StoreInv
  <2> QED
    BY <2>1, <2>2
<1> QED
  BY <1>1, <1>2, <1>3, <1>4, QuietPreserves

LEMMA StutterPreserves ==
  ASSUME IndInv, UNCHANGED vars
  PROVE  IndInv'
BY DEF vars, IndInv, TypeOK, StoreInv, ProjectionInv, PublisherInv, Published,
       NoLostUpdate, AnsweredIsVisible

LEMMA StepPreserves ==
  ASSUME IndInv, [Next]_vars
  PROVE  IndInv'
<1>1. CASE \E p \in Publishers, k \in Keys : List(p, k)
  BY <1>1, ListPreserves
<1>2. CASE \E p \in Publishers, d \in Definitions : StorePublish(p, d)
  BY <1>2, StorePublishPreserves
<1>3. CASE \E p \in Publishers : StoreConflict(p)
  BY <1>3, StoreConflictPreserves
<1>4. CASE \E p \in Publishers : StoreRefuses(p)
  BY <1>4, StoreRefusesPreserves
<1>5. CASE \E p \in Publishers : Put(p)
  BY <1>5, PutPreserves
<1>6. CASE \E c \in Clients : EvaluateAll(c)
  BY <1>6, EvaluateAllPreserves
<1>7. CASE \E c \in Clients : NotModified(c)
  BY <1>7, StutterPreserves DEF NotModified
<1>8. CASE Restart
  BY <1>8, RestartPreserves
<1>9. CASE UNCHANGED vars
  BY <1>9, StutterPreserves
<1> QED
  BY <1>1, <1>2, <1>3, <1>4, <1>5, <1>6, <1>7, <1>8, <1>9 DEF Next

(* In every interleaving of publishers, evaluators and restarts, whatever   *)
(* any party holds is an entry of the audited history (Publish, Put, Load). *)
THEOREM IndInvHolds == Spec => []IndInv
BY InitEstablishes, StepPreserves, PTL DEF Spec

-----------------------------------------------------------------------------
(* What the service promises.                                               *)

(* No row of any flag's audit replaced a revision, or a definition, other   *)
(* than the one its author had seen (Store.Publish).                        *)
THEOREM NoUpdateIsLost == Spec => []NoLostUpdate
<1>1. IndInv => NoLostUpdate
  BY DEF IndInv
<1> QED
  BY <1>1, IndInvHolds, PTL

(* A publisher that was answered evaluates its own publication or a later   *)
(* one for ever after, whatever other Puts arrive late (Memory.Put, Open).  *)
THEOREM AnswerStaysVisible == Spec => []AnsweredIsVisible
<1>1. IndInv => AnsweredIsVisible
  BY DEF IndInv
<1> QED
  BY <1>1, IndInvHolds, PTL

(* Equal entity tags mean equal bulk responses, so a 304 never leaves a     *)
(* client with values the service does not stand by (evaluationETag).       *)
THEOREM NotModifiedIsSafe == Spec => []ETagNamesOneResponse
<1>1. IndInv => ETagNamesOneResponse
  <2> SUFFICES ASSUME IndInv, NEW c \in Clients, ETag(cached[c]) = ETag(snapshot)
               PROVE  cached[c] = snapshot
    BY DEF ETagNamesOneResponse
  <2>1. cached[c] \in [Keys -> Flags] /\ snapshot \in [Keys -> Flags]
    BY DEF IndInv, TypeOK
  <2>2. \A k \in Keys : cached[c][k].revision = snapshot[k].revision
    <3> SUFFICES ASSUME NEW k \in Keys PROVE cached[c][k].revision = snapshot[k].revision
      OBVIOUS
    <3>1. ETag(cached[c])[k] = ETag(snapshot)[k]
      OBVIOUS
    <3> QED
      BY <3>1 DEF ETag
  <2>3. \A k \in Keys : cached[c][k] = snapshot[k]
    BY <2>1, <2>2, PublishedUnique DEF IndInv, ProjectionInv
  <2> QED
    BY <2>1, <2>3
<1> QED
  BY <1>1, IndInvHolds, PTL

-----------------------------------------------------------------------------
(* The service implements the register.                                     *)

(* The definitions of an audit, in order, are a sequence as long as it.     *)
LEMMA HistoryIsASequence ==
  ASSUME audit \in [Keys -> Seq(Row)], NEW k \in Keys
  PROVE  /\ History(k) \in Seq(Definitions)
         /\ Len(History(k)) = Len(audit[k])
         /\ \A i \in 1..Len(audit[k]) : History(k)[i] = audit[k][i].definition
<1>1. /\ audit[k] \in Seq(Row) /\ Len(audit[k]) \in Nat
      /\ DOMAIN audit[k] = 1..Len(audit[k])
      /\ \A i \in 1..Len(audit[k]) : audit[k][i] \in Row
  BY LenProperties, ElementOfSeq
<1>2. \A i \in 1..Len(audit[k]) : audit[k][i].definition \in Definitions
  BY <1>1 DEF Row
<1>3. History(k) \in [1..Len(audit[k]) -> Definitions]
  BY <1>1, <1>2 DEF History
<1>4. History(k) \in Seq(Definitions) /\ Len(History(k)) = Len(audit[k])
  BY <1>1, <1>3, SeqDef, LenProperties
<1> QED
  BY <1>1, <1>4 DEF History

(* A publication of the code is one of the register.                        *)
LEMMA StorePublishIsPublish ==
  ASSUME IndInv, NEW p \in Publishers, NEW d \in Definitions, StorePublish(p, d)
  PROVE  Register!Publish
<1>0. PICK k \in Keys : k = target[p]
  BY DEF IndInv, TypeOK
<1> DEFINE row == [definition |-> d, basis |-> seen[p]]
<1>1. /\ k \in Keys
      /\ audit' \in [Keys -> Seq(Row)]
      /\ audit'[k] = Append(audit[k], row)
      /\ Len(audit'[k]) = Len(audit[k]) + 1
      /\ audit'[k][Len(audit[k]) + 1] = row
      /\ \A i \in 1..Len(audit[k]) : audit'[k][i] = audit[k][i]
      /\ \A q \in Keys : q # k => audit'[q] = audit[q]
  BY <1>0, StorePublishAppends
<1>2. audit \in [Keys -> Seq(Row)]
  BY DEF IndInv, TypeOK, Row
<1>3. Len(audit[k]) \in Nat /\ Len(audit'[k]) \in Nat
  BY <1>1, <1>2, LenProperties
<1>4. /\ History(k) \in Seq(Definitions)
      /\ Len(History(k)) = Len(audit[k])
      /\ \A i \in 1..Len(audit[k]) : History(k)[i] = audit[k][i].definition
  BY <1>1, <1>2, HistoryIsASequence
<1>5. /\ History(k)' \in Seq(Definitions)
      /\ Len(History(k)') = Len(audit'[k])
      /\ \A i \in 1..Len(audit'[k]) : History(k)'[i] = audit'[k][i].definition
  <2>1. /\ audit'[k] \in Seq(Row)
        /\ DOMAIN audit'[k] = 1..Len(audit'[k])
        /\ \A i \in 1..Len(audit'[k]) : audit'[k][i] \in Row
    BY <1>1, LenProperties, ElementOfSeq
  <2>2. \A i \in 1..Len(audit'[k]) : audit'[k][i].definition \in Definitions
    BY <2>1 DEF Row
  <2>3. History(k)' \in [1..Len(audit'[k]) -> Definitions]
    BY <2>1, <2>2 DEF History
  <2>4. History(k)' \in Seq(Definitions) /\ Len(History(k)') = Len(audit'[k])
    BY <1>3, <2>3, SeqDef, LenProperties
  <2> QED
    BY <2>1, <2>4 DEF History
<1>6. History(k)' = Append(History(k), d)
  <2>1. /\ Append(History(k), d) \in Seq(Definitions)
        /\ Len(Append(History(k), d)) = Len(audit[k]) + 1
        /\ Append(History(k), d)[Len(audit[k]) + 1] = d
        /\ \A i \in 1..Len(audit[k]) : Append(History(k), d)[i] = audit[k][i].definition
    BY <1>4, AppendProperties
  <2>2. \A i \in 1..Len(audit'[k]) : History(k)'[i] = Append(History(k), d)[i]
    <3> SUFFICES ASSUME NEW i \in 1..Len(audit'[k])
                 PROVE  History(k)'[i] = Append(History(k), d)[i]
      OBVIOUS
    <3>1. CASE i \in 1..Len(audit[k])
      BY <1>1, <1>5, <2>1, <3>1
    <3>2. CASE i = Len(audit[k]) + 1
      BY <1>1, <1>5, <2>1, <3>2
    <3>3. i \in 1..Len(audit[k]) \/ i = Len(audit[k]) + 1
      <4>1. Len(audit'[k]) = Len(audit[k]) + 1
        BY <1>1
      <4> QED
        BY <1>3, <4>1
    <3> QED
      BY <3>1, <3>2, <3>3
  <2> QED
    BY <1>1, <1>5, <2>1, <2>2, SeqEqual
<1>7. \A q \in Keys : q # k => History(q)' = History(q)
  BY <1>1 DEF History
<1>8. [q \in Keys |-> History(q)'] =
        [[q \in Keys |-> History(q)] EXCEPT ![k] = Append(@, d)]
  BY <1>1, <1>6, <1>7
<1>9. [q \in Keys |-> Shown(q)'] = [q \in Keys |-> Shown(q)]
  BY DEF StorePublish, Shown
<1> QED
  BY <1>1, <1>8, <1>9 DEF Register!Publish

(* A step that keeps the audit and takes each flag's projection to the same *)
(* or a newer entry of it is one of the register: Put and Restart.          *)
LEMMA ForwardIsShow ==
  ASSUME IndInv, IndInv', UNCHANGED audit,
         \A k \in Keys : snapshot'[k].revision >= snapshot[k].revision
  PROVE  Register!Show
<1> SUFFICES ASSUME NEW k \in Keys
             PROVE  \/ Shown(k)' = Shown(k)
                    \/ \E n \in 1..Len(History(k)) :
                         /\ n > Shown(k).revision
                         /\ Shown(k)' = Register!Entry(History(k), n)
  <2>1. [q \in Keys |-> History(q)'] = [q \in Keys |-> History(q)]
    BY DEF History
  <2> QED
    BY <2>1 DEF Register!Show
<1>1. /\ snapshot[k] \in Flags /\ snapshot'[k] \in Flags
      /\ Published(k, snapshot[k]) /\ Published(k, snapshot'[k])
      /\ audit \in [Keys -> Seq(Row)]
  BY DEF IndInv, TypeOK, ProjectionInv, Published, Row
<1>2. snapshot[k].revision \in Nat /\ snapshot'[k].revision \in Nat
  BY <1>1 DEF Flags
<1>3. CASE snapshot'[k].revision = snapshot[k].revision
  <2>1. snapshot'[k] = snapshot[k]
    BY <1>1, <1>3, PublishedUnique
  <2> QED
    BY <2>1 DEF Shown
<1>4. CASE snapshot'[k].revision > snapshot[k].revision
  <2> DEFINE n == snapshot'[k].revision
  <2>1. n \in 1..Len(audit[k]) /\ snapshot'[k].definition = audit[k][n].definition
    BY <1>1, <1>2, <1>4 DEF Published
  <2>2. Len(History(k)) = Len(audit[k]) /\ History(k)[n] = audit[k][n].definition
    BY <1>1, <2>1, HistoryIsASequence
  <2>3. Shown(k).revision = snapshot[k].revision
    BY DEF Shown
  <2>4. Shown(k)' = snapshot'[k]
    BY <2>1 DEF Shown
  <2>5. Shown(k)' = Register!Entry(History(k), n)
    BY <1>1, <2>1, <2>2, <2>4 DEF Register!Entry, Flags
  <2> QED
    BY <1>4, <2>1, <2>2, <2>3, <2>5
<1> QED
  BY <1>2, <1>3, <1>4

(* Every step of the service is a step of the register or leaves it alone.  *)
LEMMA StepImplements ==
  ASSUME IndInv, IndInv', [Next]_vars
  PROVE  Register!Publish \/ Register!Show
         \/ UNCHANGED <<[k \in Keys |-> History(k)], [k \in Keys |-> Shown(k)]>>
<1>1. CASE \E p \in Publishers, d \in Definitions : StorePublish(p, d)
  BY <1>1, StorePublishIsPublish
<1>2. CASE \E p \in Publishers : Put(p)
  <2> PICK p \in Publishers : Put(p)
    BY <1>2
  <2>1. /\ UNCHANGED audit
        /\ snapshot' = [snapshot EXCEPT ![target[p]] = Newer(@, result[p])]
        /\ snapshot \in [Keys -> Flags] /\ result[p] \in Flags /\ target[p] \in Keys
    BY DEF IndInv, TypeOK, Put
  <2>2. \A k \in Keys : snapshot'[k].revision >= snapshot[k].revision
    BY <2>1, NewerKeepsTheNewer DEF Flags
  <2> QED
    BY <2>1, <2>2, ForwardIsShow
<1>3. CASE Restart
  <2>1. UNCHANGED audit /\ snapshot' = store
    BY <1>3 DEF Restart, Load
  <2>2. \A k \in Keys : snapshot'[k].revision >= snapshot[k].revision
    <3> SUFFICES ASSUME NEW k \in Keys PROVE store[k].revision >= snapshot[k].revision
      BY <2>1
    <3>1. store[k].revision = Len(audit[k]) /\ snapshot[k].revision \in 0..Len(audit[k])
      BY DEF IndInv, StoreInv, ProjectionInv, Published
    <3>2. Len(audit[k]) \in Nat
      BY LenProperties DEF IndInv, TypeOK
    <3> QED
      BY <3>1, <3>2
  <2> QED
    BY <2>1, <2>2, ForwardIsShow
<1>4. CASE UNCHANGED <<audit, snapshot>>
  BY <1>4 DEF History, Shown
<1> QED
  BY <1>1, <1>2, <1>3, <1>4
     DEF Next, List, StoreConflict, StoreRefuses, EvaluateAll, NotModified, vars

(* The service implements the register: publications extend one history per *)
(* flag, and evaluation only moves forward along it, although Puts overtake *)
(* each other and restarts reload (Store.Publish, Memory.Put, Open).        *)
THEOREM ServiceImplementsRegister == Spec => ImplementsRegister
<1>1. Init => Register!Init
  <2> SUFFICES ASSUME Init
               PROVE  /\ [k \in Keys |-> History(k)] = [k \in Keys |-> << >>]
                      /\ [k \in Keys |-> Shown(k)] = [k \in Keys |-> Register!NoFlag]
    BY DEF Register!Init
  <2>1. \A k \in Keys : History(k) = << >>
    <3> SUFFICES ASSUME NEW k \in Keys PROVE History(k) = << >>
      OBVIOUS
    <3>1. audit[k] = << >>
      BY DEF Init
    <3> QED
      BY <3>1, EmptySeq DEF History
  <2>2. \A k \in Keys : Shown(k) = Register!NoFlag
    BY DEF Init, Shown, NoFlag, Register!NoFlag
  <2> QED
    BY <2>1, <2>2
<1>2. IndInv /\ IndInv' /\ [Next]_vars =>
        [Register!Publish \/ Register!Show]_<<[k \in Keys |-> History(k)],
                                              [k \in Keys |-> Shown(k)]>>
  BY StepImplements
<1> QED
  BY <1>1, <1>2, IndInvHolds, PTL DEF Spec, ImplementsRegister, Register!Spec
=============================================================================
