----------------------- MODULE GeneratedStoresProofs -----------------------
(***************************************************************************)
(* Proofs about the stores of the generated services, for every set of     *)
(* flags, publications and revisions and every bound on retries: whichever *)
(* database guards it, a store implements the authority the service relies *)
(* on, and its audit keeps its order.                                      *)
(***************************************************************************)
EXTENDS GeneratedStores, TLAPS, SequenceTheorems

Row == [sequence : Nat, revision : Nat, definition : Requests]

(* The audit row that r commits.                                            *)
NewRow(r) == [sequence |-> drawn[r], revision |-> calls[r].expected + 1, definition |-> r]

LEMMA RowsNameRequests ==
  ASSUME TypeOK, NEW k \in Keys, NEW i \in 1..Len(audit[k])
  PROVE  audit[k][i].definition \in Requests
<1>1. audit[k] \in Seq(Row)
  BY DEF TypeOK, Row
<1>2. audit[k][i] \in Row
  BY <1>1, ElementOfSeq
<1> QED
  BY <1>2 DEF Row

LEMMA InitEstablishes == Init => IndInv
<1> SUFFICES ASSUME Init PROVE IndInv
  OBVIOUS
<1>1. \A k \in Keys : audit[k] = << >> /\ Len(audit[k]) = 0
  BY EmptySeq DEF Init
<1>2. TypeOK
  <2>1. calls \in [Requests -> [key : Keys, expected : Expected]] /\ backend \in Backends
    BY DEF Init
  <2>2. \A k \in Keys : audit[k] \in Seq(Row)
    BY <1>1, EmptySeq
  <2> QED
    BY <2>1, <2>2, RetryAssumption
       DEF Init, TypeOK, NoFlag, NoBasis, Open, Row
<1>3. StoredInv
  BY <1>1 DEF Init, StoredInv, NoFlag
<1>4. HolderInv
  BY DEF Init, HolderInv
<1>5. RowsInv
  BY <1>1 DEF Init, RowsInv
<1>6. \A r \in Requests : BasisInv(r) /\ GuardInv(r) /\ NumberInv(r)
  BY DEF Init, BasisInv, GuardInv, NumberInv, Begun
<1>7. DoubtInv /\ PublishedInv
  BY <1>1 DEF Init, DoubtInv, PublishedInv
<1> QED
  BY <1>2, <1>3, <1>4, <1>5, <1>6, <1>7 DEF IndInv

-----------------------------------------------------------------------------
(* Rollbacks and commits give back what is theirs.                          *)
LEMMA ReleaseIsOwn ==
  ASSUME TypeOK, NEW r \in Requests, Release(r)
  PROVE  /\ connection' \in Requests \cup {None}
         /\ owner' \in [Keys -> Requests \cup {None}]
         /\ counter' \in Requests \cup {None}
         /\ \A q \in Requests : q # r =>
              /\ connection' = q <=> connection = q
              /\ \A k \in Keys : owner'[k] = q <=> owner[k] = q
              /\ counter' = q <=> counter = q
         /\ connection' # None => connection # None
         /\ \A k \in Keys : owner'[k] # None => owner[k] # None
<1>1. /\ connection \in Requests \cup {None} /\ counter \in Requests \cup {None}
      /\ owner \in [Keys -> Requests \cup {None}]
      /\ connection' = IF connection = r THEN None ELSE connection
      /\ owner' = [k \in Keys |-> IF owner[k] = r THEN None ELSE owner[k]]
      /\ counter' = IF counter = r THEN None ELSE counter
  BY DEF Release, TypeOK
<1>2. /\ connection' \in Requests \cup {None} /\ counter' \in Requests \cup {None}
      /\ connection' # None => connection # None
  BY <1>1
<1>3. /\ owner' \in [Keys -> Requests \cup {None}]
      /\ \A k \in Keys : owner'[k] # None => owner[k] # None
  BY <1>1
<1>4. ASSUME NEW q \in Requests, q # r
      PROVE  /\ connection' = q <=> connection = q
             /\ \A k \in Keys : owner'[k] = q <=> owner[k] = q
             /\ counter' = q <=> counter = q
  BY <1>1, <1>4, RequestAssumption
<1> QED
  BY <1>2, <1>3, <1>4

(* A step of one publication that commits nothing: the others keep their    *)
(* guards and numbers, and its own must be shown.  It may draw a number     *)
(* where the counter is not part of a transaction.                          *)
LEMMA OthersKeep ==
  ASSUME IndInv, NEW r \in Requests, TypeOK', HolderInv',
         UNCHANGED <<backend, flags, audit, calls>>,
         sequence' = sequence \/ (backend \notin CountsInside /\ sequence' = sequence + 1),
         \A q \in Requests : q # r =>
           /\ stage'[q] = stage[q] /\ basis'[q] = basis[q] /\ drawn'[q] = drawn[q]
           /\ connection' = q <=> connection = q
           /\ \A k \in Keys : owner'[k] = q <=> owner[k] = q
           /\ counter' = q <=> counter = q,
         doubtful' = doubtful \ {r}, stage[r] \in Open \/ stage'[r] \notin Open,
         BasisInv(r)', GuardInv(r)', NumberInv(r)'
  PROVE  IndInv'
<1>0. TypeOK
  BY DEF IndInv
<1>1. sequence \in Nat /\ sequence' \in Nat /\ sequence <= sequence'
  <2>1. sequence \in Nat
    BY <1>0 DEF TypeOK
  <2> QED
    BY <2>1
<1>2. StoredInv'
  BY DEF IndInv, StoredInv
<1>3. RowsInv'
  <2>0. 1..sequence \subseteq 1..sequence'
    BY <1>1
  <2>1. RowsInv
    BY DEF IndInv
  <2>2. backend \in CountsInside => sequence' = sequence
    OBVIOUS
  <2> QED
    BY <2>0, <2>1, <2>2 DEF RowsInv, CountsInside
<1>4. ASSUME NEW q \in Requests, q # r
      PROVE  BasisInv(q)' /\ GuardInv(q)' /\ NumberInv(q)'
  <2>0. BasisInv(q) /\ GuardInv(q) /\ NumberInv(q)
    BY DEF IndInv
  <2>1. /\ stage'[q] = stage[q] /\ basis'[q] = basis[q] /\ drawn'[q] = drawn[q]
        /\ connection' = q <=> connection = q
        /\ counter' = q <=> counter = q
        /\ owner'[Key(q)] = q <=> owner[Key(q)] = q
        /\ Key(q) \in Keys
    BY <1>0, <1>4 DEF Key, TypeOK
  <2>2. /\ Key(q)' = Key(q) /\ Creates(q)' = Creates(q) /\ Unmoved(q)' = Unmoved(q)
    BY <2>1 DEF Key, Creates, Unmoved
  <2>3. BasisInv(q)'
    BY <2>0, <2>1, <2>2 DEF BasisInv, Begun
  <2>4. GuardInv(q)'
    BY <2>0, <2>1, <2>2 DEF GuardInv, Begun
  <2>5. NumberInv(q)'
    <3> SUFFICES ASSUME stage[q] = "numbered" PROVE NumberInv(q)'
      BY <2>1 DEF NumberInv
    <3>1. /\ drawn[q] > 0
          /\ backend \in CountsInside => counter = q /\ drawn[q] = sequence + 1
          /\ backend \notin CountsInside => drawn[q] <= sequence
          /\ \A p \in Requests : stage[p] = "numbered" /\ drawn[p] = drawn[q] => p = q
          /\ \A k \in Keys : \A i \in 1..Len(audit[k]) : audit[k][i].sequence # drawn[q]
          /\ Unmoved(q) => \A i \in 1..Len(audit[Key(q)]) : audit[Key(q)][i].sequence < drawn[q]
      BY <2>0 DEF NumberInv
    <3>2. \A p \in Requests : stage'[p] = "numbered" /\ drawn'[p] = drawn'[q] => p = q
      <4> SUFFICES ASSUME NEW p \in Requests, stage'[p] = "numbered", drawn'[p] = drawn'[q]
                   PROVE  p = q
        OBVIOUS
      <4>1. CASE p = r
        BY <2>1, <4>1 DEF NumberInv
      <4>2. CASE p # r
        BY <2>1, <3>1, <4>2
      <4> QED
        BY <4>1, <4>2
    <3>3. backend \notin CountsInside => drawn[q] <= sequence'
      <4>1. drawn[q] \in Nat
        BY <1>0 DEF TypeOK
      <4> QED
        BY <1>1, <3>1, <4>1
    <3> QED
      BY <2>1, <2>2, <3>1, <3>2, <3>3 DEF NumberInv, CountsInside
  <2> QED
    BY <2>3, <2>4, <2>5
<1>5. DoubtInv'
  BY <1>0 DEF IndInv, DoubtInv, TypeOK
<1>6. PublishedInv'
  <2>1. \A k \in Keys : \A i \in 1..Len(audit[k]) : audit[k][i].definition \in Requests
    BY <1>0, RowsNameRequests
  <2>2. PublishedInv
    BY DEF IndInv
  <2> QED
    BY <2>1, <2>2 DEF PublishedInv
<1> QED
  BY <1>2, <1>3, <1>4, <1>5, <1>6 DEF IndInv

-----------------------------------------------------------------------------
(* The invariant, statement by statement.                                   *)

(* The rollback: the publication is over, or starts over.                   *)
LEMMA RollbackKeeps ==
  ASSUME IndInv, NEW r \in Requests, NEW place \in Closed \cup {"called"},
         stage' = [stage EXCEPT ![r] = place], Release(r),
         doubtful' = doubtful \ {r}, stage[r] \in Open \/ place \in Closed,
         retries' \in [Requests -> 0..MaxRetries],
         UNCHANGED <<backend, database, calls, basis, drawn>>
  PROVE  IndInv'
<1>1. TypeOK /\ HolderInv
  BY DEF IndInv
<1>2. /\ connection' \in Requests \cup {None}
      /\ owner' \in [Keys -> Requests \cup {None}]
      /\ counter' \in Requests \cup {None}
      /\ \A q \in Requests : q # r =>
           /\ connection' = q <=> connection = q
           /\ \A k \in Keys : owner'[k] = q <=> owner[k] = q
           /\ counter' = q <=> counter = q
      /\ connection' # None => connection # None
      /\ \A k \in Keys : owner'[k] # None => owner[k] # None
  BY <1>1, ReleaseIsOwn
<1>3. UNCHANGED <<flags, audit, sequence>>
  BY DEF database
<1>4. /\ stage' \in [Requests -> Open \cup {"committed"} \cup Closed]
      /\ stage'[r] \notin Begun /\ (stage[r] \in Open \/ stage'[r] \notin Open)
      /\ \A q \in Requests : q # r => stage'[q] = stage[q]
  BY <1>1 DEF TypeOK, Open, Closed, Begun
<1>5. TypeOK'
  BY <1>1, <1>2, <1>3, <1>4 DEF TypeOK
<1>6. HolderInv'
  BY <1>1, <1>2 DEF HolderInv
<1>7. BasisInv(r)' /\ GuardInv(r)' /\ NumberInv(r)'
  BY <1>4 DEF BasisInv, GuardInv, NumberInv, Begun
<1> QED
  BY <1>2, <1>3, <1>4, <1>5, <1>6, <1>7, OthersKeep

LEMMA RefuseKeeps ==
  ASSUME IndInv, NEW r \in Requests, NEW answer \in Closed, Refuse(r, answer),
         doubtful' = doubtful \ {r}
  PROVE  IndInv'
BY RollbackKeeps DEF Refuse, IndInv, TypeOK

LEMMA TransientKeeps ==
  ASSUME IndInv, NEW r \in Requests, Transient(r), stage[r] \in Open,
         doubtful' = doubtful \ {r}
  PROVE  IndInv'
<1>1. retries' \in [Requests -> 0..MaxRetries]
  <2>1. retries \in [Requests -> 0..MaxRetries]
    BY DEF IndInv, TypeOK
  <2>2. CASE retries' = retries
    BY <2>1, <2>2
  <2>3. CASE retries[r] < MaxRetries /\ retries' = [retries EXCEPT ![r] = @ + 1]
    BY <2>1, <2>3, RetryAssumption
  <2> QED
    BY <2>2, <2>3 DEF Transient
<1>2. PICK place \in Closed \cup {"called"} : stage' = [stage EXCEPT ![r] = place]
  BY DEF Transient, Closed
<1> QED
  BY <1>1, <1>2, RollbackKeeps DEF Transient

(* The read fixes the basis; SQLite and Postgres take their guard with it.  *)
LEMMA ReadKeeps ==
  ASSUME IndInv, NEW r \in Requests, Read(r), doubtful' = doubtful \ {r}
  PROVE  IndInv'
<1> DEFINE k == Key(r)
<1>1. TypeOK /\ StoredInv /\ HolderInv /\ GuardInv(r) /\ k \in Keys
  BY DEF IndInv, TypeOK, Key
<1>2. /\ stage[r] = "called" /\ flags[k].revision = calls[r].expected
      /\ UNCHANGED <<backend, flags, audit, sequence, counter, calls, drawn, retries>>
      /\ stage' = [stage EXCEPT ![r] = "read"]
      /\ backend = "sqlite" => connection = None
      /\ backend = "postgres" /\ flags[k].revision > 0 => owner[k] = None
      /\ connection' = IF backend = "sqlite" THEN r ELSE connection
      /\ owner' = IF backend = "postgres" /\ ~Creates(r) THEN [owner EXCEPT ![k] = r] ELSE owner
  BY DEF Read, MayRead, Agrees, database
<1>3. basis' = [basis EXCEPT ![r] =
        [cas |-> flags[k].cas, sequence |-> IF backend \in CountsInside THEN sequence ELSE 0]]
  BY DEF Read
<1>4. /\ basis' \in [Requests -> [cas : Nat, sequence : Nat]]
      /\ basis'[r].cas = flags[k].cas
      /\ \A q \in Requests : q # r => basis'[q] = basis[q]
  <2>1. basis \in [Requests -> [cas : Nat, sequence : Nat]] /\ flags[k].cas \in Nat /\ sequence \in Nat
    BY <1>1 DEF TypeOK
  <2> QED
    BY <1>3, <2>1
<1>5. /\ stage' \in [Requests -> Open \cup {"committed"} \cup Closed]
      /\ stage'[r] = "read"
      /\ \A q \in Requests : q # r => stage'[q] = stage[q]
  BY <1>1, <1>2 DEF TypeOK, Open
<1>6. /\ flags[k].cas = calls[r].expected /\ flags[k].revision \in Nat
      /\ calls[r].expected \in Nat
  BY <1>1, <1>2, ExpectedAssumption DEF StoredInv, TypeOK
<1>7. backend = "postgres" /\ ~Creates(r) => owner[k] = None
  BY <1>2, <1>6 DEF Creates
<1>8. /\ connection' \in Requests \cup {None}
      /\ \A q \in Requests : q # r => (connection' = q <=> connection = q)
      /\ connection' # None => backend = "sqlite"
  BY <1>1, <1>2, RequestAssumption DEF TypeOK, HolderInv
<1>9. /\ owner' \in [Keys -> Requests \cup {None}]
      /\ \A q \in Requests : q # r => \A l \in Keys : owner'[l] = q <=> owner[l] = q
      /\ \A l \in Keys : owner'[l] # None => backend # "couchbase"
      /\ backend = "postgres" /\ ~Creates(r) => owner'[k] = r
  <2>0. owner \in [Keys -> Requests \cup {None}]
    BY <1>1 DEF TypeOK
  <2>1. CASE backend = "postgres" /\ ~Creates(r)
    BY <1>1, <1>2, <1>7, <2>0, <2>1, RequestAssumption DEF HolderInv
  <2>2. CASE ~(backend = "postgres" /\ ~Creates(r))
    BY <1>1, <1>2, <2>0, <2>2 DEF HolderInv
  <2> QED
    BY <2>1, <2>2
<1>10. TypeOK'
  BY <1>1, <1>2, <1>4, <1>5, <1>8, <1>9 DEF TypeOK
<1>11. HolderInv'
  BY <1>2, <1>8, <1>9 DEF HolderInv
<1>12. /\ Key(r)' = k /\ Creates(r)' = Creates(r) /\ Unmoved(r)'
  BY <1>2, <1>4 DEF Key, Creates, Unmoved
<1>13. BasisInv(r)'
  BY <1>2, <1>4, <1>6, <1>12 DEF BasisInv
<1>14. GuardInv(r)'
  BY <1>2, <1>5, <1>9, <1>12 DEF GuardInv
<1>15. NumberInv(r)'
  BY <1>5 DEF NumberInv
<1> QED
  BY <1>2, <1>4, <1>5, <1>8, <1>9, <1>10, <1>11, <1>13, <1>14, <1>15, OthersKeep DEF Open

(* The write takes the row: nobody else has it, and the flag is as it was   *)
(* read, by the database's check or by the guard taken with the read.       *)
LEMMA WriteKeeps ==
  ASSUME IndInv, NEW r \in Requests, Write(r), doubtful' = doubtful \ {r}
  PROVE  IndInv'
<1> DEFINE k == Key(r)
<1>1. TypeOK /\ HolderInv /\ BasisInv(r) /\ GuardInv(r) /\ k \in Keys
  BY DEF IndInv, TypeOK, Key
<1>2. /\ stage[r] = "read" /\ backend # "couchbase" /\ owner[k] \in {None, r}
      /\ Creates(r) \/ backend = "mongodb" => Unmoved(r)
      /\ UNCHANGED <<backend, flags, audit, sequence, connection, counter, calls, basis, drawn, retries>>
      /\ stage' = [stage EXCEPT ![r] = "written"]
      /\ owner' = [owner EXCEPT ![k] = r]
  BY DEF Write, database
<1>3. Unmoved(r)
  <2>1. backend \in {"sqlite", "postgres", "mongodb"}
    BY <1>1, <1>2 DEF TypeOK, Backends
  <2> QED
    BY <1>1, <1>2, <2>1 DEF GuardInv, Begun
<1>4. /\ stage' \in [Requests -> Open \cup {"committed"} \cup Closed]
      /\ stage'[r] = "written"
      /\ \A q \in Requests : q # r => stage'[q] = stage[q]
  BY <1>1, <1>2 DEF TypeOK, Open
<1>5. /\ owner' \in [Keys -> Requests \cup {None}]
      /\ \A q \in Requests : q # r => \A l \in Keys : owner'[l] = q <=> owner[l] = q
      /\ owner'[k] = r
  BY <1>1, <1>2, RequestAssumption DEF TypeOK
<1>6. TypeOK'
  BY <1>1, <1>2, <1>4, <1>5 DEF TypeOK
<1>7. HolderInv'
  BY <1>1, <1>2 DEF HolderInv
<1>8. Key(r)' = k /\ Creates(r)' = Creates(r) /\ Unmoved(r)'
  BY <1>2, <1>3 DEF Key, Creates, Unmoved
<1>9. BasisInv(r)'
  BY <1>1, <1>2, <1>8 DEF BasisInv, Begun
<1>10. GuardInv(r)'
  BY <1>1, <1>2, <1>5, <1>8 DEF GuardInv, Begun
<1>11. NumberInv(r)'
  BY <1>4 DEF NumberInv
<1> QED
  BY <1>2, <1>4, <1>5, <1>6, <1>7, <1>9, <1>10, <1>11, OthersKeep DEF Open

(* The number: Postgres and Couchbase count on at once, the others hold the *)
(* counter, which nobody else with a number can do at the same time.        *)
LEMMA NumberKeeps ==
  ASSUME IndInv, NEW r \in Requests, Draw(r) \/ Advance(r), doubtful' = doubtful \ {r}
  PROVE  IndInv'
<1> DEFINE k == Key(r)
<1>1. TypeOK /\ HolderInv /\ RowsInv /\ BasisInv(r) /\ GuardInv(r) /\ k \in Keys
  BY DEF IndInv, TypeOK, Key
<1>2. /\ stage[r] \in {"read", "written"}
      /\ backend # "couchbase" => stage[r] = "written"
      /\ UNCHANGED <<backend, flags, audit, connection, owner, calls, basis, retries>>
      /\ stage' = [stage EXCEPT ![r] = "numbered"]
      /\ drawn' = [drawn EXCEPT ![r] = sequence + 1]
  BY DEF Draw, Advance, database, held, CountsInside
<1>3. /\ stage' \in [Requests -> Open \cup {"committed"} \cup Closed]
      /\ stage'[r] = "numbered"
      /\ \A q \in Requests : q # r => stage'[q] = stage[q]
  BY <1>1, <1>2 DEF TypeOK, Open
<1>4. /\ sequence \in Nat
      /\ drawn' \in [Requests -> Nat] /\ drawn'[r] = sequence + 1
      /\ \A q \in Requests : q # r => drawn'[q] = drawn[q]
  BY <1>1, <1>2 DEF TypeOK
<1>5. /\ sequence' \in Nat /\ counter' \in Requests \cup {None}
      /\ sequence' = sequence \/ (backend \notin CountsInside /\ sequence' = sequence + 1)
      /\ \A q \in Requests : q # r => (counter' = q <=> counter = q)
      /\ backend \in CountsInside => counter = None /\ counter' = r /\ sequence' = sequence
      /\ backend \notin CountsInside => sequence' = sequence + 1
  <2>1. CASE Draw(r)
    <3>1. backend \notin CountsInside /\ sequence' = sequence + 1 /\ counter' = counter
      BY <2>1 DEF Draw, held
    <3> QED
      BY <1>1, <1>4, <3>1 DEF TypeOK
  <2>2. CASE Advance(r)
    <3>1. backend \in CountsInside /\ sequence' = sequence /\ counter = None /\ counter' = r
      BY <2>2 DEF Advance, database
    <3> QED
      BY <1>1, <1>4, <3>1, RequestAssumption DEF TypeOK
  <2> QED
    BY <2>1, <2>2
<1>6. TypeOK'
  BY <1>1, <1>2, <1>3, <1>4, <1>5 DEF TypeOK
<1>7. HolderInv'
  BY <1>1, <1>2 DEF HolderInv
<1>8. Key(r)' = k /\ Creates(r)' = Creates(r) /\ Unmoved(r)' = Unmoved(r)
  BY <1>2 DEF Key, Creates, Unmoved
<1>9. BasisInv(r)'
  BY <1>1, <1>2, <1>8 DEF BasisInv, Begun
<1>10. GuardInv(r)'
  BY <1>1, <1>2, <1>8 DEF GuardInv, Begun
<1>11. NumberInv(r)'
  <2>1. ASSUME NEW q \in Requests, q # r, stage[q] = "numbered"
        PROVE  drawn[q] # sequence + 1
    <3>1. NumberInv(q)
      BY DEF IndInv
    <3>2. backend \notin CountsInside
      BY <1>5, <2>1, <3>1, RequestAssumption DEF NumberInv
    <3>3. drawn[q] \in Nat /\ drawn[q] <= sequence
      BY <1>1, <2>1, <3>1, <3>2 DEF NumberInv, TypeOK
    <3> QED
      BY <1>4, <3>3
  <2>2. \A q \in Requests : stage'[q] = "numbered" /\ drawn'[q] = drawn'[r] => q = r
    BY <1>3, <1>4, <2>1
  <2>3. \A l \in Keys : \A i \in 1..Len(audit[l]) : audit[l][i].sequence \in 1..sequence
    BY <1>1 DEF RowsInv
  <2>4. \A l \in Keys : \A i \in 1..Len(audit[l]) :
          audit[l][i].sequence # sequence + 1 /\ audit[l][i].sequence < sequence + 1
    <3> SUFFICES ASSUME NEW n \in 1..sequence PROVE n # sequence + 1 /\ n < sequence + 1
      BY <2>3
    <3> QED
      BY <1>4
  <2>5. sequence + 1 > 0
    BY <1>4
  <2>6. /\ backend' \in CountsInside => counter' = r /\ drawn'[r] = sequence' + 1
        /\ backend' \notin CountsInside => drawn'[r] <= sequence'
    <3>1. CASE backend \in CountsInside
      BY <1>2, <1>4, <1>5, <3>1
    <3>2. CASE backend \notin CountsInside
      BY <1>2, <1>4, <1>5, <3>2
    <3> QED
      BY <1>2, <3>1, <3>2
  <2>7. \A l \in Keys : \A i \in 1..Len(audit'[l]) :
          audit'[l][i].sequence # drawn'[r] /\ audit'[l][i].sequence < drawn'[r]
    BY <1>2, <1>4, <2>4
  <2>8. drawn'[r] > 0
    BY <1>4, <2>5
  <2> HIDE DEF k
  <2> QED
    BY <1>1, <1>8, <2>2, <2>6, <2>7, <2>8 DEF NumberInv, CountsInside
<1> QED
  BY <1>2, <1>3, <1>4, <1>5, <1>6, <1>7, <1>9, <1>10, <1>11, OthersKeep DEF Open

LEMMA AnswerKeeps ==
  ASSUME IndInv, NEW r \in Requests, Answer(r), doubtful' = doubtful \ {r}
  PROVE  IndInv'
<1>1. TypeOK /\ HolderInv
  BY DEF IndInv
<1>2. /\ stage' = [stage EXCEPT ![r] = "published"]
      /\ UNCHANGED <<backend, flags, audit, sequence, connection, owner, counter, calls,
                     basis, drawn, retries>>
  BY DEF Answer, database, held
<1>3. /\ stage' \in [Requests -> Open \cup {"committed"} \cup Closed]
      /\ stage'[r] = "published"
      /\ \A q \in Requests : q # r => stage'[q] = stage[q]
  BY <1>1, <1>2 DEF TypeOK, Closed
<1>4. TypeOK'
  BY <1>1, <1>2, <1>3 DEF TypeOK
<1>5. HolderInv'
  BY <1>1, <1>2 DEF HolderInv
<1>6. BasisInv(r)' /\ GuardInv(r)' /\ NumberInv(r)'
  BY <1>3 DEF BasisInv, GuardInv, NumberInv, Begun
<1> QED
  BY <1>2, <1>3, <1>4, <1>5, <1>6, OthersKeep DEF Open

(* A call that is lost on its way changes what the caller was told, nothing *)
(* else.                                                                    *)
LEMMA LoseConnectionKeeps ==
  ASSUME IndInv, NEW r \in Requests, LoseConnection(r)
  PROVE  IndInv'
<1>1. /\ stage[r] \in Begun /\ doubtful' = doubtful \cup {r}
      /\ UNCHANGED <<backend, flags, audit, sequence, connection, owner, counter, calls,
                     stage, basis, drawn, retries>>
      /\ TypeOK /\ StoredInv /\ HolderInv /\ RowsInv /\ DoubtInv /\ PublishedInv
      /\ \A q \in Requests : BasisInv(q) /\ GuardInv(q) /\ NumberInv(q)
  BY DEF LoseConnection, Begun, database, held, IndInv
<1>2. TypeOK'
  BY <1>1 DEF TypeOK
<1>3. StoredInv' /\ HolderInv'
  BY <1>1 DEF StoredInv, HolderInv
<1>4. RowsInv'
  BY <1>1 DEF RowsInv
<1>5. DoubtInv' /\ PublishedInv'
  BY <1>1 DEF DoubtInv, PublishedInv
<1>6. ASSUME NEW q \in Requests
      PROVE  BasisInv(q)' /\ GuardInv(q)' /\ NumberInv(q)'
  BY <1>1 DEF BasisInv, GuardInv, NumberInv, Key, Creates, Unmoved
<1> QED
  BY <1>2, <1>3, <1>4, <1>5, <1>6 DEF IndInv

-----------------------------------------------------------------------------
(* The commit.                                                              *)

(* Whatever the database, a publication commits on the flag as it read it.  *)
LEMMA CommitsOnItsBasis ==
  ASSUME IndInv, NEW r \in Requests, NEW place, TakesEffect(r, place)
  PROVE  /\ Key(r) \in Keys /\ Unmoved(r)
         /\ Len(audit[Key(r)]) = calls[r].expected
         /\ flags[Key(r)].cas = calls[r].expected
         /\ flags[Key(r)].revision = calls[r].expected
         /\ calls[r].expected \in Nat
<1>1. TypeOK /\ StoredInv /\ BasisInv(r) /\ GuardInv(r) /\ stage[r] = "numbered"
  BY DEF IndInv, TakesEffect
<1>2. Key(r) \in Keys /\ calls[r].expected \in Nat
  BY <1>1, ExpectedAssumption DEF TypeOK, Key
<1>3. Unmoved(r)
  <2>1. CASE backend = "couchbase"
    BY <2>1 DEF TakesEffect
  <2>2. CASE backend # "couchbase"
    BY <1>1, <2>2 DEF GuardInv, Begun
  <2> QED
    BY <2>1, <2>2
<1>4. basis[r].cas = calls[r].expected
  BY <1>1 DEF BasisInv, Begun
<1> QED
  BY <1>1, <1>2, <1>3, <1>4 DEF Unmoved, StoredInv

(* What the commit leaves in the store.                                     *)
LEMMA CommitWrites ==
  ASSUME IndInv, NEW r \in Requests, NEW place, TakesEffect(r, place), NEW k, k = Key(r)
  PROVE  /\ NewRow(r) \in Row
         /\ audit' \in [Keys -> Seq(Row)]
         /\ audit'[k] = Append(audit[k], NewRow(r))
         /\ Len(audit[k]) \in Nat /\ Len(audit'[k]) = Len(audit[k]) + 1
         /\ audit'[k][Len(audit[k]) + 1] = NewRow(r)
         /\ \A i \in 1..Len(audit[k]) : audit'[k][i] = audit[k][i]
         /\ flags'[k] = [revision |-> Len(audit[k]) + 1, definition |-> r,
                         cas |-> Len(audit[k]) + 1]
         /\ flags' \in [Keys -> [revision : Nat, definition : Requests \cup {None}, cas : Nat]]
         /\ \A l \in Keys : l # k => audit'[l] = audit[l] /\ flags'[l] = flags[l]
<1>1. /\ k \in Keys /\ Len(audit[k]) = calls[r].expected
      /\ flags[k].cas = calls[r].expected /\ calls[r].expected \in Nat
  BY CommitsOnItsBasis
<1>2. /\ audit \in [Keys -> Seq(Row)] /\ drawn[r] \in Nat
      /\ flags \in [Keys -> [revision : Nat, definition : Requests \cup {None}, cas : Nat]]
  BY DEF IndInv, TypeOK, Row
<1>3. NewRow(r) \in Row
  BY <1>1, <1>2 DEF Row, NewRow
<1>4. audit' = [audit EXCEPT ![k] = Append(@, NewRow(r))]
  BY DEF TakesEffect, NewRow
<1>5. flags' = [flags EXCEPT ![k] =
        [revision |-> calls[r].expected + 1, definition |-> r, cas |-> flags[k].cas + 1]]
  BY DEF TakesEffect
<1>6. /\ audit[k] \in Seq(Row)
      /\ Append(audit[k], NewRow(r)) \in Seq(Row)
      /\ Len(Append(audit[k], NewRow(r))) = Len(audit[k]) + 1
      /\ Append(audit[k], NewRow(r))[Len(audit[k]) + 1] = NewRow(r)
      /\ \A i \in 1..Len(audit[k]) : Append(audit[k], NewRow(r))[i] = audit[k][i]
  BY <1>1, <1>2, <1>3, AppendProperties
<1>7. audit'[k] = Append(audit[k], NewRow(r))
  BY <1>1, <1>2, <1>4
<1>8. audit' \in [Keys -> Seq(Row)] /\ \A l \in Keys : l # k => audit'[l] = audit[l]
  BY <1>1, <1>2, <1>4, <1>6
<1>9. [revision |-> calls[r].expected + 1, definition |-> r, cas |-> flags[k].cas + 1]
        \in [revision : Nat, definition : Requests \cup {None}, cas : Nat]
  BY <1>1
<1>10. /\ flags'[k] = [revision |-> Len(audit[k]) + 1, definition |-> r,
                       cas |-> Len(audit[k]) + 1]
       /\ flags' \in [Keys -> [revision : Nat, definition : Requests \cup {None}, cas : Nat]]
       /\ \A l \in Keys : l # k => flags'[l] = flags[l]
  BY <1>1, <1>2, <1>5, <1>9
<1> QED
  BY <1>1, <1>3, <1>6, <1>7, <1>8, <1>10

(* The committed row is the highest of its flag, its number is new, and it  *)
(* closes the gap where the counter is part of the transaction.             *)
LEMMA CommitKeepsRows ==
  ASSUME IndInv, NEW r \in Requests, NEW place, TakesEffect(r, place)
  PROVE  /\ RowsInv' /\ sequence' \in Nat
         /\ backend \notin CountsInside => sequence' = sequence
<1> PICK k \in Keys : k = Key(r)
  BY CommitsOnItsBasis
<1> PICK row : row = NewRow(r)
  OBVIOUS
<1> PICK n \in Nat : n = Len(audit[k])
  BY CommitWrites
<1>1. /\ Len(audit'[k]) = n + 1 /\ audit'[k][n + 1] = row
      /\ \A i \in 1..n : audit'[k][i] = audit[k][i]
      /\ \A l \in Keys : l # k => audit'[l] = audit[l]
  <2>1. Len(audit'[k]) = Len(audit[k]) + 1 /\ audit'[k][Len(audit[k]) + 1] = NewRow(r)
    BY CommitWrites, Zenon
  <2>2. \A i \in 1..Len(audit[k]) : audit'[k][i] = audit[k][i]
    BY CommitWrites, Zenon
  <2>3. \A l \in Keys : l # k => audit'[l] = audit[l] /\ flags'[l] = flags[l]
    BY CommitWrites, Zenon
  <2> QED
    BY <2>1, <2>2, <2>3
<1>2. row.sequence = drawn[r] /\ row.revision = n + 1
  BY CommitsOnItsBasis DEF NewRow
<1>3. /\ sequence \in Nat /\ drawn[r] \in Nat /\ RowsInv /\ NumberInv(r) /\ Unmoved(r)
      /\ audit \in [Keys -> Seq(Row)]
  BY CommitsOnItsBasis DEF IndInv, TypeOK, Row
<1>4. /\ drawn[r] > 0 /\ backend' = backend
      /\ backend \in CountsInside => drawn[r] = sequence + 1
      /\ backend \notin CountsInside => drawn[r] <= sequence
      /\ \A l \in Keys : \A i \in 1..Len(audit[l]) : audit[l][i].sequence # drawn[r]
      /\ \A i \in 1..n : audit[k][i].sequence < drawn[r]
  BY <1>3 DEF NumberInv, TakesEffect
<1>5. sequence' = IF backend \in CountsInside THEN drawn[r] ELSE sequence
  BY DEF TakesEffect
<1>6. sequence' \in Nat /\ sequence <= sequence' /\ drawn[r] \in 1..sequence'
  <2>1. CASE backend \in CountsInside
    BY <1>3, <1>4, <1>5, <2>1
  <2>2. CASE backend \notin CountsInside
    BY <1>3, <1>4, <1>5, <2>2
  <2> QED
    BY <2>1, <2>2
<1>7. ASSUME NEW i \in 1..(n + 1), i \notin 1..n
      PROVE  i = n + 1
  BY <1>7
<1>8. ASSUME NEW l \in Keys, NEW i \in 1..Len(audit[l])
      PROVE  /\ i \in 1..Len(audit'[l]) /\ audit'[l][i] = audit[l][i]
             /\ audit[l][i].revision = i /\ audit[l][i].sequence \in 1..sequence
  <2>1. audit[l][i].revision = i /\ audit[l][i].sequence \in 1..sequence
    BY <1>3 DEF RowsInv
  <2>2. CASE l = k
    BY <1>1, <2>1, <2>2
  <2>3. CASE l # k
    BY <1>1, <2>1, <2>3
  <2> QED
    BY <2>2, <2>3
(* Every row is an old one or the new one. *)
<1>9. ASSUME NEW l \in Keys, NEW i \in 1..Len(audit'[l])
      PROVE  \/ i \in 1..Len(audit[l]) /\ audit'[l][i] = audit[l][i]
             \/ l = k /\ i = n + 1 /\ audit'[l][i] = row
  <2>1. CASE l = k
    BY <1>1, <1>7, <2>1
  <2>2. CASE l # k
    BY <1>1, <2>2
  <2> QED
    BY <2>1, <2>2
<1>10. ASSUME NEW l \in Keys, NEW i \in 1..Len(audit'[l])
       PROVE  audit'[l][i].revision = i /\ audit'[l][i].sequence \in 1..sequence'
  <2>1. CASE i \in 1..Len(audit[l]) /\ audit'[l][i] = audit[l][i]
    <3>1. audit[l][i].revision = i /\ audit[l][i].sequence \in 1..sequence
      BY <1>8, <2>1
    <3> QED
      BY <1>3, <1>6, <2>1, <3>1
  <2>2. CASE l = k /\ i = n + 1 /\ audit'[l][i] = row
    BY <1>2, <1>6, <2>2
  <2> QED
    BY <1>9, <2>1, <2>2
<1>11. ASSUME NEW l \in Keys, NEW i \in 1..Len(audit'[l]), NEW j \in 1..Len(audit'[l]), i < j
       PROVE  audit'[l][i].sequence < audit'[l][j].sequence
  <2>1. CASE j \in 1..Len(audit[l]) /\ audit'[l][j] = audit[l][j]
    <3>1. i \in 1..Len(audit[l])
      <4>1. Len(audit[l]) \in Nat
        BY <1>3, LenProperties
      <4>2. i \in Nat /\ 1 <= i /\ j <= Len(audit[l]) /\ j \in Nat
        BY <1>11, <2>1, <4>1, <1>1
      <4> QED
        BY <1>11, <4>1, <4>2
    <3> QED
      BY <1>3, <1>8, <1>11, <2>1, <3>1 DEF RowsInv
  <2>2. CASE l = k /\ j = n + 1 /\ audit'[l][j] = row
    <3>1. i \in 1..n
      BY <1>1, <1>11, <2>2
    <3> QED
      BY <1>1, <1>2, <1>4, <2>2, <3>1
  <2> QED
    BY <1>9, <2>1, <2>2
<1>12. ASSUME NEW l \in Keys, NEW m \in Keys, NEW i \in 1..Len(audit'[l]),
              NEW j \in 1..Len(audit'[m]), audit'[l][i].sequence = audit'[m][j].sequence
       PROVE  l = m
  <2>1. CASE /\ i \in 1..Len(audit[l]) /\ audit'[l][i] = audit[l][i]
             /\ j \in 1..Len(audit[m]) /\ audit'[m][j] = audit[m][j]
    BY <1>3, <1>12, <2>1 DEF RowsInv
  <2>2. CASE i \in 1..Len(audit[l]) /\ audit'[l][i] = audit[l][i] /\ audit'[m][j] = row
    BY <1>2, <1>4, <1>12, <2>2
  <2>3. CASE j \in 1..Len(audit[m]) /\ audit'[m][j] = audit[m][j] /\ audit'[l][i] = row
    BY <1>2, <1>4, <1>12, <2>3
  <2> QED
    BY <1>9, <2>1, <2>2, <2>3
<1>13. ASSUME backend \in CountsInside, NEW x \in 1..sequence'
       PROVE  \E l \in Keys : \E i \in 1..Len(audit'[l]) : audit'[l][i].sequence = x
  <2>1. sequence' = sequence + 1
    BY <1>4, <1>5, <1>13
  <2>2. CASE x \in 1..sequence
    <3>1. PICK l \in Keys : \E i \in 1..Len(audit[l]) : audit[l][i].sequence = x
      BY <1>3, <1>13, <2>2 DEF RowsInv
    <3>2. PICK i \in 1..Len(audit[l]) : audit[l][i].sequence = x
      BY <3>1
    <3> QED
      BY <1>8, <3>2
  <2>3. CASE x = sequence + 1
    <3>1. n + 1 \in 1..Len(audit'[k]) /\ audit'[k][n + 1].sequence = x
      BY <1>1, <1>2, <1>4, <1>13, <2>3
    <3> QED
      BY <3>1
  <2>4. x \in 1..sequence \/ x = sequence + 1
    BY <1>3, <1>13, <2>1
  <2> QED
    BY <2>2, <2>3, <2>4
<1>14. RowsInv'
  BY <1>4, <1>10, <1>11, <1>12, <1>13 DEF RowsInv, CountsInside
<1> QED
  BY <1>5, <1>6, <1>14

(* No other publication that holds the flag can be there when r commits on  *)
(* it, and one that began without holding it will find that it moved.       *)
LEMMA CommitKeeps ==
  ASSUME IndInv, NEW r \in Requests, NEW place \in {"committed", "error"},
         TakesEffect(r, place), doubtful' = doubtful \ {r}
  PROVE  IndInv'
<1> PICK k \in Keys : k = Key(r)
  BY CommitsOnItsBasis
<1>1. TypeOK /\ StoredInv /\ HolderInv /\ GuardInv(r) /\ NumberInv(r)
  BY DEF IndInv
<1>2. /\ audit' \in [Keys -> Seq(Row)]
      /\ Len(audit[k]) \in Nat /\ Len(audit'[k]) = Len(audit[k]) + 1
      /\ audit'[k][Len(audit[k]) + 1] = NewRow(r)
      /\ \A i \in 1..Len(audit[k]) : audit'[k][i] = audit[k][i]
      /\ flags'[k] = [revision |-> Len(audit[k]) + 1, definition |-> r,
                      cas |-> Len(audit[k]) + 1]
      /\ flags' \in [Keys -> [revision : Nat, definition : Requests \cup {None}, cas : Nat]]
      /\ \A l \in Keys : l # k => audit'[l] = audit[l] /\ flags'[l] = flags[l]
  BY CommitWrites
<1>3. RowsInv' /\ sequence' \in Nat /\ (backend \notin CountsInside => sequence' = sequence)
  BY CommitKeepsRows
<1>4. /\ connection' \in Requests \cup {None}
      /\ owner' \in [Keys -> Requests \cup {None}]
      /\ counter' \in Requests \cup {None}
      /\ \A q \in Requests : q # r =>
           /\ connection' = q <=> connection = q
           /\ \A l \in Keys : owner'[l] = q <=> owner[l] = q
           /\ counter' = q <=> counter = q
      /\ connection' # None => connection # None
      /\ \A l \in Keys : owner'[l] # None => owner[l] # None
  BY <1>1, ReleaseIsOwn DEF TakesEffect
<1>5. /\ stage[r] = "numbered" /\ stage' = [stage EXCEPT ![r] = place]
      /\ UNCHANGED <<backend, calls, basis, drawn, retries>>
  BY DEF TakesEffect
<1>6. /\ stage' \in [Requests -> Open \cup {"committed"} \cup Closed]
      /\ stage'[r] = place /\ place \notin Open /\ place \notin Begun
      /\ \A q \in Requests : q # r => stage'[q] = stage[q]
  BY <1>1, <1>5 DEF TypeOK, Open, Closed, Begun
<1>7. TypeOK'
  BY <1>1, <1>2, <1>3, <1>4, <1>5, <1>6 DEF TypeOK, Row
<1>8. StoredInv'
  <2> SUFFICES ASSUME NEW l \in Keys
               PROVE  flags'[l].revision = Len(audit'[l]) /\ flags'[l].cas = Len(audit'[l])
    BY DEF StoredInv
  <2>1. CASE l = k
    BY <1>2, <2>1
  <2>2. CASE l # k
    BY <1>1, <1>2, <2>2 DEF StoredInv
  <2> QED
    BY <2>1, <2>2
<1>9. HolderInv'
  BY <1>1, <1>4, <1>5 DEF HolderInv
<1>10. BasisInv(r)' /\ GuardInv(r)' /\ NumberInv(r)'
  BY <1>6 DEF BasisInv, GuardInv, NumberInv, Begun
<1>11. ASSUME NEW q \in Requests, q # r
       PROVE  BasisInv(q)' /\ GuardInv(q)' /\ NumberInv(q)'
  <2>1. /\ stage'[q] = stage[q] /\ BasisInv(q) /\ GuardInv(q) /\ NumberInv(q)
        /\ Key(q) \in Keys
    BY <1>1, <1>6, <1>11 DEF IndInv, TypeOK, Key
  <2> PICK l \in Keys : l = Key(q)
    BY <2>1
  <2>2. Key(q)' = l /\ Creates(q)' = Creates(q)
    BY <1>5 DEF Key, Creates
  <2>3. /\ flags[l].cas \in Nat /\ flags'[l].cas \in Nat /\ flags[l].cas <= flags'[l].cas
        /\ l = k => flags[l].cas < flags'[l].cas
    <3>1. CASE l = k
      <4>1. flags[l].cas = Len(audit[k]) /\ flags'[l].cas = Len(audit[k]) + 1
        BY <1>1, <1>2, <3>1 DEF StoredInv
      <4> QED
        BY <1>2, <3>1, <4>1
    <3>2. CASE l # k
      <4>1. flags'[l] = flags[l] /\ flags[l].cas \in Nat
        BY <1>1, <1>2, <3>2 DEF TypeOK
      <4> QED
        BY <3>2, <4>1
    <3> QED
      BY <3>1, <3>2
  <2>4. basis[q].cas \in Nat
    BY <1>1 DEF TypeOK
  <2>5. l # k => (Unmoved(q)' <=> Unmoved(q))
    BY <1>2, <1>5, <2>2 DEF Unmoved
  <2>6. stage[q] \in Begun /\ l = k => ~Unmoved(q)'
    <3>1. stage[q] \in Begun => basis[q].cas <= flags[l].cas
      BY <2>1 DEF BasisInv
    <3> QED
      BY <1>5, <2>2, <2>3, <2>4, <3>1 DEF Unmoved
  <2>7. BasisInv(q)'
    BY <1>5, <2>1, <2>2, <2>3, <2>4 DEF BasisInv, Begun
  <2>8. GuardInv(q)'
    <3> SUFFICES ASSUME stage[q] \in Begun PROVE GuardInv(q)'
      BY <2>1 DEF GuardInv, Begun
    <3>1. l = k => connection # q /\ owner[l] # q
      <4>1. CASE backend = "couchbase"
        BY <1>1, <4>1, RequestAssumption DEF HolderInv
      <4>2. CASE backend # "couchbase"
        <5>1. owner[k] = r /\ (backend = "sqlite" => connection = r)
          BY <1>1, <1>5, <4>2 DEF GuardInv, Begun
        <5>2. connection = q => backend = "sqlite"
          BY <1>1, RequestAssumption DEF HolderInv
        <5> QED
          BY <1>11, <5>1, <5>2
      <4> QED
        BY <4>1, <4>2
    <3>2. /\ connection' = q <=> connection = q
          /\ owner'[l] = q <=> owner[l] = q
      BY <1>4, <1>11
    <3>3. connection = q \/ owner[l] = q => Unmoved(q)
      BY <2>1 DEF GuardInv
    <3>4. connection' = q \/ owner'[l] = q => Unmoved(q)'
      BY <2>5, <3>1, <3>2, <3>3
    <3> QED
      BY <1>5, <2>1, <2>2, <3>2, <3>4 DEF GuardInv, Begun
  <2>9. NumberInv(q)'
    <3> SUFFICES ASSUME stage[q] = "numbered" PROVE NumberInv(q)'
      BY <2>1 DEF NumberInv
    <3>1. backend \notin CountsInside
      BY <1>1, <1>5, <1>11, <2>1 DEF NumberInv
    <3>2. /\ drawn[q] > 0 /\ drawn[q] <= sequence /\ drawn[q] # drawn[r]
          /\ \A p \in Requests : stage[p] = "numbered" /\ drawn[p] = drawn[q] => p = q
          /\ \A m \in Keys : \A i \in 1..Len(audit[m]) : audit[m][i].sequence # drawn[q]
          /\ Unmoved(q) => \A i \in 1..Len(audit[l]) : audit[l][i].sequence < drawn[q]
      BY <1>5, <1>11, <2>1, <3>1 DEF NumberInv
    <3>3. \A p \in Requests : stage'[p] = "numbered" /\ drawn'[p] = drawn'[q] => p = q
      BY <1>5, <1>6, <3>2
    <3>4. ASSUME NEW m \in Keys, NEW i \in 1..Len(audit'[m])
          PROVE  audit'[m][i].sequence # drawn[q]
      <4>1. CASE m # k
        BY <1>2, <3>2, <3>4, <4>1
      <4>2. CASE m = k /\ i \in 1..Len(audit[k])
        <5>1. audit'[k][i] = audit[k][i] /\ audit[k][i].sequence # drawn[q]
          BY <1>2, <3>2, <4>2
        <5> QED
          BY <4>2, <5>1
      <4>3. CASE m = k /\ i = Len(audit[k]) + 1
        BY <1>2, <3>2, <4>3 DEF NewRow
      <4>4. m = k => i \in 1..Len(audit[k]) \/ i = Len(audit[k]) + 1
        <5> SUFFICES ASSUME m = k, i \in 1..(Len(audit[k]) + 1)
                     PROVE  i \in 1..Len(audit[k]) \/ i = Len(audit[k]) + 1
          BY <1>2, <3>4
        <5> QED
          BY <1>2
      <4> QED
        BY <4>1, <4>2, <4>3, <4>4
    <3>5. Unmoved(q)' => \A i \in 1..Len(audit'[l]) : audit'[l][i].sequence < drawn[q]
      BY <1>2, <2>5, <2>6, <3>2 DEF Begun
    <3> QED
      BY <1>3, <1>5, <2>2, <3>1, <3>2, <3>3, <3>4, <3>5 DEF NumberInv, CountsInside
  <2> QED
    BY <2>7, <2>8, <2>9
<1>12. DoubtInv'
  BY <1>1, <1>6 DEF IndInv, DoubtInv, TypeOK
<1>13. PublishedInv'
  <2> SUFFICES ASSUME NEW l \in Keys, NEW i \in 1..Len(audit'[l])
               PROVE  stage'[audit'[l][i].definition] \notin Open
    BY DEF PublishedInv
  <2>1. \/ i \in 1..Len(audit[l]) /\ audit'[l][i] = audit[l][i]
        \/ audit'[l][i] = NewRow(r)
    <3>1. CASE l # k
      BY <1>2, <3>1
    <3>2. CASE l = k /\ i \in 1..Len(audit[k])
      BY <1>2, <3>2
    <3>3. CASE l = k /\ i = Len(audit[k]) + 1
      BY <1>2, <3>3
    <3>4. l = k => i \in 1..Len(audit[k]) \/ i = Len(audit[k]) + 1
      <4> SUFFICES ASSUME l = k, i \in 1..(Len(audit[k]) + 1)
                   PROVE  i \in 1..Len(audit[k]) \/ i = Len(audit[k]) + 1
        BY <1>2
      <4> QED
        BY <1>2
    <3> QED
      BY <3>1, <3>2, <3>3, <3>4
  <2>2. CASE i \in 1..Len(audit[l]) /\ audit'[l][i] = audit[l][i]
    <3>1. audit[l][i].definition \in Requests
      BY <1>1, <2>2, RowsNameRequests
    <3>2. stage[audit[l][i].definition] \notin Open
      BY <2>2 DEF IndInv, PublishedInv
    <3> QED
      BY <1>6, <2>2, <3>1, <3>2
  <2>3. CASE audit'[l][i] = NewRow(r)
    BY <1>6, <2>3 DEF NewRow
  <2> QED
    BY <2>1, <2>2, <2>3
<1> QED
  BY <1>3, <1>7, <1>8, <1>9, <1>10, <1>11, <1>12, <1>13 DEF IndInv

LEMMA StepPreserves == IndInv /\ [Next]_vars => IndInv'
<1> SUFFICES ASSUME IndInv, [Next]_vars PROVE IndInv'
  OBVIOUS
<1>1. ASSUME NEW r \in Requests, Publish(r)
      PROVE  IndInv'
  <2>1. doubtful' = doubtful \ {r}
    BY <1>1 DEF Publish
  <2>2. CASE ReadConflict(r) \/ WriteDuplicate(r) \/ CommitConflict(r)
    BY <2>1, <2>2, RefuseKeeps DEF ReadConflict, WriteDuplicate, CommitConflict, Closed
  <2>3. CASE WriteConflict(r) \/ AdvanceConflict(r)
    BY <2>1, <2>3, TransientKeeps DEF WriteConflict, AdvanceConflict, Open
  <2>4. CASE Read(r) \/ Write(r)
    BY <2>1, <2>4, ReadKeeps, WriteKeeps
  <2>5. CASE Draw(r) \/ Advance(r)
    BY <2>1, <2>5, NumberKeeps
  <2>6. CASE Commit(r)
    BY <2>1, <2>6, CommitKeeps DEF Commit
  <2>7. CASE Answer(r)
    BY <2>1, <2>7, AnswerKeeps
  <2> QED
    BY <1>1, <2>2, <2>3, <2>4, <2>5, <2>6, <2>7 DEF Publish
<1>2. ASSUME NEW r \in Requests, Fail(r) \/ Abandon(r)
      PROVE  IndInv'
  BY <1>2, RefuseKeeps DEF Fail, Abandon, Closed
<1>3. ASSUME NEW r \in Requests, TransientFails(r)
      PROVE  IndInv'
  BY <1>3, TransientKeeps DEF TransientFails, Begun, Open
<1>4. ASSUME NEW r \in Requests, CommitLate(r)
      PROVE  IndInv'
  BY <1>4, CommitKeeps DEF CommitLate
<1>5. CASE UNCHANGED vars
  <2>1. /\ UNCHANGED <<backend, flags, audit, sequence, connection, owner, counter, calls,
                       stage, basis, drawn, retries, doubtful>>
        /\ TypeOK /\ StoredInv /\ HolderInv /\ RowsInv /\ DoubtInv /\ PublishedInv
        /\ \A r \in Requests : BasisInv(r) /\ GuardInv(r) /\ NumberInv(r)
    BY <1>5 DEF vars, IndInv
  <2>2. TypeOK' /\ StoredInv' /\ HolderInv' /\ RowsInv' /\ DoubtInv' /\ PublishedInv'
    <3>1. TypeOK'
      BY <2>1 DEF TypeOK
    <3>2. StoredInv' /\ HolderInv' /\ DoubtInv' /\ PublishedInv'
      BY <2>1 DEF StoredInv, HolderInv, DoubtInv, PublishedInv
    <3>3. RowsInv'
      BY <2>1 DEF RowsInv
    <3> QED
      BY <3>1, <3>2, <3>3
  <2>3. ASSUME NEW r \in Requests
        PROVE  BasisInv(r)' /\ GuardInv(r)' /\ NumberInv(r)'
    BY <2>1 DEF BasisInv, GuardInv, NumberInv, Key, Creates, Unmoved
  <2> QED
    BY <2>2, <2>3 DEF IndInv
<1> QED
  BY <1>1, <1>2, <1>3, <1>4, <1>5, LoseConnectionKeeps DEF Next

-----------------------------------------------------------------------------
(* Flags, audit rows, guards and numbers fit together at every statement of *)
(* every interleaving, whichever database the recipe chose.                 *)
THEOREM Inductive == Spec => []IndInv
BY InitEstablishes, StepPreserves, PTL DEF Spec

(* The rows of a flag carry its revisions one by one with growing numbers,  *)
(* no number is given twice, and none is skipped where the counter is part  *)
(* of the transaction (audit counters of the SQLite and MongoDB packs).     *)
THEOREM AuditIsOrdered == Spec => []AuditKeepsOrder
<1>1. IndInv => AuditKeepsOrder
  <2> SUFFICES ASSUME IndInv PROVE AuditKeepsOrder
    OBVIOUS
  <2>1. RowsInv /\ \A k \in Keys : DOMAIN audit[k] = 1..Len(audit[k]) /\ Len(audit[k]) \in Nat
    BY LenProperties DEF IndInv, TypeOK
  <2>2. ASSUME NEW k \in Keys, NEW i \in DOMAIN audit[k]
        PROVE  /\ audit[k][i].revision = i
               /\ i > 1 => audit[k][i-1].sequence < audit[k][i].sequence
    <3>1. i \in 1..Len(audit[k]) /\ Len(audit[k]) \in Nat
      BY <2>1, <2>2
    <3>2. audit[k][i].revision = i
      BY <2>1, <3>1 DEF RowsInv
    <3>3. i > 1 => i - 1 \in 1..Len(audit[k]) /\ i - 1 < i
      BY <3>1
    <3>4. i > 1 => audit[k][i-1].sequence < audit[k][i].sequence
      BY <2>1, <3>1, <3>3 DEF RowsInv
    <3> QED
      BY <3>2, <3>4
  <2>3. ASSUME NEW x \in AuditRows, NEW y \in AuditRows, x.sequence = y.sequence
        PROVE  x = y
    <3> PICK k \in Keys : \E i \in 1..Len(audit[k]) : x = audit[k][i]
      BY <2>1 DEF AuditRows
    <3> PICK l \in Keys : \E j \in 1..Len(audit[l]) : y = audit[l][j]
      BY <2>1 DEF AuditRows
    <3>1. PICK i \in 1..Len(audit[k]) : x = audit[k][i]
      OBVIOUS
    <3>2. PICK j \in 1..Len(audit[l]) : y = audit[l][j]
      OBVIOUS
    <3>3. k = l
      BY <2>1, <2>3, <3>1, <3>2 DEF RowsInv
    <3>4. x.sequence \in 1..sequence /\ sequence \in Nat
      BY <2>1, <3>1 DEF RowsInv, IndInv, TypeOK
    <3>5. ~(i < j) /\ ~(j < i)
      <4>1. x.sequence \in Int
        BY <3>4
      <4>2. ~(x.sequence < y.sequence) /\ ~(y.sequence < x.sequence)
        BY <2>3, <4>1
      <4> QED
        BY <2>1, <3>1, <3>2, <3>3, <4>2 DEF RowsInv
    <3>6. i = j
      BY <2>1, <3>1, <3>2, <3>5
    <3> QED
      BY <3>1, <3>2, <3>3, <3>6
  <2>4. ASSUME backend \in CountsInside
        PROVE  {x.sequence : x \in AuditRows} = 1..sequence
    <3>1. ASSUME NEW x \in AuditRows PROVE x.sequence \in 1..sequence
      BY <2>1 DEF AuditRows, RowsInv
    <3>2. ASSUME NEW n \in 1..sequence PROVE \E x \in AuditRows : x.sequence = n
      <4>1. PICK k \in Keys : \E i \in 1..Len(audit[k]) : audit[k][i].sequence = n
        BY <2>1, <2>4 DEF RowsInv
      <4>2. PICK i \in 1..Len(audit[k]) : audit[k][i].sequence = n
        BY <4>1
      <4>3. audit[k][i] \in AuditRows
        BY <2>1 DEF AuditRows
      <4> QED
        BY <4>2, <4>3
    <3> QED
      BY <3>1, <3>2
  <2> QED
    BY <2>2, <2>3, <2>4 DEF AuditKeepsOrder
<1> QED
  BY <1>1, Inductive, PTL

-----------------------------------------------------------------------------
(* The refinement of the authority.                                         *)

LEMMA HistoryIsASequence ==
  ASSUME audit \in [Keys -> Seq(Row)], NEW k \in Keys
  PROVE  /\ History(k) \in Seq(Requests)
         /\ Len(History(k)) = Len(audit[k])
         /\ \A i \in 1..Len(audit[k]) : History(k)[i] = audit[k][i].definition
<1>1. /\ audit[k] \in Seq(Row) /\ Len(audit[k]) \in Nat
      /\ DOMAIN audit[k] = 1..Len(audit[k])
      /\ \A i \in 1..Len(audit[k]) : audit[k][i] \in Row
  BY LenProperties, ElementOfSeq
<1>2. \A i \in 1..Len(audit[k]) : audit[k][i].definition \in Requests
  BY <1>1 DEF Row
<1>3. History(k) \in [1..Len(audit[k]) -> Requests]
  BY <1>1, <1>2 DEF History
<1>4. History(k) \in Seq(Requests) /\ Len(History(k)) = Len(audit[k])
  BY <1>1, <1>3, SeqDef, LenProperties
<1> QED
  BY <1>1, <1>4 DEF History

LEMMA StatusValues ==
  ASSUME NEW r
  PROVE  /\ r \in doubtful => StatusOf(r) = "error"
         /\ r \notin doubtful /\ stage[r] \in Open => StatusOf(r) = "called"
         /\ r \notin doubtful /\ stage[r] = "committed" => StatusOf(r) = "applied"
         /\ r \notin doubtful /\ stage[r] \in Closed => StatusOf(r) = stage[r]
BY DEF StatusOf, Open, Closed

LEMMA StatusValuesNext ==
  ASSUME NEW r
  PROVE  /\ r \in doubtful' => StatusOf(r)' = "error"
         /\ r \notin doubtful' /\ stage'[r] \in Open => StatusOf(r)' = "called"
         /\ r \notin doubtful' /\ stage'[r] = "committed" => StatusOf(r)' = "applied"
         /\ r \notin doubtful' /\ stage'[r] \in Closed => StatusOf(r)' = stage'[r]
BY DEF StatusOf, Open, Closed

LEMMA StatusStays ==
  ASSUME NEW q, stage'[q] = stage[q], q \in doubtful' <=> q \in doubtful
  PROVE  StatusOf(q)' = StatusOf(q)
BY DEF StatusOf

(* A step of r alone moves no other request's status.                       *)
LEMMA StatusMoves ==
  ASSUME NEW r \in Requests, NEW status,
         \A q \in Requests : q # r =>
           stage'[q] = stage[q] /\ (q \in doubtful' <=> q \in doubtful),
         StatusOf(r)' = status
  PROVE  [q \in Requests |-> StatusOf(q)'] =
           [[q \in Requests |-> StatusOf(q)] EXCEPT ![r] = status]
<1>1. \A q \in Requests : q # r => StatusOf(q)' = StatusOf(q)
  BY StatusStays
<1> QED
  BY <1>1

(* What takes effect is the next publication of the flag.                   *)
LEMMA EffectIsPublication ==
  ASSUME IndInv, NEW r \in Requests, NEW place, TakesEffect(r, place), NEW k, k = Key(r)
  PROVE  /\ k = calls[r].key /\ calls' = calls
         /\ Len(History(k)) = calls[r].expected
         /\ [l \in Keys |-> History(l)'] =
              [[l \in Keys |-> History(l)] EXCEPT ![k] = Append(@, r)]
         /\ [l \in Keys |-> Load(l)'] =
              [[l \in Keys |-> Load(l)] EXCEPT ![k] =
                 [revision |-> Len(History(k)) + 1, definition |-> r]]
<1> PICK n \in Nat : n = Len(audit[k])
  BY CommitWrites
<1>1. /\ k \in Keys /\ n = calls[r].expected
      /\ audit \in [Keys -> Seq(Row)] /\ audit' \in [Keys -> Seq(Row)]
  BY CommitsOnItsBasis, CommitWrites DEF IndInv, TypeOK, Row
<1>2. /\ Len(audit'[k]) = n + 1
      /\ audit'[k][n + 1] = NewRow(r)
      /\ \A i \in 1..n : audit'[k][i] = audit[k][i]
      /\ flags'[k] = [revision |-> n + 1, definition |-> r, cas |-> n + 1]
      /\ \A l \in Keys : l # k => audit'[l] = audit[l] /\ flags'[l] = flags[l]
  BY CommitWrites
<1>3. /\ History(k) \in Seq(Requests) /\ Len(History(k)) = n
      /\ \A i \in 1..n : History(k)[i] = audit[k][i].definition
  BY <1>1, HistoryIsASequence
<1>4. /\ History(k)' \in Seq(Requests) /\ Len(History(k)') = n + 1
      /\ \A i \in 1..(n + 1) : History(k)'[i] = audit'[k][i].definition
  <2>1. /\ audit'[k] \in Seq(Row) /\ DOMAIN audit'[k] = 1..(n + 1)
        /\ \A i \in 1..(n + 1) : audit'[k][i] \in Row
    BY <1>1, <1>2, LenProperties, ElementOfSeq
  <2>2. \A i \in 1..(n + 1) : audit'[k][i].definition \in Requests
    BY <2>1 DEF Row
  <2>3. History(k)' \in [1..(n + 1) -> Requests]
    BY <2>1, <2>2 DEF History
  <2>4. History(k)' \in Seq(Requests) /\ Len(History(k)') = n + 1
    BY <2>3, SeqDef, LenProperties
  <2> QED
    BY <2>1, <2>4 DEF History
<1>5. History(k)' = Append(History(k), r)
  <2>1. /\ Append(History(k), r) \in Seq(Requests)
        /\ Len(Append(History(k), r)) = n + 1
        /\ Append(History(k), r)[n + 1] = r
        /\ \A i \in 1..n : Append(History(k), r)[i] = audit[k][i].definition
    BY <1>3, AppendProperties
  <2>2. ASSUME NEW i \in 1..(n + 1)
        PROVE  History(k)'[i] = Append(History(k), r)[i]
    <3>1. CASE i \in 1..n
      BY <1>2, <1>4, <2>1, <3>1
    <3>2. CASE i = n + 1
      BY <1>2, <1>4, <2>1, <3>2 DEF NewRow
    <3>3. i \in 1..n \/ i = n + 1
      BY <2>2
    <3> QED
      BY <3>1, <3>2, <3>3
  <2> QED
    BY <1>4, <2>1, <2>2, SeqEqual
<1>6. [l \in Keys |-> History(l)'] = [[l \in Keys |-> History(l)] EXCEPT ![k] = Append(@, r)]
  <2>1. \A l \in Keys : l # k => History(l)' = History(l)
    BY <1>2 DEF History
  <2> QED
    BY <1>5, <2>1
<1>7. [l \in Keys |-> Load(l)'] =
        [[l \in Keys |-> Load(l)] EXCEPT ![k] = [revision |-> n + 1, definition |-> r]]
  <2>1. \A l \in Keys : l # k => Load(l)' = Load(l)
    BY <1>2 DEF Load
  <2>2. Load(k)' = [revision |-> n + 1, definition |-> r]
    BY <1>2 DEF Load
  <2> QED
    BY <2>1, <2>2
<1>8. calls' = calls /\ k = calls[r].key
  BY DEF TakesEffect, Key
<1> QED
  BY <1>1, <1>3, <1>6, <1>7, <1>8

(* The commit is the moment at which a publication takes effect.            *)
LEMMA CommitIsApply ==
  ASSUME IndInv, NEW r \in Requests, Commit(r), r \notin doubtful, doubtful' = doubtful
  PROVE  Authority!Apply(r)
<1> PICK k \in Keys : k = Key(r)
  BY CommitsOnItsBasis DEF Commit
<1>1. /\ k = calls[r].key /\ calls' = calls
      /\ Len(History(k)) = calls[r].expected
      /\ [l \in Keys |-> History(l)'] =
           [[l \in Keys |-> History(l)] EXCEPT ![k] = Append(@, r)]
      /\ [l \in Keys |-> Load(l)'] =
           [[l \in Keys |-> Load(l)] EXCEPT ![k] =
              [revision |-> Len(History(k)) + 1, definition |-> r]]
  BY EffectIsPublication DEF Commit
<1>2. /\ StatusOf(r) = "called"
      /\ [q \in Requests |-> StatusOf(q)'] =
           [[q \in Requests |-> StatusOf(q)] EXCEPT ![r] = "applied"]
  <2>1. /\ stage[r] = "numbered" /\ stage' = [stage EXCEPT ![r] = "committed"]
        /\ stage \in [Requests -> Open \cup {"committed"} \cup Closed]
    BY DEF Commit, TakesEffect, IndInv, TypeOK
  <2>2. StatusOf(r) = "called" /\ StatusOf(r)' = "applied"
    BY <2>1, StatusValues, StatusValuesNext DEF Open
  <2> QED
    BY <2>1, <2>2, StatusMoves
<1> QED
  BY <1>1, <1>2 DEF Authority!Apply, Authority!Publication

(* A publication in doubt stands in no history yet, and takes its place by  *)
(* the same rule.                                                           *)
LEMMA CommitLateIsApplyLate ==
  ASSUME IndInv, NEW r \in Requests, CommitLate(r)
  PROVE  Authority!ApplyLate(r)
<1> PICK k \in Keys : k = Key(r)
  BY CommitsOnItsBasis DEF CommitLate
<1>1. /\ k = calls[r].key /\ calls' = calls
      /\ Len(History(k)) = calls[r].expected
      /\ [l \in Keys |-> History(l)'] =
           [[l \in Keys |-> History(l)] EXCEPT ![k] = Append(@, r)]
      /\ [l \in Keys |-> Load(l)'] =
           [[l \in Keys |-> Load(l)] EXCEPT ![k] =
              [revision |-> Len(History(k)) + 1, definition |-> r]]
  BY EffectIsPublication DEF CommitLate
<1>2. /\ r \in doubtful /\ doubtful' = doubtful \ {r}
      /\ stage[r] = "numbered" /\ stage' = [stage EXCEPT ![r] = "error"]
      /\ stage \in [Requests -> Open \cup {"committed"} \cup Closed]
  BY DEF CommitLate, TakesEffect, IndInv, TypeOK
<1>3. \A i \in DOMAIN History(k) : History(k)[i] # r
  <2>1. /\ PublishedInv /\ audit[k] \in Seq(Row) /\ DOMAIN History(k) = DOMAIN audit[k]
    BY DEF IndInv, TypeOK, Row, History
  <2>2. DOMAIN audit[k] = 1..Len(audit[k])
    BY <2>1, LenProperties
  <2>3. \A i \in 1..Len(audit[k]) : audit[k][i].definition # r
    BY <1>2, <2>1 DEF PublishedInv, Open
  <2> QED
    BY <2>1, <2>2, <2>3 DEF History
<1>4. /\ StatusOf(r) = "error"
      /\ \A q \in Requests : StatusOf(q)' = StatusOf(q)
  <2>1. StatusOf(r) = "error" /\ StatusOf(r)' = "error"
    BY <1>2, StatusValues, StatusValuesNext DEF Closed
  <2>2. \A q \in Requests : q # r => StatusOf(q)' = StatusOf(q)
    BY <1>2, StatusStays
  <2> QED
    BY <2>1, <2>2
<1> QED
  BY <1>1, <1>3, <1>4 DEF Authority!ApplyLate, Authority!Publication

(* A step that writes nothing leaves history and flags to the abstract      *)
(* authority as they were.                                                  *)
LEMMA QuietKeepsHistory ==
  ASSUME UNCHANGED <<flags, audit>>
  PROVE  /\ [k \in Keys |-> History(k)'] = [k \in Keys |-> History(k)]
         /\ [k \in Keys |-> Load(k)'] = [k \in Keys |-> Load(k)]
BY DEF History, Load

(* A refused publication was called, and its conflict is a fact.            *)
LEMMA ConflictIsTrue ==
  ASSUME IndInv, NEW r \in Requests, stage[r] \in Open, Refuse(r, "conflict"),
         flags[Key(r)].revision # calls[r].expected, r \notin doubtful, doubtful' = doubtful
  PROVE  Authority!Conflict(r)
<1>1. /\ Key(r) \in Keys /\ stage \in [Requests -> Open \cup {"committed"} \cup Closed]
      /\ audit \in [Keys -> Seq(Row)] /\ StoredInv
  BY DEF IndInv, TypeOK, Key, Row
<1>2. /\ UNCHANGED <<flags, audit, calls>> /\ stage' = [stage EXCEPT ![r] = "conflict"]
  BY DEF Refuse, database
<1>3. Len(History(Key(r))) # calls[r].expected
  BY <1>1, HistoryIsASequence DEF StoredInv
<1>4. /\ StatusOf(r) = "called"
      /\ [q \in Requests |-> StatusOf(q)'] =
           [[q \in Requests |-> StatusOf(q)] EXCEPT ![r] = "conflict"]
  <2>1. StatusOf(r) = "called" /\ StatusOf(r)' = "conflict"
    BY <1>1, <1>2, StatusValues, StatusValuesNext DEF Closed
  <2> QED
    BY <1>1, <1>2, <2>1, StatusMoves
<1> QED
  BY <1>1, <1>2, <1>3, <1>4, QuietKeepsHistory DEF Authority!Conflict, Key

(* The answer to the caller is an error, whatever becomes of the call.      *)
LEMMA ErrorIsFail ==
  ASSUME IndInv, NEW r \in Requests, r \notin doubtful, stage[r] \in Open \cup {"committed"},
         StatusOf(r)' = "error", UNCHANGED <<flags, audit, calls>>,
         \A q \in Requests : q # r =>
           stage'[q] = stage[q] /\ (q \in doubtful' <=> q \in doubtful)
  PROVE  Authority!Fail(r)
<1>1. StatusOf(r) \in {"called", "applied"}
  BY StatusValues
<1>2. [q \in Requests |-> StatusOf(q)'] =
        [[q \in Requests |-> StatusOf(q)] EXCEPT ![r] = "error"]
  BY StatusMoves
<1> QED
  BY <1>1, <1>2, QuietKeepsHistory DEF Authority!Fail

LEMMA RefusalIsFail ==
  ASSUME IndInv, NEW r \in Requests, r \notin doubtful, doubtful' = doubtful,
         stage[r] \in Open \cup {"committed"}, stage' = [stage EXCEPT ![r] = "error"],
         UNCHANGED <<flags, audit, calls>>
  PROVE  Authority!Fail(r)
<1>1. stage \in [Requests -> Open \cup {"committed"} \cup Closed]
  BY DEF IndInv, TypeOK
<1>2. StatusOf(r)' = "error"
  BY <1>1, StatusValuesNext DEF Closed
<1> QED
  BY <1>1, <1>2, ErrorIsFail

LEMMA LoseConnectionIsFail ==
  ASSUME IndInv, NEW r \in Requests, LoseConnection(r)
  PROVE  Authority!Fail(r)
<1>1. /\ r \notin doubtful /\ stage[r] \in Open /\ stage' = stage
      /\ doubtful' = doubtful \cup {r} /\ UNCHANGED <<flags, audit, calls>>
  BY DEF LoseConnection, database, Begun, Open
<1>2. StatusOf(r)' = "error"
  BY <1>1, StatusValuesNext
<1> QED
  BY <1>1, <1>2, ErrorIsFail

LEMMA AnswerIsAnswer ==
  ASSUME IndInv, NEW r \in Requests, Answer(r), r \notin doubtful, doubtful' = doubtful
  PROVE  Authority!Answer(r)
<1>1. /\ stage \in [Requests -> Open \cup {"committed"} \cup Closed]
      /\ stage[r] = "committed" /\ stage' = [stage EXCEPT ![r] = "published"]
      /\ UNCHANGED <<flags, audit, calls>>
  BY DEF IndInv, TypeOK, Answer, database
<1>2. StatusOf(r) = "applied" /\ StatusOf(r)' = "published"
  BY <1>1, StatusValues, StatusValuesNext DEF Closed
<1>3. [q \in Requests |-> StatusOf(q)'] =
        [[q \in Requests |-> StatusOf(q)] EXCEPT ![r] = "published"]
  BY <1>1, <1>2, StatusMoves
<1> QED
  BY <1>1, <1>2, <1>3, QuietKeepsHistory DEF Authority!Answer

(* A step that moves nobody's status: a statement inside an open            *)
(* publication, a retry included, or the end of one answered before.        *)
LEMMA QuietIsStutter ==
  ASSUME NEW r \in Requests, StatusOf(r)' = StatusOf(r), UNCHANGED <<flags, audit, calls>>,
         \A q \in Requests : q # r =>
           stage'[q] = stage[q] /\ (q \in doubtful' <=> q \in doubtful)
  PROVE  UNCHANGED <<calls, [k \in Keys |-> History(k)], [k \in Keys |-> Load(k)],
                     [q \in Requests |-> StatusOf(q)]>>
<1>1. \A q \in Requests : StatusOf(q)' = StatusOf(q)
  BY StatusStays
<1> QED
  BY <1>1, QuietKeepsHistory

LEMMA OpenIsStutter ==
  ASSUME IndInv, NEW r \in Requests, NEW place \in Open, stage[r] \in Open,
         r \notin doubtful, doubtful' = doubtful,
         stage' = [stage EXCEPT ![r] = place], UNCHANGED <<flags, audit, calls>>
  PROVE  UNCHANGED <<calls, [k \in Keys |-> History(k)], [k \in Keys |-> Load(k)],
                     [q \in Requests |-> StatusOf(q)]>>
<1>1. stage \in [Requests -> Open \cup {"committed"} \cup Closed]
  BY DEF IndInv, TypeOK
<1>2. StatusOf(r)' = StatusOf(r)
  BY <1>1, StatusValues, StatusValuesNext
<1> QED
  BY <1>1, <1>2, QuietIsStutter

LEMMA AbandonIsStutter ==
  ASSUME IndInv, NEW r \in Requests, Abandon(r)
  PROVE  UNCHANGED <<calls, [k \in Keys |-> History(k)], [k \in Keys |-> Load(k)],
                     [q \in Requests |-> StatusOf(q)]>>
<1>1. /\ stage \in [Requests -> Open \cup {"committed"} \cup Closed]
      /\ r \in doubtful /\ doubtful' = doubtful \ {r}
      /\ stage' = [stage EXCEPT ![r] = "error"] /\ UNCHANGED <<flags, audit, calls>>
  BY DEF IndInv, TypeOK, Abandon, Refuse, database
<1>2. StatusOf(r) = "error" /\ StatusOf(r)' = "error"
  BY <1>1, StatusValues, StatusValuesNext DEF Closed
<1> QED
  BY <1>1, <1>2, QuietIsStutter

(* Every step of a store is a step of the authority or leaves it alone.     *)
LEMMA StepImplements ==
  ASSUME IndInv, [Next]_vars
  PROVE  [Authority!Next]_<<calls, [k \in Keys |-> History(k)], [k \in Keys |-> Load(k)],
                            [q \in Requests |-> StatusOf(q)]>>
<1> DEFINE mapped == <<calls, [k \in Keys |-> History(k)], [k \in Keys |-> Load(k)],
                       [q \in Requests |-> StatusOf(q)]>>
<1>1. ASSUME NEW r \in Requests, r \notin doubtful, doubtful' = doubtful,
             WriteConflict(r) \/ AdvanceConflict(r) \/ TransientFails(r)
      PROVE  Authority!Next \/ UNCHANGED mapped
  <2>1. /\ stage[r] \in Open /\ "called" \in Open /\ UNCHANGED <<flags, audit, calls>>
        /\ stage' = [stage EXCEPT ![r] = "error"] \/ stage' = [stage EXCEPT ![r] = "called"]
    BY <1>1 DEF WriteConflict, AdvanceConflict, TransientFails, Transient, database, Open, Begun
  <2>2. CASE stage' = [stage EXCEPT ![r] = "error"]
    BY <1>1, <2>1, <2>2, RefusalIsFail DEF Authority!Next
  <2>3. CASE stage' = [stage EXCEPT ![r] = "called"]
    BY <1>1, <2>1, <2>3, OpenIsStutter
  <2> QED
    BY <2>1, <2>2, <2>3
<1>2. ASSUME NEW r \in Requests, Publish(r)
      PROVE  Authority!Next \/ UNCHANGED mapped
  <2>1. r \notin doubtful /\ doubtful' = doubtful
    BY <1>2 DEF Publish
  <2>2. CASE Commit(r)
    BY <2>1, <2>2, CommitIsApply DEF Authority!Next
  <2>3. CASE ReadConflict(r) \/ WriteDuplicate(r) \/ CommitConflict(r)
    <3>1. BasisInv(r) /\ StoredInv /\ Key(r) \in Keys
      BY DEF IndInv, TypeOK, Key
    <3>2. ~Unmoved(r) /\ stage[r] \in Begun => flags[Key(r)].revision # calls[r].expected
      BY <3>1 DEF Unmoved, BasisInv, StoredInv
    <3>3. /\ stage[r] \in Open /\ flags[Key(r)].revision # calls[r].expected
          /\ Refuse(r, "conflict")
      BY <2>3, <3>2
         DEF ReadConflict, MayRead, Agrees, WriteDuplicate, CommitConflict, Open, Begun
    <3> QED
      BY <2>1, <3>3, ConflictIsTrue DEF Authority!Next
  <2>4. CASE Answer(r)
    BY <2>1, <2>4, AnswerIsAnswer DEF Authority!Next
  <2>5. CASE Read(r) \/ Write(r) \/ Draw(r) \/ Advance(r)
    <3>1. PICK place \in Open : stage' = [stage EXCEPT ![r] = place]
      BY <2>5 DEF Read, Write, Draw, Advance, Open
    <3>2. stage[r] \in Open /\ UNCHANGED <<flags, audit, calls>>
      BY <2>5 DEF Read, MayRead, Write, Draw, Advance, Open, database
    <3> QED
      BY <2>1, <3>1, <3>2, OpenIsStutter
  <2> QED
    BY <1>1, <1>2, <2>1, <2>2, <2>3, <2>4, <2>5 DEF Publish
<1>3. ASSUME NEW r \in Requests, Fail(r)
      PROVE  Authority!Next
  BY <1>3, RefusalIsFail DEF Fail, Refuse, database, Authority!Next
<1>4. ASSUME NEW r \in Requests, TransientFails(r)
      PROVE  Authority!Next \/ UNCHANGED mapped
  BY <1>1, <1>4 DEF TransientFails
<1>5. ASSUME NEW r \in Requests, LoseConnection(r)
      PROVE  Authority!Next
  BY <1>5, LoseConnectionIsFail DEF Authority!Next
<1>6. ASSUME NEW r \in Requests, CommitLate(r)
      PROVE  Authority!Next
  BY <1>6, CommitLateIsApplyLate DEF Authority!Next
<1>7. ASSUME NEW r \in Requests, Abandon(r)
      PROVE  UNCHANGED mapped
  BY <1>7, AbandonIsStutter
<1>8. CASE UNCHANGED vars
  BY <1>8 DEF vars, History, Load, StatusOf
<1> QED
  BY <1>2, <1>3, <1>4, <1>5, <1>6, <1>7, <1>8 DEF Next

(* Each store implements the authority, for any number of publications on   *)
(* any number of replicas: a publication takes effect once, at one moment,  *)
(* on the revision it named, together with its audit row; a conflict is     *)
(* true when it is answered; nothing that failed is half there; and one     *)
(* whose commit was on its way when its error was answered takes effect     *)
(* whole, on its revision and once, or never.                               *)
THEOREM StoresImplementAuthority == Spec => ImplementsAuthority
<1>1. Init => Authority!Init
  <2> SUFFICES ASSUME Init PROVE Authority!Init
    OBVIOUS
  <2>1. calls \in [Requests -> [key : Keys, expected : Nat]]
    BY ExpectedAssumption DEF Init
  <2>2. [k \in Keys |-> History(k)] = [k \in Keys |-> << >>]
    <3>1. \A k \in Keys : audit[k] = << >>
      BY DEF Init
    <3>2. ASSUME NEW k \in Keys PROVE History(k) = << >>
      <4>1. audit[k] = << >>
        BY <3>1
      <4> QED
        BY <4>1, EmptySeq DEF History
    <3> QED
      BY <3>2
  <2>3. \A k \in Keys : Load(k).revision = 0
    BY DEF Init, Load, NoFlag
  <2>4. \A r \in Requests : StatusOf(r) = "called"
    BY StatusValues DEF Init, Open
  <2> QED
    BY <2>1, <2>2, <2>3, <2>4 DEF Authority!Init
<1>2. IndInv /\ [Next]_vars =>
        [Authority!Next]_<<calls, [k \in Keys |-> History(k)], [k \in Keys |-> Load(k)],
                           [r \in Requests |-> StatusOf(r)]>>
  BY StepImplements
<1>3. Spec => Authority!Init
  BY <1>1, PTL DEF Spec
<1>4. Spec => [][Authority!Next]_<<calls, [k \in Keys |-> History(k)], [k \in Keys |-> Load(k)],
                                   [r \in Requests |-> StatusOf(r)]>>
  BY <1>2, Inductive, PTL DEF Spec
<1> QED
  BY <1>3, <1>4, PTL DEF ImplementsAuthority, Authority!Spec
=============================================================================
