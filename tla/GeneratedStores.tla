-------------------------- MODULE GeneratedStores --------------------------
(***************************************************************************)
(* The stores of the generated services: Publish, Load and Audit of the    *)
(* SQLite, Postgres, MongoDB and Couchbase packs (internal/factory/        *)
(* templates/languages/go/<database>/internal/store).  Requests reach any  *)
(* number of replicas, which share nothing but the database, so a step is  *)
(* one statement or one call of the database and requests interleave       *)
(* between them.  What the databases do with a statement is external:      *)
(* Postgres and SQLite lock, MongoDB gives each transaction a snapshot and *)
(* aborts the later of two writers, Couchbase compares a CAS per document. *)
(***************************************************************************)
EXTENDS Sequences, Integers

CONSTANTS
  Keys,        \* flags, each in its environment
  Requests,    \* publications, each with a definition of its own
  Expected,    \* revisions a request may name
  None,        \* nobody, nothing
  MaxRetries   \* bound on the transactions the MongoDB driver starts over

ASSUME RequestAssumption == None \notin Requests
ASSUME ExpectedAssumption == Expected \subseteq Nat
ASSUME RetryAssumption == MaxRetries \in Nat

VARIABLES
  backend,     \* the database pack of the recipe
  flags,       \* the stored flags; revision 0 where there is none
  audit,       \* per flag, its committed audit rows
  sequence,    \* last audit sequence: BIGSERIAL, AUTOINCREMENT or counter document
  connection,  \* SQLite: the request that has the only connection
  owner,       \* per flag, the open transaction that locked or wrote it
  counter,     \* the open transaction that advanced a transactional counter
  calls,       \* the flag and the revision each request names
  stage,       \* where each request is
  basis,       \* what each transaction, or the Get, found when it began
  drawn,       \* the audit sequence each request was given
  retries,     \* how often the driver started each transaction over
  doubtful     \* requests answered with an error while the database, out of
               \* reach, still has their transaction or their last call

database == <<flags, audit, sequence>>
held == <<connection, owner, counter>>
vars == <<backend, flags, audit, sequence, connection, owner, counter, calls,
          stage, basis, drawn, retries, doubtful>>

Backends == {"sqlite", "postgres", "mongodb", "couchbase"}

(* The counter is advanced by the publication's own transaction.            *)
CountsInside == {"sqlite", "mongodb"}

Open == {"called", "read", "written", "numbered"}
Closed == {"published", "conflict", "error"}

(* A publication whose transaction, or whose Get, has begun.                *)
Begun == {"read", "written", "numbered"}
NoFlag == [revision |-> 0, definition |-> None, cas |-> 0]
NoBasis == [cas |-> 0, sequence |-> 0]

TypeOK ==
  /\ backend \in Backends
  /\ flags \in [Keys -> [revision : Nat, definition : Requests \cup {None}, cas : Nat]]
  /\ audit \in [Keys -> Seq([sequence : Nat, revision : Nat, definition : Requests])]
  /\ sequence \in Nat
  /\ connection \in Requests \cup {None}
  /\ owner \in [Keys -> Requests \cup {None}]
  /\ counter \in Requests \cup {None}
  /\ calls \in [Requests -> [key : Keys, expected : Expected]]
  /\ stage \in [Requests -> Open \cup {"committed"} \cup Closed]
  /\ basis \in [Requests -> [cas : Nat, sequence : Nat]]
  /\ drawn \in [Requests -> Nat]
  /\ retries \in [Requests -> 0..MaxRetries]
  /\ doubtful \subseteq Requests

Init ==
  /\ backend \in Backends
  /\ flags = [k \in Keys |-> NoFlag]
  /\ audit = [k \in Keys |-> << >>]
  /\ sequence = 0
  /\ connection = None
  /\ owner = [k \in Keys |-> None]
  /\ counter = None
  /\ calls \in [Requests -> [key : Keys, expected : Expected]]
  /\ stage = [r \in Requests |-> "called"]
  /\ basis = [r \in Requests |-> NoBasis]
  /\ drawn = [r \in Requests |-> 0]
  /\ retries = [r \in Requests |-> 0]
  /\ doubtful = {}

-----------------------------------------------------------------------------
Key(r) == calls[r].key
Creates(r) == calls[r].expected = 0

(* The flag was not written since the request read it.                      *)
Unmoved(r) == flags[Key(r)].cas = basis[r].cas

(* Ending a transaction gives back whatever it held.                        *)
Release(r) ==
  /\ connection' = IF connection = r THEN None ELSE connection
  /\ owner' = [k \in Keys |-> IF owner[k] = r THEN None ELSE owner[k]]
  /\ counter' = IF counter = r THEN None ELSE counter

(* Publish returns without having written: the deferred rollback.           *)
Refuse(r, answer) ==
  /\ stage' = [stage EXCEPT ![r] = answer]
  /\ Release(r)
  /\ UNCHANGED <<backend, database, calls, basis, drawn, retries>>

(* A write conflict aborts a MongoDB transaction; WithTransaction starts it *)
(* over, or gives up and returns the error.                                 *)
Transient(r) ==
  /\ \/ /\ retries[r] < MaxRetries
        /\ retries' = [retries EXCEPT ![r] = @ + 1]
        /\ stage' = [stage EXCEPT ![r] = "called"]
     \/ /\ stage' = [stage EXCEPT ![r] = "error"]
        /\ UNCHANGED retries
  /\ Release(r)
  /\ UNCHANGED <<backend, database, calls, basis, drawn>>

-----------------------------------------------------------------------------
(* readRevision, readDocument.  SQLite waits for the connection, Postgres   *)
(* for the lock of an existing row (FOR UPDATE).                            *)
MayRead(r) ==
  /\ stage[r] = "called"
  /\ backend = "sqlite" => connection = None
  /\ backend = "postgres" /\ flags[Key(r)].revision > 0 => owner[Key(r)] = None

Agrees(r) == flags[Key(r)].revision = calls[r].expected

(* A MongoDB transaction's snapshot is the one of this first read.          *)
Read(r) ==
  /\ MayRead(r)
  /\ Agrees(r)
  /\ stage' = [stage EXCEPT ![r] = "read"]
  /\ basis' = [basis EXCEPT ![r] =
       [cas |-> flags[Key(r)].cas,
        sequence |-> IF backend \in CountsInside THEN sequence ELSE 0]]
  /\ connection' = IF backend = "sqlite" THEN r ELSE connection
  /\ owner' = IF backend = "postgres" /\ ~Creates(r) THEN [owner EXCEPT ![Key(r)] = r]
              ELSE owner
  /\ UNCHANGED <<backend, database, counter, calls, drawn, retries>>

(* Mutant: the conflict returns without the deferred rollback.              *)
ReadConflictKeepsConnection(r) ==
  /\ MayRead(r)
  /\ ~Agrees(r)
  /\ stage' = [stage EXCEPT ![r] = "conflict"]
  /\ connection' = IF backend = "sqlite" THEN r ELSE connection
  /\ UNCHANGED <<backend, database, owner, counter, calls, basis, drawn, retries>>

ReadConflict(r) ==
  /\ MayRead(r)
  /\ ~Agrees(r)
  /\ Refuse(r, "conflict")

(* writeFlag in a transaction: an INSERT waits for another transaction's    *)
(* uncommitted row, an UPDATE for its lock; MongoDB fails instead.  The     *)
(* filter of MongoDB's update by revision always matches in the snapshot    *)
(* that the revision was read from.                                         *)
Write(r) ==
  /\ backend # "couchbase"
  /\ stage[r] = "read"
  /\ owner[Key(r)] \in {None, r}
  /\ Creates(r) \/ backend = "mongodb" => Unmoved(r)
  /\ owner' = [owner EXCEPT ![Key(r)] = r]
  /\ stage' = [stage EXCEPT ![r] = "written"]
  /\ UNCHANGED <<backend, database, connection, counter, calls, basis, drawn, retries>>

(* Mutant: an uncommitted row of another transaction is a duplicate too.    *)
DuplicateOfUncommitted(r) ==
  /\ backend \in {"postgres", "mongodb"}
  /\ stage[r] = "read"
  /\ Creates(r)
  /\ owner[Key(r)] # None \/ ~Unmoved(r)
  /\ Refuse(r, "conflict")

(* The unique index rejects the second of two first publications.           *)
WriteDuplicate(r) ==
  /\ backend \in {"postgres", "mongodb"}
  /\ stage[r] = "read"
  /\ Creates(r)
  /\ owner[Key(r)] = None
  /\ ~Unmoved(r)
  /\ Refuse(r, "conflict")

WriteConflict(r) ==
  /\ backend = "mongodb"
  /\ stage[r] = "read"
  /\ owner[Key(r)] # None \/ ~Unmoved(r)
  /\ Transient(r)

(* The audit sequence.  Postgres and Couchbase advance it at once, whatever *)
(* becomes of the publication; Couchbase before it writes anything.         *)
Draw(r) ==
  /\ backend \notin CountsInside
  /\ stage[r] = IF backend = "couchbase" THEN "read" ELSE "written"
  /\ sequence' = sequence + 1
  /\ drawn' = [drawn EXCEPT ![r] = sequence + 1]
  /\ stage' = [stage EXCEPT ![r] = "numbered"]
  /\ UNCHANGED <<backend, flags, audit, held, calls, basis, retries>>

(* Mutant: the counter document is read and not advanced in the transaction.*)
AdvanceUnguarded(r) ==
  /\ backend \in CountsInside
  /\ stage[r] = "written"
  /\ drawn' = [drawn EXCEPT ![r] = sequence + 1]
  /\ stage' = [stage EXCEPT ![r] = "numbered"]
  /\ UNCHANGED <<backend, database, held, calls, basis, retries>>

(* SQLite and MongoDB advance it as part of the transaction.                *)
Advance(r) ==
  /\ backend \in CountsInside
  /\ stage[r] = "written"
  /\ counter = None
  /\ sequence = basis[r].sequence
  /\ counter' = r
  /\ drawn' = [drawn EXCEPT ![r] = sequence + 1]
  /\ stage' = [stage EXCEPT ![r] = "numbered"]
  /\ UNCHANGED <<backend, database, connection, owner, calls, basis, retries>>

AdvanceConflict(r) ==
  /\ backend = "mongodb"
  /\ stage[r] = "written"
  /\ counter # None \/ sequence # basis[r].sequence
  /\ Transient(r)

(* The transaction is committed, or Couchbase takes the Insert or Replace:  *)
(* definition and audit row become visible together.                        *)
TakesEffect(r, place) ==
  LET k == Key(r)
      revision == calls[r].expected + 1 IN
  /\ stage[r] = "numbered"
  /\ backend = "couchbase" => Unmoved(r)
  /\ flags' = [flags EXCEPT ![k] =
       [revision |-> revision, definition |-> r, cas |-> @.cas + 1]]
  /\ audit' = [audit EXCEPT ![k] =
       Append(@, [sequence |-> drawn[r], revision |-> revision, definition |-> r])]
  /\ sequence' = IF backend \in CountsInside THEN drawn[r] ELSE sequence
  /\ stage' = [stage EXCEPT ![r] = place]
  /\ Release(r)
  /\ UNCHANGED <<backend, calls, basis, drawn, retries>>

Commit(r) == TakesEffect(r, "committed")

(* The document exists, or its CAS is another one.                          *)
CommitConflict(r) ==
  /\ backend = "couchbase"
  /\ stage[r] = "numbered"
  /\ ~Unmoved(r)
  /\ Refuse(r, "conflict")

Answer(r) ==
  /\ stage[r] = "committed"
  /\ stage' = [stage EXCEPT ![r] = "published"]
  /\ UNCHANGED <<backend, database, held, calls, basis, drawn, retries>>

Publish(r) ==
  /\ r \notin doubtful
  /\ UNCHANGED doubtful
  /\ \/ Read(r) \/ ReadConflict(r)
     \/ Write(r) \/ WriteDuplicate(r) \/ WriteConflict(r)
     \/ Draw(r) \/ Advance(r) \/ AdvanceConflict(r)
     \/ Commit(r) \/ CommitConflict(r)
     \/ Answer(r)

(* A call fails, the caller goes away, or the replica dies: an open         *)
(* transaction is rolled back, a commit whose answer is lost stays.         *)
Fail(r) ==
  /\ r \notin doubtful
  /\ stage[r] \in Open \cup {"committed"}
  /\ Refuse(r, "error")
  /\ UNCHANGED doubtful

(* MongoDB calls a lost connection or a step-down transient as well.        *)
TransientFails(r) ==
  /\ backend = "mongodb"
  /\ r \notin doubtful
  /\ stage[r] \in Begun
  /\ Transient(r)
  /\ UNCHANGED doubtful

(* The call fails because the database is out of reach, or the caller left  *)
(* while it was on its way: Publish returns the error, and the transaction  *)
(* keeps what it holds.  Couchbase has only its Insert or Replace to lose.  *)
LoseConnection(r) ==
  /\ backend # "sqlite"
  /\ r \notin doubtful
  /\ stage[r] \in IF backend = "couchbase" THEN {"numbered"} ELSE Begun
  /\ doubtful' = doubtful \cup {r}
  /\ UNCHANGED <<backend, database, held, calls, stage, basis, drawn, retries>>

(* The commit, the Insert or the Replace arrived all the same.              *)
CommitLate(r) ==
  /\ r \in doubtful
  /\ TakesEffect(r, "error")
  /\ doubtful' = doubtful \ {r}

(* It never will: the database rolls back a transaction whose client is     *)
(* gone, or refuses the call when it comes.                                 *)
Abandon(r) ==
  /\ r \in doubtful
  /\ Refuse(r, "error")
  /\ doubtful' = doubtful \ {r}

Next == \E r \in Requests :
  \/ Publish(r) \/ Fail(r) \/ TransientFails(r)
  \/ LoseConnection(r) \/ CommitLate(r) \/ Abandon(r)

Spec == Init /\ [][Next]_vars

(* A handler whose statement can run runs it, and a database does not keep  *)
(* the transaction of a lost client; nothing is assumed of the other faults.*)
FairSpec == Spec /\ \A r \in Requests : WF_vars(Publish(r)) /\ WF_vars(Abandon(r))

-----------------------------------------------------------------------------
(* Authority.Load and Authority.Audit.                                      *)
Load(k) == [revision |-> flags[k].revision, definition |-> flags[k].definition]
AuditRows == UNION {{audit[k][i] : i \in DOMAIN audit[k]} : k \in Keys}

StatusOf(r) ==
  IF r \in doubtful THEN "error"
  ELSE IF stage[r] \in Open THEN "called"
  ELSE IF stage[r] = "committed" THEN "applied"
  ELSE stage[r]

History(k) == [i \in DOMAIN audit[k] |-> audit[k][i].definition]

Authority == INSTANCE FlagAuthority WITH
  history <- [k \in Keys |-> History(k)],
  loaded <- [k \in Keys |-> Load(k)],
  status <- [r \in Requests |-> StatusOf(r)]

(* Each store implements the authority: a publication takes effect once, at *)
(* one moment, on the revision it named, together with its audit row; a     *)
(* conflict is true when it is answered; nothing that failed is half there, *)
(* although no two of the packs guard their publication in the same way; a  *)
(* publication whose commit was on its way when the error was answered      *)
(* still takes effect whole, on its revision, and only once.                *)
ImplementsAuthority == Authority!Spec

(* The audit keeps its order: the rows of a flag carry its revisions one by *)
(* one with growing sequences, no sequence is given twice, and where the    *)
(* counter is part of the transaction no sequence is skipped, so that later *)
(* publications always have later numbers (Draw, Advance, Commit).          *)
AuditKeepsOrder ==
  /\ \A k \in Keys : \A i \in DOMAIN audit[k] :
       /\ audit[k][i].revision = i
       /\ i > 1 => audit[k][i-1].sequence < audit[k][i].sequence
  /\ \A x, y \in AuditRows : x.sequence = y.sequence => x = y
  /\ backend \in CountsInside => {x.sequence : x \in AuditRows} = 1..sequence

(* Every publication is answered: nobody waits forever for a row, an index  *)
(* entry, the counter or the connection that another request left locked.   *)
PublicationsReturn == \A r \in Requests : <>(StatusOf(r) \in Closed)

-----------------------------------------------------------------------------
(* The inductive invariant behind the proofs.                               *)

(* The flag, its CAS and its audit rows move together.                      *)
StoredInv ==
  \A k \in Keys : flags[k].revision = Len(audit[k]) /\ flags[k].cas = Len(audit[k])

(* Only the databases that lock have anything to hold.                      *)
HolderInv ==
  /\ connection # None => backend = "sqlite"
  /\ \A k \in Keys : owner[k] # None => backend # "couchbase"

(* A publication began from the revision it names, and the store was never  *)
(* behind it since: a flag that has moved does not come back.               *)
BasisInv(r) ==
  stage[r] \in Begun =>
    basis[r].cas = calls[r].expected /\ basis[r].cas <= flags[Key(r)].cas

(* Each database's own guard, and what they have in common: whoever holds   *)
(* one still has the flag as it was read.                                   *)
GuardInv(r) ==
  stage[r] \in Begun =>
    /\ backend = "sqlite" => connection = r
    /\ backend = "postgres" /\ ~Creates(r) => owner[Key(r)] = r
    /\ backend # "couchbase" /\ stage[r] # "read" => owner[Key(r)] = r
    /\ connection = r \/ owner[Key(r)] = r => Unmoved(r)

(* A number is drawn for one publication and stands in no row yet; it is    *)
(* above the rows of the flag as long as the flag has not moved.            *)
NumberInv(r) ==
  stage[r] = "numbered" =>
    /\ drawn[r] > 0
    /\ backend \in CountsInside => counter = r /\ drawn[r] = sequence + 1
    /\ backend \notin CountsInside => drawn[r] <= sequence
    /\ \A q \in Requests : stage[q] = "numbered" /\ drawn[q] = drawn[r] => q = r
    /\ \A k \in Keys : \A i \in 1..Len(audit[k]) : audit[k][i].sequence # drawn[r]
    /\ Unmoved(r) => \A i \in 1..Len(audit[Key(r)]) : audit[Key(r)][i].sequence < drawn[r]

(* Rows are numbered by revision, in growing order, each number once, and   *)
(* without gaps where the counter is part of the transaction.               *)
RowsInv ==
  /\ \A k \in Keys : \A i \in 1..Len(audit[k]) :
       audit[k][i].revision = i /\ audit[k][i].sequence \in 1..sequence
  /\ \A k \in Keys : \A i, j \in 1..Len(audit[k]) :
       i < j => audit[k][i].sequence < audit[k][j].sequence
  /\ \A k, l \in Keys : \A i \in 1..Len(audit[k]), j \in 1..Len(audit[l]) :
       audit[k][i].sequence = audit[l][j].sequence => k = l
  /\ backend \in CountsInside => \A n \in 1..sequence :
       \E k \in Keys : \E i \in 1..Len(audit[k]) : audit[k][i].sequence = n

(* Only a publication that has begun can still be in doubt.                 *)
DoubtInv == \A r \in doubtful : stage[r] \in Begun

(* What has not committed stands in no audit.                               *)
PublishedInv ==
  \A k \in Keys : \A i \in 1..Len(audit[k]) : stage[audit[k][i].definition] \notin Open

IndInv ==
  /\ TypeOK
  /\ StoredInv
  /\ HolderInv
  /\ RowsInv
  /\ DoubtInv
  /\ PublishedInv
  /\ \A r \in Requests : BasisInv(r) /\ GuardInv(r) /\ NumberInv(r)
=============================================================================
