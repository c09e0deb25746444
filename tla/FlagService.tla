---------------------------- MODULE FlagService ----------------------------
(***************************************************************************)
(* The feature-flag service: publication is one store transaction followed *)
(* by one Put into the in-process snapshot, with no lock across the two;   *)
(* evaluation reads the snapshot (internal/flags, internal/snapshot,       *)
(* internal/store/sqlite, internal/api).  A key stands for one flag of one *)
(* environment.                                                            *)
(***************************************************************************)
EXTENDS Sequences, Integers

CONSTANTS
  Keys,         \* flags, each in its environment
  Definitions,  \* validated flag bodies
  Publishers,   \* management clients
  Clients,      \* evaluation clients that keep a bulk response and its ETag
  None,         \* no definition
  MaxRevision   \* bound on the revisions of one flag

ASSUME DefinitionAssumption == None \notin Definitions
ASSUME RevisionAssumption == MaxRevision \in Nat

VARIABLES
  store,     \* the flags table
  audit,     \* per flag, its audit rows in sequence order
  snapshot,  \* Memory.flags
  stage,     \* where each publisher is
  target,    \* the flag a publisher works on
  seen,      \* the flag as the publisher last saw it
  result,    \* the flag the store returned to it
  cached     \* per client, the last full bulk response

vars == <<store, audit, snapshot, stage, target, seen, result, cached>>

NoFlag == [revision |-> 0, definition |-> None]
Flags == [revision : Nat, definition : Definitions \cup {None}]
PublisherStages == {"idle", "listed", "committed", "answered"}

TypeOK ==
  /\ store \in [Keys -> Flags]
  /\ audit \in [Keys -> Seq([definition : Definitions, basis : Flags])]
  /\ snapshot \in [Keys -> Flags]
  /\ stage \in [Publishers -> PublisherStages]
  /\ target \in [Publishers -> Keys]
  /\ seen \in [Publishers -> Flags]
  /\ result \in [Publishers -> Flags]
  /\ cached \in [Clients -> [Keys -> Flags]]

Init ==
  /\ store = [k \in Keys |-> NoFlag]
  /\ audit = [k \in Keys |-> << >>]
  /\ snapshot = [k \in Keys |-> NoFlag]
  /\ stage = [p \in Publishers |-> "idle"]
  /\ target \in [Publishers -> Keys]
  /\ seen = [p \in Publishers |-> NoFlag]
  /\ result = [p \in Publishers |-> NoFlag]
  /\ cached = [c \in Clients |-> [k \in Keys |-> NoFlag]]

-----------------------------------------------------------------------------
(* A publisher lists the flags and prepares an edit of one of them.         *)
List(p, k) ==
  /\ stage[p] \in {"idle", "answered"}
  /\ stage' = [stage EXCEPT ![p] = "listed"]
  /\ target' = [target EXCEPT ![p] = k]
  /\ seen' = [seen EXCEPT ![p] = snapshot[k]]
  /\ result' = [result EXCEPT ![p] = NoFlag]
  /\ UNCHANGED <<store, audit, snapshot, cached>>

(* Mutant: any revision the flag ever had is accepted.                      *)
AcceptsOlder(k, expectedRevision) == store[k].revision >= expectedRevision

(* Store.Publish: compare, write and audit in one transaction.  The basis   *)
(* of a row is history: the flag the publisher had seen.                    *)
Accepts(k, expectedRevision) == store[k].revision = expectedRevision

StorePublish(p, definition) ==
  LET k == target[p]
      published == [revision |-> store[k].revision + 1, definition |-> definition] IN
  /\ stage[p] = "listed"
  /\ store[k].revision < MaxRevision
  /\ Accepts(k, seen[p].revision)
  /\ store' = [store EXCEPT ![k] = published]
  /\ audit' = [audit EXCEPT ![k] =
       Append(@, [definition |-> definition, basis |-> seen[p]])]
  /\ result' = [result EXCEPT ![p] = published]
  /\ stage' = [stage EXCEPT ![p] = "committed"]
  /\ UNCHANGED <<snapshot, target, seen, cached>>

(* A conflict names the current revision but not its definition; the        *)
(* publisher may insist and overwrite what it never saw.                    *)
StoreConflict(p) ==
  LET k == target[p] IN
  /\ stage[p] = "listed"
  /\ ~Accepts(k, seen[p].revision)
  /\ seen' = [seen EXCEPT ![p] = [revision |-> store[k].revision, definition |-> None]]
  /\ UNCHANGED <<store, audit, snapshot, stage, target, result, cached>>

(* The publisher gives up, or the transaction fails and rolls back.         *)
StoreRefuses(p) ==
  /\ stage[p] = "listed"
  /\ stage' = [stage EXCEPT ![p] = "idle"]
  /\ UNCHANGED <<store, audit, snapshot, target, seen, result, cached>>

(* Mutant: Put overwrites whatever is projected.                            *)
NewerIsLast(old, new) == new

(* Memory.Put keeps the newer of the projected and the published flag.      *)
Newer(old, new) == IF old.revision >= new.revision THEN old ELSE new

Put(p) ==
  /\ stage[p] = "committed"
  /\ snapshot' = [snapshot EXCEPT ![target[p]] = Newer(@, result[p])]
  /\ stage' = [stage EXCEPT ![p] = "answered"]
  /\ UNCHANGED <<store, audit, target, seen, result, cached>>

-----------------------------------------------------------------------------
(* Mutant: the tag covers which flags exist and not their revisions.        *)
ETagOfKeys(listed) == [k \in Keys |-> IF listed[k].revision > 0 THEN 1 ELSE 0]

(* evaluationETag covers every key and revision of the listed flags (and    *)
(* the client's own context, which does not vary here).                     *)
ETag(listed) == [k \in Keys |-> listed[k].revision]

(* Bulk evaluation: a matching If-None-Match leaves the client with what it *)
(* has; otherwise the whole response is replaced.                           *)
EvaluateAll(c) ==
  /\ ETag(cached[c]) # ETag(snapshot)
  /\ cached' = [cached EXCEPT ![c] = snapshot]
  /\ UNCHANGED <<store, audit, snapshot, stage, target, seen, result>>

NotModified(c) ==
  /\ ETag(cached[c]) = ETag(snapshot)
  /\ UNCHANGED vars

(* Mutant: the projection starts empty.                                     *)
LoadNothing == [k \in Keys |-> NoFlag]

(* The process dies, losing requests in flight, and Open rebuilds the       *)
(* snapshot from the store.                                                 *)
Load == store

Restart ==
  /\ snapshot' = Load
  /\ stage' = [p \in Publishers |-> IF stage[p] = "committed" THEN "idle" ELSE stage[p]]
  /\ UNCHANGED <<store, audit, target, seen, result, cached>>

Next ==
  \/ \E p \in Publishers :
       \/ \E k \in Keys : List(p, k)
       \/ \E d \in Definitions : StorePublish(p, d)
       \/ StoreConflict(p)
       \/ StoreRefuses(p)
       \/ Put(p)
  \/ \E c \in Clients : EvaluateAll(c) \/ NotModified(c)
  \/ Restart

(* A publication that committed goes on to its Put, unless the process dies *)
(* and a restart follows.                                                   *)
Spec == Init /\ [][Next]_vars
FairSpec == Spec /\ \A p \in Publishers : WF_vars(Put(p))

-----------------------------------------------------------------------------
Shown(k) == IF snapshot[k].revision = 0 THEN [revision |-> 0] ELSE snapshot[k]
History(k) == [i \in DOMAIN audit[k] |-> audit[k][i].definition]

Register == INSTANCE FlagRegister WITH
  history <- [k \in Keys |-> History(k)],
  shown <- [k \in Keys |-> Shown(k)]

(* The service implements the register: every publication extends the       *)
(* audited history and evaluation only moves forward along it, although     *)
(* delayed Puts arrive out of order and restarts reload (Publish, Put).     *)
ImplementsRegister == Register!Spec

(* Nobody's edit is lost unawares: every row of the audit replaced exactly  *)
(* the revision its author named and, if the author ever saw a definition,  *)
(* that definition, however stale the list it came from (Store.Publish).    *)
NoLostUpdate ==
  \A k \in Keys : \A i \in 1..Len(audit[k]) :
    LET basis == audit[k][i].basis IN
    /\ basis.revision = i - 1
    /\ basis.definition # None =>
         i > 1 /\ basis.definition = audit[k][i-1].definition

(* A publisher that got its answer can evaluate its own publication, or a   *)
(* later one, from then on, across restarts too.                            *)
AnsweredIsVisible ==
  \A p \in Publishers : stage[p] = "answered" =>
    snapshot[target[p]].revision >= result[p].revision

(* A client's cached response is one the service really gave for that ETag: *)
(* equal revisions never stand for different definitions, so 304 is safe.   *)
ETagNamesOneResponse ==
  \A c \in Clients : ETag(cached[c]) = ETag(snapshot) => cached[c] = snapshot

(* What was published is eventually evaluated, whatever crashes between.    *)
PublishedIsEvaluated ==
  \A k \in Keys : \A n \in 1..MaxRevision :
    store[k].revision >= n ~> snapshot[k].revision >= n

-----------------------------------------------------------------------------
(* The inductive invariant behind the safety proofs.                        *)

(* f is what revision f.revision of k was published as.                     *)
Published(k, f) ==
  /\ f.revision \in 0..Len(audit[k])
  /\ f.definition = IF f.revision = 0 THEN None ELSE audit[k][f.revision].definition

StoreInv ==
  \A k \in Keys : store[k].revision = Len(audit[k]) /\ Published(k, store[k])

ProjectionInv ==
  \A k \in Keys :
    /\ Published(k, snapshot[k])
    /\ \A c \in Clients : Published(k, cached[c][k])

(* What a publisher holds belongs to the flag it works on; after a conflict *)
(* it knows a revision without its definition.                              *)
PublisherInv ==
  \A p \in Publishers :
    /\ Published(target[p], result[p])
    /\ seen[p].revision <= Len(audit[target[p]])
    /\ seen[p].definition # None => Published(target[p], seen[p])

(* Whatever any party holds is an entry of the audited history.             *)
IndInv ==
  /\ TypeOK
  /\ StoreInv
  /\ ProjectionInv
  /\ PublisherInv
  /\ NoLostUpdate
  /\ AnsweredIsVisible
=============================================================================
