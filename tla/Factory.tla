------------------------------ MODULE Factory ------------------------------
(***************************************************************************)
(* Generate: several generators deliver to one destination path, which     *)
(* means a directory, an archive next to it, or both.  Each checks the     *)
(* destination, renders into a private staging directory, and publishes by *)
(* link and rename, which refuse an existing name (internal/factory,       *)
(* render.go and archive.go).  A generator stands for its recipe digest;   *)
(* it may be killed at any step, and every file operation may fail, the    *)
(* deferred removals included, whose errors nobody looks at.               *)
(***************************************************************************)
EXTENDS Naturals

CONSTANTS
  Generators,  \* concurrent calls of Generate
  Customer,    \* whoever made what was there before
  None,        \* nothing at a path
  IOFails,     \* whether a file operation may fail of itself
  Crashes      \* whether a generator may be killed

Formats == {"directory", "zip", "both"}

ASSUME OwnerAssumption ==
  None # Customer /\ None \notin Generators /\ Customer \notin Generators
ASSUME FailureAssumption == IOFails \in BOOLEAN /\ Crashes \in BOOLEAN

VARIABLES
  directory,  \* who made the directory at the destination
  archive,    \* who made the archive
  staging,    \* generators whose staging directory exists
  temporary,  \* generators whose temporary archive exists
  rendered,   \* generators whose staging directory is complete
  packed,     \* generators whose temporary archive is complete
  leftStaging,    \* history: generators whose staging could not be removed
  leftTemporary,  \* history: generators whose temporary archive could not
  format,     \* each recipe's delivery format
  stage,      \* where each generator is
  result      \* what Generate returned

left == <<leftStaging, leftTemporary>>
vars == <<directory, archive, staging, temporary, rendered, packed, left, format, stage, result>>

Owners == Generators \cup {Customer, None}
Stages == {"called", "validated", "no directory", "available", "staged", "rendered", "packing",
           "packed", "linked", "archived", "rollback", "unpack", "cleanup", "done", "killed"}

TypeOK ==
  /\ directory \in Owners /\ archive \in Owners
  /\ staging \subseteq Generators /\ temporary \subseteq Generators
  /\ rendered \subseteq Generators /\ packed \subseteq Generators
  /\ leftStaging \subseteq Generators /\ leftTemporary \subseteq Generators
  /\ format \in [Generators -> Formats \cup {None}]
  /\ stage \in [Generators -> Stages]
  /\ result \in [Generators -> {"none", "success", "failure", "incomplete"}]

Init ==
  /\ directory \in {None, Customer} /\ archive \in {None, Customer}
  /\ staging = {} /\ temporary = {} /\ rendered = {} /\ packed = {}
  /\ leftStaging = {} /\ leftTemporary = {}
  /\ format = [g \in Generators |-> None]
  /\ stage = [g \in Generators |-> "called"]
  /\ result = [g \in Generators |-> "none"]

-----------------------------------------------------------------------------
(* deliveryArtifacts: what a format puts at the destination.                *)
WantsDirectory(g) == format[g] \in {"directory", "both"}
WantsArchive(g) == format[g] \in {"zip", "both"}

Step(g, from, to) == stage[g] = from /\ stage' = [stage EXCEPT ![g] = to]
Return(g, r) == result' = [result EXCEPT ![g] = r]

(* Validate and findDelivery accept a recipe with a registered format, or   *)
(* refuse it before anything is touched.                                    *)
Accept(g, delivery) ==
  /\ Step(g, "called", "validated")
  /\ format' = [format EXCEPT ![g] = delivery]
  /\ UNCHANGED <<directory, archive, staging, temporary, rendered, packed, left, result>>

Refuse(g) ==
  /\ Step(g, "called", "done")
  /\ Return(g, "failure")
  /\ UNCHANGED <<directory, archive, staging, temporary, rendered, packed, left, format>>

(* ensureAvailable looks at the directory, then at the archive.             *)
CheckDirectory(g) ==
  /\ WantsDirectory(g) => directory = None
  /\ Step(g, "validated", "no directory")
  /\ UNCHANGED <<directory, archive, staging, temporary, rendered, packed, left, format, result>>

CheckArchive(g) ==
  /\ WantsArchive(g) => archive = None
  /\ Step(g, "no directory", "available")
  /\ UNCHANGED <<directory, archive, staging, temporary, rendered, packed, left, format, result>>

Unavailable(g) ==
  /\ \/ /\ WantsDirectory(g) /\ (directory # None \/ IOFails)
        /\ Step(g, "validated", "done")
     \/ /\ WantsArchive(g) /\ (archive # None \/ IOFails)
        /\ Step(g, "no directory", "done")
  /\ Return(g, "failure")
  /\ UNCHANGED <<directory, archive, staging, temporary, rendered, packed, left, format>>

MakeStaging(g) ==
  /\ Step(g, "available", "staged")
  /\ staging' = staging \cup {g}
  /\ UNCHANGED <<directory, archive, temporary, rendered, packed, left, format, result>>

MakeStagingFails(g) ==
  /\ IOFails
  /\ Step(g, "available", "done")
  /\ Return(g, "failure")
  /\ UNCHANGED <<directory, archive, staging, temporary, rendered, packed, left, format>>

Render(g) ==
  /\ Step(g, "staged", "rendered")
  /\ rendered' = rendered \cup {g}
  /\ UNCHANGED <<directory, archive, staging, temporary, packed, left, format, result>>

(* A layer, a skill link or the recipe could not be written, or two         *)
(* templates collide.                                                       *)
RenderFails(g) ==
  /\ IOFails
  /\ Step(g, "staged", "cleanup")
  /\ Return(g, "failure")
  /\ UNCHANGED <<directory, archive, staging, temporary, rendered, packed, left, format>>

-----------------------------------------------------------------------------
(* writeArchive: a temporary file, then a link that refuses an old name.    *)

OpenTemporary(g) ==
  /\ WantsArchive(g)
  /\ Step(g, "rendered", "packing")
  /\ temporary' = temporary \cup {g}
  /\ UNCHANGED <<directory, archive, staging, rendered, packed, left, format, result>>

OpenTemporaryFails(g) ==
  /\ IOFails
  /\ WantsArchive(g)
  /\ Step(g, "rendered", "cleanup")
  /\ Return(g, "failure")
  /\ UNCHANGED <<directory, archive, staging, temporary, rendered, packed, left, format>>

(* Mutant: the archive is written under its final name.                     *)
PackInPlace(g) ==
  /\ archive = None
  /\ Step(g, "packing", "linked")
  /\ archive' = g
  /\ UNCHANGED <<directory, staging, temporary, rendered, packed, left, format, result>>

(* The walk copies every staged file, and both closings succeed.            *)
Pack(g) ==
  /\ Step(g, "packing", "packed")
  /\ packed' = packed \cup {g}
  /\ UNCHANGED <<directory, archive, staging, temporary, rendered, left, format, result>>

PackFails(g) ==
  /\ IOFails
  /\ Step(g, "packing", "unpack")
  /\ Return(g, "failure")
  /\ UNCHANGED <<directory, archive, staging, temporary, rendered, packed, left, format>>

(* Mutant: the archive is renamed into place, over whatever is there.       *)
LinkOverwrites(g) ==
  /\ Step(g, "packed", "linked")
  /\ archive' = g
  /\ UNCHANGED <<directory, staging, temporary, rendered, packed, left, format, result>>

Link(g) ==
  /\ archive = None
  /\ Step(g, "packed", "linked")
  /\ archive' = g
  /\ UNCHANGED <<directory, staging, temporary, rendered, packed, left, format, result>>

(* Mutant: a failed link is rolled back like a failed rename.               *)
LinkFailsIntoRollback(g) ==
  /\ archive # None \/ IOFails
  /\ Step(g, "packed", IF format[g] = "both" THEN "rollback" ELSE "unpack")
  /\ Return(g, "failure")
  /\ UNCHANGED <<directory, archive, staging, temporary, rendered, packed, left, format>>

LinkFails(g) ==
  /\ archive # None \/ IOFails
  /\ Step(g, "packed", "unpack")
  /\ Return(g, "failure")
  /\ UNCHANGED <<directory, archive, staging, temporary, rendered, packed, left, format>>

(* writeArchive returns, whether or not its temporary file is removed.      *)
ArchiveReturns(g) ==
  \/ /\ format[g] = "both"
     /\ Step(g, "linked", "archived")
     /\ UNCHANGED result
  \/ /\ format[g] = "zip"
     /\ Step(g, "linked", "cleanup")
     /\ Return(g, "success")
  \/ Step(g, "unpack", "cleanup") /\ UNCHANGED result

RemoveTemporary(g) ==
  /\ ArchiveReturns(g)
  /\ temporary' = temporary \ {g}
  /\ UNCHANGED <<directory, archive, staging, rendered, packed, left, format>>

(* The deferred removal fails, and nobody reads its error.                  *)
RemoveTemporaryFails(g) ==
  /\ IOFails
  /\ ArchiveReturns(g)
  /\ leftTemporary' = leftTemporary \cup {g}
  /\ UNCHANGED <<directory, archive, staging, temporary, rendered, packed, leftStaging, format>>

-----------------------------------------------------------------------------
(* publishDirectory, and the second half of publishDirectoryAndZIP.         *)

Renaming(g) ==
  \/ format[g] = "directory" /\ stage[g] = "rendered"
  \/ format[g] = "both" /\ stage[g] = "archived"

Rename(g) ==
  /\ Renaming(g)
  /\ directory = None
  /\ directory' = g
  /\ staging' = staging \ {g}
  /\ stage' = [stage EXCEPT ![g] = "cleanup"]
  /\ Return(g, "success")
  /\ UNCHANGED <<archive, temporary, rendered, packed, left, format>>

(* Mutant: a failed rename leaves the archive published.                    *)
RenameFailsHalfway(g) ==
  /\ Renaming(g)
  /\ directory # None \/ IOFails
  /\ stage' = [stage EXCEPT ![g] = "cleanup"]
  /\ Return(g, "failure")
  /\ UNCHANGED <<directory, archive, staging, temporary, rendered, packed, left, format>>

RenameFails(g) ==
  /\ Renaming(g)
  /\ directory # None \/ IOFails
  /\ stage' = [stage EXCEPT ![g] = IF format[g] = "both" THEN "rollback" ELSE "cleanup"]
  /\ Return(g, "failure")
  /\ UNCHANGED <<directory, archive, staging, temporary, rendered, packed, left, format>>

(* The incomplete archive is removed by name.                               *)
RemoveArchive(g) ==
  /\ Step(g, "rollback", "cleanup")
  /\ archive' = None
  /\ UNCHANGED <<directory, staging, temporary, rendered, packed, left, format, result>>

RemoveArchiveFails(g) ==
  /\ IOFails
  /\ Step(g, "rollback", "cleanup")
  /\ Return(g, "incomplete")
  /\ UNCHANGED <<directory, archive, staging, temporary, rendered, packed, left, format>>

(* Generate's deferred removal of the staging directory.  A staging that    *)
(* was renamed into place is not there any more, and that is no error.      *)
Cleanup(g) ==
  /\ Step(g, "cleanup", "done")
  /\ staging' = staging \ {g}
  /\ UNCHANGED <<directory, archive, temporary, rendered, packed, left, format, result>>

CleanupFails(g) ==
  /\ IOFails
  /\ g \in staging
  /\ Step(g, "cleanup", "done")
  /\ leftStaging' = leftStaging \cup {g}
  /\ UNCHANGED <<directory, archive, staging, temporary, rendered, packed, leftTemporary, format,
                 result>>

Kill(g) ==
  /\ Crashes
  /\ stage[g] # "done"
  /\ stage' = [stage EXCEPT ![g] = "killed"]
  /\ UNCHANGED <<directory, archive, staging, temporary, rendered, packed, left, format, result>>

-----------------------------------------------------------------------------
Generate(g) ==
  \/ (\E delivery \in Formats : Accept(g, delivery)) \/ Refuse(g)
  \/ CheckDirectory(g) \/ CheckArchive(g) \/ Unavailable(g)
  \/ MakeStaging(g) \/ MakeStagingFails(g) \/ Render(g) \/ RenderFails(g)
  \/ OpenTemporary(g) \/ OpenTemporaryFails(g) \/ Pack(g) \/ PackFails(g)
  \/ Link(g) \/ LinkFails(g) \/ RemoveTemporary(g) \/ RemoveTemporaryFails(g)
  \/ Rename(g) \/ RenameFails(g) \/ RemoveArchive(g) \/ RemoveArchiveFails(g)
  \/ Cleanup(g) \/ CleanupFails(g)

Next == \E g \in Generators : Generate(g) \/ Kill(g)

Spec == Init /\ [][Next]_vars

-----------------------------------------------------------------------------
(* What holds of one generator at every step; the invariant of the proofs.  *)
(* Its files, its place and its result tell each other: in particular an    *)
(* archive is only ever rolled back by the generator that linked it.        *)
FilesInv(g) ==
  /\ g \in staging =>
       \/ stage[g] \notin {"called", "validated", "no directory", "available", "done"}
       \/ g \in leftStaging
  /\ g \in temporary =>
       \/ stage[g] \in {"packing", "packed", "linked", "unpack", "killed"}
       \/ g \in leftTemporary
  /\ stage[g] \in {"rendered", "packing", "packed", "linked", "archived"} => g \in rendered
  /\ stage[g] \in {"packed", "linked", "archived"} => g \in packed

ResultInv(g) ==
  /\ result[g] = "success" =>
       /\ stage[g] \in {"cleanup", "done", "killed"}
       /\ format[g] \in {"directory", "both"} => directory = g
       /\ format[g] \in {"zip", "both"} => archive = g
       /\ g \in rendered
  /\ stage[g] \in {"rollback", "unpack"} => result[g] = "failure"
  /\ stage[g] \in {"cleanup", "done"} => result[g] # "none"

OwnerInv(g) ==
  /\ directory = g => result[g] = "success"
  /\ stage[g] \in {"linked", "archived", "rollback"} => archive = g
  /\ stage[g] = "archived" => format[g] = "both"
  /\ archive = g => g \in rendered \cap packed
  /\ archive = g =>
       \/ stage[g] \in {"linked", "archived", "rollback", "killed"}
       \/ stage[g] \in {"cleanup", "done"} /\ result[g] \in {"success", "incomplete"}

IndInv ==
  /\ TypeOK
  /\ \A g \in Generators : FilesInv(g) /\ ResultInv(g) /\ OwnerInv(g)

-----------------------------------------------------------------------------
(* Whatever is at the destination stays what it is: nothing is overwritten, *)
(* and only a generator that failed takes its own archive back.             *)
NeverOverwritten ==
  [][/\ directory # None => directory' = directory
     /\ archive # None =>
          \/ archive' = archive
          \/ archive' = None /\ archive \in Generators
             /\ result'[archive] = "failure"]_vars

(* Success is for good: all a winner delivered is at the destination, made  *)
(* by this one recipe and completely rendered, whatever losers clean up.    *)
WinnersKeepTheirs ==
  \A g \in Generators : result[g] = "success" =>
    /\ WantsDirectory(g) => directory = g
    /\ WantsArchive(g) => archive = g
    /\ g \in rendered

(* What is at the destination is never half written: neither name appears   *)
(* before what it names is complete, so a generator killed at any moment,   *)
(* between its archive and its directory too, leaves only whole deliveries. *)
DeliveredIsWhole ==
  /\ directory \in Generators => directory \in rendered
  /\ archive \in Generators => archive \in rendered \cap packed

(* A generator that returned leaves behind what it delivered and what the   *)
(* system refused to remove, on every one of its paths: its staging and its *)
(* temporary archive are there only if their removal itself failed, and if  *)
(* it failed it published nothing, unless it says that it could not take    *)
(* its archive back.  (The destination's parents are made and kept.)        *)
FailureLeavesNothing ==
  \A g \in Generators : stage[g] = "done" =>
    /\ g \in staging => g \in leftStaging
    /\ g \in temporary => g \in leftTemporary
    /\ result[g] = "failure" => g \notin {directory, archive}
=============================================================================
