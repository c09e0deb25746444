---------------------------- MODULE FactoryProofs ----------------------------
(***************************************************************************)
(* Proofs about Factory, for any number of generators, with or without I/O *)
(* failures and crashes.                                                   *)
(***************************************************************************)
EXTENDS Factory, TLAPS

(* No step makes a variable leave its type.                                 *)
LEMMA TypePreserved ==
  ASSUME TypeOK, NEW g \in Generators, Generate(g) \/ Kill(g)
  PROVE  TypeOK'
<1> USE DEF left
<1>1. ASSUME NEW d \in Formats, Accept(g, d) PROVE TypeOK'
  BY <1>1, OwnerAssumption DEF Accept, Step, Return, TypeOK, Stages, Owners,
     Formats
<1>2. CASE Refuse(g)
  BY <1>2, OwnerAssumption DEF Refuse, Step, Return, TypeOK, Stages, Owners,
     Formats
<1>3. CASE CheckDirectory(g)
  BY <1>3, OwnerAssumption DEF CheckDirectory, WantsDirectory, Step, Return,
     TypeOK, Stages, Owners, Formats
<1>4. CASE CheckArchive(g)
  BY <1>4, OwnerAssumption DEF CheckArchive, WantsArchive, Step, Return,
     TypeOK, Stages, Owners, Formats
<1>5. CASE Unavailable(g)
  BY <1>5, OwnerAssumption DEF Unavailable, WantsDirectory, WantsArchive,
     Step, Return, TypeOK, Stages, Owners, Formats
<1>6. CASE MakeStaging(g)
  BY <1>6, OwnerAssumption DEF MakeStaging, Step, Return, TypeOK, Stages,
     Owners, Formats
<1>7. CASE MakeStagingFails(g)
  BY <1>7, OwnerAssumption DEF MakeStagingFails, Step, Return, TypeOK, Stages,
     Owners, Formats
<1>8. CASE Render(g)
  BY <1>8, OwnerAssumption DEF Render, Step, Return, TypeOK, Stages, Owners,
     Formats
<1>9. CASE RenderFails(g)
  BY <1>9, OwnerAssumption DEF RenderFails, Step, Return, TypeOK, Stages,
     Owners, Formats
<1>10. CASE Pack(g)
  BY <1>10, OwnerAssumption DEF Pack, WantsArchive, Step, Return, TypeOK,
     Stages, Owners, Formats
<1>11. CASE PackFails(g)
  BY <1>11, OwnerAssumption DEF PackFails, WantsArchive, Step, Return, TypeOK,
     Stages, Owners, Formats
<1>12. CASE Link(g)
  BY <1>12, OwnerAssumption DEF Link, Step, Return, TypeOK, Stages, Owners,
     Formats
<1>13. CASE LinkFails(g)
  BY <1>13, OwnerAssumption DEF LinkFails, Step, Return, TypeOK, Stages,
     Owners, Formats
<1>14. CASE RemoveTemporary(g)
  BY <1>14, OwnerAssumption DEF RemoveTemporary, ArchiveReturns, Step, Return, TypeOK, Stages,
     Owners, Formats
<1>15. CASE Rename(g)
  BY <1>15, OwnerAssumption DEF Rename, Renaming, Step, Return, TypeOK,
     Stages, Owners, Formats
<1>16. CASE RenameFails(g)
  BY <1>16, OwnerAssumption DEF RenameFails, Renaming, Step, Return, TypeOK,
     Stages, Owners, Formats
<1>17. CASE RemoveArchive(g)
  BY <1>17, OwnerAssumption DEF RemoveArchive, Step, Return, TypeOK, Stages,
     Owners, Formats
<1>18. CASE RemoveArchiveFails(g)
  BY <1>18, OwnerAssumption DEF RemoveArchiveFails, Step, Return, TypeOK,
     Stages, Owners, Formats
<1>19. CASE Cleanup(g)
  BY <1>19, OwnerAssumption DEF Cleanup, Step, Return, TypeOK, Stages, Owners,
     Formats
<1>20. CASE Kill(g)
  BY <1>20, OwnerAssumption DEF Kill, Step, Return, TypeOK, Stages, Owners,
     Formats
<1>21. CASE OpenTemporary(g)
  BY <1>21, OwnerAssumption DEF OpenTemporary, WantsArchive, Step, Return, TypeOK,
     Stages, Owners, Formats
<1>22. CASE OpenTemporaryFails(g)
  BY <1>22, OwnerAssumption DEF OpenTemporaryFails, WantsArchive, Step, Return, TypeOK,
     Stages, Owners, Formats
<1>23. CASE RemoveTemporaryFails(g)
  BY <1>23, OwnerAssumption DEF RemoveTemporaryFails, ArchiveReturns, Step, Return, TypeOK,
     Stages, Owners, Formats
<1>24. CASE CleanupFails(g)
  BY <1>24, OwnerAssumption DEF CleanupFails, Step, Return, TypeOK, Stages, Owners, Formats
<1> QED
  BY <1>1, <1>2, <1>3, <1>4, <1>5, <1>6, <1>7, <1>8, <1>9, <1>10, <1>11,
     <1>12, <1>13, <1>14, <1>15, <1>16, <1>17, <1>18, <1>19, <1>20, <1>21,
     <1>22, <1>23, <1>24 DEF Generate

(* A generator's own step keeps its files, its place and its result in      *)
(* agreement.                                                               *)
LEMMA OwnStep ==
  ASSUME IndInv, NEW g \in Generators, Generate(g) \/ Kill(g)
  PROVE  FilesInv(g)' /\ ResultInv(g)' /\ OwnerInv(g)'
<1> USE OwnerAssumption DEF IndInv, TypeOK, left
<1>1. ASSUME NEW d \in Formats, Accept(g, d) PROVE FilesInv(g)' /\
   ResultInv(g)' /\ OwnerInv(g)'
  BY <1>1 DEF Accept, Step, Return, Formats, FilesInv, ResultInv, OwnerInv
<1>2. CASE Refuse(g)
  BY <1>2 DEF Refuse, Step, Return, Formats, FilesInv, ResultInv, OwnerInv
<1>3. CASE CheckDirectory(g)
  BY <1>3 DEF CheckDirectory, WantsDirectory, Step, Return, Formats, FilesInv,
     ResultInv, OwnerInv
<1>4. CASE CheckArchive(g)
  BY <1>4 DEF CheckArchive, WantsArchive, Step, Return, Formats, FilesInv,
     ResultInv, OwnerInv
<1>5. CASE Unavailable(g)
  BY <1>5 DEF Unavailable, WantsDirectory, WantsArchive, Step, Return,
     Formats, FilesInv, ResultInv, OwnerInv
<1>6. CASE MakeStaging(g)
  BY <1>6 DEF MakeStaging, Step, Return, Formats, FilesInv, ResultInv,
     OwnerInv
<1>7. CASE MakeStagingFails(g)
  BY <1>7 DEF MakeStagingFails, Step, Return, Formats, FilesInv, ResultInv,
     OwnerInv
<1>8. CASE Render(g)
  BY <1>8 DEF Render, Step, Return, Formats, FilesInv, ResultInv, OwnerInv
<1>9. CASE RenderFails(g)
  BY <1>9 DEF RenderFails, Step, Return, Formats, FilesInv, ResultInv,
     OwnerInv
<1>10. CASE Pack(g)
  BY <1>10 DEF Pack, WantsArchive, Step, Return, Formats, FilesInv, ResultInv,
     OwnerInv
<1>11. CASE PackFails(g)
  BY <1>11 DEF PackFails, WantsArchive, Step, Return, Formats, FilesInv,
     ResultInv, OwnerInv
<1>12. CASE Link(g)
  BY <1>12 DEF Link, Step, Return, Formats, FilesInv, ResultInv, OwnerInv
<1>13. CASE LinkFails(g)
  BY <1>13 DEF LinkFails, Step, Return, Formats, FilesInv, ResultInv, OwnerInv
<1>14. CASE RemoveTemporary(g)
  BY <1>14 DEF RemoveTemporary, ArchiveReturns, Step, Return, Formats, FilesInv, ResultInv,
     OwnerInv
<1>15. CASE Rename(g)
  BY <1>15 DEF Rename, Renaming, Step, Return, Formats, FilesInv, ResultInv,
     OwnerInv
<1>16. CASE RenameFails(g)
  BY <1>16 DEF RenameFails, Renaming, Step, Return, Formats, FilesInv,
     ResultInv, OwnerInv
<1>17. CASE RemoveArchive(g)
  BY <1>17 DEF RemoveArchive, Step, Return, Formats, FilesInv, ResultInv,
     OwnerInv
<1>18. CASE RemoveArchiveFails(g)
  BY <1>18 DEF RemoveArchiveFails, Step, Return, Formats, FilesInv, ResultInv,
     OwnerInv
<1>19. CASE Cleanup(g)
  BY <1>19 DEF Cleanup, Step, Return, Formats, FilesInv, ResultInv, OwnerInv
<1>20. CASE Kill(g)
  BY <1>20 DEF Kill, Step, Return, Formats, FilesInv, ResultInv, OwnerInv
<1>21. CASE OpenTemporary(g)
  BY <1>21 DEF OpenTemporary, WantsArchive, Step, Return, Formats,
     FilesInv, ResultInv, OwnerInv
<1>22. CASE OpenTemporaryFails(g)
  BY <1>22 DEF OpenTemporaryFails, WantsArchive, Step, Return, Formats,
     FilesInv, ResultInv, OwnerInv
<1>23. CASE RemoveTemporaryFails(g)
  BY <1>23 DEF RemoveTemporaryFails, ArchiveReturns, Step, Return, Formats,
     FilesInv, ResultInv, OwnerInv
<1>24. CASE CleanupFails(g)
  BY <1>24 DEF CleanupFails, Step, Return, Formats, FilesInv, ResultInv, OwnerInv
<1> QED
  BY <1>1, <1>2, <1>3, <1>4, <1>5, <1>6, <1>7, <1>8, <1>9, <1>10, <1>11,
     <1>12, <1>13, <1>14, <1>15, <1>16, <1>17, <1>18, <1>19, <1>20, <1>21,
     <1>22, <1>23, <1>24 DEF Generate

(* A step that leaves everything of one generator as it is.                 *)
Untouched(h) ==
  /\ stage'[h] = stage[h]
  /\ result'[h] = result[h]
  /\ format'[h] = format[h]
  /\ h \in staging' <=> h \in staging
  /\ h \in temporary' <=> h \in temporary
  /\ h \in rendered => h \in rendered'
  /\ h \in packed => h \in packed'
  /\ h \in leftStaging => h \in leftStaging'
  /\ h \in leftTemporary => h \in leftTemporary'
  /\ directory' = h <=> directory = h
  /\ archive' = h <=> archive = h

(* A generator's step changes nothing another generator owns: link and      *)
(* rename take free names, and a rollback removes the caller's own archive. *)
LEMMA OthersUntouched ==
  ASSUME IndInv, NEW g \in Generators, Generate(g) \/ Kill(g),
         NEW h \in Generators, h # g
  PROVE  Untouched(h)
<1> USE OwnerAssumption DEF IndInv, TypeOK, left
<1>1. ASSUME NEW d \in Formats, Accept(g, d) PROVE Untouched(h)
  BY <1>1 DEF Accept, Step, Return, OwnerInv, Untouched
<1>2. CASE Refuse(g)
  BY <1>2 DEF Refuse, Step, Return, OwnerInv, Untouched
<1>3. CASE CheckDirectory(g)
  BY <1>3 DEF CheckDirectory, WantsDirectory, Step, Return, OwnerInv, Untouched
<1>4. CASE CheckArchive(g)
  BY <1>4 DEF CheckArchive, WantsArchive, Step, Return, OwnerInv, Untouched
<1>5. CASE Unavailable(g)
  BY <1>5 DEF Unavailable, WantsDirectory, WantsArchive, Step, Return,
     OwnerInv, Untouched
<1>6. CASE MakeStaging(g)
  BY <1>6 DEF MakeStaging, Step, Return, OwnerInv, Untouched
<1>7. CASE MakeStagingFails(g)
  BY <1>7 DEF MakeStagingFails, Step, Return, OwnerInv, Untouched
<1>8. CASE Render(g)
  BY <1>8 DEF Render, Step, Return, OwnerInv, Untouched
<1>9. CASE RenderFails(g)
  BY <1>9 DEF RenderFails, Step, Return, OwnerInv, Untouched
<1>10. CASE Pack(g)
  BY <1>10 DEF Pack, WantsArchive, Step, Return, OwnerInv, Untouched
<1>11. CASE PackFails(g)
  BY <1>11 DEF PackFails, WantsArchive, Step, Return, OwnerInv, Untouched
<1>12. CASE Link(g)
  BY <1>12 DEF Link, Step, Return, OwnerInv, Untouched
<1>13. CASE LinkFails(g)
  BY <1>13 DEF LinkFails, Step, Return, OwnerInv, Untouched
<1>14. CASE RemoveTemporary(g)
  BY <1>14 DEF RemoveTemporary, ArchiveReturns, Step, Return, OwnerInv, Untouched
<1>15. CASE Rename(g)
  BY <1>15 DEF Rename, Renaming, Step, Return, OwnerInv, Untouched
<1>16. CASE RenameFails(g)
  BY <1>16 DEF RenameFails, Renaming, Step, Return, OwnerInv, Untouched
<1>17. CASE RemoveArchive(g)
  BY <1>17 DEF RemoveArchive, Step, Return, OwnerInv, Untouched
<1>18. CASE RemoveArchiveFails(g)
  BY <1>18 DEF RemoveArchiveFails, Step, Return, OwnerInv, Untouched
<1>19. CASE Cleanup(g)
  BY <1>19 DEF Cleanup, Step, Return, OwnerInv, Untouched
<1>20. CASE Kill(g)
  BY <1>20 DEF Kill, Step, Return, OwnerInv, Untouched
<1>21. CASE OpenTemporary(g)
  BY <1>21 DEF OpenTemporary, WantsArchive, Step, Return, OwnerInv, Untouched
<1>22. CASE OpenTemporaryFails(g)
  BY <1>22 DEF OpenTemporaryFails, WantsArchive, Step, Return, OwnerInv, Untouched
<1>23. CASE RemoveTemporaryFails(g)
  BY <1>23 DEF RemoveTemporaryFails, ArchiveReturns, Step, Return, OwnerInv, Untouched
<1>24. CASE CleanupFails(g)
  BY <1>24 DEF CleanupFails, Step, Return, OwnerInv, Untouched
<1> QED
  BY <1>1, <1>2, <1>3, <1>4, <1>5, <1>6, <1>7, <1>8, <1>9, <1>10, <1>11,
     <1>12, <1>13, <1>14, <1>15, <1>16, <1>17, <1>18, <1>19, <1>20, <1>21,
     <1>22, <1>23, <1>24 DEF Generate

(* The invariant of the proofs holds in every reachable state.              *)
THEOREM Inductive == Spec => []IndInv
<1>1. Init => IndInv
  BY OwnerAssumption
     DEF Init, IndInv, TypeOK, Owners, Stages, FilesInv, ResultInv, OwnerInv
<1>2. IndInv /\ [Next]_vars => IndInv'
  <2> SUFFICES ASSUME IndInv, [Next]_vars PROVE IndInv'
    OBVIOUS
  <2>1. CASE UNCHANGED vars
    BY <2>1 DEF vars, left, IndInv, TypeOK, FilesInv, ResultInv, OwnerInv
  <2>2. ASSUME NEW g \in Generators, Generate(g) \/ Kill(g) PROVE IndInv'
    <3>1. TypeOK'
      BY <2>2, TypePreserved DEF IndInv
    <3>2. ASSUME NEW h \in Generators
          PROVE  FilesInv(h)' /\ ResultInv(h)' /\ OwnerInv(h)'
      <4>1. CASE h = g
        BY <2>2, <4>1, OwnStep
      <4>2. CASE h # g
        <5>1. Untouched(h)
          BY <2>2, <4>2, OthersUntouched
        <5> QED
          BY <5>1 DEF Untouched, IndInv, FilesInv, ResultInv, OwnerInv
      <4> QED
        BY <4>1, <4>2
    <3> QED
      BY <3>1, <3>2 DEF IndInv
  <2> QED
    BY <2>1, <2>2 DEF Next
<1> QED
  BY <1>1, <1>2, PTL DEF Spec

(* What a generator reported as delivered stays at the destination, whole   *)
(* and from one recipe, whatever other generators do (publishZIP,           *)
(* publishDirectory, publishDirectoryAndZIP).                               *)
THEOREM WinnersAreSafe == Spec => []WinnersKeepTheirs
<1>1. IndInv => WinnersKeepTheirs
  BY DEF IndInv, WinnersKeepTheirs, ResultInv, WantsDirectory, WantsArchive
<1> QED
  BY <1>1, Inductive, PTL

(* Neither name at the destination appears before what it names is          *)
(* complete, so that a kill at any step leaves no half-written delivery     *)
(* (writeArchive's temporary file and link, Generate's staging directory    *)
(* and rename).                                                             *)
THEOREM DeliveryIsWhole == Spec => []DeliveredIsWhole
<1>1. IndInv => DeliveredIsWhole
  BY DEF IndInv, DeliveredIsWhole, ResultInv, OwnerInv
<1> QED
  BY <1>1, Inductive, PTL

(* Whichever way a generator returned, only a removal that itself failed    *)
(* leaves its staging or its temporary archive behind, and one that failed  *)
(* published nothing unless it said that its archive remained (Generate's   *)
(* and writeArchive's deferred removals, the rollback of a failed rename).  *)
THEOREM FailureIsClean == Spec => []FailureLeavesNothing
<1>1. IndInv => FailureLeavesNothing
  BY DEF IndInv, FailureLeavesNothing, FilesInv, OwnerInv
<1> QED
  BY <1>1, Inductive, PTL

(* Nothing at the destination is overwritten, and an archive disappears     *)
(* only by the hand of the failed generator that made it (os.Link,          *)
(* os.Rename, os.Remove).                                                   *)
THEOREM NothingIsOverwritten == Spec => NeverOverwritten
<1> DEFINE Kept == /\ directory # None => directory' = directory
                   /\ archive # None =>
                        \/ archive' = archive
                        \/ archive' = None /\ archive \in Generators
                           /\ result'[archive] = "failure"
<1>1. IndInv /\ [Next]_vars => [Kept]_vars
  <2> SUFFICES ASSUME IndInv, NEW g \in Generators, Generate(g) \/ Kill(g)
               PROVE  Kept
    BY DEF Next
  <2>1. CASE RemoveArchive(g)
    BY <2>1 DEF RemoveArchive, Step, IndInv, ResultInv, OwnerInv
  <2>2. CASE ~RemoveArchive(g)
    BY <2>2 DEF Generate, Accept, Refuse, CheckDirectory, CheckArchive,
       Unavailable, MakeStaging, MakeStagingFails, Render, RenderFails,
       OpenTemporary, OpenTemporaryFails, Pack, PackFails, Link, LinkFails,
       RemoveTemporary, RemoveTemporaryFails, Rename, RenameFails,
       RemoveArchiveFails, Cleanup, CleanupFails, Kill
  <2> QED
    BY <2>1, <2>2
<1> QED
  BY <1>1, Inductive, PTL DEF Spec, NeverOverwritten
=============================================================================
