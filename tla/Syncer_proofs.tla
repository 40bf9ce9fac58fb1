--------------------------- MODULE Syncer_proofs ---------------------------
(***************************************************************************)
(* Safety of the shadow-sync for any set of participations, arrival paths, *)
(* destinations, actors and faults.  Each invariant is strengthened with   *)
(* what the process relies on between two of its steps.                    *)
(***************************************************************************)
EXTENDS Syncer, TLAPS

\* Program counters at which a participation is under way.
PartPC == {"destOK", "copy", "verify", "rename", "moved", "emitMoved",
           "hasRow", "insert", "inserted", "emitInserted", "rbRemove"}

\* The participation and the origin the process works on exist.
UnderWay ==
  /\ pc \in PartPC => part \in Part
  /\ pc \in SyncPC => cur \in Origem

TypeInv == TypeOK /\ UnderWay

-----------------------------------------------------------------------------
LEMMA TypeInit == Init => TypeInv
<1> SUFFICES ASSUME Init PROVE TypeInv
  OBVIOUS
<1>1. origem \in [Origem -> Content] /\ destino \in [Dest -> Content]
  BY DEF Init, Content
<1>2. /\ journal \in [Part -> [state : JournalState, origem : Origem \cup {None}]]
      /\ nossas \in [Part -> [pend : Nat, imp : Nat]]
      /\ terceiros \in [Part -> RowState]
  BY DEF Init, NoRecord, JournalState, RowState
<1>3. tmp \in [Dest -> Content] /\ faults \in 0 .. MaxFaults
  BY FaultsAssumption DEF Init, Content
<1> QED
  BY <1>1, <1>2, <1>3
  DEF Init, TypeInv, TypeOK, UnderWay, SyncPC, RollbackPC, PartPC

LEMMA FaultType ==
  ASSUME NEW f, faults \in 0 .. MaxFaults, Fault(f)
  PROVE  faults' \in 0 .. MaxFaults
BY FaultsAssumption DEF Fault

\* sync_failed about a participation keeps obs well formed, and Fail goes idle.
LEMMA FailType ==
  ASSUME NEW p \in Part, obs \subseteq ObsKind \X Part, Fail(p)
  PROVE  /\ obs' \subseteq ObsKind \X Part
         /\ BackToIdle
BY DEF Fail, emit, ObsKind

LEMMA TypeStep == TypeInv /\ [Next]_vars => TypeInv'
<1> SUFFICES ASSUME TypeInv, [Next]_vars PROVE TypeInv'
  OBVIOUS
<1> USE PartAssumption, OrigemAssumption, DestAssumption, FaultsAssumption
    DEF TypeInv, TypeOK, UnderWay, Content, RowState, JournalState, ObsKind,
        SyncPC, RollbackPC, PartPC, files, rows, disk, local,
        goto, BackToIdle
<1>1. ASSUME NEW o \in Origem, Start(o) PROVE TypeInv'
  BY <1>1 DEF Start
<1>2. ASSUME NEW p \in Part, JournalPlanned(p) PROVE TypeInv'
  BY <1>2 DEF JournalPlanned, setPart
<1>3. CASE InspectDest
  BY <1>3, FailType DEF InspectDest
<1>4. CASE CopyToTmp
  <2>1. part \in Part /\ DestOf[part] \in Dest /\ origem[cur] \in Content
    BY <1>4 DEF CopyToTmp
  <2>2. tmp' \in [Dest -> Content]
    BY <1>4, <2>1 DEF CopyToTmp
  <2>3. CASE Fail(part)
    BY <1>4, <2>1, <2>2, <2>3, FailType DEF CopyToTmp
  <2>4. CASE goto("verify") /\ UNCHANGED obs
    BY <1>4, <2>1, <2>2, <2>4 DEF CopyToTmp
  <2> QED
    BY <1>4, <2>3, <2>4 DEF CopyToTmp
<1>5. CASE VerifyCopy
  <2>1. part \in Part
    BY <1>5 DEF VerifyCopy
  <2>2. tmp' \in [Dest -> Content]
    BY <1>5 DEF VerifyCopy
  <2>3. CASE Fail(part)
    BY <1>5, <2>1, <2>2, <2>3, FailType DEF VerifyCopy
  <2>4. CASE goto("rename") /\ UNCHANGED <<tmp, obs>>
    BY <1>5, <2>1, <2>4 DEF VerifyCopy
  <2> QED
    BY <1>5, <2>3, <2>4 DEF VerifyCopy
<1>6. CASE Rename
  BY <1>6 DEF Rename
<1>7. CASE JournalMoved
  BY <1>7 DEF JournalMoved, setPart
<1>8. CASE EmitMoved
  BY <1>8 DEF EmitMoved, emit
<1>9. CASE CheckRow
  BY <1>9 DEF CheckRow, NextPart
<1>10. CASE InsertRow
  BY <1>10 DEF InsertRow, InsertChaveAcesso
<1>11. CASE JournalInserted
  BY <1>11 DEF JournalInserted, setPart
<1>12. CASE EmitInserted
  BY <1>12 DEF EmitInserted, NextPart, emit
<1>13. ASSUME NEW p \in Part, VerifyComplete(p) PROVE TypeInv'
  BY <1>13, FailType DEF VerifyComplete
<1>14. CASE RemoveOrigem
  BY <1>14 DEF RemoveOrigem
<1>15. CASE MarkDone
  BY <1>15 DEF MarkDone
<1>16. CASE Rollback \/ RollbackAll
  BY <1>16 DEF Rollback, RollbackAll, rollbackOne
<1>17. CASE RbDeletePending
  BY <1>17 DEF RbDeletePending, DeleteOurRows
<1>18. CASE RbDelete
  BY <1>18 DEF RbDelete, DeleteOurRows
<1>19. ASSUME NEW p \in Part, RbRestore(p) PROVE TypeInv'
  BY <1>19 DEF RbRestore
<1>20. ASSUME NEW p \in Part, RbRestoreError(p) \/ RbTornRestore(p) PROVE TypeInv'
  <2>1. faults' \in 0 .. MaxFaults
    BY <1>20, FaultType DEF RbRestoreError, RbTornRestore
  <2>2. origem' \in [Origem -> Content]
    BY <1>20 DEF RbRestoreError, RbTornRestore
  <2>3. CASE RbRestoreError(p)
    BY <2>1, <2>2, <2>3 DEF RbRestoreError
  <2>4. CASE RbTornRestore(p)
    BY <2>1, <2>2, <2>4 DEF RbTornRestore
  <2> QED
    BY <1>20, <2>3, <2>4
<1>21. CASE RbRemove
  BY <1>21, FaultType DEF RbRemove, emit
<1>22. CASE RbClear
  BY <1>22 DEF RbClear, clearChave, NoRecord
<1>23. CASE RbError
  BY <1>23, FaultType DEF RbError
<1>24. CASE StepError
  <2>1. faults' \in 0 .. MaxFaults
    BY <1>24, FaultType DEF StepError
  <2>2. tmp' \in [Dest -> Content]
    BY <1>24 DEF StepError
  <2>3. obs' \subseteq ObsKind \X Part
    <3>1. ASSUME NEW p \in Part, emit("sync_failed", p)
          PROVE  obs' \subseteq ObsKind \X Part
      BY <3>1 DEF emit
    <3> QED
      BY <1>24, <3>1 DEF StepError
  <2> QED
    BY <1>24, <2>1, <2>2, <2>3 DEF StepError
<1>25. CASE InsertReplyLost
  <2>1. part \in Part /\ nossas' \in [Part -> [pend : Nat, imp : Nat]]
    BY <1>25 DEF InsertReplyLost, InsertChaveAcesso
  <2>2. obs' \subseteq ObsKind \X Part /\ BackToIdle
    BY <1>25, <2>1, FailType DEF InsertReplyLost
  <2>3. faults' \in 0 .. MaxFaults
    BY <1>25, FaultType DEF InsertReplyLost
  <2> QED
    BY <1>25, <2>1, <2>2, <2>3 DEF InsertReplyLost
<1>26. CASE Crash
  <2>1. faults' \in 0 .. MaxFaults
    BY <1>26, FaultType DEF Crash
  <2>2. tmp' \in [Dest -> Content]
    BY <1>26 DEF Crash
  <2> QED
    BY <1>26, <2>1, <2>2 DEF Crash
<1>27. ASSUME NEW p \in Part, HorseImport(p) PROVE TypeInv'
  <2>1. nossas' \in [Part -> [pend : Nat, imp : Nat]]
    BY <1>27 DEF HorseImport
  <2>2. terceiros' \in [Part -> RowState]
    BY <1>27 DEF HorseImport
  <2> QED
    BY <1>27, <2>1, <2>2 DEF HorseImport
<1>28. ASSUME NEW p \in Part, DxmlInsert(p) PROVE TypeInv'
  BY <1>28 DEF DxmlInsert
<1>29. ASSUME NEW o \in Origem, NEW p \in Part, DxmlPlace(o, p) PROVE TypeInv'
  BY <1>29 DEF DxmlPlace
<1>30. ASSUME NEW o \in Origem, DxmlRemove(o) \/ Arrive(o) \/ FinishWriting(o)
       PROVE TypeInv'
  BY <1>30 DEF DxmlRemove, Arrive, FinishWriting
<1>31. CASE UNCHANGED vars
  BY <1>31 DEF vars
<1> QED
  BY <1>1, <1>2, <1>3, <1>4, <1>5, <1>6, <1>7, <1>8, <1>9, <1>10, <1>11, <1>12,
     <1>13, <1>14, <1>15, <1>16, <1>17, <1>18, <1>19, <1>20, <1>21, <1>22,
     <1>23, <1>24, <1>25, <1>26, <1>27, <1>28, <1>29, <1>30, <1>31
  DEF Next, Execute, RollbackStep, Failure, Environment

\* The shape of the state is kept whatever the programs do: in particular the
\* observations always name a participation and the journal an arrival path.
THEOREM TypeCorrect == Spec => []TypeOK
<1>1. TypeInv => TypeOK
  BY DEF TypeInv
<1> QED
  BY <1>1, TypeInit, TypeStep, PTL DEF Spec

-----------------------------------------------------------------------------
(* The golden rule.  verifyComplete is a loop over the participations while *)
(* the other programs act: what it has checked must stay true.              *)

VerifiedSoFar ==
  pc \in {"complete", "remove"} =>
    \A p \in Part : (pc = "remove" \/ p \notin left) => Delivered(p) /\ Registered(p)

LEMMA HasRowIsRegistered ==
  ASSUME TypeOK, NEW p \in Part
  PROVE  HasRow(p) <=> Registered(p)
BY DEF TypeOK, HasRow, Registered

\* While the process is in the final verification, no other program takes a
\* copy or a row away.
LEMMA EnvironmentKeeps ==
  ASSUME TypeInv, Environment, NEW p \in Part, Delivered(p) /\ Registered(p)
  PROVE  (Delivered(p) /\ Registered(p))' /\ UNCHANGED <<pc, left>>
<1> USE DestAssumption DEF TypeInv, TypeOK, Delivered, Registered, ParsesToChave,
        files, rows, local
<1>1. ASSUME NEW q \in Part, HorseImport(q)
      PROVE  (Delivered(p) /\ Registered(p))' /\ UNCHANGED <<pc, left>>
  BY <1>1 DEF HorseImport
<1>2. ASSUME NEW q \in Part, DxmlInsert(q)
      PROVE  (Delivered(p) /\ Registered(p))' /\ UNCHANGED <<pc, left>>
  BY <1>2 DEF DxmlInsert
<1>3. ASSUME NEW o \in Origem, NEW q \in Part, DxmlPlace(o, q)
      PROVE  (Delivered(p) /\ Registered(p))' /\ UNCHANGED <<pc, left>>
  BY <1>3 DEF DxmlPlace
<1>4. ASSUME NEW o \in Origem, DxmlRemove(o) \/ Arrive(o) \/ FinishWriting(o)
      PROVE  (Delivered(p) /\ Registered(p))' /\ UNCHANGED <<pc, left>>
  BY <1>4 DEF DxmlRemove, Arrive, FinishWriting
<1> QED
  BY <1>1, <1>2, <1>3, <1>4 DEF Environment

LEMMA GoldenStep == TypeInv /\ VerifiedSoFar /\ [Next]_vars => VerifiedSoFar'
<1> SUFFICES ASSUME TypeInv, VerifiedSoFar, [Next]_vars PROVE VerifiedSoFar'
  OBVIOUS
<1> USE DEF goto, BackToIdle, Fail
<1>1. ASSUME NEW o \in Origem, Start(o) PROVE VerifiedSoFar'
  BY <1>1 DEF Start, VerifiedSoFar
<1>2. ASSUME NEW p \in Part, JournalPlanned(p) PROVE VerifiedSoFar'
  BY <1>2 DEF JournalPlanned, VerifiedSoFar
<1>3. CASE InspectDest \/ CopyToTmp \/ VerifyCopy \/ Rename
  BY <1>3 DEF InspectDest, CopyToTmp, VerifyCopy, Rename, VerifiedSoFar
<1>4. CASE JournalMoved \/ EmitMoved \/ JournalInserted \/ MarkDone
  BY <1>4 DEF JournalMoved, EmitMoved, JournalInserted, MarkDone, VerifiedSoFar
<1>5. CASE InsertRow \/ InsertReplyLost
  BY <1>5 DEF InsertRow, InsertReplyLost, VerifiedSoFar
<1>6. CASE CheckRow \/ EmitInserted
  \* The verification starts over every participation.
  BY <1>6 DEF CheckRow, EmitInserted, NextPart, VerifiedSoFar
<1>7. ASSUME NEW p \in Part, VerifyComplete(p) PROVE VerifiedSoFar'
  <2>1. CASE Fail(p)
    BY <1>7, <2>1 DEF VerifyComplete, VerifiedSoFar
  <2>2. CASE ParsesToChave(destino[DestOf[p]]) /\ HasRow(p) /\ ~Fail(p)
    <3>1. Delivered(p) /\ Registered(p)
      BY <2>2, HasRowIsRegistered DEF Delivered, TypeInv
    <3>2. \A q \in Part : (q \notin left \/ q = p) => Delivered(q) /\ Registered(q)
      BY <1>7, <3>1 DEF VerifyComplete, VerifiedSoFar
    <3>3. left' = left \ {p} /\ pc' = (IF left = {p} THEN "remove" ELSE "complete")
      BY <1>7, <2>2 DEF VerifyComplete
    <3>4. UNCHANGED <<destino, nossas, terceiros>>
      BY <1>7 DEF VerifyComplete, files, rows
    <3> QED
      BY <3>2, <3>3, <3>4 DEF VerifiedSoFar, Delivered, Registered
  <2> QED
    BY <1>7, <2>1, <2>2 DEF VerifyComplete
<1>8. CASE RemoveOrigem
  BY <1>8 DEF RemoveOrigem, VerifiedSoFar
<1>9. CASE Rollback \/ RollbackAll
  BY <1>9 DEF Rollback, RollbackAll, rollbackOne, VerifiedSoFar
<1>10. CASE RbDeletePending \/ RbDelete \/ RbRemove \/ RbClear
  BY <1>10 DEF RbDeletePending, RbDelete, RbRemove, RbClear, VerifiedSoFar
<1>11. ASSUME NEW p \in Part, RbRestore(p) \/ RbRestoreError(p) \/ RbTornRestore(p)
       PROVE VerifiedSoFar'
  BY <1>11 DEF RbRestore, RbRestoreError, RbTornRestore, VerifiedSoFar
<1>12. CASE RbError \/ StepError \/ Crash
  BY <1>12 DEF RbError, StepError, Crash, VerifiedSoFar
<1>13. CASE Environment
  <2>1. UNCHANGED <<pc, left>>
    BY <1>13 DEF Environment, HorseImport, DxmlInsert, DxmlPlace, DxmlRemove,
                 Arrive, FinishWriting, local
  <2> QED
    BY <1>13, <2>1, EnvironmentKeeps DEF VerifiedSoFar
<1>14. CASE UNCHANGED vars
  BY <1>14 DEF vars, VerifiedSoFar, Delivered, Registered
<1> QED
  BY <1>1, <1>2, <1>3, <1>4, <1>5, <1>6, <1>7, <1>8, <1>9, <1>10, <1>11, <1>12,
     <1>13, <1>14
  DEF Next, Execute, RollbackStep, Failure

\* Whatever crashes, fails or runs beside it, Execute removes the origin only
\* when every participation has its copy and its row.
THEOREM GoldenRuleHolds == Spec => []GoldenRule
<1>1. Init => VerifiedSoFar
  BY DEF Init, VerifiedSoFar
<1>2. VerifiedSoFar => GoldenRule
  BY DEF VerifiedSoFar, GoldenRule
<1> QED
  BY <1>1, <1>2, TypeInit, TypeStep, GoldenStep, PTL DEF Spec

-----------------------------------------------------------------------------
(* One row of ours.  Between HasRow and the INSERT the syncer relies on the *)
(* participation still having no row of ours; only the syncer adds one.     *)

OurRows(p) == nossas[p].pend + nossas[p].imp

NoDuplicate ==
  /\ OneOurRow
  /\ pc = "insert" => OurRows(part) = 0

LEMMA NoRowNoOurRows ==
  ASSUME TypeOK, NEW p \in Part, ~HasRow(p)
  PROVE  OurRows(p) = 0
<1>1. nossas[p].pend \in Nat /\ nossas[p].imp \in Nat
  BY DEF TypeOK
<1> QED
  BY <1>1 DEF HasRow, OurRows

LEMMA OneOurRowStep == TypeInv /\ NoDuplicate /\ [Next]_vars => NoDuplicate'
<1> SUFFICES ASSUME TypeInv, NoDuplicate, [Next]_vars PROVE NoDuplicate'
  OBVIOUS
<1> USE DEF NoDuplicate, OneOurRow, OurRows, TypeInv, TypeOK, goto, BackToIdle,
        Fail, rows
<1>1. ASSUME NEW o \in Origem, Start(o) PROVE NoDuplicate'
  BY <1>1 DEF Start
<1>2. ASSUME NEW p \in Part, JournalPlanned(p) \/ VerifyComplete(p) PROVE NoDuplicate'
  BY <1>2 DEF JournalPlanned, VerifyComplete
<1>3. CASE InspectDest \/ CopyToTmp \/ VerifyCopy \/ Rename
  BY <1>3 DEF InspectDest, CopyToTmp, VerifyCopy, Rename
<1>4. CASE JournalMoved \/ EmitMoved \/ JournalInserted \/ RemoveOrigem \/ MarkDone
  BY <1>4 DEF JournalMoved, EmitMoved, JournalInserted, RemoveOrigem, MarkDone
<1>5. CASE InsertRow \/ InsertReplyLost
  <2>1. part \in Part /\ OurRows(part) = 0
    BY <1>5 DEF InsertRow, InsertReplyLost, UnderWay, PartPC
  <2>2. nossas' = [nossas EXCEPT ![part].pend = @ + 1] /\ pc' # "insert"
    BY <1>5 DEF InsertRow, InsertReplyLost, InsertChaveAcesso
  <2> QED
    BY <2>1, <2>2
<1>6. CASE CheckRow \/ EmitInserted
  <2>1. CASE CheckRow /\ ~HasRow(part)
    <3>1. part \in Part
      BY <2>1 DEF CheckRow, UnderWay, PartPC
    <3>2. OurRows(part) = 0
      BY <2>1, <3>1, NoRowNoOurRows
    <3> QED
      BY <2>1, <3>2 DEF CheckRow
  <2> QED
    BY <1>6, <2>1 DEF CheckRow, EmitInserted, NextPart
<1>7. CASE Rollback \/ RollbackAll
  BY <1>7 DEF Rollback, RollbackAll, rollbackOne
<1>8. CASE RbDeletePending \/ RbDelete
  BY <1>8 DEF RbDeletePending, RbDelete, DeleteOurRows
<1>9. CASE RbRemove \/ RbClear \/ RbError \/ StepError \/ Crash
  BY <1>9 DEF RbRemove, RbClear, RbError, StepError, Crash
<1>10. ASSUME NEW p \in Part, RbRestore(p) \/ RbRestoreError(p) \/ RbTornRestore(p)
       PROVE NoDuplicate'
  BY <1>10 DEF RbRestore, RbRestoreError, RbTornRestore
<1>11. ASSUME NEW p \in Part, HorseImport(p) PROVE NoDuplicate'
  <2>1. ASSUME NEW q \in Part PROVE OurRows(q)' = OurRows(q)
    <3>1. nossas[q].pend \in Nat /\ nossas[q].imp \in Nat
      OBVIOUS
    <3>2. CASE UNCHANGED nossas
      BY <3>2
    <3>3. CASE nossas' = [nossas EXCEPT ![p] = [pend |-> @.pend - 1, imp |-> @.imp + 1]]
      BY <3>1, <3>3
    <3> QED
      BY <1>11, <3>2, <3>3 DEF HorseImport
  <2> QED
    BY <1>11, <2>1 DEF HorseImport, local, UnderWay, PartPC
<1>12. ASSUME NEW p \in Part, DxmlInsert(p) PROVE NoDuplicate'
  BY <1>12 DEF DxmlInsert, local
<1>13. ASSUME NEW o \in Origem, NEW p \in Part, DxmlPlace(o, p) PROVE NoDuplicate'
  BY <1>13 DEF DxmlPlace, local
<1>14. ASSUME NEW o \in Origem, DxmlRemove(o) \/ Arrive(o) \/ FinishWriting(o)
       PROVE NoDuplicate'
  BY <1>14 DEF DxmlRemove, Arrive, FinishWriting, local
<1>15. CASE UNCHANGED vars
  BY <1>15 DEF vars
<1> QED
  BY <1>1, <1>2, <1>3, <1>4, <1>5, <1>6, <1>7, <1>8, <1>9, <1>10, <1>11, <1>12,
     <1>13, <1>14, <1>15
  DEF Next, Execute, RollbackStep, Failure, Environment

\* Retries, lost replies, crashes and rollbacks never leave two rows of ours for
\* one participation.
THEOREM OneOurRowHolds == Spec => []OneOurRow
<1>1. Init => NoDuplicate
  BY DEF Init, NoDuplicate, OneOurRow
<1>2. NoDuplicate => OneOurRow
  BY DEF NoDuplicate
<1> QED
  BY <1>1, <1>2, TypeInit, TypeStep, OneOurRowStep, PTL DEF Spec

-----------------------------------------------------------------------------
(* The copy.  What is renamed into place was verified, and the destination *)
(* it replaces was not a conflict.                                          *)

CopyVerified ==
  /\ pc = "rename" => ParsesToChave(tmp[DestOf[part]])
  /\ pc \in {"copy", "verify", "rename"} => destino[DestOf[part]] # "other"

LEMMA CopyStep == TypeInv /\ CopyVerified /\ [Next]_vars => CopyVerified'
<1> SUFFICES ASSUME TypeInv, CopyVerified, [Next]_vars PROVE CopyVerified'
  OBVIOUS
<1> USE DEF CopyVerified, goto, BackToIdle, Fail, files
<1>1. ASSUME NEW o \in Origem, Start(o) PROVE CopyVerified'
  BY <1>1 DEF Start
<1>2. ASSUME NEW p \in Part, JournalPlanned(p) \/ VerifyComplete(p) PROVE CopyVerified'
  BY <1>2 DEF JournalPlanned, VerifyComplete
<1>3. CASE InspectDest
  BY <1>3 DEF InspectDest, ParsesToChave
<1>4. CASE CopyToTmp \/ VerifyCopy
  <2>1. CASE CopyToTmp
    BY <2>1 DEF CopyToTmp
  <2>2. CASE VerifyCopy
    BY <2>2 DEF VerifyCopy
  <2> QED
    BY <1>4, <2>1, <2>2
<1>5. CASE Rename \/ JournalMoved \/ EmitMoved \/ JournalInserted
  BY <1>5 DEF Rename, JournalMoved, EmitMoved, JournalInserted
<1>6. CASE CheckRow \/ EmitInserted \/ InsertRow \/ InsertReplyLost
  BY <1>6 DEF CheckRow, EmitInserted, NextPart, InsertRow, InsertReplyLost
<1>7. CASE RemoveOrigem \/ MarkDone \/ StepError \/ RbError \/ Crash
  BY <1>7 DEF RemoveOrigem, MarkDone, StepError, RbError, Crash
<1>8. CASE Rollback \/ RollbackAll
  BY <1>8 DEF Rollback, RollbackAll, rollbackOne
<1>9. CASE RbDeletePending \/ RbDelete \/ RbRemove \/ RbClear
  BY <1>9 DEF RbDeletePending, RbDelete, RbRemove, RbClear
<1>10. ASSUME NEW p \in Part, RbRestore(p) \/ RbRestoreError(p) \/ RbTornRestore(p)
       PROVE CopyVerified'
  BY <1>10 DEF RbRestore, RbRestoreError, RbTornRestore
<1>11. ASSUME NEW p \in Part, HorseImport(p) \/ DxmlInsert(p) PROVE CopyVerified'
  BY <1>11 DEF HorseImport, DxmlInsert, local
<1>12. ASSUME NEW o \in Origem, NEW p \in Part, DxmlPlace(o, p) PROVE CopyVerified'
  BY <1>12, DestAssumption DEF DxmlPlace, local, TypeInv, TypeOK, UnderWay, PartPC
<1>13. ASSUME NEW o \in Origem, DxmlRemove(o) \/ Arrive(o) \/ FinishWriting(o)
       PROVE CopyVerified'
  BY <1>13 DEF DxmlRemove, Arrive, FinishWriting, local
<1>14. CASE UNCHANGED vars
  BY <1>14 DEF vars
<1> QED
  BY <1>1, <1>2, <1>3, <1>4, <1>5, <1>6, <1>7, <1>8, <1>9, <1>10, <1>11, <1>12,
     <1>13, <1>14
  DEF Next, Execute, RollbackStep, Failure, Environment

-----------------------------------------------------------------------------
(* Rows of ours and what backs them.  The steps of executePart hand on that *)
(* the journal has the participation, then that its copy is in place.       *)

JournaledPC == {"destOK", "copy", "verify", "rename", "moved", "emitMoved",
                "hasRow", "insert"}

Backed ==
  /\ PendingBacked
  /\ pc \in JournaledPC => journal[part].state # "none"
  /\ pc \in {"moved", "emitMoved", "hasRow", "insert"} => Delivered(part)
  /\ pc \in {"rbRestore", "rbRemove", "rbClear"} =>
       \A p \in Part : nossas[p].pend = 0

LEMMA BackedStep == TypeInv /\ CopyVerified /\ Backed /\ [Next]_vars => Backed'
<1> SUFFICES ASSUME TypeInv, CopyVerified, Backed, [Next]_vars PROVE Backed'
  OBVIOUS
<1> USE DestAssumption
    DEF Backed, PendingBacked, JournaledPC, Delivered, TypeInv, TypeOK,
        goto, BackToIdle, Fail, files, rows, disk, local
<1>1. ASSUME NEW o \in Origem, Start(o) PROVE Backed'
  BY <1>1 DEF Start
<1>2. ASSUME NEW p \in Part, JournalPlanned(p) PROVE Backed'
  BY <1>2 DEF JournalPlanned, setPart
<1>3. CASE InspectDest
  BY <1>3 DEF InspectDest
<1>4. CASE CopyToTmp \/ VerifyCopy
  <2>1. CASE CopyToTmp
    BY <2>1 DEF CopyToTmp
  <2>2. CASE VerifyCopy
    BY <2>2 DEF VerifyCopy
  <2> QED
    BY <1>4, <2>1, <2>2
<1>5. CASE Rename
  \* The verified copy takes the place of whatever was there.
  BY <1>5 DEF Rename, CopyVerified, UnderWay, PartPC
<1>6. CASE JournalMoved
  BY <1>6 DEF JournalMoved, setPart, UnderWay, PartPC
<1>7. CASE EmitMoved
  BY <1>7 DEF EmitMoved
<1>8. CASE CheckRow \/ EmitInserted
  BY <1>8 DEF CheckRow, EmitInserted, NextPart
<1>9. CASE InsertRow \/ InsertReplyLost
  BY <1>9 DEF InsertRow, InsertReplyLost, InsertChaveAcesso, UnderWay, PartPC
<1>10. CASE JournalInserted
  BY <1>10 DEF JournalInserted, setPart, UnderWay, PartPC
<1>11. ASSUME NEW p \in Part, VerifyComplete(p) PROVE Backed'
  BY <1>11 DEF VerifyComplete
<1>12. CASE RemoveOrigem \/ MarkDone \/ StepError \/ RbError \/ Crash
  BY <1>12 DEF RemoveOrigem, MarkDone, StepError, RbError, Crash
<1>13. CASE Rollback \/ RollbackAll
  BY <1>13 DEF Rollback, RollbackAll, rollbackOne
<1>14. CASE RbDeletePending \/ RbDelete
  \* From here on no pending row depends on the copies.
  BY <1>14 DEF RbDeletePending, RbDelete, DeleteOurRows
<1>15. ASSUME NEW p \in Part, RbRestore(p) \/ RbRestoreError(p) \/ RbTornRestore(p)
       PROVE Backed'
  BY <1>15 DEF RbRestore, RbRestoreError, RbTornRestore
<1>16. CASE RbRemove
  BY <1>16 DEF RbRemove
<1>17. CASE RbClear
  BY <1>17 DEF RbClear, clearChave
<1>18. ASSUME NEW p \in Part, HorseImport(p) PROVE Backed'
  BY <1>18 DEF HorseImport
<1>19. ASSUME NEW p \in Part, DxmlInsert(p) PROVE Backed'
  BY <1>19 DEF DxmlInsert
<1>20. ASSUME NEW o \in Origem, NEW p \in Part, DxmlPlace(o, p) PROVE Backed'
  BY <1>20 DEF DxmlPlace, ParsesToChave, UnderWay, PartPC
<1>21. ASSUME NEW o \in Origem, DxmlRemove(o) \/ Arrive(o) \/ FinishWriting(o)
       PROVE Backed'
  BY <1>21 DEF DxmlRemove, Arrive, FinishWriting
<1>22. CASE UNCHANGED vars
  BY <1>22 DEF vars
<1> QED
  BY <1>1, <1>2, <1>3, <1>4, <1>5, <1>6, <1>7, <1>8, <1>9, <1>10, <1>11, <1>12,
     <1>13, <1>14, <1>15, <1>16, <1>17, <1>18, <1>19, <1>20, <1>21, <1>22
  DEF Next, Execute, RollbackStep, Failure, Environment

\* A pending row of ours always points at a copy that parses and is always in
\* the journal, so rollback can undo it.
THEOREM PendingBackedHolds == Spec => []PendingBacked
<1>1. Init => CopyVerified /\ Backed
  BY DEF Init, CopyVerified, Backed, PendingBacked, JournaledPC
<1>2. Backed => PendingBacked
  BY DEF Backed
<1> QED
  BY <1>1, <1>2, TypeInit, TypeStep, CopyStep, BackedStep, PTL DEF Spec

-----------------------------------------------------------------------------
(* Rows only leave by our DELETE of our pending rows.                       *)

RowsKept ==
  \A p \in Part :
    /\ nossas'[p].imp >= nossas[p].imp
    /\ terceiros[p] # "none" => terceiros'[p] # "none"
    /\ terceiros[p] = "imported" => terceiros'[p] = "imported"

LEMMA UnchangedRowsKept ==
  ASSUME TypeInv, UNCHANGED rows
  PROVE  RowsKept
BY DEF TypeInv, TypeOK, rows, RowsKept

LEMMA WhoChangesRows ==
  ASSUME [Next]_vars, ~UNCHANGED rows
  PROVE  \/ InsertRow \/ InsertReplyLost \/ RbDeletePending \/ RbDelete
         \/ \E p \in Part : HorseImport(p) \/ DxmlInsert(p)
<1>1. CASE Execute
  BY <1>1
  DEF Execute, rows, JournalPlanned, VerifyComplete, InspectDest, CopyToTmp, VerifyCopy,
      Rename, JournalMoved, EmitMoved, CheckRow, JournalInserted, EmitInserted,
      RemoveOrigem, MarkDone
<1>2. CASE Rollback \/ RollbackAll \/ RollbackStep
  BY <1>2
  DEF rows, Rollback, RollbackAll, rollbackOne, RollbackStep, RbRemove, RbClear, RbRestore
<1>3. CASE Failure
  BY <1>3
  DEF Failure, rows, StepError, RbError, Crash, RbRestoreError, RbTornRestore
<1>4. CASE Environment
  BY <1>4
  DEF Environment, rows, DxmlPlace, DxmlRemove, Arrive, FinishWriting
<1>5. CASE (\E o \in Origem : Start(o)) \/ UNCHANGED vars
  BY <1>5 DEF Start, vars, rows
<1> QED
  BY <1>1, <1>2, <1>3, <1>4, <1>5 DEF Next

LEMMA RowsKeptStep == TypeInv /\ [Next]_vars => RowsKept
<1> SUFFICES ASSUME TypeInv, [Next]_vars PROVE RowsKept
  OBVIOUS
<1> USE DEF TypeInv, TypeOK, RowsKept
<1>1. CASE UNCHANGED rows
  BY <1>1, UnchangedRowsKept
<1>2. CASE InsertRow \/ InsertReplyLost
  BY <1>2 DEF InsertRow, InsertReplyLost, InsertChaveAcesso
<1>3. CASE RbDeletePending \/ RbDelete
  BY <1>3 DEF RbDeletePending, RbDelete, DeleteOurRows
<1>4. ASSUME NEW p \in Part, HorseImport(p) PROVE RowsKept
  BY <1>4 DEF HorseImport
<1>5. ASSUME NEW p \in Part, DxmlInsert(p) PROVE RowsKept
  BY <1>5 DEF DxmlInsert
<1> QED
  BY <1>1, <1>2, <1>3, <1>4, <1>5, WhoChangesRows

\* No step of any program removes a row of the DownloadXML or an imported row,
\* nor takes a row back to pending.
THEOREM OnlyOurPendingRowsGoHolds == Spec => OnlyOurPendingRowsGo
<1>1. TypeInv /\ [Next]_vars => [RowsKept]_rows
  BY RowsKeptStep
<1> QED
  BY <1>1, TypeInit, TypeStep, PTL DEF Spec, OnlyOurPendingRowsGo, RowsKept

-----------------------------------------------------------------------------
(* While the operator leaves it alone, the service never rolls back, and    *)
(* the destinations change only from nothing, or by a verified rename.      *)

NoRollback == "operator" \notin Actors => pc \notin RollbackPC

LEMMA NoRollbackStep == TypeInv /\ NoRollback /\ [Next]_vars => NoRollback'
<1> SUFFICES ASSUME TypeInv, NoRollback, "operator" \notin Actors, [Next]_vars
             PROVE  pc' \notin RollbackPC
  BY DEF NoRollback
<1> USE DEF RollbackPC, NoRollback, goto, BackToIdle, Fail
<1>1. CASE Execute
  <2>1. ASSUME NEW p \in Part, JournalPlanned(p) \/ VerifyComplete(p)
        PROVE  pc' \notin RollbackPC
    BY <2>1 DEF JournalPlanned, VerifyComplete
  <2>2. CASE InspectDest \/ CopyToTmp \/ VerifyCopy \/ Rename
    BY <2>2 DEF InspectDest, CopyToTmp, VerifyCopy, Rename
  <2>3. CASE CheckRow \/ InsertRow \/ JournalInserted \/ EmitInserted
    BY <2>3 DEF CheckRow, InsertRow, JournalInserted, EmitInserted, NextPart
  <2>4. CASE JournalMoved \/ EmitMoved \/ RemoveOrigem \/ MarkDone
    BY <2>4 DEF JournalMoved, EmitMoved, RemoveOrigem, MarkDone
  <2> QED
    BY <1>1, <2>1, <2>2, <2>3, <2>4 DEF Execute
<1>2. CASE Rollback \/ RollbackAll
  BY <1>2 DEF Rollback, RollbackAll
<1>3. CASE RollbackStep
  BY <1>3 DEF RollbackStep, RbDeletePending, RbDelete, RbRemove, RbClear, RbRestore
<1>4. CASE Failure
  BY <1>4 DEF Failure, StepError, InsertReplyLost, RbError, Crash, RbRestoreError,
              RbTornRestore
<1>5. CASE Environment
  BY <1>5 DEF Environment, HorseImport, DxmlInsert, DxmlPlace, DxmlRemove, Arrive,
              FinishWriting, local
<1>6. CASE (\E o \in Origem : Start(o)) \/ UNCHANGED vars
  BY <1>6 DEF Start, vars
<1> QED
  BY <1>1, <1>2, <1>3, <1>4, <1>5, <1>6 DEF Next

\* The only ways a destination changes outside a rollback.
DestinoOnlyGains ==
  \A d \in Dest :
    destino'[d] # destino[d] =>
      ParsesToChave(destino'[d]) /\ destino[d] # "other"

LEMMA DestinoStep ==
  ASSUME TypeInv, CopyVerified, NoRollback, "operator" \notin Actors, [Next]_vars
  PROVE  DestinoOnlyGains
<1> USE DestAssumption DEF TypeInv, TypeOK, DestinoOnlyGains, RollbackPC
<1>1. CASE UNCHANGED destino
  BY <1>1
<1>2. CASE Rename
  BY <1>2 DEF Rename, CopyVerified, UnderWay, PartPC
<1>3. ASSUME NEW o \in Origem, NEW p \in Part, DxmlPlace(o, p) PROVE DestinoOnlyGains
  BY <1>3 DEF DxmlPlace, ParsesToChave
<1>4. ASSUME ~UNCHANGED destino
      PROVE  Rename \/ \E o \in Origem, p \in Part : DxmlPlace(o, p)
  <2>1. CASE Execute
    BY <1>4, <2>1
    DEF Execute, files, JournalPlanned, VerifyComplete, InspectDest, CopyToTmp,
        VerifyCopy, JournalMoved, EmitMoved, CheckRow, InsertRow, JournalInserted,
        EmitInserted, RemoveOrigem, MarkDone
  <2>2. CASE Rollback \/ RollbackAll
    BY <2>2 DEF Rollback, RollbackAll
  <2>3. CASE RollbackStep
    BY <2>3 DEF RollbackStep, NoRollback, RbDeletePending, RbDelete, RbRemove, RbClear,
                RbRestore
  <2>4. CASE Failure
    BY <1>4, <2>4
    DEF Failure, files, StepError, InsertReplyLost, RbError, Crash, RbRestoreError,
        RbTornRestore
  <2>5. CASE Environment
    BY <1>4, <2>5
    DEF Environment, files, HorseImport, DxmlInsert, DxmlRemove, Arrive, FinishWriting
  <2>6. CASE (\E o \in Origem : Start(o)) \/ UNCHANGED vars
    BY <1>4, <2>6 DEF Start, vars, files
  <2> QED
    BY <2>1, <2>2, <2>3, <2>4, <2>5, <2>6 DEF Next
<1> QED
  BY <1>1, <1>2, <1>3, <1>4

\* Without a rollback, a destination that holds something else is never
\* overwritten: what the service is designed to leave to a person.
THEOREM ConflictPreservedBySync ==
  ASSUME "operator" \notin Actors
  PROVE  Spec => ConflictPreserved
<1>1. Init => CopyVerified /\ NoRollback
  BY DEF Init, CopyVerified, NoRollback, RollbackPC
<1>2. TypeInv /\ CopyVerified /\ NoRollback /\ [Next]_vars =>
        [\A d \in Dest : destino[d] = "other" => destino'[d] = "other"]_destino
  BY DestinoStep DEF DestinoOnlyGains
<1> QED
  BY <1>1, <1>2, TypeInit, TypeStep, CopyStep, NoRollbackStep, PTL
  DEF Spec, ConflictPreserved

LEMMA ImportedStep ==
  ASSUME TypeInv, CopyVerified, NoRollback, "operator" \notin Actors,
         ImportedKeepsXml, [Next]_vars
  PROVE  ImportedKeepsXml'
<1>1. ASSUME NEW p \in Part, Delivered(p) PROVE Delivered(p)'
  <2>1. DestinoOnlyGains
    BY DestinoStep
  <2> QED
    BY <1>1, <2>1, DestAssumption DEF Delivered, DestinoOnlyGains
<1>2. ASSUME NEW p \in Part, (nossas[p].imp > 0 \/ terceiros[p] = "imported")',
             ~(nossas[p].imp > 0 \/ terceiros[p] = "imported")
      PROVE  Delivered(p)
  <2> USE DEF TypeInv, TypeOK
  <2>1. ~UNCHANGED rows
    BY <1>2 DEF rows
  <2>2. CASE InsertRow \/ InsertReplyLost
    BY <1>2, <2>2 DEF InsertRow, InsertReplyLost, InsertChaveAcesso
  <2>3. CASE RbDeletePending \/ RbDelete
    BY <1>2, <2>3 DEF RbDeletePending, RbDelete, DeleteOurRows
  <2>4. ASSUME NEW q \in Part, HorseImport(q) PROVE Delivered(p)
    \* A row is imported from a copy the Horse could read.
    BY <1>2, <2>4 DEF HorseImport, Delivered
  <2>5. ASSUME NEW q \in Part, DxmlInsert(q) PROVE Delivered(p)
    BY <1>2, <2>5 DEF DxmlInsert
  <2> QED
    BY <2>1, <2>2, <2>3, <2>4, <2>5, WhoChangesRows
<1> QED
  BY <1>1, <1>2 DEF ImportedKeepsXml

\* Without a rollback, every imported row, ours or of the DownloadXML, keeps the
\* XML it refers to.
THEOREM ImportedKeepsXmlInSync ==
  ASSUME "operator" \notin Actors
  PROVE  Spec => []ImportedKeepsXml
<1>1. Init => CopyVerified /\ NoRollback /\ ImportedKeepsXml
  BY DEF Init, CopyVerified, NoRollback, RollbackPC, ImportedKeepsXml
<1>2. TypeInv /\ CopyVerified /\ NoRollback /\ ImportedKeepsXml /\ [Next]_vars
      => ImportedKeepsXml'
  BY ImportedStep
<1> QED
  BY <1>1, <1>2, TypeInit, TypeStep, CopyStep, NoRollbackStep, PTL DEF Spec
-----------------------------------------------------------------------------
(***************************************************************************)
(* The shadow-sync implements its contract and never destroys the last     *)
(* whole copy of the XML, beside the Horse, the operator and new arrivals. *)
(***************************************************************************)

\* Nobody else moves the nota or is still writing it, and the copy that
\* restores the origin works: the assumptions the code makes.
Sozinho ==
  /\ Actors \cap {"dxml", "slowWriter"} = {}
  /\ Faults \cap {"restoreError", "tornRestore"} = {}

TemInteira == \E o \in Origem : origem[o] = "whole"

\* Files are whole, but for a destination in conflict.
Inteiras ==
  /\ \A o \in Origem : origem[o] \in {"none", "whole"}
  /\ \A d \in Dest : destino[d] \in {"none", "whole", "other"}

\* While a nota is being synced its origin is there, and a copy that is
\* renamed is whole.
EmSync ==
  /\ pc \in SyncPC \ {"markDone"} => origem[cur] = "whole"
  /\ pc = "rename" => tmp[DestOf[part]] = "whole"

Registrado(p) == journal[p].state # "none"

\* A record names its arrival path; while some destination is in conflict no
\* origin has been removed, so that a rollback restores nothing.
Registros ==
  /\ \A p \in Part : Registrado(p) => journal[p].origem \in Origem
  /\ (\E q \in Part : destino[DestOf[q]] = "other") =>
       \A p \in Part : Registrado(p) => origem[journal[p].origem] = "whole"

\* What a rollback relies on: it walks records, and before it removes a whole
\* copy the XML is back in ASINCRONIZAR.
EmRollback ==
  /\ pc \in RollbackPC => \A p \in left : Registrado(p)
  /\ restored => pc \in {"rbRestore", "rbRemove", "rbClear"} /\ TemInteira
  /\ pc = "rbRemove" /\ destino[DestOf[part]] = "whole" => TemInteira

IntInv == Inteiras /\ EmSync /\ Registros /\ EmRollback
-----------------------------------------------------------------------------
(* Who changes what.                                                         *)

LEMMA QuemMudaOrigem ==
  ASSUME Sozinho, [Next]_vars, origem' # origem
  PROVE  RemoveOrigem \/ (\E p \in Part : RbRestore(p)) \/ (\E o \in Origem : Arrive(o))
<1>1. CASE Execute
  BY <1>1
  DEF Execute, files, JournalPlanned, VerifyComplete, InspectDest, CopyToTmp, VerifyCopy,
      Rename, JournalMoved, EmitMoved, CheckRow, InsertRow, JournalInserted, EmitInserted, MarkDone
<1>2. CASE Rollback \/ RollbackAll \/ RollbackStep
  BY <1>2
  DEF files, Rollback, RollbackAll, rollbackOne, RollbackStep, RbDeletePending, RbDelete, RbRemove,
      RbClear
<1>3. CASE Failure
  BY <1>3
  DEF Sozinho, Failure, Fault, files, StepError, InsertReplyLost, RbError, Crash, RbRestoreError,
      RbTornRestore
<1>4. CASE Environment
  BY <1>4
  DEF Sozinho, Environment, files, HorseImport, DxmlInsert, DxmlPlace, DxmlRemove, FinishWriting
<1>5. CASE (\E o \in Origem : Start(o)) \/ UNCHANGED vars
  BY <1>5 DEF Start, vars, files
<1> QED
  BY <1>1, <1>2, <1>3, <1>4, <1>5 DEF Next

LEMMA QuemMudaDestino ==
  ASSUME Sozinho, [Next]_vars, destino' # destino
  PROVE  Rename \/ RbRemove
<1>1. CASE Execute
  BY <1>1
  DEF Execute, files, JournalPlanned, VerifyComplete, InspectDest, CopyToTmp, VerifyCopy,
      JournalMoved, EmitMoved, CheckRow, InsertRow, JournalInserted, EmitInserted, RemoveOrigem, MarkDone
<1>2. CASE Rollback \/ RollbackAll \/ RollbackStep
  BY <1>2
  DEF files, Rollback, RollbackAll, rollbackOne, RollbackStep, RbDeletePending, RbDelete, RbRestore,
      RbClear
<1>3. CASE Failure
  BY <1>3
  DEF Failure, files, StepError, InsertReplyLost, RbError, Crash, RbRestoreError, RbTornRestore
<1>4. CASE Environment
  BY <1>4
  DEF Sozinho, Environment, files, HorseImport, DxmlInsert, DxmlPlace, DxmlRemove, Arrive, FinishWriting
<1>5. CASE (\E o \in Origem : Start(o)) \/ UNCHANGED vars
  BY <1>5 DEF Start, vars, files
<1> QED
  BY <1>1, <1>2, <1>3, <1>4, <1>5 DEF Next

LEMMA QuemMudaJournal ==
  ASSUME [Next]_vars, journal' # journal
  PROVE  (\E p \in Part : JournalPlanned(p)) \/ JournalMoved \/ JournalInserted \/ RbClear
<1>1. CASE Execute
  BY <1>1
  DEF Execute, disk, VerifyComplete, InspectDest, CopyToTmp, VerifyCopy, Rename,
      EmitMoved, CheckRow, InsertRow, EmitInserted, RemoveOrigem, MarkDone
<1>2. CASE Rollback \/ RollbackAll \/ RollbackStep
  BY <1>2
  DEF disk, Rollback, RollbackAll, rollbackOne, RollbackStep, RbDeletePending, RbDelete, RbRestore,
      RbRemove
<1>3. CASE Failure
  BY <1>3
  DEF Failure, disk, StepError, InsertReplyLost, RbError, Crash, RbRestoreError, RbTornRestore
<1>4. CASE Environment
  BY <1>4
  DEF Environment, disk, HorseImport, DxmlInsert, DxmlPlace, DxmlRemove, Arrive, FinishWriting
<1>5. CASE (\E o \in Origem : Start(o)) \/ UNCHANGED vars
  BY <1>5 DEF Start, vars, disk
<1> QED
  BY <1>1, <1>2, <1>3, <1>4, <1>5 DEF Next
-----------------------------------------------------------------------------
\* What a rollback restores is whole, and brings a path of the journal back.
LEMMA Restaura ==
  ASSUME TypeInv, IntInv, NEW p \in Part, RbRestore(p)
  PROVE  /\ journal[p].origem \in Origem
         /\ Restorable(p) => destino[DestOf[p]] = "whole"
         /\ Restorable(p) => origem' = [origem EXCEPT ![journal[p].origem] = "whole"]
         /\ ~Restorable(p) => origem' = origem
<1>1. journal[p].origem \in Origem
  BY DEF RbRestore, IntInv, EmRollback, Registros, RollbackPC
<1>2. ASSUME Restorable(p) PROVE destino[DestOf[p]] = "whole"
  <2>1. destino[DestOf[p]] \in {"whole", "other"}
    BY <1>2, DestAssumption DEF IntInv, Inteiras, Restorable
  <2>2. Registrado(p)
    BY DEF RbRestore, IntInv, EmRollback, RollbackPC
  <2> QED
    BY <1>2, <2>1, <2>2 DEF Restorable, IntInv, Registros
<1> QED
  BY <1>1, <1>2 DEF RbRestore

\* Arrival paths only gain, but for the origin of a sync that is complete.
LEMMA OrigemFica ==
  ASSUME TypeInv, IntInv, Sozinho, [Next]_vars, ~RemoveOrigem
  PROVE  \A o \in Origem : origem'[o] = origem[o] \/ origem'[o] = "whole"
<1>1. CASE origem' = origem
  BY <1>1
<1>2. ASSUME NEW p \in Part, RbRestore(p)
      PROVE  \A o \in Origem : origem'[o] = origem[o] \/ origem'[o] = "whole"
  BY <1>2, Restaura DEF TypeInv, TypeOK
<1>3. ASSUME NEW a \in Origem, Arrive(a)
      PROVE  \A o \in Origem : origem'[o] = origem[o] \/ origem'[o] = "whole"
  BY <1>3 DEF Arrive, TypeInv, TypeOK
<1> QED
  BY <1>1, <1>2, <1>3, QuemMudaOrigem

\* A destination changes by the rename of a whole copy, or is removed.
LEMMA DestinoMuda ==
  ASSUME TypeInv, IntInv, Sozinho, [Next]_vars
  PROVE  \/ destino' = destino
         \/ Rename /\ part \in Part /\ destino' = [destino EXCEPT ![DestOf[part]] = "whole"]
         \/ RbRemove /\ part \in Part /\ destino' = [destino EXCEPT ![DestOf[part]] = "none"]
<1>1. CASE Rename
  BY <1>1 DEF Rename, TypeInv, UnderWay, PartPC, IntInv, EmSync
<1>2. CASE RbRemove
  BY <1>2 DEF RbRemove, TypeInv, UnderWay, PartPC
<1> QED
  BY <1>1, <1>2, QuemMudaDestino

LEMMA InteirasStep ==
  ASSUME TypeInv, IntInv, Sozinho, [Next]_vars
  PROVE  Inteiras'
<1>1. \A o \in Origem : origem'[o] \in {"none", "whole"}
  <2>1. CASE RemoveOrigem
    BY <2>1 DEF RemoveOrigem, IntInv, Inteiras, TypeInv, TypeOK
  <2>2. CASE ~RemoveOrigem
    BY <2>2, OrigemFica DEF IntInv, Inteiras
  <2> QED
    BY <2>1, <2>2
<1>2. \A d \in Dest : destino'[d] \in {"none", "whole", "other"}
  BY DestinoMuda DEF IntInv, Inteiras, TypeInv, TypeOK
<1> QED
  BY <1>1, <1>2 DEF Inteiras

\* How the process is found in a sync.
LEMMA EntraEmSync ==
  ASSUME [Next]_vars, pc' \in SyncPC \ {"markDone"}
  PROVE  \/ \E o \in Origem : Start(o)
         \/ pc \in SyncPC \ {"markDone"} /\ cur' = cur /\ ~RemoveOrigem
<1> USE DEF goto, BackToIdle, Fail, SyncPC
<1>1. CASE Execute
  <2>1. ASSUME NEW p \in Part, JournalPlanned(p) \/ VerifyComplete(p)
        PROVE  pc \in SyncPC \ {"markDone"} /\ cur' = cur /\ ~RemoveOrigem
    BY <2>1 DEF JournalPlanned, VerifyComplete, RemoveOrigem
  <2>2. CASE InspectDest \/ CopyToTmp \/ VerifyCopy \/ Rename
    BY <2>2 DEF InspectDest, CopyToTmp, VerifyCopy, Rename, RemoveOrigem
  <2>3. CASE JournalMoved \/ EmitMoved \/ CheckRow \/ InsertRow
    BY <2>3 DEF JournalMoved, EmitMoved, CheckRow, InsertRow, NextPart, RemoveOrigem
  <2>4. CASE JournalInserted \/ EmitInserted \/ RemoveOrigem \/ MarkDone
    BY <2>4 DEF JournalInserted, EmitInserted, NextPart, RemoveOrigem, MarkDone
  <2> QED
    BY <1>1, <2>1, <2>2, <2>3, <2>4 DEF Execute
<1>2. CASE Rollback \/ RollbackAll \/ RollbackStep
  BY <1>2
  DEF Rollback, RollbackAll, rollbackOne, RollbackStep, RbDeletePending, RbDelete, RbRestore, RbRemove,
      RbClear
<1>3. CASE Failure
  BY <1>3
  DEF Failure, StepError, InsertReplyLost, RbError, Crash, RbRestoreError, RbTornRestore
<1>4. CASE Environment
  <2>1. UNCHANGED local
    BY <1>4
    DEF Environment, HorseImport, DxmlInsert, DxmlPlace, DxmlRemove, Arrive, FinishWriting
  <2> QED
    BY <2>1 DEF local, RemoveOrigem
<1>5. CASE UNCHANGED vars
  BY <1>5 DEF vars, RemoveOrigem
<1> QED
  BY <1>1, <1>2, <1>3, <1>4, <1>5 DEF Next

LEMMA EntraEmRename ==
  ASSUME [Next]_vars, pc' = "rename"
  PROVE  VerifyCopy \/ (pc = "rename" /\ part' = part /\ tmp' = tmp)
<1> USE DEF goto, BackToIdle, Fail
<1>1. CASE Execute
  <2>1. ASSUME NEW p \in Part, JournalPlanned(p) \/ VerifyComplete(p)
        PROVE  FALSE
    BY <2>1 DEF JournalPlanned, VerifyComplete
  <2>2. CASE InspectDest \/ CopyToTmp \/ Rename \/ JournalMoved \/ EmitMoved
    BY <2>2 DEF InspectDest, CopyToTmp, Rename, JournalMoved, EmitMoved
  <2>3. CASE CheckRow \/ InsertRow \/ JournalInserted \/ EmitInserted \/ RemoveOrigem \/ MarkDone
    BY <2>3 DEF CheckRow, InsertRow, JournalInserted, EmitInserted, NextPart, RemoveOrigem, MarkDone
  <2> QED
    BY <1>1, <2>1, <2>2, <2>3 DEF Execute
<1>2. CASE Rollback \/ RollbackAll \/ RollbackStep
  BY <1>2
  DEF Rollback, RollbackAll, rollbackOne, RollbackStep, RbDeletePending, RbDelete, RbRestore, RbRemove,
      RbClear
<1>3. CASE Failure
  BY <1>3
  DEF Failure, StepError, InsertReplyLost, RbError, Crash, RbRestoreError, RbTornRestore
<1>4. CASE Environment
  BY <1>4
  DEF Environment, local, files, HorseImport, DxmlInsert, DxmlPlace, DxmlRemove, Arrive, FinishWriting
<1>5. CASE (\E o \in Origem : Start(o)) \/ UNCHANGED vars
  BY <1>5 DEF Start, vars
<1> QED
  BY <1>1, <1>2, <1>3, <1>4, <1>5 DEF Next

LEMMA EmSyncStep ==
  ASSUME TypeInv, IntInv, Sozinho, [Next]_vars
  PROVE  EmSync'
<1>1. ASSUME pc' \in SyncPC \ {"markDone"} PROVE origem'[cur'] = "whole"
  <2>1. ASSUME NEW o \in Origem, Start(o) PROVE origem'[cur'] = "whole"
    BY <2>1 DEF Start, ParsesToChave, files, IntInv, Inteiras
  <2>2. CASE pc \in SyncPC \ {"markDone"} /\ cur' = cur /\ ~RemoveOrigem
    <3>1. cur \in Origem /\ origem[cur] = "whole"
      BY <2>2 DEF TypeInv, UnderWay, IntInv, EmSync
    <3> QED
      BY <2>2, <3>1, OrigemFica
  <2> QED
    BY <1>1, <2>1, <2>2, EntraEmSync
<1>2. ASSUME pc' = "rename" PROVE tmp'[DestOf[part']] = "whole"
  <2>1. CASE VerifyCopy
    BY <1>2, <2>1 DEF VerifyCopy, Fail, BackToIdle, goto, IntInv, EmSync, SyncPC
  <2>2. CASE pc = "rename" /\ part' = part /\ tmp' = tmp
    BY <2>2 DEF IntInv, EmSync
  <2> QED
    BY <1>2, <2>1, <2>2, EntraEmRename
<1> QED
  BY <1>1, <1>2 DEF EmSync
-----------------------------------------------------------------------------
LEMMA RegistroNovo ==
  ASSUME TypeInv, IntInv, [Next]_vars, NEW p \in Part, Registrado(p)'
  PROVE  \/ Registrado(p) /\ journal'[p] = journal[p]
         \/ cur \in Origem /\ origem[cur] = "whole" /\ journal'[p].origem = cur
<1> USE DEF Registrado
<1>1. CASE journal' = journal
  BY <1>1
<1>2. ASSUME NEW q \in Part, JournalPlanned(q) \/ JournalMoved \/ JournalInserted
      PROVE  \/ Registrado(p) /\ journal'[p] = journal[p]
             \/ cur \in Origem /\ origem[cur] = "whole" /\ journal'[p].origem = cur
  <2>1. pc \in SyncPC \ {"markDone"}
    BY <1>2 DEF JournalPlanned, JournalMoved, JournalInserted, SyncPC
  <2>2. cur \in Origem /\ origem[cur] = "whole"
    BY <2>1 DEF TypeInv, UnderWay, IntInv, EmSync
  <2>3. journal' = journal \/ \E r \in Part, s \in JournalState : setPart(r, s)
    BY <1>2 DEF JournalPlanned, JournalMoved, JournalInserted, JournalState, TypeInv, UnderWay, PartPC
  <2> QED
    BY <2>2, <2>3 DEF setPart, TypeInv, TypeOK
<1>3. CASE RbClear
  BY <1>3 DEF RbClear, clearChave, NoRecord
<1> QED
  BY <1>1, <1>2, <1>3, QuemMudaJournal, PartAssumption

LEMMA RegistrosStep ==
  ASSUME TypeInv, IntInv, Sozinho, GoldenRule, [Next]_vars
  PROVE  Registros'
<1>1. ASSUME NEW p \in Part, Registrado(p)' PROVE journal'[p].origem \in Origem
  BY <1>1, RegistroNovo DEF IntInv, Registros
<1>2. ASSUME NEW q \in Part, destino'[DestOf[q]] = "other",
             NEW p \in Part, Registrado(p)'
      PROVE  origem'[journal'[p].origem] = "whole"
  <2>1. destino[DestOf[q]] = "other"
    BY <1>2, DestinoMuda, DestAssumption DEF TypeInv, TypeOK
  <2>2. ~RemoveOrigem
    BY <2>1 DEF RemoveOrigem, GoldenRule, Delivered, ParsesToChave
  <2>3. CASE Registrado(p) /\ journal'[p] = journal[p]
    <3>1. journal[p].origem \in Origem /\ origem[journal[p].origem] = "whole"
      BY <2>1, <2>3 DEF IntInv, Registros
    <3> QED
      BY <2>2, <2>3, <3>1, OrigemFica
  <2>4. CASE cur \in Origem /\ origem[cur] = "whole" /\ journal'[p].origem = cur
    BY <2>2, <2>4, OrigemFica
  <2> QED
    BY <1>2, <2>3, <2>4, RegistroNovo
<1> QED
  BY <1>1, <1>2 DEF Registros

\* How the process is found in a rollback, or with the origin restored.
LEMMA EntraEmRollback ==
  ASSUME IntInv, Sozinho, [Next]_vars, pc' \in RollbackPC \/ restored'
  PROVE  \/ \E b \in BOOLEAN : rollbackOne(b)
         \/ RbDelete \/ (\E p \in Part : RbRestore(p)) \/ RbRemove
         \/ UNCHANGED local /\ UNCHANGED journal
<1> USE DEF goto, BackToIdle, Fail, SyncPC, RollbackPC
<1>1. CASE Execute
  <2>1. pc \in SyncPC
    BY <1>1
    DEF Execute, JournalPlanned, VerifyComplete, InspectDest, CopyToTmp, VerifyCopy, Rename,
        JournalMoved, EmitMoved, CheckRow, InsertRow, JournalInserted, EmitInserted, RemoveOrigem, MarkDone
  <2>2. ~restored
    BY <2>1 DEF IntInv, EmRollback
  <2>3. ASSUME NEW p \in Part, JournalPlanned(p) \/ VerifyComplete(p)
        PROVE  FALSE
    BY <2>2, <2>3 DEF JournalPlanned, VerifyComplete
  <2>4. CASE InspectDest \/ CopyToTmp \/ VerifyCopy \/ Rename
    BY <2>2, <2>4 DEF InspectDest, CopyToTmp, VerifyCopy, Rename
  <2>5. CASE JournalMoved \/ EmitMoved \/ CheckRow \/ InsertRow
    BY <2>2, <2>5 DEF JournalMoved, EmitMoved, CheckRow, InsertRow, NextPart
  <2>6. CASE JournalInserted \/ EmitInserted \/ RemoveOrigem \/ MarkDone
    BY <2>2, <2>6 DEF JournalInserted, EmitInserted, NextPart, RemoveOrigem, MarkDone
  <2> QED
    BY <1>1, <2>3, <2>4, <2>5, <2>6 DEF Execute
<1>2. CASE Rollback \/ RollbackAll
  BY <1>2 DEF Rollback, RollbackAll
<1>3. CASE RollbackStep
  BY <1>3 DEF RollbackStep, RbDeletePending, RbClear
<1>4. CASE Failure
  BY <1>4
  DEF Sozinho, Failure, Fault, StepError, InsertReplyLost, RbError, Crash, RbRestoreError, RbTornRestore
<1>5. CASE Environment
  BY <1>5
  DEF Environment, disk, HorseImport, DxmlInsert, DxmlPlace, DxmlRemove, Arrive, FinishWriting
<1>6. ASSUME NEW o \in Origem, Start(o) PROVE FALSE
  BY <1>6 DEF Start, IntInv, EmRollback
<1>7. CASE UNCHANGED vars
  BY <1>7 DEF vars, local
<1> QED
  BY <1>1, <1>2, <1>3, <1>4, <1>5, <1>6, <1>7 DEF Next

LEMMA InteiraFica ==
  ASSUME TypeInv, IntInv, Sozinho, [Next]_vars, ~RemoveOrigem, TemInteira
  PROVE  TemInteira'
BY OrigemFica DEF TemInteira

LEMMA EmRollbackStep ==
  ASSUME TypeInv, IntInv, Sozinho, [Next]_vars
  PROVE  EmRollback'
<1>1. ASSUME NEW b \in BOOLEAN, rollbackOne(b) PROVE EmRollback'
  <2>1. /\ pc = "idle" /\ pc' \in {"rbPending", "rbDelete"} /\ restored' = restored /\ journal' = journal
        /\ left' = {p \in Part : journal[p].state # "none"}
    BY <1>1 DEF rollbackOne, disk
  <2> QED
    BY <2>1 DEF IntInv, EmRollback, Registrado
<1>2. CASE RbDelete
  <2>1. /\ pc = "rbDelete" /\ pc' # "rbRemove" /\ restored' = restored /\ journal' = journal /\ left' = left
    BY <1>2 DEF RbDelete, goto, disk
  <2> QED
    BY <2>1 DEF IntInv, EmRollback, Registrado, RollbackPC
<1>3. ASSUME NEW p \in Part, RbRestore(p) PROVE EmRollback'
  <2>1. /\ pc = "rbRestore" /\ pc' = "rbRemove" /\ part' = p /\ left' = left /\ journal' = journal
        /\ destino' = destino /\ ~RemoveOrigem
        /\ restored' = (restored \/ origem'[journal[p].origem] # "none")
    BY <1>3 DEF RbRestore, disk, RemoveOrigem
  <2>2. Inteiras' /\ journal[p].origem \in Origem
    BY <1>3, InteirasStep, Restaura
  <2>3. restored' => TemInteira'
    <3>1. CASE restored
      BY <3>1, <2>1, InteiraFica DEF IntInv, EmRollback
    <3>2. CASE origem'[journal[p].origem] # "none"
      BY <3>2, <2>2 DEF Inteiras, TemInteira
    <3> QED
      BY <2>1, <3>1, <3>2
  <2>4. destino[DestOf[p]] = "whole" => restored'
    <3>1. CASE Restorable(p)
      BY <3>1, <2>1, <2>2, <1>3, Restaura DEF TypeInv, TypeOK
    <3>2. CASE ~Restorable(p)
      BY <3>2, <2>1, <1>3, Restaura DEF Restorable
    <3> QED
      BY <3>1, <3>2
  <2> QED
    BY <2>1, <2>3, <2>4 DEF IntInv, EmRollback, Registrado, RollbackPC
<1>4. CASE RbRemove
  <2>1. /\ pc = "rbRemove" /\ pc' \in {"rbClear", "rbRestore"} /\ restored' = restored /\ journal' = journal
        /\ left' \subseteq left /\ ~RemoveOrigem
    BY <1>4 DEF RbRemove, disk, RemoveOrigem
  <2> QED
    BY <2>1, InteiraFica DEF IntInv, EmRollback, Registrado, RollbackPC
<1>5. CASE UNCHANGED local /\ UNCHANGED journal
  <2>1. pc' = pc /\ restored' = restored /\ part' = part /\ left' = left /\ journal' = journal
    BY <1>5 DEF local
  <2>2. ~RemoveOrigem /\ ~Rename /\ ~RbRemove
    BY <2>1 DEF RemoveOrigem, Rename, RbRemove, goto
  <2>3. destino' = destino
    BY <2>2, QuemMudaDestino
  <2> QED
    BY <2>1, <2>2, <2>3, InteiraFica DEF IntInv, EmRollback, Registrado
<1>6. CASE pc' \notin RollbackPC /\ ~restored'
  BY <1>6 DEF EmRollback, RollbackPC
<1> QED
  BY <1>1, <1>2, <1>3, <1>4, <1>5, <1>6, EntraEmRollback
-----------------------------------------------------------------------------
LEMMA IntInit == Sozinho /\ Init => IntInv
<1> SUFFICES ASSUME Sozinho, Init PROVE IntInv
  OBVIOUS
<1>1. Inteiras
  BY DEF Sozinho, Init, Inteiras
<1>2. EmSync /\ EmRollback
  BY DEF Init, EmSync, EmRollback, SyncPC, RollbackPC
<1>3. Registros
  BY DEF Init, Registros, Registrado, NoRecord
<1> QED
  BY <1>1, <1>2, <1>3 DEF IntInv

\* Everything the steps rely on, together.
Tudo == TypeInv /\ VerifiedSoFar /\ CopyVerified /\ Backed /\ IntInv

LEMMA TudoInit == Sozinho /\ Init => Tudo
<1>1. Init => VerifiedSoFar /\ CopyVerified /\ Backed
  BY DEF Init, VerifiedSoFar, CopyVerified, Backed, PendingBacked, JournaledPC
<1> QED
  BY <1>1, TypeInit, IntInit DEF Tudo

LEMMA TudoStep == Sozinho /\ Tudo /\ [Next]_vars => Tudo'
<1> SUFFICES ASSUME Sozinho, Tudo, [Next]_vars PROVE Tudo'
  OBVIOUS
<1>1. GoldenRule
  BY DEF Tudo, VerifiedSoFar, GoldenRule
<1>2. IntInv'
  BY <1>1, InteirasStep, EmSyncStep, RegistrosStep, EmRollbackStep DEF Tudo, IntInv
<1> QED
  BY <1>2, TypeStep, GoldenStep, CopyStep, BackedStep DEF Tudo
-----------------------------------------------------------------------------
(* The steps of the code as steps of the contract.                           *)

Fonte == {o \in Origem : origem[o] = "whole"}
Entregue == {p \in Part : destino[DestOf[p]] = "whole"}
Registrada == {p \in Part : Registered(p)}
Importada == {p \in Part : nossas[p].imp > 0 \/ terceiros[p] = "imported"}

\* The abstract state, and its next-state relation, in these names.
Abstrato == <<Fonte, Entregue, Registrada, Importada>>

LEMMA ContratoVars == Contract!vars = Abstrato
BY DEF Contract!vars, Abstrato, Fonte, Entregue, Registrada, Importada

\* A delivered copy is a whole one.
LEMMA EntreguePorInteira ==
  ASSUME IntInv, NEW p \in Part, Delivered(p)
  PROVE  p \in Entregue
BY DestAssumption DEF IntInv, Inteiras, Delivered, ParsesToChave, Entregue

LEMMA OrigemAbstrata ==
  ASSUME Tudo, Sozinho, [Next]_vars, origem' # origem
  PROVE  Contract!Next
<1> USE DEF Fonte, Entregue, Registrada, Importada
<1>1. CASE RemoveOrigem
  <2>1. cur \in Origem /\ \A p \in Part : p \in Entregue /\ Registered(p)
    BY <1>1, EntreguePorInteira
    DEF RemoveOrigem, Tudo, TypeInv, UnderWay, SyncPC, VerifiedSoFar
  <2>2. Fonte' = Fonte \ {cur}
    BY <1>1, <2>1 DEF RemoveOrigem, Tudo, TypeInv, TypeOK
  <2>3. UNCHANGED <<Entregue, Registrada, Importada>>
    BY <1>1 DEF RemoveOrigem, rows, Registered
  <2>4. \E o \in Origem : Contract!Concluir(o)
    BY <2>1, <2>2, <2>3 DEF Contract!Concluir
  <2> QED
    BY <2>4 DEF Contract!Next
<1>2. ASSUME NEW p \in Part, RbRestore(p) PROVE Contract!Next
  <2> DEFINE o == journal[p].origem
  <2>1. Restorable(p) /\ o \in Origem /\ destino[DestOf[p]] = "whole" /\ origem' = [origem EXCEPT ![o] = "whole"]
    BY <1>2, Restaura DEF Tudo
  <2>2. Fonte' = Fonte \cup {o} /\ p \in Entregue
    BY <2>1 DEF Tudo, TypeInv, TypeOK
  <2>3. UNCHANGED <<Entregue, Registrada, Importada>>
    BY <1>2 DEF RbRestore, rows, Registered
  <2>4. \E a \in Origem : Contract!Devolver(a)
    BY <2>1, <2>2, <2>3 DEF Contract!Devolver
  <2> QED
    BY <2>4 DEF Contract!Next
<1>3. ASSUME NEW o \in Origem, Arrive(o) PROVE Contract!Next
  <2>1. Fonte' = Fonte \cup {o}
    BY <1>3 DEF Arrive, Tudo, TypeInv, TypeOK
  <2>2. UNCHANGED <<Entregue, Registrada, Importada>>
    BY <1>3 DEF Arrive, rows, Registered
  <2>3. Contract!Chegar(o)
    BY <2>1, <2>2 DEF Contract!Chegar
  <2> QED
    BY <2>3 DEF Contract!Next
<1> QED
  BY <1>1, <1>2, <1>3, QuemMudaOrigem

LEMMA DestinoAbstrato ==
  ASSUME Tudo, Sozinho, [Next]_vars, destino' # destino
  PROVE  Contract!Next \/ UNCHANGED Abstrato
<1> USE DEF Fonte, Entregue, Registrada, Importada
<1> DEFINE P == {p \in Part : DestOf[p] = DestOf[part]}
<1>1. CASE Rename
  <2>1. destino' = [destino EXCEPT ![DestOf[part]] = "whole"] /\ part \in Part
    BY <1>1 DEF Rename, Tudo, IntInv, EmSync, TypeInv, UnderWay, PartPC
  <2>2. Entregue' = Entregue \cup P
    BY <2>1, DestAssumption DEF Tudo, TypeInv, TypeOK
  <2>3. cur \in Fonte
    BY <1>1 DEF Rename, Tudo, IntInv, EmSync, TypeInv, UnderWay, SyncPC
  <2>4. UNCHANGED <<Fonte, Registrada, Importada>>
    BY <1>1 DEF Rename, rows, Registered
  <2>5. \E Q \in SUBSET Part : Contract!Entregar(Q)
    BY <2>2, <2>3, <2>4 DEF Contract!Entregar
  <2> QED
    BY <2>5 DEF Contract!Next
<1>2. CASE RbRemove
  <2>1. destino' = [destino EXCEPT ![DestOf[part]] = "none"] /\ part \in Part
    BY <1>2, QuemMudaDestino DEF RbRemove, Tudo, TypeInv, UnderWay, PartPC
  <2>2. UNCHANGED <<Fonte, Registrada, Importada>>
    BY <1>2 DEF RbRemove, rows, Registered
  <2>3. CASE destino[DestOf[part]] = "whole"
    <3>1. Fonte # {}
      BY <1>2, <2>3 DEF RbRemove, Tudo, IntInv, EmRollback, TemInteira
    <3>2. Entregue' = Entregue \ P
      BY <2>1, DestAssumption DEF Tudo, TypeInv, TypeOK
    <3>3. \E Q \in SUBSET Part : Contract!Recolher(Q)
      BY <2>2, <3>1, <3>2 DEF Contract!Recolher
    <3> QED
      BY <3>3 DEF Contract!Next
  <2>4. CASE destino[DestOf[part]] # "whole"
    <3>1. Entregue' = Entregue
      BY <2>1, <2>4, DestAssumption DEF Tudo, TypeInv, TypeOK
    <3> QED
      BY <2>2, <3>1 DEF Abstrato
  <2> QED
    BY <2>3, <2>4
<1> QED
  BY <1>1, <1>2, QuemMudaDestino

LEMMA LinhasAbstratas ==
  ASSUME Tudo, Sozinho, [Next]_vars, ~UNCHANGED rows
  PROVE  Contract!Next
<1> USE DEF Fonte, Entregue
<1>1. CASE InsertRow \/ InsertReplyLost
  <2>1. part \in Part /\ part \in Entregue
    BY <1>1, EntreguePorInteira
    DEF InsertRow, InsertReplyLost, Tudo, Backed, TypeInv, UnderWay, PartPC
  <2>2. nossas' = [nossas EXCEPT ![part].pend = @ + 1] /\ terceiros' = terceiros
    BY <1>1 DEF InsertRow, InsertReplyLost, InsertChaveAcesso
  <2>3. UNCHANGED <<Fonte, Entregue>>
    BY <1>1 DEF InsertRow, InsertReplyLost, files
  <2>4. Registrada' = Registrada \cup {part}
    BY <2>1, <2>2 DEF Registrada, Registered, Tudo, TypeInv, TypeOK
  <2>5. Importada' = Importada
    BY <2>1, <2>2 DEF Importada, Tudo, TypeInv, TypeOK
  <2>6. Contract!Registrar(part)
    BY <2>1, <2>3, <2>4, <2>5 DEF Contract!Registrar, Registrada, Importada
  <2> QED
    BY <2>1, <2>6 DEF Contract!Next
<1>2. CASE RbDeletePending \/ RbDelete
  <2> DEFINE P == {p \in Part : nossas[p].imp = 0 /\ terceiros[p] = "none"}
  <2>1. nossas' = [p \in Part |-> [nossas[p] EXCEPT !.pend = 0]] /\ terceiros' = terceiros
    BY <1>2 DEF RbDeletePending, RbDelete, DeleteOurRows
  <2>2. UNCHANGED <<Fonte, Entregue>>
    BY <1>2 DEF RbDeletePending, RbDelete, files
  <2>3. Registrada' = Registrada \ P /\ P \cap Importada = {}
    BY <2>1 DEF Registrada, Registered, Importada, Tudo, TypeInv, TypeOK
  <2>4. Importada' = Importada
    BY <2>1 DEF Importada, Tudo, TypeInv, TypeOK
  <2>5. P \in SUBSET Part /\ Contract!Estornar(P)
    BY <2>2, <2>3, <2>4 DEF Contract!Estornar, Registrada, Importada
  <2> QED
    BY <2>5 DEF Contract!Next
<1>3. ASSUME NEW p \in Part, HorseImport(p) PROVE Contract!Next
  <2>1. p \in Entregue /\ UNCHANGED <<Fonte, Entregue>>
    BY <1>3, EntreguePorInteira DEF HorseImport, Delivered, files, Tudo
  <2>2. p \in Registrada /\ Registrada' = Registrada /\ Importada' = Importada \cup {p}
    <3>1. CASE nossas[p].pend > 0 /\ nossas' = [nossas EXCEPT ![p] = [pend |-> @.pend - 1, imp |-> @.imp + 1]]
               /\ UNCHANGED terceiros
      BY <3>1 DEF Registrada, Registered, Importada, Tudo, TypeInv, TypeOK
    <3>2. CASE terceiros[p] = "pending" /\ terceiros' = [terceiros EXCEPT ![p] = "imported"] /\ UNCHANGED nossas
      BY <3>2 DEF Registrada, Registered, Importada, Tudo, TypeInv, TypeOK
    <3> QED
      BY <1>3, <3>1, <3>2 DEF HorseImport
  <2>3. Contract!Importar(p)
    BY <2>1, <2>2 DEF Contract!Importar, Registrada, Importada
  <2> QED
    BY <2>3 DEF Contract!Next
<1>4. ASSUME NEW p \in Part, DxmlInsert(p) PROVE FALSE
  BY <1>4 DEF DxmlInsert, Sozinho
<1> QED
  BY <1>1, <1>2, <1>3, <1>4, WhoChangesRows

LEMMA PassoAbstrato ==
  ASSUME Tudo, Sozinho, [Next]_vars
  PROVE  [Contract!Next]_(Contract!vars)
<1>1. CASE origem' = origem /\ destino' = destino /\ UNCHANGED rows
  BY <1>1, ContratoVars DEF Abstrato, Fonte, Entregue, Registrada, Importada, Registered, rows,
     Contract!vars
<1>2. CASE destino' # destino
  BY <1>2, DestinoAbstrato DEF Abstrato, Fonte, Entregue, Registrada, Importada, Contract!vars
<1> QED
  BY <1>1, <1>2, OrigemAbstrata, LinhasAbstratas

\* Seen as where the whole XML is and who has a row, every step of the code,
\* its crashes, retries and rollbacks included, is a step of the contract.
THEOREM ContractImplemented ==
  ASSUME Sozinho
  PROVE  Spec => ContractHolds
<1>1. Init => Contract!Init
  <2> SUFFICES ASSUME Init PROVE Contract!Init
    OBVIOUS
  <2>1. \A p \in Part : nossas[p].pend = 0 /\ nossas[p].imp = 0 /\ terceiros[p] = "none"
    BY DEF Init
  <2> QED
    BY <2>1 DEF Contract!Init, Registered
<1>2. Sozinho
  OBVIOUS
<1>3. Tudo /\ [Next]_vars => [Contract!Next]_(Contract!vars)
  BY <1>2, PassoAbstrato
<1>4. Init => Tudo
  BY <1>2, TudoInit
<1>5. Tudo /\ [Next]_vars => Tudo'
  BY <1>2, TudoStep
<1> QED
  BY <1>1, <1>3, <1>4, <1>5, PTL DEF Spec, ContractHolds, Contract!Spec

\* No step destroys the last whole copy of the XML: an origin goes only when
\* every participation has a whole copy, and a copy only once the XML is back.
THEOREM XmlNeverLostHolds ==
  ASSUME Sozinho
  PROVE  Spec => XmlNeverLost
<1>1. ASSUME Tudo, [Next]_vars, WholeCopy PROVE WholeCopy'
  <2>1. CASE RemoveOrigem
    <3>1. \A p \in Part : p \in Entregue
      BY <2>1, EntreguePorInteira, <1>1 DEF RemoveOrigem, Tudo, VerifiedSoFar
    <3>2. destino' = destino
      BY <2>1 DEF RemoveOrigem
    <3> QED
      BY <3>1, <3>2, PartAssumption, DestAssumption DEF Entregue, WholeCopy
  <2>2. CASE ~RemoveOrigem /\ TemInteira
    BY <1>1, <2>2, InteiraFica DEF Tudo, TemInteira, WholeCopy
  <2>3. CASE ~TemInteira
    <3>1. PICK d \in Dest : destino[d] = "whole"
      BY <1>1, <2>3 DEF WholeCopy, TemInteira
    <3>2. destino'[d] = "whole"
      BY <1>1, <2>3, <3>1, DestinoMuda, DestAssumption
      DEF Tudo, TypeInv, TypeOK, RbRemove, IntInv, EmRollback
    <3> QED
      BY <3>2 DEF WholeCopy
  <2> QED
    BY <2>1, <2>2, <2>3
<1>2. Sozinho
  OBVIOUS
<1>3. Tudo /\ [Next]_vars => [WholeCopy => WholeCopy']_vars
  BY <1>1
<1>4. Init => Tudo
  BY <1>2, TudoInit
<1>5. Tudo /\ [Next]_vars => Tudo'
  BY <1>2, TudoStep
<1> QED
  BY <1>3, <1>4, <1>5, PTL DEF Spec, XmlNeverLost
=============================================================================
