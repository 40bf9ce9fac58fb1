------------------------------- MODULE Syncer -------------------------------
(***************************************************************************)
(* The shadow-sync of ONE nota (one chave de acesso): internal/syncer      *)
(* copies the XML from ASINCRONIZAR to one destination per participation,  *)
(* registers one row per participation in TABLISTACHAVEACESSO, and removes *)
(* the origin last; rollback undoes it.  Files, journal records and rows   *)
(* are all keyed by the chave, so notas do not interact here.              *)
(*                                                                         *)
(* One action is one externally visible effect (a file operation, a bbolt  *)
(* transaction, a Firebird statement, a submitted observation), because    *)
(* the process may die, or another program may act, between any two.       *)
(***************************************************************************)
EXTENDS Naturals

CONSTANTS
  Part,       \* participations (empresa, filial) the plan of the nota has
  Origem,     \* paths of ASINCRONIZAR where a copy of the nota may be found
  Dest,       \* paths of the SINCRONIZADO
  DestOf,     \* the derived destination of a participation
  None,       \* no path, no participation
  Actors,     \* which other programs and people are around
  Faults,     \* which faults may happen
  MaxFaults   \* how many of them (bound)

AllActors == {"horse", "dxml", "operator", "arrivals", "slowWriter"}
AllFaults == {"error", "lostReply", "crash", "restoreError", "tornRestore"}

ASSUME PartAssumption == Part # {} /\ None \notin Part
ASSUME OrigemAssumption == None \notin Origem
ASSUME DestAssumption == DestOf \in [Part -> Dest]
ASSUME ActorsAssumption == Actors \subseteq AllActors
ASSUME FaultsAssumption == Faults \subseteq AllFaults /\ MaxFaults \in Nat

VARIABLES
  origem,     \* content of each arrival path
  destino,    \* content of each final destination
  tmp,        \* content of each <destination>.tracker-tmp
  nossas,     \* rows carrying our marker: how many pending, how many imported
  terceiros,  \* the most advanced row of the DownloadXML for a participation
  journal,    \* bbolt bucket "participacoes"
  done,       \* bbolt bucket "done" has the chave
  obs,        \* observations handed to the ingest client
  pc,         \* where the syncer process is
  cur,        \* plan.Origem of the execution under way
  part,       \* participation under way
  left,       \* participations the current loop has not reached
  restored,   \* rollbackOne's origemRestored
  faults      \* faults spent so far

files == <<origem, destino, tmp>>
rows == <<nossas, terceiros>>
disk == <<journal, done>>
local == <<pc, cur, part, left, restored>>
vars == <<origem, destino, tmp, nossas, terceiros, journal, done, obs,
          pc, cur, part, left, restored, faults>>

(***************************************************************************)
(* What a file holds.  xmlparse stops at a truncated tail without an       *)
(* error, so a "cut" copy still yields the chave; "other" is any content   *)
(* whose parse does not give this chave (another nota, or a cut before     *)
(* the chave).                                                             *)
(***************************************************************************)
Content == {"none", "whole", "cut", "other"}
ParsesToChave(c) == c \in {"whole", "cut"}
JournalState == {"none", "planned", "moved", "inserted"}
RowState == {"none", "pending", "imported"}
ObsKind == {"sync_moved", "sync_db_inserted", "sync_failed"}

SyncPC == {"planned", "destOK", "copy", "verify", "rename", "moved",
           "emitMoved", "hasRow", "insert", "inserted", "emitInserted",
           "complete", "remove", "markDone"}
RollbackPC == {"rbPending", "rbDelete", "rbRestore", "rbRemove", "rbClear"}

NoRecord == [state |-> "none", origem |-> None]

Init ==
  /\ origem \in [Origem -> {"none", "whole"} \cup
                           (IF "slowWriter" \in Actors THEN {"cut"} ELSE {})]
  /\ destino \in [Dest -> {"none", "whole", "other"}]
  /\ tmp = [d \in Dest |-> "none"]
  /\ nossas = [p \in Part |-> [pend |-> 0, imp |-> 0]]
  /\ terceiros = [p \in Part |-> "none"]
  /\ journal = [p \in Part |-> NoRecord]
  /\ done = FALSE
  /\ obs = {}
  /\ pc = "idle" /\ cur = None /\ part = None /\ left = {}
  /\ restored = FALSE
  /\ faults = 0

-----------------------------------------------------------------------------
(* What the code asks of the journal and of Firebird.                      *)

\* Mutants of HasRow: one row of the chave is enough; imported rows are unseen.
HasRowOfChave(p) ==
  \E q \in Part : nossas[q].pend + nossas[q].imp > 0 \/ terceiros[q] # "none"
HasPendingRow(p) == nossas[p].pend > 0 \/ terceiros[p] = "pending"

HasRow(p) ==
  nossas[p].pend + nossas[p].imp > 0 \/ terceiros[p] # "none"

HasImportedRow == \E p \in Part : nossas[p].imp > 0

\* Mutants of DeleteOurRows: IMPORTADO = 0 left out; one row taken as deleted.
DeleteOurRowsImportedToo ==
  nossas' = [p \in Part |-> [pend |-> 0, imp |-> 0]]
DeleteOneRow ==
  nossas' = [p \in Part |-> [nossas[p] EXCEPT !.pend = @ - 1]]

DeleteOurRows ==
  nossas' = [p \in Part |-> [nossas[p] EXCEPT !.pend = 0]]

InsertChaveAcesso(p) ==
  nossas' = [nossas EXCEPT ![p].pend = @ + 1]

setPart(p, s) ==
  journal' = [journal EXCEPT ![p] = [state |-> s, origem |-> cur]]

clearChave ==
  /\ journal' = [p \in Part |-> NoRecord]
  /\ done' = FALSE

emit(kind, p) == obs' = obs \cup {<<kind, p>>}

Fault(f) ==
  /\ f \in Faults
  /\ faults < MaxFaults
  /\ faults' = faults + 1

\* The process gives up, or finishes, what it was doing.
BackToIdle ==
  /\ pc' = "idle" /\ cur' = None /\ part' = None /\ left' = {}
  /\ restored' = FALSE

\* An error of the execution: sync_failed is emitted and Execute returns.
Fail(p) == emit("sync_failed", p) /\ BackToIdle

goto(label) ==
  pc' = label /\ UNCHANGED <<cur, part, left, restored>>

-----------------------------------------------------------------------------
(* Execute: the participations one by one, then the origin.                *)

\* Mutant of Start: a chave with a journal record is taken for one in progress.
StartUnjournaled(o) ==
  /\ pc = "idle"
  /\ ParsesToChave(origem[o])
  /\ ~done
  /\ \A p \in Part : journal[p].state = "none"
  /\ pc' = "planned" /\ cur' = o /\ left' = Part
  /\ UNCHANGED <<part, restored, files, rows, disk, obs, faults>>

\* handleFile (a chave that is done is skipped) and the operator's RunChave
\* (which does not look at done) both need a file that parses.
Start(o) ==
  /\ pc = "idle"
  /\ ParsesToChave(origem[o])
  /\ ~done \/ "operator" \in Actors
  /\ pc' = "planned" /\ cur' = o /\ left' = Part
  /\ UNCHANGED <<part, restored, files, rows, disk, obs, faults>>

JournalPlanned(p) ==
  /\ pc = "planned" /\ p \in left
  /\ IF journal[p].state = "none" THEN setPart(p, "planned")
                                  ELSE UNCHANGED journal
  /\ pc' = "destOK" /\ part' = p
  /\ UNCHANGED <<cur, left, restored, files, rows, done, obs, faults>>

\* Mutant of InspectDest: a destination that does not parse is copied over.
InspectDestNoConflict ==
  /\ pc = "destOK"
  /\ goto(IF ParsesToChave(destino[DestOf[part]]) THEN "hasRow" ELSE "copy")
  /\ UNCHANGED <<files, rows, disk, obs, faults>>

\* destOK before the copy: absent, already there, or a conflict.
InspectDest ==
  /\ pc = "destOK"
  /\ LET c == destino[DestOf[part]] IN
       \/ c = "none" /\ goto("copy") /\ UNCHANGED obs
       \/ ParsesToChave(c) /\ goto("hasRow") /\ UNCHANGED obs
       \/ c = "other" /\ Fail(part)
  /\ UNCHANGED <<files, rows, disk, faults>>

CopyToTmp ==
  /\ pc = "copy"
  /\ \/ /\ origem[cur] # "none"
        /\ tmp' = [tmp EXCEPT ![DestOf[part]] = origem[cur]]
        /\ goto("verify") /\ UNCHANGED obs
     \/ /\ origem[cur] = "none"
        /\ tmp' = [tmp EXCEPT ![DestOf[part]] = "none"]
        /\ Fail(part)
  /\ UNCHANGED <<origem, destino, rows, disk, faults>>

\* Same size as the origin has now, and the same chave.
VerifyCopy ==
  /\ pc = "verify"
  /\ LET d == DestOf[part] IN
       \/ /\ tmp[d] = origem[cur] /\ ParsesToChave(tmp[d])
          /\ goto("rename") /\ UNCHANGED <<tmp, obs>>
       \/ /\ ~(tmp[d] = origem[cur] /\ ParsesToChave(tmp[d]))
          /\ tmp' = [tmp EXCEPT ![d] = "none"]
          /\ Fail(part)
  /\ UNCHANGED <<origem, destino, rows, disk, faults>>

Rename ==
  /\ pc = "rename"
  /\ LET d == DestOf[part] IN
       /\ destino' = [destino EXCEPT ![d] = tmp[d]]
       /\ tmp' = [tmp EXCEPT ![d] = "none"]
  /\ goto("moved")
  /\ UNCHANGED <<origem, rows, disk, obs, faults>>

JournalMoved ==
  /\ pc = "moved"
  /\ setPart(part, "moved")
  /\ goto("emitMoved")
  /\ UNCHANGED <<files, rows, done, obs, faults>>

EmitMoved ==
  /\ pc = "emitMoved"
  /\ emit("sync_moved", part)
  /\ goto("hasRow")
  /\ UNCHANGED <<files, rows, disk, faults>>

\* Mutant of NextPart: the origin goes after the first participation.
NextPartHasty ==
  /\ part' = None
  /\ pc' = "remove" /\ left' = {}
  /\ UNCHANGED <<cur, restored>>

\* End of executePart: the next participation, or the final verification.
NextPart ==
  /\ part' = None
  /\ IF left = {part}
       THEN pc' = "complete" /\ left' = Part
       ELSE pc' = "planned" /\ left' = left \ {part}
  /\ UNCHANGED <<cur, restored>>

CheckRow ==
  /\ pc = "hasRow"
  /\ \/ HasRow(part) /\ NextPart
     \/ ~HasRow(part) /\ goto("insert")
  /\ UNCHANGED <<files, rows, disk, obs, faults>>

InsertRow ==
  /\ pc = "insert"
  /\ InsertChaveAcesso(part)
  /\ goto("inserted")
  /\ UNCHANGED <<files, terceiros, disk, obs, faults>>

\* The statement committed but its reply did not arrive: Execute sees an error.
InsertReplyLost ==
  /\ pc = "insert"
  /\ Fault("lostReply")
  /\ InsertChaveAcesso(part)
  /\ Fail(part)
  /\ UNCHANGED <<files, terceiros, disk>>

JournalInserted ==
  /\ pc = "inserted"
  /\ setPart(part, "inserted")
  /\ goto("emitInserted")
  /\ UNCHANGED <<files, rows, done, obs, faults>>

EmitInserted ==
  /\ pc = "emitInserted"
  /\ emit("sync_db_inserted", part)
  /\ NextPart
  /\ UNCHANGED <<files, rows, disk, faults>>

\* verifyComplete over every participation, then the origin may go.
VerifyComplete(p) ==
  /\ pc = "complete" /\ p \in left
  /\ \/ /\ ParsesToChave(destino[DestOf[p]]) /\ HasRow(p)
        /\ left' = left \ {p}
        /\ pc' = IF left = {p} THEN "remove" ELSE "complete"
        /\ UNCHANGED <<cur, part, restored, obs>>
     \/ /\ ~(ParsesToChave(destino[DestOf[p]]) /\ HasRow(p))
        /\ Fail(p)
  /\ UNCHANGED <<files, rows, disk, faults>>

\* An origin that is already gone is not an error.
RemoveOrigem ==
  /\ pc = "remove"
  /\ origem' = [origem EXCEPT ![cur] = "none"]
  /\ goto("markDone")
  /\ UNCHANGED <<destino, tmp, rows, disk, obs, faults>>

MarkDone ==
  /\ pc = "markDone"
  /\ done' = TRUE
  /\ BackToIdle
  /\ UNCHANGED <<files, rows, journal, obs, faults>>

\* Mutant of StepError: the cleanup removes the destination, not the tmp.
StepErrorDropsDest ==
  /\ pc \in {"copy", "verify", "rename"}
  /\ Fault("error")
  /\ destino' = [destino EXCEPT ![DestOf[part]] = "none"]
  /\ Fail(part)
  /\ UNCHANGED <<origem, tmp, rows, disk>>

\* Any file, journal or Firebird call may return an error without effect.
\* Copy, verify and rename drop the tmp; markDone's error reports nothing.
StepError ==
  /\ pc \in SyncPC \ {"emitMoved", "emitInserted"}
  /\ Fault("error")
  /\ tmp' = IF pc \in {"copy", "verify", "rename"}
              THEN [tmp EXCEPT ![DestOf[part]] = "none"] ELSE tmp
  /\ BackToIdle
  /\ IF pc = "markDone" THEN UNCHANGED obs
     ELSE \E p \in (IF part = None THEN Part ELSE {part}) : emit("sync_failed", p)
  /\ UNCHANGED <<origem, destino, rows, disk>>

Execute ==
  \/ \E p \in Part : JournalPlanned(p) \/ VerifyComplete(p)
  \/ InspectDest \/ CopyToTmp \/ VerifyCopy \/ Rename
  \/ JournalMoved \/ EmitMoved
  \/ CheckRow \/ InsertRow \/ JournalInserted \/ EmitInserted
  \/ RemoveOrigem \/ MarkDone

-----------------------------------------------------------------------------
(* rollbackOne.  bbolt locks the journal, so it never runs beside Execute. *)

rollbackOne(requireJournal) ==
  LET parts == {p \in Part : journal[p].state # "none"} IN
  /\ pc = "idle"
  /\ requireJournal => parts # {}
  /\ pc' = IF HasImportedRow THEN "rbPending" ELSE "rbDelete"
  /\ left' = parts
  /\ UNCHANGED <<cur, part, restored, files, rows, disk, obs, faults>>

Rollback == "operator" \in Actors /\ rollbackOne(FALSE)

\* ListOurRows(onlyPending) names the chave.
RollbackAll ==
  /\ "operator" \in Actors
  /\ \E p \in Part : nossas[p].pend > 0
  /\ rollbackOne(TRUE)

\* Guard taken: pending rows go, the files and the journal stay.
RbDeletePending ==
  /\ pc = "rbPending"
  /\ DeleteOurRows
  /\ BackToIdle
  /\ UNCHANGED <<files, terceiros, disk, obs, faults>>

\* Mutant of RbDelete: the files are undone with the rows still there.
RbKeepRows ==
  /\ pc = "rbDelete"
  /\ goto(IF left = {} THEN "rbClear" ELSE "rbRestore")
  /\ UNCHANGED <<files, rows, disk, obs, faults>>

RbDelete ==
  /\ pc = "rbDelete"
  /\ DeleteOurRows
  /\ goto(IF left = {} THEN "rbClear" ELSE "rbRestore")
  /\ UNCHANGED <<files, terceiros, disk, obs, faults>>

\* The origin this journal record can bring back, and the copy to take it from.
Restorable(p) ==
  /\ ~restored
  /\ origem[journal[p].origem] = "none"
  /\ destino[DestOf[p]] # "none"

\* Mutant of RbRestore: the copies go without the origin being brought back.
RbRestoreNothing(p) ==
  /\ pc = "rbRestore" /\ p \in left
  /\ pc' = "rbRemove" /\ part' = p
  /\ UNCHANGED <<cur, left, restored, files, rows, disk, obs, faults>>

\* Step 2, first half: the origin counts as restored once it exists.
RbRestore(p) ==
  /\ pc = "rbRestore" /\ p \in left
  /\ origem' = IF Restorable(p)
                 THEN [origem EXCEPT ![journal[p].origem] = destino[DestOf[p]]]
                 ELSE origem
  /\ restored' = (restored \/ origem'[journal[p].origem] # "none")
  /\ pc' = "rbRemove" /\ part' = p
  /\ UNCHANGED <<cur, left, destino, tmp, rows, disk, obs, faults>>

\* MkdirAll or copyFile fails: a warning only.  The cut file, if the copy
\* had started, stays where it is.
RbRestoreError(p) ==
  /\ pc = "rbRestore" /\ p \in left
  /\ Restorable(p)
  /\ Fault("restoreError")
  /\ \E c \in {"none", "cut", "other"} :
       origem' = [origem EXCEPT ![journal[p].origem] = c]
  /\ pc' = "rbRemove" /\ part' = p
  /\ UNCHANGED <<cur, left, restored, destino, tmp, rows, disk, obs>>

\* The process dies inside that copy.
RbTornRestore(p) ==
  /\ pc = "rbRestore" /\ p \in left
  /\ Restorable(p)
  /\ Fault("tornRestore")
  /\ \E c \in {"cut", "other"} :
       origem' = [origem EXCEPT ![journal[p].origem] = c]
  /\ BackToIdle
  /\ UNCHANGED <<destino, tmp, rows, disk, obs>>

\* Step 2, second half, and step 3: the copy goes whatever happened before it.
\* A remove that fails is a warning.
RbRemove ==
  /\ pc = "rbRemove"
  /\ \/ /\ destino' = [destino EXCEPT ![DestOf[part]] = "none"]
        /\ UNCHANGED faults
     \/ /\ Fault("error")
        /\ UNCHANGED destino
  /\ emit("sync_failed", part)
  /\ left' = left \ {part} /\ part' = None
  /\ pc' = IF left = {part} THEN "rbClear" ELSE "rbRestore"
  /\ UNCHANGED <<cur, restored, origem, tmp, rows, disk>>

RbClear ==
  /\ pc = "rbClear"
  /\ clearChave
  /\ BackToIdle
  /\ UNCHANGED <<files, rows, obs, faults>>

\* A failed DELETE returns at once; a failed clearChave is a warning.
RbError ==
  /\ pc \in {"rbPending", "rbDelete", "rbClear"}
  /\ Fault("error")
  /\ BackToIdle
  /\ UNCHANGED <<files, rows, disk, obs>>

RollbackStep ==
  \/ RbDeletePending \/ RbDelete \/ RbRemove \/ RbClear
  \/ \E p \in Part : RbRestore(p)

\* The process dies; a copy under way leaves any prefix in the tmp.
Crash ==
  /\ pc # "idle"
  /\ Fault("crash")
  /\ IF pc = "copy" /\ origem[cur] # "none"
       THEN \E c \in {tmp[DestOf[part]], "cut", "other"} :
              tmp' = [tmp EXCEPT ![DestOf[part]] = c]
       ELSE UNCHANGED tmp
  /\ BackToIdle
  /\ UNCHANGED <<origem, destino, rows, disk, obs>>

-----------------------------------------------------------------------------
(* The programs and people around the syncer.                              *)

\* AthenasHorse flips IMPORTADO on a pending row whose XML it can read.
HorseImport(p) ==
  /\ "horse" \in Actors
  /\ ParsesToChave(destino[DestOf[p]])
  /\ \/ /\ nossas[p].pend > 0
        /\ nossas' = [nossas EXCEPT ![p] = [pend |-> @.pend - 1, imp |-> @.imp + 1]]
        /\ UNCHANGED terceiros
     \/ /\ terceiros[p] = "pending"
        /\ terceiros' = [terceiros EXCEPT ![p] = "imported"]
        /\ UNCHANGED nossas
  /\ UNCHANGED <<files, disk, obs, local, faults>>

\* The DownloadXML does the same move on its own account.
DxmlPlace(o, p) ==
  /\ "dxml" \in Actors
  /\ origem[o] = "whole" /\ destino[DestOf[p]] = "none"
  /\ destino' = [destino EXCEPT ![DestOf[p]] = "whole"]
  /\ UNCHANGED <<origem, tmp, rows, disk, obs, local, faults>>

DxmlInsert(p) ==
  /\ "dxml" \in Actors
  /\ destino[DestOf[p]] = "whole" /\ terceiros[p] = "none"
  /\ terceiros' = [terceiros EXCEPT ![p] = "pending"]
  /\ UNCHANGED <<files, nossas, disk, obs, local, faults>>

DxmlRemove(o) ==
  /\ "dxml" \in Actors
  /\ origem[o] = "whole"
  /\ \A p \in Part : destino[DestOf[p]] = "whole" /\ terceiros[p] # "none"
  /\ origem' = [origem EXCEPT ![o] = "none"]
  /\ UNCHANGED <<destino, tmp, rows, disk, obs, local, faults>>

\* The nota is downloaded (again) into ASINCRONIZAR.
Arrive(o) ==
  /\ "arrivals" \in Actors
  /\ origem[o] = "none"
  /\ origem' = [origem EXCEPT ![o] = "whole"]
  /\ UNCHANGED <<destino, tmp, rows, disk, obs, local, faults>>

\* Whoever was still writing the arrival file finishes it.
FinishWriting(o) ==
  /\ "slowWriter" \in Actors
  /\ origem[o] = "cut"
  /\ origem' = [origem EXCEPT ![o] = "whole"]
  /\ UNCHANGED <<destino, tmp, rows, disk, obs, local, faults>>

Environment ==
  \/ \E p \in Part : HorseImport(p) \/ DxmlInsert(p)
  \/ \E o \in Origem : DxmlRemove(o) \/ Arrive(o) \/ FinishWriting(o)
  \/ \E o \in Origem, p \in Part : DxmlPlace(o, p)

Failure ==
  \/ StepError \/ InsertReplyLost \/ RbError \/ Crash
  \/ \E p \in Part : RbRestoreError(p) \/ RbTornRestore(p)

Next ==
  \/ \E o \in Origem : Start(o)
  \/ Execute
  \/ Rollback \/ RollbackAll \/ RollbackStep
  \/ Failure
  \/ Environment

Spec == Init /\ [][Next]_vars

\* The service sweeps on a ticker and runs each step of what it started; the
\* operator, the faults and the other programs owe nothing.
Fairness ==
  /\ WF_vars(\E o \in Origem : Start(o))
  /\ WF_vars(Execute)
  /\ WF_vars(RollbackStep)

FairSpec == Spec /\ Fairness
-----------------------------------------------------------------------------
(* Properties.  Registered is written on the rows themselves, so that it   *)
(* does not follow HasRow if HasRow is wrong.                              *)

Delivered(p) == ParsesToChave(destino[DestOf[p]])
Registered(p) ==
  nossas[p].pend > 0 \/ nossas[p].imp > 0 \/ terceiros[p] # "none"
WholeCopy ==
  (\E o \in Origem : origem[o] = "whole") \/ (\E d \in Dest : destino[d] = "whole")

\* Every variable keeps its shape (the state the bbolt buckets, the table, the
\* folders and the process hold).
TypeOK ==
  /\ origem \in [Origem -> Content]
  /\ destino \in [Dest -> Content]
  /\ tmp \in [Dest -> Content]
  /\ nossas \in [Part -> [pend : Nat, imp : Nat]]
  /\ terceiros \in [Part -> RowState]
  /\ journal \in [Part -> [state : JournalState, origem : Origem \cup {None}]]
  /\ done \in BOOLEAN
  /\ obs \subseteq ObsKind \X Part
  /\ pc \in SyncPC \cup RollbackPC \cup {"idle"}
  /\ cur \in Origem \cup {None}
  /\ part \in Part \cup {None}
  /\ left \subseteq Part
  /\ restored \in BOOLEAN
  /\ faults \in 0 .. MaxFaults

\* The golden rule of Execute: at the moment the origin is about to be removed,
\* every participation, not only the last one handled, has its copy in place
\* and its row in the table, whatever crashed, failed or ran beside it.
GoldenRule ==
  pc = "remove" => \A p \in Part : Delivered(p) /\ Registered(p)

\* Crashes, retries, lost INSERT replies, the operator's reruns and rollbacks
\* never leave two rows of ours for one participation (executePart's HasRow
\* pre-check stands in for the retry the Writer refuses to do).
OneOurRow == \A p \in Part : nossas[p].pend + nossas[p].imp <= 1

\* Everything we inserted can still be undone: a pending row of ours points at
\* a copy that parses, and the journal, without which rollback-all would skip
\* the chave, has the participation.
PendingBacked ==
  \A p \in Part : nossas[p].pend > 0 => Delivered(p) /\ journal[p].state # "none"

\* No step of any of the programs destroys the last whole copy of the XML.
XmlNeverLost == [][WholeCopy => WholeCopy']_vars

\* Rows only ever leave by our own DELETE of our own pending rows: no row of the
\* DownloadXML and no imported row goes away, or goes back to pending.
OnlyOurPendingRowsGo ==
  [][\A p \in Part :
       /\ nossas'[p].imp >= nossas[p].imp
       /\ terceiros[p] # "none" => terceiros'[p] # "none"
       /\ terceiros[p] = "imported" => terceiros'[p] = "imported"]_rows

\* A destination that holds something else is left for manual intervention:
\* neither the rename nor anything after it touches its content.
ConflictPreserved ==
  [][\A d \in Dest : destino[d] = "other" => destino'[d] = "other"]_destino

\* A row that was imported keeps the XML it refers to.
ImportedKeepsXml ==
  \A p \in Part :
    (nossas[p].imp > 0 \/ terceiros[p] = "imported") => Delivered(p)

\* An XML waiting in ASINCRONIZAR is eventually synchronised and taken out of
\* there, or a conflicting destination stops it and is reported as sync_failed.
Conflict == \E p \in Part : destino[DestOf[p]] = "other"
SyncCompletes ==
  \A o \in Origem :
    origem[o] = "whole" ~>
      (origem[o] = "none" \/ done
       \/ (Conflict /\ \E p \in Part : <<"sync_failed", p>> \in obs))

\* The steps of the code, seen as where the whole XML is and who has a row, are
\* steps of the contract: the refinement of SyncContract.
Contract == INSTANCE SyncContract WITH
  fonte <- {o \in Origem : origem[o] = "whole"},
  entregue <- {p \in Part : destino[DestOf[p]] = "whole"},
  registrada <- {p \in Part : Registered(p)},
  importada <- {p \in Part : nossas[p].imp > 0 \/ terceiros[p] = "imported"}

ContractHolds == Contract!Spec
=============================================================================
