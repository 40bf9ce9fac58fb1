---------------------------- MODULE Observation ----------------------------
(***************************************************************************)
(* internal/model: what is observed about one nota.  An observation keeps  *)
(* what the status, the spans and the attribution to a company are made    *)
(* of; the descriptive metadata (names, CNPJs, value, document type) is    *)
(* left out.                                                               *)
(***************************************************************************)
EXTENDS Naturals

CONSTANTS
  Empresa,    \* codigo_empresa of the companies that may appear
  Filial,     \* their codigo_filial
  Nulo,       \* a nil *int
  MaxTempo    \* observed_at is one of 1 .. MaxTempo (bound)

ASSUME NuloAssumption == Nulo \notin Empresa \cup Filial
ASSUME TempoAssumption == MaxTempo \in Nat

Tempo == 1 .. MaxTempo
Never == 0    \* a nil *time.Time

ArrivalEvent == {"file_seen"}
SyncEvent == {"file_moved", "sync_moved", "sync_db_inserted", "sync_failed"}
ImportEvent == {"seen_pending", "imported", "import_ignored"}
Event == ArrivalEvent \cup SyncEvent \cup ImportEvent
NotaStatus == {"arrived", "synced", "pending_import", "imported", "import_ignored"}
TerminalStatus == {"imported", "import_ignored"}

\* The agent reads company and branch off the top folder ("1203-1 NOME"), both
\* or neither; the syncer knows both; a row of Athenas may miss its branch or both.
Observation ==
  {o \in [event : Event, emp : Empresa \cup {Nulo}, fil : Filial \cup {Nulo}, at : Tempo] :
     /\ o.event \in {"file_seen", "file_moved"} /\ o.emp # Nulo => o.fil # Nulo
     /\ o.event \in SyncEvent \ {"file_moved"} => o.fil # Nulo
     /\ o.emp = Nulo => o.fil = Nulo}

syncProgress(event) == event \in {"file_moved", "sync_moved"}

\* Mutant of Funda: any event of the sync stage.
FundaPorQualquerSync(o) == o.emp # Nulo /\ o.event \in ImportEvent \cup SyncEvent

\* The observation founds, or updates, a participation, whose key is Chave(o).
\* A branch the row misses is branch 0 in the code, Nulo here.
Funda(o) ==
  /\ o.emp # Nulo
  /\ o.event \in ImportEvent \/ syncProgress(o.event)

Chave(o) == <<o.emp, o.fil>>
=============================================================================
