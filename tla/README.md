# Verification of rps-xml-tracker

TLA+ modules, TLC configurations and TLAPS proofs kept beside the tracker's code. The tracker
follows an XML (nota) from the moment it lands in `XML_ASINCRONIZAR` until the ERP (Athenas, a
Firebird database) imports it, and, with the shadow-sync, does the move to `XML_SINCRONIZADO`
itself. Names in the modules are the names of the Go code wherever TLA+ allows.

## 1. Inventory

Paths are relative to `src/`.

| Component | State | Operations | Talks to |
|---|---|---|---|
| **syncer: execute, rollback, journal** `internal/syncer/{execute,rollback,journal}.go` | bbolt journal (one record per participation, bucket `done`), files of ASINCRONIZAR and SINCRONIZADO, rows of `TABLISTACHAVEACESSO` that carry our marker | `Execute`, `executePart`, `verifyComplete`, `rollbackOne`, `RollbackAll` | files, Firebird writer, ingest client; the DownloadXML and the AthenasHorse act on the same files and rows |
| **syncer: sweep, worklist** `internal/syncer/{syncer,worklist}.go` | rotating cursor per segment, counts of a cycle, dry-run marks | `SweepOnce`, `walkSegment`, `handleFile`, `RunChave` | calls Execute |
| **firebird writer** `internal/firebird/writer.go` | none | `HasRow`, `HasImportedRow`, `InsertChaveAcesso`, `DeleteOurRows`, `ListOurRows` | Athenas |
| **firebird reader, retry** `internal/firebird/{reader,retry}.go` | connection | `Lookup…`, `selectState`, retry | Athenas |
| **plan and path** `internal/syncpath`, `syncer.go` | none | destination of each participation | pure |
| **xmlparse** `internal/xmlparse` | none | chave and metadata of a file | pure |
| **agent** `internal/agent`, `cmd/agent` | seen-state on disk, cycle counters | incremental scan, stable age, seed cutoff, pruned and full scans | ingest client |
| **ingest client** `internal/ingest` | spool directory | `Submit`, `FlushSpool` | API over HTTP |
| **api** `internal/api`, `cmd/api` | none of its own | `handleIngest`, read handlers | store, cache |
| **derive** `internal/derive`, `internal/model` | none | the state of a nota and of its participations from its observations | pure; used by every store |
| **store** `internal/store/{store,memory,postgres}.go` | `observations`, `notas`, `nota_empresa`, `notas_counts`, `empresa_counts`, heartbeats | append, corrections, recompute, poller queue, queries | Postgres |
| **cache** `internal/store/cache.go` | value, age, refresh flag per key; slots | stale-while-revalidate reads | store |
| **poller** `internal/poller`, `cmd/poller` | sweep cursor | `PollOnce`, `SweepOnce`, `ReconcileOnce`, `RepollImportIgnored`, `FixImportedAt`, `EmitImportedFor` | reader, store |
| **repoll, reconcile** `cmd/repoll`, `internal/reconcile` | none | one-off corrections and diagnosis | store, reader |
| **migrations** `migrations`, `internal/migrate` | schema, triggers of the counters | run at boot | Postgres |
| support, phase 0 | none | signing, versions, network paths, surveys | – |

### What is hard, and what makes each part correct

*Shadow-sync.* There is no transaction over files, journal and Firebird: the process may die, a call
may fail, or a reply may be lost between any two effects; the DownloadXML may be moving the same
nota and the Horse may import a row at any moment. Correct means: the origin goes only when every
participation has copy and row, no second row of ours, a pending row of ours can always be undone,
rows of others are never touched, no step destroys the last whole copy, a destination that conflicts
is left alone, and without an operator a nota ends synchronised or reported.

*Derivation.* Observations come from four programs, late, repeated, with equal or decreasing times.
Correct means: the derived state is a function of the set of observations; a nota is terminal exactly
when all the companies it involves are; late news about known companies do not reopen it.

*Store.* Several transactions at READ COMMITTED append and correct observations of the same notas
and materialise the derivation, while triggers keep counters. Correct means: counters equal what they
count, nota and participations come from one set of observations, an import that is shown is backed
by an observation, and the materialised state is the derivation of the committed observations.

*Agent and ingest.* Two scan loops and a ticker share bbolt, the API client and its spool, while other
programs write and move the files; saving the seen-state, handing a batch over and moving the reference
of the pruning are separate steps with a crash between any two. Correct means: a file that will not be
read again has its observation in the store, on disk or in the batch of the scan that recorded it, a pruned scan never passes over a file nobody
recorded, and a synchronised nota is reported in the end.

*Poller.* Three loops and two commands read the store, ask Athenas and only then write, so each may
write what another has made old; the queue is split into hot and cold; a call may fail between a
destructive correction and what replaces it. Correct means: every in-flight nota is polled again, no
loop ends a nota while a company it was told of is still to import it, the outcome of a known company
is recorded, and an import that came late becomes known.

*Sweep and worklist.* A cursor over a tree that changes under it, limits that cut a cycle anywhere,
notas that always fail at the head of the list. Correct means: no file is examined twice while
another waits, everything that can be synchronised is, and nothing is done by half.

*Dashboard.* Two stores answer the same questions, one from counters that triggers maintain, behind a
cache whose refreshes fail and overlap. Correct means: the stores agree, a key of the cache holds
everything its answer depends on, a served value never goes back in time or gets lost to an error,
one refresh runs per key, and whoever asks is answered.

`PROJECT.json` lists each hazard at its line with the properties that cover it, or why none does yet.

## 2. Modules

| Module | What it is |
|---|---|
| `Syncer` | the shadow-sync of one nota, every effect an action, with faults and the other programs |
| `SyncContract` | what the shadow-sync promises about one nota, without steps, files or faults |
| `MCSyncer` | two participations, an issuer and a recipient, with separate destinations |
| `Syncer_proofs` | theorems about `Syncer`, and that it implements `SyncContract` |
| `Observation` | the observation: events, companies, what founds a participation |
| `Derive` | `internal/derive` as a walk over the sorted sequence |
| `NotaSpec` | the derived state as a function of the set of observations |
| `Timeline`, `MCTimeline` | observations of one chave arriving in any order; compares `Derive` with `NotaSpec` |
| `NotaSpec_proofs` | theorems about the status of a nota, and that `Derive` computes `NotaSpec`, for sequences of any length |
| `Timeline_proofs` | theorems about `Timeline`, on top of `NotaSpec_proofs` |
| `TrackerStore`, `MCStore` | the Postgres transactions, statement by statement, on top of `NotaSpec` |
| `TrackerStore_proofs` | theorems about `TrackerStore` |
| `Agent`, `MCAgent` | the scan loops of the agent, the client's spool and the API's answers |
| `Agent_proofs` | theorems about `Agent` |
| `AthenasReader` | what the reader makes of the rows of one chave, and the observations of one lookup |
| `MemoryStore` | the store as its callers see it, one call a step |
| `Poller`, `MCPoller` | the loops of the poller and the one-off commands, composed with the two above |
| `Poller_proofs` | theorems about `Poller` |
| `Plan` | `PlanFile` and the derivation of paths |
| `Sweep`, `MCSweep` | the rotating sweep and the worklist, on top of `Plan` |
| `Sweep_proofs` | theorems about `Sweep` and `Plan` |
| `Cached` | the stale-while-revalidate cache |
| `Consultas` | the questions of the dashboard, as each store answers them |
| `Painel`, `MCPainel` | notas, counters and questions behind the cache: composes `Cached`, `Consultas` and `Derive` |
| `Painel_proofs` | theorems about `Cached` and `Painel`, and that `Painel` implements `Cached` |

### 2.1 Syncer

State. `origem`, `destino`, `tmp` hold the content of each path: `none`, `whole`, `cut` (truncated, but
the parser still finds the chave), `other` (does not give this chave). `nossas` counts our rows per
participation, pending and imported, so a second one can be seen; `terceiros` is the row of the
DownloadXML. `journal` and `done` are the two bbolt buckets. `obs` are the observations handed over.
`pc`, `cur`, `part`, `left`, `restored` are the local state of the process, lost by `Crash`.

| Actions | Code |
|---|---|
| `Start` | `handleFile` and `RunChave`, up to the call of `Execute` |
| `JournalPlanned`, `InspectDest`, `CopyToTmp`, `VerifyCopy`, `Rename`, `JournalMoved`, `EmitMoved` | `executePart`, `ensureMoved`, `destOK`, `copyFile`, `verifyFile` |
| `CheckRow`, `InsertRow`, `InsertReplyLost`, `JournalInserted`, `EmitInserted` | `executePart`, `ensureInserted`, `InsertChaveAcesso` |
| `VerifyComplete`, `RemoveOrigem`, `MarkDone` | `verifyComplete` and the end of `Execute` |
| `StepError` | the error returns of all these calls |
| `Rollback`, `RollbackAll`, `RbDeletePending`, `RbDelete`, `RbRestore`, `RbRemove`, `RbClear`, `RbError`, `RbRestoreError`, `RbTornRestore` | `rollbackOne`, `RollbackAll` |
| `HorseImport`, `Dxml…`, `Arrive`, `FinishWriting` | programs outside this repository, as the code and the design notes assume them |

Choices. The participations are walked in any order (the code's order is that of a query).
`verifyComplete`'s two questions about a participation are one action, since both only read.
`StepError` reports any participation where the code reports the one under way. A rollback never runs
beside a sync, because bbolt locks the journal file. One nota is enough: files, journal records
and rows are keyed by the chave.

`SyncContract` is implemented under the mapping at the end of `Syncer` (`ContractHolds`): arrival
paths with the whole XML, participations whose destination is whole, rows, imported rows.

### 2.2 Observation, Derive, NotaSpec, Timeline

`Observation` fixes which observations can exist: the agent reads company and branch off the top
folder's name, both or neither; the syncer knows both; a row of Athenas may miss the branch. `Derive` translates the loop of
`NotaParticipacoes`, `participacoes`, `status`, `sortObs` and `setIfEarlier`; the descriptive metadata
(names, CNPJs, value, document type, latencies) is left out. The loops are recursive functions over the
indices of the sequence, which the provers can follow. `NotaSpec` says the same without a loop
or an order. `Timeline` appends observations one at a time and re-derives.

### 2.3 TrackerStore

State. `observations`, `notas`, `nota_empresa` and `counts` are the committed rows. `tx[w]` is the open
transaction of a connection: where it is, rows inserted and deleted but not committed, chaves still
to recompute, what `recompute` loaded (`lida`), rows written and counter changes, which are also the
row locks it holds. A statement sees the committed rows plus those of its own transaction; a
statement that must wait for a row of another transaction is not enabled.

| Actions | Code |
|---|---|
| `AppendObservations`, `Insert`, `Commit`, `Rollback` | `AppendObservations` |
| `DeleteImportIgnoredObs` | the same method, up to its recompute |
| `UpdateImportedObservedAt` | the same method, up to its recompute |
| `SkipChave`, `LoadObservations`, `UpsertNota`, `ReplaceParticipacoes` | `recompute`, `loadObservations`, `upsertNota`, `replaceParticipacoes` |
| `CountOld`, `CountNew` | the trigger `notas_counts_sync` of migration 00014 |

Choices. Of the counter's three dimensions only the status is kept, and `empresa_counts` is left out:
its trigger has the same shape. DELETE and UPDATE of the corrections start when their rows are free;
one that waited with an older snapshot is the same as one that starts after the other's commit. The
chave order in `recompute` is arbitrary, as a Go map's is. `Rollback` stands for every error,
including the deadlock detector's choice. `alone` is a history variable that only
`SerialIsExact` reads.

### 2.4 Agent

State. `fs` holds the files (path, mtime, whole or still being written) and `dirMod` the mtime of each
partition. `seen` and `meta` are the two bbolt buckets, `spool` the batches on disk, `api` what the store
has, `sink` the holder of `sinkMu`. `scan[g]` is what a loop of `RunSplit` holds in memory: where it is,
its start, the reference of the pruning, the seed cutoff, directories still to visit, the listing under
way, the batch and the pending seen-state. `Queda` loses all of it.

| Actions | Code |
|---|---|
| `Inicia`, `MarcaScan`, `MarcaCompleta` | `scanSync` around `scanRoots`, `syncPruneCutoff` (for the arrival loop, `scanRoots` alone) |
| `PegaSpool`, `ReenviaOk`, `ReenviaFalha`, `FlushSpoolFim` | `flushSpoolSafe`, `FlushSpool`, from both loops and from the ticker |
| `LeCorte`, `GravaCorte` | the seed cutoff: read, and stored by the first scan |
| `EntraPasta`, `VisitaArquivo`, `FimDaCaminhada` | the callback of `WalkDir`: prune, skip, parse, `record`, batch |
| `Submete`, `PostOk`, `PostFalha`, `SpoolOk`, `SpoolFalha` | `submitSafe`, `Submit`, `post`, `spool`; `handleIngest` on the other side |
| `GravaEstado` | the last `flushState` |
| `Chega`, `Completa`, `Move`, `Tick` | the writers, the mover and the clock |

Choices. An observation is its path: the server removes duplicates by the hash of its fields, so a
resent batch adds nothing. Spool files are resent in the order they were written, which is the order
of their names. The attempts of `post` are one outcome: accepted, refused, or refused although one
attempt was stored. A stop of the service and an error of bbolt lose what a crash loses, so `Queda`
stands for them; a failed spool write ends one scan only and is an action of its own, which may leave a
torn file. The clock is coarse: it does not advance between the two transactions that store a seed.
Directories are listed once, when the walk begins; the code lists a parent when it reaches it, which is
later and never staler. A directory that cannot be read is skipped by the code without an error; the
constant `PastaFalha` says whether that happens. `Margem` stands for `pruneSafetyMargin` (2 min)
and is larger than `StableAge` (5 s) in the code.

### 2.5 AthenasReader, MemoryStore, Poller

State. `athenas` is the state of each row of `TABLISTACHAVEACESSO`; `obs` the observations accepted;
`fila` the place of each chave in the order of `last_polled_at` (those stamped together tie); `proc[p]` what a loop or a command holds in memory (where it is,
the chaves in hand, those still to look up, what Athenas answered, what it will write); `limite` the
scenario and what is left of its bounds.

| Actions | Code |
|---|---|
| `PickHot`, `PickCold` | `ListInflightChaves`, two statements `pickInflight` that select and stamp |
| `SweepBegin`, `SweepFresh` | `SweepOnce` up to its lookup |
| `ReconcileBegin`, `ReconcileMissing` | `ReconcileOnce` up to `EmitImportedFor` |
| `LookupChunk` | `Lookup`, one query of `lookupChunk` |
| `Emite` | the end of `PollOnce`, of `SweepOnce` and of `EmitImportedFor` |
| `RepollBegin`, `RepollChave`, `RepollEmite` | `RepollImportIgnored`, with or without `--fix-pending` |
| `FixBegin`, `FixChave`, `ProximoLote` | `FixImportedAt`, and the batches of both commands |
| `Falha`, `Reinicia` | an error of any call, a restart of the poller |
| `Inclui`, `Decide`, `Exclui` | Athenas and the people who use it |

Choices. A call of the store is one step here, and `TrackerStore` has its statements: a lost update
(section 5) is therefore not seen in this module. Which of several equal rows stands for a nota is
arbitrary but fixed. The retry of a connection is part of its call, which answers or fails. Windows
of time are the constants `Antiga` and `Quente`. A nota whose chave Athenas does not know yields
nothing, as in the code.

### 2.6 Plan, Sweep

State. `origem` is the tree of ASINCRONIZAR; `journal` the durable cursor and the marks; `ciclo` the
cycle in memory: the segments still to walk, the stack of entries `WalkDir` has listed, the last entry
examined and the counters, or the items of a worklist. `rastreado` is what the tracker knows of each
chave. `antigos` and `falta` are history variables that only `OneLap` reads.

| Actions | Code |
|---|---|
| `SweepBegin`, `SegmentBegin`, `SegmentEnd`, `SweepEnd` | `SweepOnce`, the calls of `walkSegment`, the cursor saved |
| `VisitDir`, `VisitFile` | the callback of `walkSegment`, then `handleFile` |
| `WorklistBegin`, `RunItem`, `WorklistEnd` | `RunWorklist`, `RunChave`, and `Worklist` of the store |
| `Chega`, `Some`, `AgenteVe`, `Reinicia` | arrivals, the DownloadXML, the agent, the service restarted with other folders |

Choices. `Execute` is one step that succeeds, fails, or stops half-way with any of its participations
made; `Syncer` has its steps. A directory is listed when it is entered, as in the code. The report of
a sync reaches the tracker at once: its delay only makes an item come up again, and the `done` mark
answers that. `ReadDir` is the entries of a folder (`Filhos`) in the order of their names. A name is a file or
a folder and never both (`ArquivoAssumption`). `pathLess` and the order of `ReadDir` are defined on character codes, because what
could go wrong is a name that sorts differently alone and inside a path.

### 2.7 Cached, Consultas, Painel

State. `item[k]` is a value with its age mark and its `refreshing` flag, `trava[k]` and `vaga` the
holders of its mutex and of the slot, `proc` the readers and the goroutines of `refreshAsync`. A value
is the `versao` of the data its query began with, which is the least it may show. `observations[c]` is
what was accepted about the nota c, in order of arrival; the store in memory has nothing else. `notas` is the table
of Postgres, and `notas_counts` and `empresa_counts` are the counters its triggers keep; `agora` is the time in
half days.

| Actions | Code |
|---|---|
| `Pede`, `ServeGuardado`, `ColdStart` | `get`, and `Warm` |
| `Adquire`, `Responde` | `computeDetached` |
| `GuardaFrio`, `GuardaFundo` | the end of a cold start, the end of `refreshAsync` |
| `Expira`, `DadosMudam` | the TTL, a write to the store |
| `Observa` | `AppendObservations` of both stores; in Postgres with `loadObservations`, `recompute` and `upsertNota`, whose write fires the triggers |
| `BackfillDirection` | `repoll --backfill-direction`, which fires them too |
| `NotaMemoria`, `TabelaMemoria` | `allNotas`: what Memory derives when it is asked |

Choices. The questions are overview, companies, time series, latency, age of the backlog and types of
document; each is defined twice, from the code of `memory.go` and from the SQL, where the two differ.
`TrackerStore` has the trigger under concurrent transactions, so here a write and its triggers are one
step. Both stores receive the same observations, and each makes its own rows of them: Memory derives from
what it keeps in order of arrival, with the direction of each observation; Postgres reads its table ordered by
`observed_at`, ties in any order, without direction, and `upsertNota` keeps what is filled in and never sets
`first_seen_at` again. A nota goes back in status when a second company is found late. The observations carry a date of
their own (`InstantesDe`): an arrival its mtime, an import its day, so what arrives last may sort first. The corrections
`DeleteImportIgnoredObs` and `UpdateImportedObservedAt` are in `TrackerStore` and `Poller` and not here, and
the two stores are compared over observations that only grow.

## 3. Runs

Two participations, companies, connections and notas are the smallest numbers at which the hazards
exist: one participation done while the other is not, one transaction between another's statements, two
locks taken in opposite orders.

| Run | Bounds | Shows |
|---|---|---|
| `syncer_all` | all five other actors, all five faults, one fault, one arrival path; 3.75 M states | `TypeOK`, `GoldenRule`, `OneOurRow`, `PendingBacked`, `OnlyOurPendingRowsGo` |
| `syncer_rollback` | Horse, operator, arrivals on two paths; two of error, lost reply, crash; 1.8 M states | `XmlNeverLost`, `ContractHolds` |
| `syncer_sync` | Horse and DownloadXML, no operator; two of error, lost reply, crash; fairness; 630 k states | `SyncCompletes`, `ConflictPreserved`, `ImportedKeepsXml` |
| `timeline` | two companies, one branch, times 1..2, up to four observations of 17 kinds; 1.4 M states | `OrderFree`, `LatestCompanyWins`, `TerminalOnlyWhenAllAre`, `TerminalSticks`, `TimelineOnly` |
| `store` | two connections, two notas, four batches, times 1..2; unbounded repetition; 265 k states | `CountsMatch`, `DerivedsAgree`, `ImportedIsBacked`, `SerialIsExact` |
| `agent` | the arrival loop and the ticker, two files, clock to 2, batch of two, `FlushSeenEvery` 2, two faults, directories may be unreadable; 458 k states | `TypeOK`, `SeenIsHeld` |
| `agent_sync` | the sync loop and the ticker, two files of one partition, clock to 3, batch of two, `SyncFullEvery` 3, one fault; fairness; 218 k states | `PartitionStaysHot`, `SyncIsReported` |
| `poller` | three notas, a batch of two with a hot share of one, lookups of two; two rows of one nota that two companies share; five scenarios; fairness; 25 k states | `TypeOK`, `NoEarlyEnd`, `NothingStarves`, `OutcomeRecorded`, `ImportBecomesKnown` |
| `sweep` | four files in two folders, three notas, three companies of which two are allowed; limits of 1 to 3; five scenarios; fairness; 23 k states | `TypeOK`, `NeverHalf`, `OneLap`, `SweepServes`, `WorklistServes` |
| `painel` | two notas of two types, five kinds of observation, 21 questions; two readers, two refreshes, one slot, two keys; three scenarios; fairness; 21 k states | `TypeOK`, `ServesStale`, `StoresAgree`, `KeyIsEnough`, `NeverBack`, `Answered` |
| `find_restore_fails`, `find_lost_update` | – | see section 5 |

`MaxFaults`: one fault of every kind beside every actor reaches each error path from each state; two
reach a fault during the recovery from a fault. `MaxObs` = 4: two companies and their outcomes, or
three observations of a known company after one outcome; the comparison with `NotaSpec` is made at
every prefix. `MaxTempo` = 2 gives earlier, equal and later. `store` needs no bound on the length of a
history because the rows that can exist are finitely many.

In `agent` the map of seen files fills with two files, the size of a batch, so the seen-state is saved in the middle of the
walk, before the batch goes, as well as at its end. `SeenIsHeld` says what may become of a file recorded
with its chave: its observation is in the store or whole in the spool, or the scan that filled its map has it in the batch
(`EncheuMapa`); what is handed over stays so; and a batch that was recorded first is lost only by a crash or a
failed spool write in that scan (`Interrompida`). Without either exception TLC finds the
property violated, so both cases occur. Two faults let a failed spool write or a crash follow a refused post. The run has one
scan loop beside the ticker; the theorem of section 4 covers any set of loops. In `agent_sync` `FlushSeenEvery` is
above the number of paths and the seen-state is saved once per scan: otherwise `SyncIsReported` fails by that loss. A clock of 3 with a
`StableAge` of 2 lets a file be too young, then pruned or read; one partition with two files lets one be
recorded while the other is not. Each file is there at most once, so the histories are finite.

The scenarios of `poller`, `sweep` and `painel` are the combinations of loops, modes and faults that
interact; each behaviour keeps one, so that the faults that exclude each other do not multiply. In
`poller` a nota shared by two companies is the least on which an early end, a representative that
hides a pending row and a correction of one participation can be told apart; two other notas, of which
one is hot, fill a batch of two, so that a queue may starve. Its one row without a date reaches the
fallback to the time of detection. In `sweep`, `b` and `b!` are a folder and a sibling that sorts
before it once a slash follows; k1 always fails, k2 has a branch outside the allowlist, and k3 has
two files, so that one is left when the nota is done. In `painel` the clock starts at noon of day 20 and
jumps by half a day or by eight and a half, which passes the borders of a day, of a week, of the windows
asked for and of the ages. Of its scenarios one has readers beside a nota that changes, one histories of
up to three events of every kind, and one up to four of those that name a company: a move, a pending row and a refusal of one
company and an import by the other, in any order and with the dates of its day, so that a nota is terminal and opens again, is attributed to another
company and back, and has ties.

Deadlock is checked in `store` and `find_lost_update`: there is always a way out, if only an abort.
It is off where the system may stop: a nota that is synchronised, a timeline that received `MaxObs`
observations, an agent whose clock and faults are used up, notas that are all terminal, a worklist that is empty, a
dashboard without further events.

`PartitionStaysHot` is checked with `PastaFalha` false. With it true it fails: the scan skips the partition,
ends without error and moves its reference past the unread files, which pruned scans then pass by until
the next full one. `SyncIsReported` excludes what the code gives up on: backlog, a file that could
not be read once (recorded without a chave), and a spool with a torn batch at its head, which the API
refuses for ever and which no later batch can pass.

`XmlNeverLost` and `ContractHolds` are checked without `slowWriter`, `dxml` and the restore faults. With `slowWriter`
it fails: the sweep has no stable-age test, so a truncated arrival that parses is copied, verified
against its own truncated size, and its origin removed. With `dxml` it fails as well: a
rollback takes the file another program moved. The restore faults are `find_restore_fails`.

### Fairness

`FairSpec` assumes weak fairness of `Start` (the service sweeps on a ticker, and the rotating cursor
reaches every file), of the steps of an `Execute` under way and of a rollback under way (one goroutine
runs them to their end).
Nothing is assumed of faults, of the operator, or of the other programs, and
no strong fairness is used: faults stop because there are at most `MaxFaults`, that is, the property
says that a nota completes once faults cease.

The agent's `FairSpec` assumes weak fairness of the clock, of each loop and of each flush (tickers and
goroutines that run on), strong fairness of taking `sinkMu` (Go's mutex is starvation free: a waiter gets
it after a millisecond) and of an accepted resend (the API does not refuse every attempt for ever). It
assumes nothing of arrivals, of the mover, of faults, or of the first attempt to post a batch.

The poller's assumes weak fairness of each loop of `RunWithSweep`: its ticker fires and its cycle goes on.
Commands and Athenas may do nothing for ever. The sweep's assumes weak fairness of the syncer, whose
service loop is one goroutine. The cache's assumes that a query ends, as its 180 s timeout makes it (weak),
and that whoever waits for a mutex or for the slot gets it in the end (strong): Go hands over a mutex
to a waiter that starves and serves the waiters of a channel in order. It does not assume that a query ever succeeds.

## 4. Proofs

For every value of the constants that satisfies the named assumptions of the modules.

`Syncer_proofs`

| Theorem | From |
|---|---|
| `TypeCorrect` | `TypeInv`: `TypeOK` and, while an execution is under way, that it has an origin and a participation |
| `GoldenRuleHolds` | `VerifiedSoFar`: after `complete` began, the participations already ticked have copy and row; nothing removes either beside a sync |
| `OneOurRowHolds` | `NoDuplicate`: between `HasRow` and the INSERT nobody adds a row of ours, so there the participation has none |
| `PendingBackedHolds` | `CopyVerified` (what is renamed has been verified) and `Backed`: a pending row has its journal record and its copy, also at each step of a rollback |
| `OnlyOurPendingRowsGoHolds` | the type invariant and which actions change rows |
| `ConflictPreservedBySync`, `ImportedKeepsXmlInSync` | assume no operator: then no rollback is ever under way (`NoRollback`) and destinations are only ever filled |

`TrackerStore_proofs`. Two facts hold together and carry the rest: `Tipado`, the shape of the state
with counters as integers, and `Escrita`, that a row of `notas` has been written by at most one
open transaction (the row lock) and that each transaction is where its record says. Lemma `Passos`
sorts the steps of `Next` into those that start a transaction, continue it, commit or abort it, so
that each property needs one lemma per kind of step.

| Theorem | Further conjunct |
|---|---|
| `CountsMatchHolds` | `Contado`: what a transaction added to a counter is the number of its written notas that enter the status minus those that leave it; the row lock keeps the notas it compared with in place until the commit |
| `TypeCorrect` | `Contado`: counters are cardinalities, hence not negative |
| `DerivedsAgreeHolds` | `Derivam`: what is loaded, and what is written, is a pair derived from one set |
| `ImportedIsBackedHolds` | `Respaldo`: an imported observation a transaction has seen is committed or its own, and stays, because the corrections delete none without putting one back |
| `SerialIsExactHolds` | `Sozinha`: alone since it started, a transaction has derived, or still has to derive, each chave from what it will commit |

`NotaSpec_proofs`: `TerminalHasAllOutcomes` and `ReopensForNewCompanyOnly`, about any sets of
observations, and `NotaDoConjunto`, which says that what the code's walk makes of a sequence of observations is what
`NotaSpec` says of its set: sort, loop, participations and status, for sequences of any length. `TrackerStore` and
`MemoryStore` are written on `NotaSpec`, and this theorem is what makes that the code; `Painel_proofs` rests on it to compare two orders of one set. The argument follows the
loops turn by turn: after i turns the marks are those of the first i observations (`Marcam`, `AndamentoMarca`), each
insertion keeps the sequence sorted with the same elements (`InsereOrdenado`, `SortObsOrdena`), and `Recursao` says that a
recursive function takes the steps of its definition. An induction is an appeal to the least counterexample (`Inducao`).

`Timeline_proofs`. The invariant `Derivada` is that the nota is what the code derives of what was received.

| Theorem | From |
|---|---|
| `OrderFreeHolds` | `NotaDoConjunto`: what is left of the order is nothing |
| `LatestCompanyWinsHolds` | `UltimaEmpresa`: the loop leaves the company of the last sorted observation that names one |
| `TerminalOnlyWhenAllAreHolds` | `NotaDoConjunto` and `TerminalHasAllOutcomes` |
| `TerminalSticksHolds` | `NotaDoConjunto` and `ReopensForNewCompanyOnly` |
| `TimelineOnlyHolds` | `SoLinhaDoTempo`: these two events change nothing `NotaSpec` looks at |

`Agent_proofs`

| Theorem | From |
|---|---|
| `TypeCorrect` | `TypeInv`: each loop well formed by itself, with an empty batch wherever it does not walk or submit |
| `SeenHeld` | `KeptInv`: what a scan has still to record is handed over or in its batch (and is finitely many). Nothing is assumed of the size of the map or of a batch: the flush in the middle of the walk is a step like the others, and an interruption of the scan is the one step that lets go of a batch |
| `HotSafe` | `HotInv`; assumes `StableAge <= Margem + 1` and readable directories: `Coberto` (every file of SINCRONIZADO is recorded, backlog, in a directory that stays hot, or still to be looked at by the scan under way), `Listado` (the listing is current or the directory has been touched since the start), `Semente` (all loops use one seed) and `Relogio`. It is the induction the comment of `syncPruneCutoff` appeals to |

In `Syncer_proofs` as well, the two that no step destroys what a nota needs. Both assume `Sozinho`: no actor that moves the nota or is still
writing it (`dxml`, `slowWriter`) and no fault of the restoring copy. Section 3 says how they fail without it.

| Theorem | From |
|---|---|
| `ContractImplemented` | `Tudo`: the type, `VerifiedSoFar`, `CopyVerified`, `Backed` and `IntInv`. Every step that changes a file or a row is one step of the contract (lemmas `OrigemAbstrata`, `DestinoAbstrato`, `LinhasAbstratas`), and every other step stutters |
| `XmlNeverLostHolds` | the same invariant |

`IntInv` is what a crash must not break. `Inteiras`: contents are whole, but for a destination in
conflict. `EmSync`: the origin stays while a nota is synced, and what is renamed is whole. `EmRollback`: before
a copy is removed the XML is back. It rests on `Registros`: while some destination is in conflict, every origin the
journal names is still there; so what a rollback restores from is never the file in conflict.

`Painel_proofs`, for any questions, keys, readers, refreshes, notas and observations. The cache by itself first. `Inv` has
four parts: `Tipado`, the shape; `Donos`, who holds mutex and slot; `Marcas`, that `refreshing` marks exactly the key one
goroutine works for; `Recente`, that a query under way has read no earlier version than the value in place, which holds
because a key has one query at a time.

| Theorem | From |
|---|---|
| `TypeCorrect` | `Tipado`, `Donos` |
| `ServesStaleHolds` | `Donos`, `Marcas` |
| `NeverBackHolds` | all four |
| `PainelImplementsCache` | the refinement: every step of the dashboard is a step of the cache or stutters; `CacheInPainel` carries the three results above over to it |
| `KeyIsEnoughHolds` | `MesmaChave`: two questions with the same fields in their key differ only in what their answer does not depend on, route by route |
| `StoresAgreeHolds` | `PainelInv`: `PainelTipo`, the shape; `Linhas`, that each row says of its nota what the set of its observations says (`Espelha`); `Contadores`, that both tables of counters hold, for each of their lines, the number of rows that fall in it |

The argument has three parts. That the stores' rows are twins: what Memory derives in order of arrival and what
Postgres derives from its sorted read are, by `NotaDoConjunto`, what `NotaSpec` says of one set (`DerivadaEspelha`,
`RecomputeEspelha`, `Gemeas`); attribution is the same when the latest observations that name a company or a branch do not
tie (`UltimaUnica`, `SemEmpate`). That the triggers keep `Contadores`: `ContaMais` and its twin
for a row that leaves. That an answer made of counters is an answer made of rows: `SomaConta`, counters added over a set
of lines are the number of rows that fall in the set. Then route by route, Postgres over its rows against Memory over
its rows. What the stores do not share is named in `StoresAgree` and set aside, for the questions it
touches only: the last day of a window (`NaBorda`), a question by direction while the direction of a row differs
(`LeDirecao`), a question by company with a tie (`Empate`), and `first_seen_at` in the age of the backlog. Section 5 says why.

`Poller_proofs`. The invariant `Tipado` holds with no assumption on the order of loops, commands and failures: rows and
observations keep their shape, each process holds only what belongs to where it is, and each nota has one observation of an
event and a company, both in the store and in what a process will write (`Unicas`).

| Theorem | From |
|---|---|
| `TypeCorrect` | `Tipado`; the places in the queue stay places through both statements of `pickInflight` |
| `OneOfEach` | `Unicas`: no batch and no correction relies on the unique index to throw a second one away |
| `NoEarlyEndHolds` | `Tipado`: what a loop holds of Athenas is rows that were there, each pending, imported or ignored. Of each company in it the observations of a lookup have one, that of its best row (`UmaPorParticipacao`); if that row is pending, the append leaves the company involved and without an outcome (`Acrescenta`), and by `TerminalHasAllOutcomes` the nota is open. Nothing is assumed of what others wrote since the lookup |

`Sweep_proofs`

| Theorem | From |
|---|---|
| `TypeCorrect` | `Quadro`: `MundoTipado`, what lies outside the cycle, and `CicloTipado`, the cycle; the stack holds entries of the folder being walked and nothing else |
| `NeverHalfHolds` | assumes `ChaveIdentifica`, that two XMLs of one chave name the same parties. A plan that is not skipped names all the client branches of its XML (`PlanoCompleto`); a done mark is only set with all of its copies (`Passos`, `ExecutaInteira`); copies stay |
| `OneLapHolds` | `Rotativo`; assumes `SemRepeticao`, that no folder is listed twice |

`OneLap` says that no file is examined again while another that was there all along waits for its look. `Rotativo` is
`Quadro`, `EmVolta` and `EmCiclo`. `EmVolta` is the heart: of the lap that goes on from where the rotation stands,
what is owed a look since a file was examined comes before that file. `EmCiclo` ties the walk to it: the segments left
are those of the turns to come (`Restam`), the last file examined is behind (`Andou`), a file that was there at the
beginning is to come or behind (`Partidos`), and what is owed is still to come unless the limit ends the cycle (`Devidos`).
It rests on four facts about the operators: `pathLess` is a strict total order, `ReadDir` gives a folder's
entries in that order, the segments of `Rotacao` share the files out so that each is in exactly one (`TurnoAlcance`), and one
segment after another is the lap from the cursor (`VoltaDoCiclo`). `SemRepeticao` is needed: with folders d1, d2, d1 and a cursor
in d1 the rotation is the rest of d1, d2, all of d1, and d1 up to the cursor, so d1 comes twice in a row (section 5).

Model-checked only: liveness (`SyncCompletes`, `SyncIsReported`, `NothingStarves`, `OutcomeRecorded`,
`ImportBecomesKnown`, `SweepServes`, `WorklistServes`, `Answered`), because the proof system has no reasoning about
fairness and ENABLED. Every safety property that a passing run checks is the statement of a theorem.

## 5. Where the code and its documentation differ

With a run that shows it:

1. `find_restore_fails`: the copy that restores the origin fails, the destinations are removed all the
   same, and no whole XML is left; `design/SHADOW-SYNC.md:415`.
2. `find_lost_update`: two transactions on one chave derive from what each sees; the later upsert overwrites
   the newer state, and reading the same row again does not repair it, because a rejected observation
   recomputes nothing; `internal/model/model.go:113`.

Seen while modelling, without a run of its own:

*Syncer.*
- A rollback whose guard sees our marker only (`rollback.go:77`) removes the XML an imported row of another
  program refers to; `rollback.go:33` says imported participations keep their files.
- A destination left for manual intervention as a conflict (`execute.go:140`) is removed by a rollback (`rollback.go:123`).
- `SHADOW-SYNC` §14.1 says a nota is never half undone, while `rollback-all` with the guard taken deletes pending rows only.
- `design/RUNBOOK-worklist-migration.md:119` expects the worklist to synchronise what the sweep would. The list
  is the first N by emission, without a cursor: items that can never leave it (a file the DownloadXML took, a
  nota outside the window of the plan, a conflict) may fill it, and what follows is not served. `WorklistServes`
  speaks of notas within the limit.
- A company registered as a client after a nota was done never gets its copy: `done` is looked at first.
- `parseCSV` (`cmd/syncer/main.go:668`) keeps repetitions. With a folder twice in `TRACKER_SYNCER_DIRS` a rotation examines files
  of it twice with nothing of the others between; `syncer.go:301` describes a rotation that passes each file once.

*Agent.* When a scan fills its map of seen files (`flushSeenEvery`, 2000) the seen-state is saved (`agent.go:218`) while up
to a batch of observations is still in memory; if the scan is interrupted before the batch goes they are never emitted;
`agent.go:169` says an interrupted scan emits normally the next time. `SeenIsHeld` says that nothing else is lost.

*Poller.*
- A company that appears in Athenas after the nota became terminal is not polled: the sweep skips terminal notas,
  and the reconcile counts a nota imported by one company as known.
- `hotFraction` 1 leaves nothing to the cold queue; `HotQuota < BatchSize` is assumed. The default is 0.7.

*Store.*
- The INSERT of an observation (`postgres.go:81`) and `loadObservations` (`postgres.go:1564`) carry no `direction`,
  so the column is only ever filled by `repoll --backfill-direction`; `migrations/00013_nota_direction.sql:2` says
  the poller fills it. The store in memory keeps it (`memory.go:46`, `derive.go:64`) and has no backfill, so companies asked by
  direction (`memory.go:417`, `postgres.go:1262`) come out differently; a direction that was backfilled also stays when the nota
  goes to another company. `StoresAgree` sets these questions aside while a row's direction differs.
- `loadObservations` orders by `observed_at` alone, so ties come in any order, while memory sorts its own stably by arrival: among
  latest observations of two companies with one date, each store may attribute the nota to another.
- `first_seen_at` is not among the columns `upsertNota` updates; an observation that arrives later with an earlier date moves it in
  memory and not in Postgres. It shows in the age of the backlog of a nota that has no arrival.
- The comment at `postgres.go:839` says the backfill fires no trigger; since migration 00014 direction is a dimension of the counters and it does.
- A window of dates in Postgres ends at the midnight that begins its last day (`col <= to::date`), for the columns with a time; `store.go:126` says inclusive, and memory includes the day. An import with a time of day (`DATAROBO`, or the time of detection) falls in it too. `StoresAgree` sets this border aside (`NaBorda`).
- Lines of `empresa_counts` that are back at zero are listed with zeros; memory has no such line.
- `replaceParticipacoes` promises to keep `first_seen_at` (`postgres.go:133`) and re-creates the row with its default.
- The store in memory lists imported notas by status (`memory.go:180`) and Postgres by `imported_at` (`postgres.go:448`, which says why).

## 6. Plan

What is left, in order of importance:

1. The poller over `TrackerStore` instead of `MemoryStore`, which would show what a lost update does to `OutcomeRecorded`.
2. `Syncer` with two notas under one sweep, for the counts of a cycle when an `Execute` is cut.
3. The pages of the list of notas and its totals, `Aging`, percentiles.

## 7. Not modelled

- Diagnosis and reports (`investigate`, `selftest`, `audit`, the report of `reconcile`, phase 0): they only read.
- Of the dashboard: percentiles, names, the series of `import_ignored`, the list of notas with its pages and text search, `Aging`: order, wording and statistics over rows whose content is modelled.
- Heartbeats and their payload: no other state depends on them.
- The parsing of XML beyond its result, and the descriptive metadata (names, values, CNPJs that ride along).
- Flags, environment, wiring, authentication, signing, versions and network paths; the migration runner and the indexes.
- PostgreSQL, Firebird, bbolt, the DownloadXML and the AthenasHorse themselves, which appear only as the code relies on them.
