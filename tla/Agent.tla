------------------------------- MODULE Agent -------------------------------
(***************************************************************************)
(* internal/agent and internal/ingest: two scan loops and the spool ticker *)
(* read the watched folders, keep the seen-state in bbolt and hand batches *)
(* of observations to the API, through a spool on disk when it is down.    *)
(* The mover and the writers of files are the environment.  An observation *)
(* is the path of its file: the server removes duplicates by hash.         *)
(***************************************************************************)
EXTENDS Integers, Sequences, FiniteSets

CONSTANTS
  Grupo,          \* the loops RunSplit starts: "sync" only if it has a root
  Chegada,        \* paths of the arrival folder
  Sinc,           \* paths of SINCRONIZADO
  SincDe,         \* where the mover puts each arrival
  Particao,       \* the directory of each path
  Nota,           \* the paths whose whole file carries a chave (not an NFSe)
  BatchSize, FlushSeenEvery, StableAge, Margem, SyncFullEvery,
  Backfill,
  PastaFalha,     \* a directory may be unreadable for once
  MaxTempo,       \* bound of the clock
  MaxFalhas       \* bound of crashes, failed reads and failed spool writes

Path == Chegada \cup Sinc
Raiz(g) == IF g = "chegada" THEN Chegada ELSE Sinc
Pasta(g) == {Particao[p] : p \in Raiz(g)}

Nunca == 0                    \* a time.Time that is not set
Tempo == Nunca .. MaxTempo

\* What a listing tells of a file, and what the seen bucket keeps of it: the
\* size only has to tell a partial file from the whole one.
Info == [p : Path, mod : Tempo, inteiro : BOOLEAN]
Ficha == [p : Path, mod : Tempo, inteiro : BOOLEAN, chave : BOOLEAN]
Lote == [obs : SUBSET Path, rasgado : BOOLEAN]

\* What a loop holds in memory.  lista is the directory being read.
ScanPC == {"parado", "flush", "corte", "grava", "anda", "submete", "post", "spool",
           "estado", "marca", "completa"}
Laco == [pc : ScanPC, start : Tempo, desde : Tempo, cutoff : Tempo,
         dirs : SUBSET [dir : {Particao[p] : p \in Path}, mod : Tempo],
         lista : SUBSET Info, batch : SUBSET Path, pending : SUBSET Ficha]

ASSUME LotesAssumption == BatchSize \in Nat \ {0} /\ FlushSeenEvery \in Nat \ {0}
ASSUME RelogioAssumption ==
  /\ MaxTempo \in Nat \ {0} /\ MaxFalhas \in Nat
  /\ StableAge \in Nat /\ Margem \in Nat /\ SyncFullEvery \in Nat
ASSUME BackfillAssumption == Backfill \in BOOLEAN /\ PastaFalha \in BOOLEAN
ASSUME GrupoAssumption == Grupo \subseteq {"chegada", "sync"}
ASSUME PastasAssumption ==
  /\ Chegada \cap Sinc = {} /\ SincDe \in [Chegada -> Sinc]
  /\ DOMAIN Particao = Path

VARIABLES
  now,       \* the clock
  fs,        \* the files: one Info each
  dirMod,    \* mtime of each directory of SINCRONIZADO
  seen,      \* bbolt, bucket seen: one Ficha per path
  meta,      \* bbolt, bucket meta: seed cutoff, last scan and last full scan
  scan,      \* the volatile state of each loop
  sink,      \* who holds sinkMu
  spool,     \* the batches on disk, oldest first
  api,       \* the observations the store has
  falhas     \* faults so far

vars == <<now, fs, dirMod, seen, meta, scan, sink, spool, api, falhas>>
disco == <<seen, meta>>
ambiente == <<now, fs, dirMod>>

Parado == [pc |-> "parado", start |-> Nunca, desde |-> Nunca, cutoff |-> Nunca,
           dirs |-> {}, lista |-> {}, batch |-> {}, pending |-> {}]

Init ==
  /\ now = 1 /\ fs = {} /\ dirMod = [d \in Pasta("sync") |-> Nunca]
  /\ seen = {} /\ meta = [seed |-> Nunca, lastScan |-> Nunca, lastFull |-> Nunca]
  /\ scan = [g \in Grupo |-> Parado]
  /\ sink = "livre" /\ spool = <<>> /\ api = {} /\ falhas = 0
-----------------------------------------------------------------------------
(* The environment.                                                        *)

\* The clock is too coarse to advance between the two transactions of a seed.
Tick ==
  /\ now < MaxTempo /\ now' = now + 1
  /\ \A g \in Grupo : scan[g].pc # "grava"
  /\ UNCHANGED <<fs, dirMod, seen, meta, scan, sink, spool, api, falhas>>

\* A file appears in the arrival folder, whole or still being written.  A path
\* is used once.
Chega(p) ==
  /\ p \in Chegada /\ \A f \in fs : f.p \notin {p, SincDe[p]}
  /\ \E whole \in BOOLEAN : fs' = fs \cup {[p |-> p, mod |-> now, inteiro |-> whole]}
  /\ UNCHANGED <<now, dirMod, seen, meta, scan, sink, spool, api, falhas>>

Completa(f) ==
  /\ f \in fs /\ ~f.inteiro
  /\ fs' = (fs \ {f}) \cup {[f EXCEPT !.mod = now, !.inteiro = TRUE]}
  /\ UNCHANGED <<now, dirMod, seen, meta, scan, sink, spool, api, falhas>>

\* The mover keeps the file's mtime and touches the directory it moves into.
Move(f) ==
  /\ f \in fs /\ f.p \in Chegada /\ f.inteiro
  /\ \A h \in fs : h.p # SincDe[f.p]
  /\ fs' = (fs \ {f}) \cup {[f EXCEPT !.p = SincDe[f.p]]}
  /\ dirMod' = [dirMod EXCEPT ![Particao[SincDe[f.p]]] = now]
  /\ UNCHANGED <<now, seen, meta, scan, sink, spool, api, falhas>>
-----------------------------------------------------------------------------
(* The spool (ingest.Client), used by both loops and by the ticker.        *)

\* Mutant of Solta: a failed resend keeps the lock.
SoltaSoNoFim(w, ok) == IF ok THEN "livre" ELSE w

Solta(w, ok) == "livre"

\* The loop goes on once FlushSpool returns, whatever it returned.
DepoisDoFlush(w) ==
  IF w \in Grupo THEN [scan EXCEPT ![w].pc = "corte"] ELSE scan

NoFlush(w) == sink = w /\ (w \in Grupo => scan[w].pc = "flush")

PegaSpool(w) ==
  /\ sink = "livre"
  /\ IF w \in Grupo THEN scan[w].pc = "flush" ELSE spool # <<>>
  /\ sink' = w
  /\ UNCHANGED <<ambiente, disco, scan, spool, api, falhas>>

\* One spooled batch is accepted and removed.  A crash before the removal is a
\* lost reply: the batch is resent.
ReenviaOk(w) ==
  /\ NoFlush(w) /\ spool # <<>> /\ ~Head(spool).rasgado
  /\ api' = api \cup Head(spool).obs
  /\ spool' = Tail(spool)
  /\ UNCHANGED <<ambiente, disco, scan, sink, falhas>>

\* The first failure ends the flush.  The API answers 400 to a torn file; a
\* reply may be lost after the batch was stored.
ReenviaFalha(w) ==
  /\ NoFlush(w) /\ spool # <<>>
  /\ \E gravou \in {FALSE, ~Head(spool).rasgado} :
       api' = IF gravou THEN api \cup Head(spool).obs ELSE api
  /\ sink' = Solta(w, FALSE)
  /\ scan' = DepoisDoFlush(w)
  /\ UNCHANGED <<ambiente, disco, spool, falhas>>

FlushSpoolFim(w) ==
  /\ NoFlush(w) /\ spool = <<>>
  /\ sink' = Solta(w, TRUE)
  /\ scan' = DepoisDoFlush(w)
  /\ UNCHANGED <<ambiente, disco, spool, api, falhas>>
-----------------------------------------------------------------------------
(* A scan: scanRoots, and scanSync around it.                              *)

\* The reference of the pruning, Nunca for a full scan.
syncPruneCutoff ==
  IF \/ SyncFullEvery = 0 \/ meta.lastFull = Nunca
     \/ now - meta.lastFull >= SyncFullEvery
  THEN Nunca ELSE meta.lastScan

Inicia(g) ==
  /\ scan[g].pc = "parado"
  /\ scan' = [scan EXCEPT ![g].pc = "flush",
                          ![g].start = IF g = "sync" THEN now ELSE @,
                          ![g].desde = IF g = "sync" THEN syncPruneCutoff ELSE @]
  /\ UNCHANGED <<ambiente, disco, sink, spool, api, falhas>>

\* The directories, with the mtime they have when their parent is listed.
Listagem(g) ==
  {[dir |-> d, mod |-> IF g = "sync" THEN dirMod[d] ELSE Nunca] : d \in Pasta(g)}

\* Reading the seed cutoff and storing a first one are two transactions.
LeCorte(g) ==
  /\ scan[g].pc = "corte"
  /\ scan' = IF meta.seed # Nunca \/ Backfill
             THEN [scan EXCEPT ![g].pc = "anda", ![g].cutoff = meta.seed,
                               ![g].dirs = Listagem(g)]
             ELSE [scan EXCEPT ![g].pc = "grava", ![g].cutoff = now]
  /\ UNCHANGED <<ambiente, disco, sink, spool, api, falhas>>

GravaCorte(g) ==
  /\ scan[g].pc = "grava"
  /\ meta' = [meta EXCEPT !.seed = scan[g].cutoff]
  /\ scan' = [scan EXCEPT ![g].pc = "anda", ![g].dirs = Listagem(g)]
  /\ UNCHANGED <<ambiente, seen, sink, spool, api, falhas>>

\* A partition untouched since the reference is skipped as a whole.
Podada(d, desde) == desde # Nunca /\ d.mod < desde - Margem

EntraPasta(g) ==
  /\ scan[g].pc = "anda" /\ scan[g].lista = {}
  /\ \E d \in scan[g].dirs :
       \/ /\ scan' = [scan EXCEPT
               ![g].dirs = @ \ {d},
               ![g].lista = IF Podada(d, scan[g].desde) THEN {}
                            ELSE {f \in fs : f.p \in Raiz(g) /\ Particao[f.p] = d.dir}]
          /\ UNCHANGED falhas
       \/ /\ PastaFalha /\ falhas < MaxFalhas /\ falhas' = falhas + 1
          /\ scan' = [scan EXCEPT ![g].dirs = @ \ {d}]    \* skipped; the scan goes on
  /\ UNCHANGED <<ambiente, disco, sink, spool, api>>

\* Younger than StableAge, older than the seed cutoff, or known as it is.
Pulado(g, f) ==
  \/ now - f.mod < StableAge
  \/ ~Backfill /\ f.mod < scan[g].cutoff
  \/ \E s \in seen : s.p = f.p /\ s.mod = f.mod /\ s.inteiro = f.inteiro

\* parseToObservation finds a chave only in the whole file of a nota.
TemChave(f) == f.p \in Nota /\ \E x \in fs : x.p = f.p /\ x.inteiro

\* Mutant of Guarda: the old entry of the path stays.
GuardaDuas(bucket, pend) == pend \cup bucket

Guarda(bucket, pend) == pend \cup {s \in bucket : \A x \in pend : x.p # s.p}

LoteCheio(batch) == Cardinality(batch) >= BatchSize

\* record, with its flush of the state, comes before the observation enters the batch.
Anota(g, f, ok) ==
  LET pend == Guarda(scan[g].pending,
                     {[p |-> f.p, mod |-> f.mod, inteiro |-> f.inteiro, chave |-> ok]})
      cheio == Cardinality(pend) >= FlushSeenEvery
      batch == IF ok THEN scan[g].batch \cup {f.p} ELSE scan[g].batch
  IN /\ seen' = IF cheio THEN Guarda(seen, pend) ELSE seen
     /\ scan' = [scan EXCEPT ![g].lista = @ \ {f},
                             ![g].pending = IF cheio THEN {} ELSE pend,
                             ![g].batch = batch,
                             ![g].pc = IF ok /\ LoteCheio(batch) THEN "submete" ELSE @]

VisitaArquivo(g) ==
  /\ scan[g].pc = "anda"
  /\ \E f \in scan[g].lista :
       \/ /\ Pulado(g, f)
          /\ scan' = [scan EXCEPT ![g].lista = @ \ {f}]
          /\ UNCHANGED <<seen, falhas>>
       \/ /\ ~Pulado(g, f) /\ Anota(g, f, TemChave(f))
          /\ UNCHANGED falhas
       \/ /\ ~Pulado(g, f) /\ TemChave(f)      \* os.ReadFile fails
          /\ falhas < MaxFalhas /\ falhas' = falhas + 1
          /\ Anota(g, f, FALSE)
  /\ UNCHANGED <<ambiente, meta, sink, spool, api>>

Fecho(g) == IF scan[g].batch = {} THEN "estado" ELSE "submete"

FimDaCaminhada(g) ==
  /\ scan[g].pc = "anda" /\ scan[g].dirs = {} /\ scan[g].lista = {}
  /\ scan' = [scan EXCEPT ![g].pc = Fecho(g)]
  /\ UNCHANGED <<ambiente, disco, sink, spool, api, falhas>>
-----------------------------------------------------------------------------
(* Submit, under sinkMu.                                                   *)

Submete(g) ==
  /\ scan[g].pc = "submete" /\ sink = "livre"
  /\ sink' = g /\ scan' = [scan EXCEPT ![g].pc = "post"]
  /\ UNCHANGED <<ambiente, disco, spool, api, falhas>>

Aceito(g) == [scan EXCEPT ![g].pc = "anda", ![g].batch = {}]

PostOk(g) ==
  /\ scan[g].pc = "post"
  /\ api' = api \cup scan[g].batch
  /\ scan' = Aceito(g) /\ sink' = "livre"
  /\ UNCHANGED <<ambiente, disco, spool, falhas>>

\* The attempts are used up; one of them may have been stored all the same.
PostFalha(g) ==
  /\ scan[g].pc = "post"
  /\ api' \in {api, api \cup scan[g].batch}
  /\ scan' = [scan EXCEPT ![g].pc = "spool"]
  /\ UNCHANGED <<ambiente, disco, sink, spool, falhas>>

SpoolOk(g) ==
  /\ scan[g].pc = "spool"
  /\ spool' = Append(spool, [obs |-> scan[g].batch, rasgado |-> FALSE])
  /\ scan' = Aceito(g) /\ sink' = "livre"
  /\ UNCHANGED <<ambiente, disco, api, falhas>>

\* Mutant of SpoolFalha: the error is swallowed.
SpoolFalhaIgnora(g) ==
  /\ scan[g].pc = "spool"
  /\ falhas < MaxFalhas /\ falhas' = falhas + 1
  /\ scan' = Aceito(g) /\ sink' = "livre"
  /\ UNCHANGED <<ambiente, disco, spool, api>>

\* The write fails and may leave part of the file; the scan ends in error.
SpoolFalha(g) ==
  /\ scan[g].pc = "spool"
  /\ falhas < MaxFalhas /\ falhas' = falhas + 1
  /\ spool' \in {spool, Append(spool, [obs |-> scan[g].batch, rasgado |-> TRUE])}
  /\ scan' = [scan EXCEPT ![g] = Parado] /\ sink' = "livre"
  /\ UNCHANGED <<ambiente, disco, api>>
-----------------------------------------------------------------------------
(* The end of a scan that had no error.                                    *)

GravaEstado(g) ==
  /\ scan[g].pc = "estado"
  /\ seen' = Guarda(seen, scan[g].pending)
  /\ scan' = [scan EXCEPT ![g] = IF g = "sync" THEN [@ EXCEPT !.pc = "marca", !.pending = {}]
                                 ELSE Parado]
  /\ UNCHANGED <<ambiente, meta, sink, spool, api, falhas>>

\* Mutant of Referencia: the end of the scan instead of its start.
ReferenciaNoFim(g) == now

Referencia(g) == scan[g].start

MarcaScan(g) ==
  /\ scan[g].pc = "marca"
  /\ meta' = [meta EXCEPT !.lastScan = Referencia(g)]
  /\ scan' = [scan EXCEPT ![g] = IF @.desde = Nunca THEN [@ EXCEPT !.pc = "completa"]
                                 ELSE Parado]
  /\ UNCHANGED <<ambiente, seen, sink, spool, api, falhas>>

MarcaCompleta(g) ==
  /\ scan[g].pc = "completa"
  /\ meta' = [meta EXCEPT !.lastFull = scan[g].start]
  /\ scan' = [scan EXCEPT ![g] = Parado]
  /\ UNCHANGED <<ambiente, seen, sink, spool, api, falhas>>

\* The process ends, at a stop of the service or by itself, and starts again.
\* A spool file it was writing may be torn.
Queda ==
  /\ falhas < MaxFalhas /\ falhas' = falhas + 1
  /\ scan' = [g \in Grupo |-> Parado] /\ sink' = "livre"
  /\ \/ UNCHANGED spool
     \/ \E g \in Grupo :
          /\ scan[g].pc = "spool"
          /\ spool' = Append(spool, [obs |-> scan[g].batch, rasgado |-> TRUE])
  /\ UNCHANGED <<ambiente, disco, api>>
-----------------------------------------------------------------------------
Ambiente == Tick \/ (\E p \in Chegada : Chega(p)) \/ (\E f \in fs : Completa(f) \/ Move(f))

Flush(w) == PegaSpool(w) \/ ReenviaOk(w) \/ ReenviaFalha(w) \/ FlushSpoolFim(w)

Varre(g) ==
  \/ Inicia(g) \/ LeCorte(g) \/ GravaCorte(g) \/ EntraPasta(g) \/ VisitaArquivo(g)
  \/ FimDaCaminhada(g) \/ Submete(g) \/ PostOk(g) \/ PostFalha(g) \/ SpoolOk(g)
  \/ SpoolFalha(g) \/ GravaEstado(g) \/ MarcaScan(g) \/ MarcaCompleta(g)

Next ==
  \/ Ambiente \/ Queda
  \/ \E w \in Grupo \cup {"ticker"} : Flush(w)
  \/ \E g \in Grupo : Varre(g)

\* The loops and the ticker are scheduled, sinkMu is starvation free, the clock
\* advances and the API does not refuse for ever.  Nothing is assumed of faults,
\* arrivals or the mover.
Fairness ==
  /\ WF_vars(Tick)
  /\ \A w \in Grupo \cup {"ticker"} :
       /\ WF_vars(Flush(w)) /\ SF_vars(PegaSpool(w)) /\ SF_vars(ReenviaOk(w))
  /\ \A g \in Grupo : WF_vars(Varre(g)) /\ SF_vars(Submete(g))

Spec == Init /\ [][Next]_vars
FairSpec == Spec /\ Fairness
-----------------------------------------------------------------------------
UmaPorPath(S) == \A s, t \in S : s.p = t.p => s = t

\* A folder, the seen bucket and the pending map keep one entry per path; a batch
\* holds at most BatchSize.
TypeOK ==
  /\ now \in Tempo \ {Nunca} /\ fs \subseteq Info /\ UmaPorPath(fs)
  /\ dirMod \in [Pasta("sync") -> Tempo]
  /\ seen \subseteq Ficha /\ UmaPorPath(seen)
  /\ meta \in [seed : Tempo, lastScan : Tempo, lastFull : Tempo]
  /\ scan \in [Grupo -> Laco]
  /\ \A g \in Grupo :
       UmaPorPath(scan[g].pending) /\ Cardinality(scan[g].batch) <= BatchSize
  /\ sink \in Grupo \cup {"ticker", "livre"}
  /\ spool \in Seq(Lote) /\ api \subseteq Path /\ falhas \in 0 .. MaxFalhas

NoSpool(p) == \E i \in DOMAIN spool : ~spool[i].rasgado /\ p \in spool[i].obs

Handed(p) == p \in api \/ NoSpool(p)

NoLote(p) == \E g \in Grupo : p \in scan[g].batch

\* The scan of g records more while it walks: the map is full.
EncheuMapa(g) ==
  Cardinality(scan[g].pending) + 1 >= FlushSeenEvery /\ scan'[g].pc \in {"anda", "submete"}

\* The scan of g, with p in its batch, ends there: a crash, or the spool failed.
Interrompida(g, p) == p \in scan[g].batch /\ scan'[g] = Parado /\ falhas' > falhas

\* A file that will not be read again has its observation in the store or whole
\* on disk, unless the scan filled the map before it submitted the batch: then
\* the batch holds it, and only an interruption of that scan loses it.
Retem ==
  \A s \in seen' : s.chave =>
    IF s \notin seen
    THEN Handed(s.p)' \/ \E g \in Grupo : s.p \in scan'[g].batch /\ EncheuMapa(g)
    ELSE /\ Handed(s.p) => Handed(s.p)'
         /\ NoLote(s.p) => \/ Handed(s.p)' \/ NoLote(s.p)'
                           \/ \E g \in Grupo : Interrompida(g, s.p)
SeenIsHeld == [][Retem]_vars

Backlog(f) == ~Backfill /\ f.mod < meta.seed
Conhecido(p) == \E s \in seen : s.p = p

\* A partition with a file the agent has not recorded is never cold: the next
\* pruned scan descends into it.
PartitionStaysHot ==
  \A f \in fs :
    f.p \in Sinc /\ ~Conhecido(f.p) /\ ~Backlog(f)
      => dirMod[Particao[f.p]] >= meta.lastScan - Margem

\* A synchronised nota is reported in the end, however often the API fails,
\* unless it is backlog, could not be read, or a torn batch blocks the spool.
SyncIsReported ==
  \A p \in Sinc \cap Nota :
    (\E f \in fs : f.p = p /\ f.mod + StableAge <= MaxTempo)
      ~> \/ p \in api
         \/ \E f \in fs : f.p = p /\ Backlog(f)
         \/ \E s \in seen : s.p = p /\ ~s.chave
         \/ \E i \in DOMAIN spool : spool[i].rasgado
=============================================================================
