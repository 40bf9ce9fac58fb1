------------------------------- MODULE Poller -------------------------------
(***************************************************************************)
(* internal/poller: what the tracker learns of the import from Athenas.    *)
(* Three loops of the poller run side by side (rotation, sweep, reconcile) *)
(* and an operator may run the one-off corrections of cmd/repoll beside    *)
(* them.  Each reads the store, asks Athenas, and only then writes, so     *)
(* what it writes may be older than what another has written meanwhile.    *)
(* One action is one statement of the store or of Athenas.                 *)
(***************************************************************************)
EXTENDS AthenasReader, MemoryStore, FiniteSets

CONSTANTS
  BatchSize,     \* chaves per cycle of the rotation, and per batch of a command
  HotQuota,      \* part of it kept for hot notas: int(batch * hotFraction)
  ChunkSize,     \* chaves per query of Lookup
  Quente,        \* notas whose synced_at stays within the hot window
  Antiga,        \* rows whose DATAINCLUSAO is before the windows asked for
  Desde,         \* fix: notas imported since then
  Cenario        \* which loops and commands run, and what may go wrong (bounds)

\* SWEEP_INTERVAL and RECONCILE_INTERVAL may switch their loops off.
Laco == {"rotacao", "sweep", "reconcile"}
Comando == {"repoll", "fix"}
Processo == Laco \cup Comando

\* A fraction of 1 leaves nothing to the cold queue; the default is 0.7.
ASSUME LoteAssumption == BatchSize \in Nat /\ HotQuota \in Nat /\ HotQuota < BatchSize
ASSUME ChunkAssumption == ChunkSize \in Nat \ {0}
ASSUME AgoraAssumption == MaxTempo > 0

\* The rows that matter are of chaves the tracker asks for, and a branch is one of
\* a company (the key of TABFILIAL).
ASSUME LinhasAssumption ==
  \A l \in Linha : l.chave \in ChaveAcesso /\ (l.emp = Nulo => l.fil = Nulo)

\* fixPending is the flag of repoll; falhas, comandos and remocoes bound the
\* failures, the commands started and the rows deleted in Athenas.
ASSUME CenarioAssumption ==
  Cenario \subseteq [ativos : SUBSET Processo, fixPending : BOOLEAN,
                     falhas : Nat, comandos : Nat, remocoes : Nat]

VARIABLES
  athenas,    \* the state of each row
  obs,        \* the observations the store has accepted
  fila,       \* the place of each chave by last_polled_at, least recent first
  proc,       \* what each loop and command holds in memory
  limite      \* the scenario, with what is left of its bounds

vars == <<athenas, obs, fila, proc, limite>>

\* resto is what a command has not begun yet, lote the chaves in hand, falta
\* those of them still to be looked up, visto the rows Athenas answered.
Nenhuma == [c \in ChaveAcesso |-> {}]
Parado == [pc |-> "idle", resto |-> {}, lote |-> {}, falta |-> {},
           visto |-> Nenhuma, novas |-> Nenhuma]

\* The queues: every chave has a place of its own, whatever its status.
Filas == {f \in [ChaveAcesso -> 1 .. Cardinality(ChaveAcesso)] :
            \A c, d \in ChaveAcesso : f[c] = f[d] => c = d}

\* The agent has seen every nota; the syncer has placed those that are hot.
Chegada == [event |-> "file_seen", emp |-> Nulo, fil |-> Nulo, at |-> 1]

Init ==
  /\ athenas = [l \in Linha |-> "ausente"]
  /\ obs = [c \in ChaveAcesso |-> {Chegada}]
  /\ fila \in Filas
  /\ proc = [p \in Processo |-> Parado]
  /\ limite \in Cenario
-----------------------------------------------------------------------------
(* Athenas, external: rows appear, are imported or ignored by the Horse or  *)
(* a person, and may be deleted.                                            *)

Loja == <<obs, fila, proc>>

Inclui(l) ==
  /\ athenas[l] = "ausente"
  /\ athenas' = [athenas EXCEPT ![l] = "pendente"]
  /\ UNCHANGED <<Loja, limite>>

Decide(l, estado) ==
  /\ athenas[l] = "pendente"
  /\ athenas' = [athenas EXCEPT ![l] = estado]
  /\ UNCHANGED <<Loja, limite>>

Exclui(l) ==
  /\ athenas[l] # "ausente" /\ limite.remocoes > 0
  /\ athenas' = [athenas EXCEPT ![l] = "ausente"]
  /\ limite' = [limite EXCEPT !.remocoes = @ - 1]
  /\ UNCHANGED Loja

Linhas(c) == {l \in Linha : l.chave = c /\ athenas[l] # "ausente"}
Resposta(c) == {Lida(l, athenas[l]) : l \in Linhas(c)}
-----------------------------------------------------------------------------
Ativo(p) == p \in limite.ativos

Passo(p, r) ==
  /\ proc' = [proc EXCEPT ![p] = r]
  /\ UNCHANGED <<athenas, obs, fila, limite>>

\* Look up the chaves of lote, or end the cycle when there are none.
Consulta(lote, resto) ==
  IF lote = {} THEN Parado
  ELSE [Parado EXCEPT !.pc = "lookup", !.lote = lote, !.falta = lote, !.resto = resto]

(* The rotation: PollOnce over ListInflightChaves.                          *)

\* The n of S that were polled least recently; all of S when it has fewer.
Antigas(S, n) == {c \in S : Cardinality({d \in S : fila[d] < fila[c]}) < n}

\* The chaves of S, just stamped, go last in any order (now() is one instant);
\* the others keep theirs.
Carimba(S) ==
  /\ fila' \in Filas
  /\ \A c \in ChaveAcesso \ S, d \in ChaveAcesso :
       fila'[c] < fila'[d] <=> (d \in S \/ fila[c] < fila[d])

\* Mutant of pickInflight: nothing is stamped.
PickUnstamped(S, r) ==
  /\ proc' = [proc EXCEPT !["rotacao"] = r]
  /\ UNCHANGED <<athenas, obs, fila, limite>>

\* One statement selects the chaves of S and stamps them.
pickInflight(S, r) ==
  /\ Carimba(S)
  /\ proc' = [proc EXCEPT !["rotacao"] = r]
  /\ UNCHANGED <<athenas, obs, limite>>

PickHot ==
  /\ Ativo("rotacao") /\ proc["rotacao"].pc = "idle"
  /\ \E hot \in {Antigas(Inflight(obs) \cap Quente, HotQuota)} :
       pickInflight(hot, [Parado EXCEPT !.pc = "cold", !.lote = hot])

\* Without a hot share there is one queue.
Frias == IF HotQuota = 0 THEN Inflight(obs) ELSE Inflight(obs) \ Quente

\* What the hot notas did not use goes to the cold ones.
PickCold ==
  LET hot == proc["rotacao"].lote IN
  /\ Ativo("rotacao") /\ proc["rotacao"].pc = "cold"
  /\ \E cold \in {Antigas(Frias, BatchSize - Cardinality(hot))} :
       pickInflight(cold, Consulta(hot \cup cold, {}))

(* The sweep: phase one brings only the chaves with a terminal row.          *)

TerminalChavesSince ==
  {l.chave : l \in {x \in Linha \ Antiga : athenas[x] \in {"importada", "ignorada"}}}

SweepBegin ==
  /\ Ativo("sweep") /\ proc["sweep"].pc = "idle"
  /\ TerminalChavesSince # {}
  /\ Passo("sweep", [Parado EXCEPT !.pc = "status", !.lote = TerminalChavesSince])

\* Those whose outcome the tracker knows are skipped.
SweepFresh ==
  /\ Ativo("sweep") /\ proc["sweep"].pc = "status"
  /\ LET st == StatusForChaves(obs, proc["sweep"].lote)
         fresh == {c \in proc["sweep"].lote :
                     c \notin DOMAIN st \/ st[c] \notin TerminalStatus}
     IN Passo("sweep", Consulta(fresh, {}))

(* The reconcile.                                                            *)

ImportedSince == {l.chave : l \in {x \in Linha \ Antiga : athenas[x] = "importada"}}

ReconcileBegin ==
  /\ Ativo("reconcile") /\ proc["reconcile"].pc = "idle"
  /\ ImportedSince # {}
  /\ Passo("reconcile", [Parado EXCEPT !.pc = "known", !.lote = ImportedSince])

\* Mutant of ReconcileMissing: missing by the status of the nota.
MissingByStatus ==
  /\ Ativo("reconcile") /\ proc["reconcile"].pc = "known"
  /\ LET lote == proc["reconcile"].lote IN
     Passo("reconcile",
           Consulta({c \in lote : SituacaoNota(obs[c]) \notin TerminalStatus}, {}))

ReconcileMissing ==
  /\ Ativo("reconcile") /\ proc["reconcile"].pc = "known"
  /\ LET lote == proc["reconcile"].lote IN
     Passo("reconcile", Consulta(lote \ KnownImported(obs, lote), {}))
-----------------------------------------------------------------------------
(* The one-off commands.                                                     *)

ComandoBegin(p, lista) ==
  /\ Ativo(p) /\ proc[p].pc = "idle"
  /\ limite.comandos > 0 /\ lista # {}
  /\ limite' = [limite EXCEPT !.comandos = @ - 1]
  /\ proc' = [proc EXCEPT ![p] = [Parado EXCEPT !.pc = "batch", !.resto = lista]]
  /\ UNCHANGED <<athenas, obs, fila>>

RepollBegin == ComandoBegin("repoll", ListChavesByStatus(obs, "import_ignored"))
FixBegin == ComandoBegin("fix", ListChavesImportedSince(obs, Desde))

\* The next batch of a command.
ProximoLote(p) ==
  /\ p \in Comando /\ proc[p].pc = "batch"
  /\ \/ proc[p].resto = {} /\ Passo(p, Parado)
     \/ \E S \in SUBSET proc[p].resto :
          /\ S # {} /\ Cardinality(S) <= BatchSize
          /\ Cardinality(S) = BatchSize \/ S = proc[p].resto
          /\ Passo(p, Consulta(S, proc[p].resto \ S))

\* One query of Lookup; the answer for a chave comes from one query.
LookupChunk(p) ==
  /\ proc[p].pc = "lookup"
  /\ \E S \in SUBSET proc[p].falta :
       /\ S # {} /\ Cardinality(S) <= ChunkSize
       /\ Cardinality(S) = ChunkSize \/ S = proc[p].falta
       /\ Passo(p, [proc[p] EXCEPT
            !.falta = @ \ S,
            !.visto = [c \in ChaveAcesso |-> IF c \in S THEN Resposta(c) ELSE @[c]],
            !.pc = IF S = proc[p].falta THEN "emit" ELSE @])

\* What a loop writes of what it saw; reconcile only of confirmed imports.
Confirmadas(p) ==
  {c \in proc[p].lote :
     /\ proc[p].visto[c] # {}
     /\ p = "reconcile" => selectState(proc[p].visto[c]).estado = "importada"}

Grava(p, novas, r) ==
  /\ obs' = AppendObservations(obs, novas)
  /\ proc' = [proc EXCEPT ![p] = r]
  /\ UNCHANGED <<athenas, fila, limite>>

Emite(p) ==
  /\ p \in Laco /\ proc[p].pc = "emit"
  /\ Grava(p, [c \in ChaveAcesso |-> IF c \in Confirmadas(p)
                                      THEN obsPorParticipacao(proc[p].visto[c]) ELSE {}],
           Parado)

\* Repoll walks its batch: an imported nota is emitted with the batch, one
\* that is pending after all loses its ignored observations at once, and what
\* replaces them is appended with the batch.
RepollChave(c) ==
  LET r == proc["repoll"]
      rows == r.visto[c]
      resto == [r EXCEPT !.lote = @ \ {c}]
      rep == selectState(rows)
      deste == obsPorParticipacao(rows)
  IN
  /\ Ativo("repoll") /\ r.pc = "emit" /\ c \in r.lote
  /\ \/ rows = {} /\ Passo("repoll", resto)
     \/ rows # {} /\ rep.estado = "importada"
        /\ Passo("repoll", [resto EXCEPT !.novas[c] = deste])
     \/ rows # {} /\ rep.estado = "ignorada" /\ Passo("repoll", resto)
     \/ rows # {} /\ rep.estado = "pendente" /\ ~limite.fixPending /\ Passo("repoll", resto)
     \/ /\ rows # {} /\ rep.estado = "pendente" /\ limite.fixPending
        /\ obs' = DeleteImportIgnoredObs(obs, c)
        /\ proc' = [proc EXCEPT !["repoll"] =
             [resto EXCEPT !.novas[c] = {o \in deste : o.event # "import_ignored"}]]
        /\ UNCHANGED <<athenas, fila, limite>>

RepollEmite ==
  LET r == proc["repoll"] IN
  /\ Ativo("repoll") /\ r.pc = "emit" /\ r.lote = {}
  /\ Grava("repoll", r.novas, [Parado EXCEPT !.pc = "batch", !.resto = r.resto])

\* One time for all participations: that of the row that stands for the nota.
FixChave(c) ==
  LET r == proc["fix"]
      data == DataDe(selectState(r.visto[c]))
      resto == IF r.lote = {c} THEN [Parado EXCEPT !.pc = "batch", !.resto = r.resto]
               ELSE [r EXCEPT !.lote = @ \ {c}]
  IN
  /\ Ativo("fix") /\ r.pc = "emit" /\ c \in r.lote
  /\ obs' = IF r.visto[c] = {} \/ data = Never THEN obs
            ELSE UpdateImportedObservedAt(obs, c, data)
  /\ proc' = [proc EXCEPT !["fix"] = resto]
  /\ UNCHANGED <<athenas, fila, limite>>

\* Any call fails, of Athenas or of the store: the cycle, or the command, ends.
Falha(p) ==
  /\ proc[p].pc # "idle" /\ limite.falhas > 0
  /\ limite' = [limite EXCEPT !.falhas = @ - 1]
  /\ proc' = [proc EXCEPT ![p] = Parado]
  /\ UNCHANGED <<athenas, obs, fila>>

\* The poller stops and starts again: the three loops forget their cycle.
Reinicia ==
  /\ limite.falhas > 0 /\ \E p \in Laco : proc[p].pc # "idle"
  /\ limite' = [limite EXCEPT !.falhas = @ - 1]
  /\ proc' = [p \in Processo |-> IF p \in Laco THEN Parado ELSE proc[p]]
  /\ UNCHANGED <<athenas, obs, fila>>
-----------------------------------------------------------------------------
Comandos ==
  \/ RepollBegin \/ FixBegin \/ \E p \in Comando : ProximoLote(p)
  \/ \E c \in ChaveAcesso : RepollChave(c) \/ FixChave(c)
  \/ RepollEmite

Ciclo(p) ==
  \/ p = "rotacao" /\ (PickHot \/ PickCold)
  \/ p = "sweep" /\ (SweepBegin \/ SweepFresh)
  \/ p = "reconcile" /\ (ReconcileBegin \/ ReconcileMissing)
  \/ LookupChunk(p) \/ Emite(p)

Athenas ==
  \E l \in Linha : \/ Inclui(l) \/ Exclui(l)
                  \/ Decide(l, "importada") \/ Decide(l, "ignorada")

Next ==
  \/ Athenas \/ Comandos \/ Reinicia
  \/ \E p \in Processo : Ciclo(p) \/ Falha(p)

Spec == Init /\ [][Next]_vars

\* The tickers go on, and a cycle under way goes on to its end.
FairSpec == Spec /\ \A p \in Laco : WF_vars(Ciclo(p))
-----------------------------------------------------------------------------
RowLida == [emp : Empresa \cup {Nulo}, fil : Filial \cup {Nulo}, estado : EstadoLinha,
            robo : {Never} \cup Tempo, inclusao : {Never} \cup Tempo]

\* Each loop and command holds only what belongs to where it is.
TypeOK ==
  /\ athenas \in [Linha -> EstadoLinha]
  /\ limite.ativos \subseteq Processo
  /\ obs \in Observacoes
  /\ fila \in Filas
  /\ \A p \in Processo :
       /\ proc[p].pc \in {"idle", "cold", "status", "known", "batch", "lookup", "emit"}
       /\ proc[p].lote \subseteq ChaveAcesso /\ proc[p].resto \subseteq ChaveAcesso
       /\ proc[p].falta \subseteq proc[p].lote
       /\ proc[p].visto \in [ChaveAcesso -> SUBSET RowLida]
       /\ proc[p].novas \in Observacoes

\* What Athenas has of the participation k of c.
Athena(c, k) == {r \in Resposta(c) : r.emp # Nulo /\ Chave(r) = k}
Terminou(c, k) == Athena(c, k) # {} /\ Melhor(Athena(c, k)).estado # "pendente"
Desfecho(c, k) == Viu(Daquela(obs[c], k), {"imported", "import_ignored"})

\* "a nota so termina quando TODAS terminam" (the case CLW/ROSEMBERG): a loop
\* makes a nota terminal only if every company in the answer it had from
\* Athenas had finished, or its outcome had been recorded before.
NoEarlyEnd ==
  [][\A p \in Laco :
       proc[p].pc = "emit" /\ proc'[p].pc = "idle" /\ obs' # obs =>
         \A c \in proc[p].lote :
           c \in Inflight(obs) /\ c \notin Inflight(obs') =>
             \A r \in {x \in proc[p].visto[c] : x.emp # Nulo /\ ~Desfecho(c, Chave(x))} :
               Melhor({x \in proc[p].visto[c] : Chave(x) = Chave(r)}).estado # "pendente"]_vars

\* "nada morre de fome": every nota in flight is taken by the rotation again,
\* however many notas are hot, unless it stops being in flight.
NothingStarves ==
  \A c \in ChaveAcesso :
    (Ativo("rotacao") /\ c \in Inflight(obs)) ~>
      \/ c \notin Inflight(obs)
      \/ proc["rotacao"].pc = "lookup" /\ c \in proc["rotacao"].lote

\* A company the tracker knows to be involved gets its outcome once Athenas has
\* it, whatever the loops and the corrections do to the nota meanwhile.
OutcomeRecorded ==
  \A l \in {x \in Linha : x.emp # Nulo} :
    (/\ Ativo("rotacao") /\ Chave(l) \in Envolvidas(obs[l.chave])
     /\ Terminou(l.chave, Chave(l)))
      ~> (Desfecho(l.chave, Chave(l)) \/ ~Terminou(l.chave, Chave(l)))

\* The self-heal: an import Athenas shows within the window becomes known, even
\* of a nota that left the rotation as ignored.
ImportBecomesKnown ==
  \A l \in Linha :
    (Ativo("reconcile") /\ l \notin Antiga /\ athenas[l] = "importada")
      ~> (athenas[l] # "importada" \/ l.chave \in KnownImported(obs, {l.chave}))
=============================================================================
