---------------------------- MODULE Poller_proofs ----------------------------
(***************************************************************************)
(* The poller for any companies, rows, loops running beside each other,    *)
(* commands and failures: what it holds and stores is well formed, and it  *)
(* ends no nota early.                                                     *)
(***************************************************************************)
EXTENDS Poller, NotaSpec_proofs

\* A row Athenas answered: it was there.
Vista == {r \in [emp : Empresa \cup {Nulo}, fil : Filial \cup {Nulo},
                 estado : {"pendente", "importada", "ignorada"},
                 robo : {Never} \cup Tempo, inclusao : {Never} \cup Tempo] :
            r.emp = Nulo => r.fil = Nulo}

\* The unique index: one observation of each event and company.
UmaChave(S) == \A o, x \in S : DedupKey(o) = DedupKey(x) => o = x
Unicas == {f \in Observacoes : \A c \in ChaveAcesso : UmaChave(f[c])}

\* What a process holds: what it still has to look up is of its lote, and
\* nothing is left when it begins to write.
Registros ==
  {r \in [pc : {"idle", "cold", "status", "known", "batch", "lookup", "emit"},
          resto : SUBSET ChaveAcesso, lote : SUBSET ChaveAcesso, falta : SUBSET ChaveAcesso,
          visto : [ChaveAcesso -> SUBSET Vista], novas : Unicas] :
     r.falta \subseteq r.lote /\ (r.pc = "emit" => r.falta = {})}

Limites == [ativos : SUBSET Processo, fixPending : BOOLEAN,
            falhas : Nat, comandos : Nat, remocoes : Nat]

Tipado ==
  /\ athenas \in [Linha -> EstadoLinha]
  /\ obs \in Unicas
  /\ fila \in Filas
  /\ proc \in [Processo -> Registros]
  /\ limite \in Limites
-----------------------------------------------------------------------------
\* One of the rows of a participation is the best of them.
LEMMA MelhorExiste ==
  ASSUME NEW S, S \subseteq Vista, S # {}
  PROVE  Melhor(S) \in S
<1>1. \A x \in S : partRank(x) \in 0 .. 2
  BY DEF partRank, Vista
<1>2. \E r \in S : \A x \in S : partRank(x) <= partRank(r)
  <2>1. CASE \E r \in S : partRank(r) = 2
    BY <1>1, <2>1
  <2>2. CASE (\A r \in S : partRank(r) # 2) /\ \E r \in S : partRank(r) = 1
    BY <1>1, <2>2
  <2>3. CASE \A r \in S : partRank(r) # 2 /\ partRank(r) # 1
    BY <1>1, <2>3
  <2> QED
    BY <2>1, <2>2, <2>3
<1> QED
  BY <1>2 DEF Melhor

\* One of them has the lowest company.
LEMMA MenorCodigoExiste ==
  ASSUME NEW S, S \subseteq Vista, S # {}
  PROVE  lowestCodigo(S) \in S
<1> DEFINE codigos == {r.emp : r \in {x \in S : x.emp # Nulo}}
<1>0. \A r \in S : r.emp # Nulo => r.emp \in Nat
  BY EmpresaAssumption DEF Vista
<1>1. \E r \in S : \A x \in S : ~lessCodigo(x, r)
  <2>1. CASE codigos = {}
    BY <2>1 DEF lessCodigo
  <2>2. CASE codigos # {}
    <3>1. codigos \subseteq Nat
      BY <1>0
    <3>2. PICK e \in codigos : \A d \in codigos : e <= d
      <4> HIDE DEF codigos
      <4> QED
        BY <2>2, <3>1, MenorNatural
    <3>3. PICK r \in S : r.emp # Nulo /\ r.emp = e
      BY <3>2
    <3>4. \A x \in S : ~lessCodigo(x, r)
      BY <1>0, <3>2, <3>3 DEF lessCodigo
    <3> QED
      BY <3>4
  <2> QED
    BY <2>1, <2>2
<1> QED
  BY <1>1 DEF lowestCodigo

LEMMA RepresentanteExiste ==
  ASSUME NEW S, S \subseteq Vista, S # {}
  PROVE  selectState(S) \in S
<1> DEFINE com(e) == {r \in S : r.estado = e}
<1>1. \A e : com(e) # {} => lowestCodigo(com(e)) \in S
  <2> SUFFICES ASSUME NEW e, com(e) # {} PROVE lowestCodigo(com(e)) \in S
    OBVIOUS
  <2>1. com(e) \subseteq Vista /\ com(e) \subseteq S
    OBVIOUS
  <2> HIDE DEF com
  <2> QED
    BY <2>1, MenorCodigoExiste
<1>2. com("importada") # {} \/ com("pendente") # {} \/ com("ignorada") # {}
  BY DEF Vista
<1> QED
  BY <1>1, <1>2 DEF selectState

\* The row that stands for a participation.
MelhorDe(rows, k) == Melhor({x \in rows : Chave(x) = k})

\* The observation made of a participation is that of its best row, and the only
\* one made of it.
LEMMA UmaPorParticipacao ==
  ASSUME NEW rows, rows \subseteq Vista, NEW r \in rows, r.emp # Nulo
  PROVE  /\ Chave(MelhorDe(rows, Chave(r))) = Chave(r)
         /\ obsForRow(MelhorDe(rows, Chave(r))) \in obsPorParticipacao(rows)
         /\ \A o \in obsPorParticipacao(rows) :
              Chave(o) = Chave(r) => o = obsForRow(MelhorDe(rows, Chave(r)))
<1> DEFINE donas == {x \in rows : x.emp # Nulo}
<1>1. \A x \in donas : {y \in donas : Chave(y) = Chave(x)} = {y \in rows : Chave(y) = Chave(x)}
  BY DEF Chave
<1>2. Participacoes(rows) = {MelhorDe(rows, Chave(x)) : x \in donas}
  <2>1. Participacoes(rows) = {Melhor({y \in donas : Chave(y) = k}) : k \in {Chave(x) : x \in donas}}
    BY DEF Participacoes
  <2> QED
    BY <1>1, <2>1 DEF MelhorDe
<1>3. ASSUME NEW x \in donas PROVE Chave(MelhorDe(rows, Chave(x))) = Chave(x)
  <2>1. MelhorDe(rows, Chave(x)) \in {y \in rows : Chave(y) = Chave(x)}
    BY MelhorExiste DEF MelhorDe
  <2> QED
    BY <2>1
<1>4. MelhorDe(rows, Chave(r)) \in Participacoes(rows)
  BY <1>2
<1>5. obsPorParticipacao(rows) = {obsForRow(x) : x \in Participacoes(rows)}
  BY <1>4 DEF obsPorParticipacao
<1>6. ASSUME NEW o \in obsPorParticipacao(rows), Chave(o) = Chave(r)
      PROVE  o = obsForRow(MelhorDe(rows, Chave(r)))
  <2>1. PICK x \in donas : o = obsForRow(MelhorDe(rows, Chave(x)))
    BY <1>2, <1>5
  <2>2. Chave(o) = Chave(x)
    BY <1>3, <2>1 DEF obsForRow, Chave
  <2> QED
    BY <1>6, <2>1, <2>2
<1> QED
  BY <1>3, <1>4, <1>5, <1>6

\* One observation per key of the index.
LEMMA ObservacoesUnicas ==
  ASSUME NEW rows, rows \subseteq Vista
  PROVE  UmaChave(obsPorParticipacao(rows))
<1>1. CASE Participacoes(rows) = {}
  BY <1>1 DEF obsPorParticipacao, UmaChave
<1>2. CASE Participacoes(rows) # {}
  <2> SUFFICES ASSUME NEW o \in obsPorParticipacao(rows), NEW x \in obsPorParticipacao(rows),
                      DedupKey(o) = DedupKey(x)
               PROVE  o = x
    BY DEF UmaChave
  <2>1. PICK m \in Participacoes(rows) : o = obsForRow(m)
    BY <1>2 DEF obsPorParticipacao
  <2>2. PICK r \in rows : r.emp # Nulo /\ m = Melhor({y \in {z \in rows : z.emp # Nulo} : Chave(y) = Chave(r)})
    BY <2>1 DEF Participacoes
  <2>3. m \in {y \in {z \in rows : z.emp # Nulo} : Chave(y) = Chave(r)}
    <3> DEFINE D == {y \in {z \in rows : z.emp # Nulo} : Chave(y) = Chave(r)}
    <3>1. D \subseteq Vista /\ r \in D
      BY <2>2
    <3> HIDE DEF D
    <3>2. Melhor(D) \in D
      BY <3>1, MelhorExiste
    <3> QED
      BY <2>2, <3>2 DEF D
  <2>4. Chave(o) = Chave(m) /\ Chave(x) = Chave(o)
    BY <2>1 DEF obsForRow, Chave, DedupKey
  <2> QED
    BY <2>2, <2>3, <2>4, UmaPorParticipacao
<1> QED
  BY <1>1, <1>2

\* An import without a date is dated now, so every time is one.
LEMMA ObsTipo ==
  ASSUME NEW r \in Vista
  PROVE  obsForRow(r) \in Observation
<1>1. obsForRow(r).event \in ImportEvent /\ obsForRow(r).emp = r.emp /\ obsForRow(r).fil = r.fil
  BY DEF obsForRow, EventoDe, ImportEvent, Vista
<1>2. obsForRow(r).at \in Tempo
  BY AgoraAssumption, TempoAssumption DEF obsForRow, DataDe, Agora, Vista, Tempo, Never
<1>3. obsForRow(r) \in [event : Event, emp : Empresa \cup {Nulo}, fil : Filial \cup {Nulo}, at : Tempo]
  BY <1>1, <1>2 DEF obsForRow, Event, Vista
<1> QED
  BY <1>1, <1>3 DEF Observation, Vista, ImportEvent, SyncEvent

LEMMA ObservacoesTipo ==
  ASSUME NEW rows, rows \subseteq Vista, rows # {}
  PROVE  obsPorParticipacao(rows) \subseteq Observation
<1>1. Participacoes(rows) \subseteq Vista
  <2> SUFFICES ASSUME NEW r \in rows, r.emp # Nulo
               PROVE  Melhor({y \in {z \in rows : z.emp # Nulo} : Chave(y) = Chave(r)}) \in Vista
    BY DEF Participacoes
  <2> DEFINE D == {y \in {z \in rows : z.emp # Nulo} : Chave(y) = Chave(r)}
  <2>1. D \subseteq Vista /\ r \in D
    OBVIOUS
  <2> HIDE DEF D
  <2>2. Melhor(D) \in Vista
    BY <2>1, MelhorExiste
  <2> QED
    BY <2>2 DEF D
<1> QED
  BY <1>1, ObsTipo, RepresentanteExiste DEF obsPorParticipacao
-----------------------------------------------------------------------------
(* What the store holds.                                                    *)

LEMMA AcrescentaTipo ==
  ASSUME NEW o \in Unicas, NEW lote \in Unicas
  PROVE  AppendObservations(o, lote) \in Unicas
<1>1. AppendObservations(o, lote) \in Observacoes
  BY DEF AppendObservations, Unicas, Observacoes
<1>2. ASSUME NEW c \in ChaveAcesso PROVE UmaChave(AppendObservations(o, lote)[c])
  BY DEF AppendObservations, Unicas, UmaChave
<1> QED
  BY <1>1, <1>2 DEF Unicas

LEMMA ApagaTipo ==
  ASSUME NEW o \in Unicas, NEW c \in ChaveAcesso
  PROVE  DeleteImportIgnoredObs(o, c) \in Unicas
BY DEF DeleteImportIgnoredObs, Unicas, Observacoes, UmaChave

LEMMA DataTipo ==
  ASSUME NEW o \in Unicas, NEW c \in ChaveAcesso, NEW t \in Tempo
  PROVE  UpdateImportedObservedAt(o, c, t) \in Unicas
<1> DEFINE g(x) == IF x.event = "imported" THEN [x EXCEPT !.at = t] ELSE x
           novo == {g(x) : x \in o[c]}
<1>1. o[c] \subseteq Observation /\ UmaChave(o[c])
  BY DEF Unicas, Observacoes
<1>2. \A x \in Observation : g(x) \in Observation /\ DedupKey(g(x)) = DedupKey(x)
  BY DEF Observation, DedupKey
<1>3. novo \subseteq Observation
  BY <1>1, <1>2
<1>4. UmaChave(novo)
  <2> HIDE DEF g
  <2> QED
    BY <1>1, <1>2 DEF UmaChave
<1>5. UpdateImportedObservedAt(o, c, t) = [o EXCEPT ![c] = novo]
  BY DEF UpdateImportedObservedAt
<1> HIDE DEF novo
<1> QED
  BY <1>3, <1>4, <1>5 DEF Unicas, Observacoes
-----------------------------------------------------------------------------
(* What the loops and the commands hold.                                    *)

LEMMA RespostaVista ==
  ASSUME Tipado, NEW c
  PROVE  Resposta(c) \in SUBSET Vista
<1>1. ASSUME NEW l \in Linhas(c) PROVE Lida(l, athenas[l]) \in Vista
  BY <1>1, LinhaAssumption, LinhasAssumption DEF Linhas, Lida, Vista, Tipado, EstadoLinha
<1> QED
  BY <1>1 DEF Resposta

LEMMA NadaNovo == [c \in ChaveAcesso |-> {}] \in Unicas
BY DEF Unicas, Observacoes, UmaChave

LEMMA ParadoTipo == Parado \in Registros
BY NadaNovo DEF Parado, Nenhuma, Registros

LEMMA ParadoMuda ==
  ASSUME NEW pc \in {"cold", "status", "known", "batch"}, NEW S \in SUBSET ChaveAcesso
  PROVE  /\ [Parado EXCEPT !.pc = pc, !.lote = S] \in Registros
         /\ [Parado EXCEPT !.pc = pc, !.resto = S] \in Registros
BY NadaNovo DEF Parado, Nenhuma, Registros

LEMMA ConsultaTipo ==
  ASSUME NEW lote \in SUBSET ChaveAcesso, NEW resto \in SUBSET ChaveAcesso
  PROVE  Consulta(lote, resto) \in Registros
BY NadaNovo DEF Consulta, Parado, Nenhuma, Registros

\* A step that gives one process a new record.
LEMMA UmProcesso ==
  ASSUME Tipado, NEW p \in Processo, NEW r \in Registros, proc' = [proc EXCEPT ![p] = r]
  PROVE  /\ proc' \in [Processo -> Registros]
         /\ proc'[p] = r /\ \A q \in Processo \ {p} : proc'[q] = proc[q]
BY DEF Tipado

\* A step that does only that.
LEMMA SoProcesso ==
  ASSUME Tipado, NEW p \in Processo, NEW r \in Registros, Passo(p, r)
  PROVE  Tipado'
<1>1. proc' \in [Processo -> Registros]
  BY UmProcesso DEF Passo
<1> QED
  BY <1>1 DEF Tipado, Passo

LEMMA LimiteGasta ==
  ASSUME Tipado
  PROVE  /\ limite.remocoes > 0 => [limite EXCEPT !.remocoes = @ - 1] \in Limites
         /\ limite.falhas > 0 => [limite EXCEPT !.falhas = @ - 1] \in Limites
         /\ limite.comandos > 0 => [limite EXCEPT !.comandos = @ - 1] \in Limites
BY DEF Tipado, Limites

\* The answer of one query joins what was seen.
LEMMA LookupTipo ==
  ASSUME Tipado, NEW p \in Processo, LookupChunk(p)
  PROVE  Tipado'
<1>1. PICK S \in SUBSET proc[p].falta :
        Passo(p, [proc[p] EXCEPT
            !.falta = @ \ S,
            !.visto = [c \in ChaveAcesso |-> IF c \in S THEN Resposta(c) ELSE @[c]],
            !.pc = IF S = proc[p].falta THEN "emit" ELSE @])
  BY DEF LookupChunk
<1> DEFINE v == [c \in ChaveAcesso |-> IF c \in S THEN Resposta(c) ELSE proc[p].visto[c]]
           q == IF S = proc[p].falta THEN "emit" ELSE proc[p].pc
           f == proc[p].falta \ S
<1>2. proc[p] \in Registros /\ proc[p].pc = "lookup"
  BY DEF Tipado, LookupChunk
<1>3. v \in [ChaveAcesso -> SUBSET Vista]
  BY <1>2, RespostaVista DEF Registros
<1>4. f \in SUBSET ChaveAcesso /\ f \subseteq proc[p].lote
      /\ q \in {"lookup", "emit"} /\ (q = "emit" => f = {})
  BY <1>2 DEF Registros
<1> HIDE DEF v, q, f
<1>5. [proc[p] EXCEPT !.falta = f, !.visto = v, !.pc = q] \in Registros
  BY <1>2, <1>3, <1>4 DEF Registros
<1>6. Passo(p, [proc[p] EXCEPT !.falta = f, !.visto = v, !.pc = q])
  BY <1>1 DEF v, q, f
<1> QED
  BY <1>5, <1>6, SoProcesso

LEMMA EmiteTipo ==
  ASSUME Tipado, NEW p \in Processo, Emite(p)
  PROVE  Tipado'
<1> DEFINE novas == [c \in ChaveAcesso |-> IF c \in Confirmadas(p)
                       THEN obsPorParticipacao(proc[p].visto[c]) ELSE {}]
<1>1. ASSUME NEW c \in ChaveAcesso
      PROVE  novas[c] \subseteq Observation /\ UmaChave(novas[c])
  <2>1. proc[p].visto[c] \subseteq Vista
    BY DEF Tipado, Registros
  <2>2. CASE c \in Confirmadas(p)
    <3>1. novas[c] = obsPorParticipacao(proc[p].visto[c]) /\ proc[p].visto[c] # {}
      BY <2>2 DEF Confirmadas
    <3> QED
      BY <2>1, <3>1, ObservacoesTipo, ObservacoesUnicas
  <2>3. CASE c \notin Confirmadas(p)
    <3>1. novas[c] = {}
      BY <2>3
    <3> QED
      BY <3>1 DEF UmaChave
  <2> QED
    BY <2>2, <2>3
<1>2. novas \in Unicas
  <2>1. novas = [c \in ChaveAcesso |-> novas[c]]
    OBVIOUS
  <2> HIDE DEF novas
  <2> QED
    BY <1>1, <2>1 DEF Unicas, Observacoes
<1>3. Grava(p, novas, Parado)
  BY DEF Emite
<1> HIDE DEF novas
<1>4. obs' \in Unicas
  BY <1>2, <1>3, AcrescentaTipo DEF Grava, Tipado
<1>5. proc' \in [Processo -> Registros]
  BY <1>3, UmProcesso, ParadoTipo DEF Grava
<1> QED
  BY <1>3, <1>4, <1>5 DEF Grava, Tipado

\* One chave leaves the batch of a command that writes.
LEMMA UmaMenos ==
  ASSUME NEW r \in Registros, NEW c \in ChaveAcesso, r.pc = "emit"
  PROVE  /\ [r EXCEPT !.lote = @ \ {c}] \in Registros
         /\ \A S \in SUBSET Observation : UmaChave(S) =>
              [r EXCEPT !.lote = @ \ {c}, !.novas[c] = S] \in Registros
<1>1. [r EXCEPT !.lote = @ \ {c}] \in Registros
  BY DEF Registros
<1>2. ASSUME NEW S \in SUBSET Observation, UmaChave(S)
      PROVE  [r EXCEPT !.lote = @ \ {c}, !.novas[c] = S] \in Registros
  <2>1. [r.novas EXCEPT ![c] = S] \in Unicas
    BY <1>2 DEF Registros, Unicas, Observacoes
  <2>2. [r EXCEPT !.lote = @ \ {c}, !.novas = [r.novas EXCEPT ![c] = S]] \in Registros
    BY <2>1 DEF Registros
  <2>3. [r EXCEPT !.lote = @ \ {c}, !.novas[c] = S] =
        [r EXCEPT !.lote = @ \ {c}, !.novas = [r.novas EXCEPT ![c] = S]]
    BY DEF Registros
  <2> QED
    BY <2>2, <2>3
<1> QED
  BY <1>1, <1>2

LEMMA RepollTipo ==
  ASSUME Tipado, NEW c \in ChaveAcesso, RepollChave(c)
  PROVE  Tipado'
<1> DEFINE r == proc["repoll"]
           rows == r.visto[c]
           resto == [r EXCEPT !.lote = @ \ {c}]
           deste == obsPorParticipacao(rows)
<1>1. "repoll" \in Processo /\ r \in Registros /\ r.pc = "emit" /\ rows \subseteq Vista
  BY DEF Processo, Comando, Tipado, Registros, RepollChave
<1>2. resto \in Registros
  BY <1>1, UmaMenos
<1>3. ASSUME rows # {}, NEW S \in SUBSET deste PROVE [resto EXCEPT !.novas[c] = S] \in Registros
  <2>1. deste \subseteq Observation /\ UmaChave(deste)
    BY <1>1, <1>3, ObservacoesTipo, ObservacoesUnicas
  <2>2. S \in SUBSET Observation /\ UmaChave(S)
    BY <2>1 DEF UmaChave
  <2>3. [resto EXCEPT !.novas[c] = S] = [r EXCEPT !.lote = @ \ {c}, !.novas[c] = S]
    BY <1>1 DEF Registros
  <2> HIDE DEF r, deste, resto
  <2> QED
    BY <1>1, <2>2, <2>3, UmaMenos
<1>4. CASE Passo("repoll", resto)
  BY <1>1, <1>2, <1>4, SoProcesso
<1>5. CASE rows # {} /\ Passo("repoll", [resto EXCEPT !.novas[c] = deste])
  <2>1. [resto EXCEPT !.novas[c] = deste] \in Registros
    BY <1>3, <1>5
  <2> HIDE DEF deste, resto
  <2> QED
    BY <1>1, <1>5, <2>1, SoProcesso
<1>6. CASE /\ rows # {}
           /\ obs' = DeleteImportIgnoredObs(obs, c)
           /\ proc' = [proc EXCEPT !["repoll"] =
                [resto EXCEPT !.novas[c] = {o \in deste : o.event # "import_ignored"}]]
           /\ UNCHANGED <<athenas, fila, limite>>
  <2> DEFINE S == {o \in deste : o.event # "import_ignored"}
  <2>1. [resto EXCEPT !.novas[c] = S] \in Registros
    <3>1. S \in SUBSET deste
      OBVIOUS
    <3> HIDE DEF S, deste, resto
    <3> QED
      BY <1>3, <1>6, <3>1
  <2>2. obs' \in Unicas
    BY <1>6, ApagaTipo DEF Tipado
  <2>3. proc' = [proc EXCEPT !["repoll"] = [resto EXCEPT !.novas[c] = S]]
    BY <1>6
  <2> HIDE DEF S, deste, resto
  <2>4. proc' \in [Processo -> Registros]
    BY <1>1, <2>1, <2>3, UmProcesso
  <2> QED
    BY <1>6, <2>2, <2>4 DEF Tipado
<1> QED
  BY <1>4, <1>5, <1>6 DEF RepollChave

LEMMA FixTipo ==
  ASSUME Tipado, NEW c \in ChaveAcesso, FixChave(c)
  PROVE  Tipado'
<1> DEFINE r == proc["fix"]
           data == DataDe(selectState(r.visto[c]))
           resto == IF r.lote = {c} THEN [Parado EXCEPT !.pc = "batch", !.resto = r.resto]
                    ELSE [r EXCEPT !.lote = @ \ {c}]
<1>1. "fix" \in Processo /\ r \in Registros /\ r.pc = "emit" /\ r.visto[c] \subseteq Vista
  BY DEF Processo, Comando, Tipado, Registros, FixChave
<1>2. resto \in Registros
  <2>1. r.resto \in SUBSET ChaveAcesso
    BY <1>1 DEF Registros
  <2> HIDE DEF r
  <2> QED
    BY <1>1, <2>1, UmaMenos, ParadoMuda
<1>3. obs' \in Unicas
  <2>1. CASE r.visto[c] = {} \/ data = Never
    BY <2>1 DEF FixChave, Tipado
  <2>2. CASE r.visto[c] # {} /\ data # Never
    <3>1. selectState(r.visto[c]) \in Vista
      BY <1>1, <2>2, RepresentanteExiste
    <3>2. data \in Tempo
      BY <2>2, <3>1 DEF DataDe, Vista
    <3>3. obs' = UpdateImportedObservedAt(obs, c, data)
      BY <2>2 DEF FixChave
    <3> HIDE DEF data
    <3> QED
      BY <3>2, <3>3, DataTipo DEF Tipado
  <2> QED
    BY <2>1, <2>2
<1>4. proc' = [proc EXCEPT !["fix"] = resto] /\ UNCHANGED <<athenas, fila, limite>>
  BY DEF FixChave
<1> HIDE DEF resto
<1>5. proc' \in [Processo -> Registros]
  BY <1>1, <1>2, <1>4, UmProcesso
<1> QED
  BY <1>3, <1>4, <1>5 DEF Tipado

\* One statement picks and stamps.
LEMMA PickTipo ==
  ASSUME Tipado, NEW S, NEW r \in Registros, pickInflight(S, r)
  PROVE  Tipado'
<1>1. proc' \in [Processo -> Registros]
  BY UmProcesso DEF pickInflight, Processo, Laco
<1> QED
  BY <1>1 DEF Tipado, pickInflight, Carimba

\* The lists the loops and commands begin with are of chaves the store knows, or
\* that Athenas has rows of.
LEMMA Listas ==
  ASSUME NEW s, NEW n, NEW T
  PROVE  /\ Inflight(obs) \subseteq ChaveAcesso /\ Frias \subseteq ChaveAcesso
         /\ Antigas(T, n) \subseteq T
         /\ TerminalChavesSince \subseteq ChaveAcesso /\ ImportedSince \subseteq ChaveAcesso
         /\ ListChavesByStatus(obs, s) \subseteq ChaveAcesso
         /\ ListChavesImportedSince(obs, n) \subseteq ChaveAcesso
BY LinhasAssumption
DEF Inflight, Conhecidas, Frias, Antigas, TerminalChavesSince, ImportedSince, ListChavesByStatus,
    ListChavesImportedSince

LEMMA TipadoInit == Init => Tipado
<1> SUFFICES ASSUME Init PROVE Tipado
  OBVIOUS
<1>1. Chegada \in Observation
  BY AgoraAssumption, TempoAssumption
  DEF Chegada, Observation, Event, ArrivalEvent, SyncEvent, Tempo
<1>2. obs \in Unicas
  BY <1>1 DEF Init, Unicas, Observacoes, UmaChave
<1>3. limite \in Limites
  BY CenarioAssumption DEF Init, Limites
<1> QED
  BY <1>2, <1>3, ParadoTipo DEF Init, Tipado, EstadoLinha

LEMMA TipadoStep ==
  ASSUME Tipado, [Next]_vars
  PROVE  Tipado'
<1>1. ASSUME NEW l \in Linha, Inclui(l) \/ Exclui(l) \/ Decide(l, "importada") \/ Decide(l, "ignorada")
      PROVE  Tipado'
  <2>1. athenas' \in [Linha -> EstadoLinha]
    BY <1>1 DEF Inclui, Exclui, Decide, Tipado, EstadoLinha
  <2>2. limite' \in Limites
    BY <1>1, LimiteGasta DEF Inclui, Exclui, Decide, Tipado
  <2> QED
    BY <1>1, <2>1, <2>2 DEF Inclui, Exclui, Decide, Loja, Tipado
<1>2. CASE PickHot
  <2>1. PICK hot : hot \subseteq ChaveAcesso /\ pickInflight(hot, [Parado EXCEPT !.pc = "cold", !.lote = hot])
    <3>1. Antigas(Inflight(obs) \cap Quente, HotQuota) \subseteq ChaveAcesso
      BY Listas
    <3> QED
      BY <1>2, <3>1 DEF PickHot
  <2> QED
    BY <2>1, PickTipo, ParadoMuda
<1>3. CASE PickCold
  <2> DEFINE hot == proc["rotacao"].lote
  <2>1. hot \subseteq ChaveAcesso
    BY DEF Tipado, Registros, Processo, Laco
  <2>2. PICK cold : cold \subseteq ChaveAcesso /\ pickInflight(cold, Consulta(hot \cup cold, {}))
    <3>1. Antigas(Frias, BatchSize - Cardinality(hot)) \subseteq ChaveAcesso
      BY Listas
    <3> QED
      BY <1>3, <3>1 DEF PickCold
  <2>3. Consulta(hot \cup cold, {}) \in Registros
    BY <2>1, <2>2, ConsultaTipo
  <2> QED
    BY <2>2, <2>3, PickTipo
<1>4. CASE SweepBegin \/ ReconcileBegin
  BY <1>4, SoProcesso, ParadoMuda, Listas DEF SweepBegin, ReconcileBegin, Processo, Laco
<1>5. CASE SweepFresh
  <2>1. PICK S : S \subseteq proc["sweep"].lote /\ Passo("sweep", Consulta(S, {}))
    BY <1>5 DEF SweepFresh
  <2>2. S \subseteq ChaveAcesso
    BY <2>1 DEF Tipado, Registros, Processo, Laco
  <2> QED
    BY <2>1, <2>2, SoProcesso, ConsultaTipo DEF Processo, Laco
<1>6. CASE ReconcileMissing
  <2>1. PICK S : S \subseteq proc["reconcile"].lote /\ Passo("reconcile", Consulta(S, {}))
    BY <1>6 DEF ReconcileMissing
  <2>2. S \subseteq ChaveAcesso
    BY <2>1 DEF Tipado, Registros, Processo, Laco
  <2> QED
    BY <2>1, <2>2, SoProcesso, ConsultaTipo DEF Processo, Laco
<1>7. ASSUME NEW p \in Processo, Falha(p) PROVE Tipado'
  <2>1. proc' \in [Processo -> Registros] /\ limite' \in Limites
    BY <1>7, UmProcesso, ParadoTipo, LimiteGasta DEF Falha
  <2> QED
    BY <1>7, <2>1 DEF Falha, Tipado
<1>8. CASE Reinicia
  <2>1. proc' \in [Processo -> Registros] /\ limite' \in Limites
    BY <1>8, ParadoTipo, LimiteGasta DEF Reinicia, Tipado
  <2> QED
    BY <1>8, <2>1 DEF Reinicia, Tipado
<1>9. ASSUME NEW p \in Comando, ProximoLote(p) PROVE Tipado'
  <2>1. p \in Processo /\ proc[p].resto \subseteq ChaveAcesso
    BY DEF Tipado, Registros, Processo
  <2>2. CASE Passo(p, Parado)
    BY <2>1, <2>2, SoProcesso, ParadoTipo
  <2>3. ASSUME NEW S \in SUBSET proc[p].resto, Passo(p, Consulta(S, proc[p].resto \ S)) PROVE Tipado'
    <3>1. Consulta(S, proc[p].resto \ S) \in Registros
      BY <2>1, ConsultaTipo
    <3> QED
      BY <2>1, <2>3, <3>1, SoProcesso
  <2> QED
    BY <1>9, <2>2, <2>3 DEF ProximoLote
<1>10. ASSUME NEW p \in Comando, NEW lista \in SUBSET ChaveAcesso, ComandoBegin(p, lista) PROVE Tipado'
  <2>1. proc' \in [Processo -> Registros] /\ limite' \in Limites
    BY <1>10, UmProcesso, ParadoMuda, LimiteGasta DEF ComandoBegin, Processo
  <2> QED
    BY <1>10, <2>1 DEF ComandoBegin, Tipado
<1>11. CASE RepollBegin \/ FixBegin
  BY <1>10, <1>11, Listas DEF RepollBegin, FixBegin, Comando
<1>12. CASE RepollEmite
  <2> DEFINE r == proc["repoll"]
  <2>1. "repoll" \in Processo /\ r \in Registros /\ r.novas \in Unicas /\ r.resto \in SUBSET ChaveAcesso
    BY DEF Tipado, Registros, Processo, Comando
  <2>2. Grava("repoll", r.novas, [Parado EXCEPT !.pc = "batch", !.resto = r.resto])
    BY <1>12 DEF RepollEmite
  <2> HIDE DEF r
  <2>3. obs' \in Unicas /\ proc' \in [Processo -> Registros]
    BY <2>1, <2>2, AcrescentaTipo, UmProcesso, ParadoMuda DEF Grava, Tipado
  <2> QED
    BY <2>2, <2>3 DEF Grava, Tipado
<1>13. CASE UNCHANGED vars
  BY <1>13 DEF vars, Tipado
<1> QED
  BY <1>1, <1>2, <1>3, <1>4, <1>5, <1>6, <1>7, <1>8, <1>9, <1>11, <1>12, <1>13,
     LookupTipo, EmiteTipo, RepollTipo, FixTipo
  DEF Next, Athenas, Comandos, Ciclo

\* Whatever loops, commands and failures interleave, what is stored is an
\* observation, with a time of its own: an import without a date is dated now.
THEOREM TypeCorrect == Spec => []TypeOK
<1>1. Tipado => TypeOK
  BY DEF Tipado, TypeOK, Limites, Unicas, Registros, Vista, RowLida, EstadoLinha
<1> QED
  BY <1>1, TipadoInit, TipadoStep, PTL DEF Spec

\* No batch and no correction gives a nota two observations of one event and one
\* company, which the unique index of the store would refuse.
UmaDeCada == \A c \in ChaveAcesso : UmaChave(obs[c])
THEOREM OneOfEach == Spec => []UmaDeCada
<1>1. Tipado => UmaDeCada
  BY DEF Tipado, Unicas, UmaDeCada
<1> QED
  BY <1>1, TipadoInit, TipadoStep, PTL DEF Spec
-----------------------------------------------------------------------------
\* What an append leaves of a nota: what was there, and of each observation of
\* the batch itself or one with its key.
LEMMA Acrescenta ==
  ASSUME NEW o, NEW lote, NEW c \in ChaveAcesso
  PROVE  /\ AppendObservations(o, lote)[c] \subseteq o[c] \cup lote[c]
         /\ \A x \in lote[c] : \E y \in AppendObservations(o, lote)[c] : DedupKey(y) = DedupKey(x)
BY DEF AppendObservations

\* A loop ends a nota only when no company in its answer is left open.
LEMMA EmiteNaoAntecipa ==
  ASSUME Tipado, NEW p \in Processo, Emite(p),
         NEW c \in Inflight(obs), c \notin Inflight(obs'),
         NEW r \in proc[p].visto[c], r.emp # Nulo, ~Desfecho(c, Chave(r))
  PROVE  MelhorDe(proc[p].visto[c], Chave(r)).estado # "pendente"
<1> DEFINE rows == proc[p].visto[c]
           m == MelhorDe(rows, Chave(r))
           novas == [d \in ChaveAcesso |-> IF d \in Confirmadas(p)
                       THEN obsPorParticipacao(proc[p].visto[d]) ELSE {}]
<1>1. c \in ChaveAcesso /\ obs[c] # {} /\ SituacaoNota(obs[c]) \notin TerminalStatus
  BY DEF Inflight, Conhecidas
<1>2. obs' = AppendObservations(obs, novas)
  BY DEF Emite, Grava
<1>3. obs[c] \subseteq obs'[c]
  BY <1>1, <1>2 DEF AppendObservations
<1>4. SituacaoNota(obs'[c]) \in TerminalStatus
  BY <1>1, <1>3 DEF Inflight, Conhecidas
<1>5. novas[c] = IF c \in Confirmadas(p) THEN obsPorParticipacao(rows) ELSE {}
  BY <1>1
<1>6. rows \subseteq Vista /\ r \in rows
  BY <1>1 DEF Tipado, Registros
<1> HIDE DEF novas, rows
<1>7. /\ obs'[c] \subseteq obs[c] \cup novas[c]
      /\ \A x \in novas[c] : \E y \in obs'[c] : DedupKey(y) = DedupKey(x)
  BY <1>1, <1>2, Acrescenta
<1>8. novas[c] = obsPorParticipacao(rows)
  BY <1>1, <1>3, <1>4, <1>5, <1>7
<1> SUFFICES ASSUME m.estado = "pendente" PROVE FALSE
  BY DEF rows
<1>9. /\ Chave(m) = Chave(r) /\ obsForRow(m) \in novas[c]
      /\ \A o \in novas[c] : Chave(o) = Chave(r) => o = obsForRow(m)
  BY <1>6, <1>8, UmaPorParticipacao
<1>10. obsForRow(m).event = "seen_pending" /\ Chave(obsForRow(m)) = Chave(r)
  BY <1>9 DEF obsForRow, EventoDe, Chave
<1> HIDE DEF m
<1>11. Chave(r) \in Envolvidas(obs'[c])
  <2>1. PICK y \in obs'[c] : DedupKey(y) = DedupKey(obsForRow(m))
    BY <1>7, <1>9
  <2>2. y.event = "seen_pending" /\ Chave(y) = Chave(r) /\ y.emp # Nulo
    BY <1>10, <2>1 DEF DedupKey, Chave
  <2> QED
    BY <2>2 DEF Envolvidas, ImportEvent
<1>12. PICK z \in obs'[c] : z.emp # Nulo /\ Chave(z) = Chave(r) /\ z.event \in {"imported", "import_ignored"}
  BY <1>4, <1>11, TerminalHasAllOutcomes DEF Viu, Daquela
<1>13. z \notin obs[c]
  BY <1>12 DEF Desfecho, Viu, Daquela
<1>14. z \in novas[c]
  BY <1>7, <1>12, <1>13
<1> QED
  BY <1>9, <1>10, <1>12, <1>14

\* Of the steps that end the cycle of a loop, only its own writes.
LEMMA SoEmite ==
  ASSUME Tipado, [Next]_vars, NEW p \in Laco,
         proc[p].pc = "emit", proc'[p].pc = "idle", obs' # obs
  PROVE  Emite(p)
<1>1. ASSUME NEW q \in Processo, Emite(q) PROVE q = p
  BY <1>1, UmProcesso, ParadoTipo DEF Emite, Grava, Laco, Processo
<1>2. CASE Comandos
  BY <1>2
  DEF Comandos, RepollBegin, FixBegin, ComandoBegin, ProximoLote, Passo, RepollChave, RepollEmite,
      FixChave, Grava, Tipado, Laco, Comando, Processo
<1>3. CASE Athenas \/ Reinicia \/ UNCHANGED vars
  BY <1>3 DEF Athenas, Inclui, Exclui, Decide, Loja, Reinicia, vars
<1>4. ASSUME NEW q \in Processo, Falha(q) \/ LookupChunk(q) PROVE FALSE
  BY <1>4 DEF Falha, LookupChunk, Passo
<1>5. CASE PickHot \/ PickCold \/ SweepBegin \/ SweepFresh \/ ReconcileBegin \/ ReconcileMissing
  BY <1>5
  DEF PickHot, PickCold, pickInflight, SweepBegin, SweepFresh, ReconcileBegin, ReconcileMissing, Passo
<1> QED
  BY <1>1, <1>2, <1>3, <1>4, <1>5 DEF Next, Ciclo

\* "a nota so termina quando TODAS terminam" (the case CLW/ROSEMBERG): the rows a
\* loop emits are one per participation, each the best of those it was answered,
\* so a company still to import holds the nota open, whoever writes meanwhile.
THEOREM NoEarlyEndHolds == Spec => NoEarlyEnd
<1>1. Init => Tipado
  BY TipadoInit
<1>2. Tipado /\ [Next]_vars => Tipado'
  BY TipadoStep
<1> DEFINE Cedo ==
      \A p \in Laco :
        proc[p].pc = "emit" /\ proc'[p].pc = "idle" /\ obs' # obs =>
          \A c \in proc[p].lote :
            c \in Inflight(obs) /\ c \notin Inflight(obs') =>
              \A r \in {x \in proc[p].visto[c] : x.emp # Nulo /\ ~Desfecho(c, Chave(x))} :
                Melhor({x \in proc[p].visto[c] : Chave(x) = Chave(r)}).estado # "pendente"
<1>3. Tipado /\ [Next]_vars => Cedo
  BY SoEmite, EmiteNaoAntecipa DEF Processo, MelhorDe
<1>4. Tipado /\ [Next]_vars => [Cedo]_vars
  BY <1>3
<1> QED
  BY <1>1, <1>2, <1>4, PTL DEF Spec, NoEarlyEnd
=============================================================================
