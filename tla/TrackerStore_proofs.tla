------------------------ MODULE TrackerStore_proofs ------------------------
(***************************************************************************)
(* Safety of the transactions of the tracker's store for any notas,        *)
(* batches and number of connections.  Tipado, the shape of the state, and *)
(* Escrita, the row locks, hold together; every property is proved from    *)
(* them and one more conjunct of its own.                                  *)
(***************************************************************************)
EXTENDS TrackerStore, FiniteSetTheorems, TLAPS

-----------------------------------------------------------------------------
LEMMA PrimeiraType ==
  ASSUME NEW S \in SUBSET Observation, NEW E
  PROVE  /\ Primeira(S, E) \in {Never} \cup Tempo
         /\ Primeira(S, E) # Never => Viu(S, E)
BY DEF Primeira, Observation, Viu

LEMMA NotaDeType ==
  ASSUME NEW S \in SUBSET Observation
  PROVE  NotaDe(S) \in NotaRow
BY PrimeiraType DEF NotaDe, NotaRow, SituacaoNota, NotaStatus

LEMMA ParticipacoesDeType ==
  ASSUME NEW S \in SUBSET Observation
  PROVE  ParticipacoesDe(S) \in Partes
<1>1. Envolvidas(S) \subseteq ChavesDeParticipacao
  BY DEF Envolvidas, Chave, ChavesDeParticipacao, Observation
<1>2. \A k : SituacaoDe(S, k) \in NotaStatus
  BY DEF SituacaoDe, NotaStatus
<1>3. ParticipacoesDe(S) \in [Envolvidas(S) -> NotaStatus]
  BY <1>2 DEF ParticipacoesDe
<1> QED
  BY <1>1, <1>3 DEF Partes

LEMMA ObservadaEmType ==
  ASSUME NEW x \in Row, NEW t \in Tempo
  PROVE  /\ ObservadaEm(x, t) \in Row
         /\ ObservadaEm(x, t).chave = x.chave
         /\ ObservadaEm(x, t).o.event = x.o.event
         /\ \A u : ObservadaEm(ObservadaEm(x, t), u) = ObservadaEm(x, u)
         /\ ObservadaEm(x, x.o.at) = x
<1>1. x.o.at \in Tempo
  BY DEF Row, Observation
<1>2. [x.o EXCEPT !.at = t] \in Observation
  BY DEF Row, Observation
<1>3. ObservadaEm(x, t) = [x EXCEPT !.o = [x.o EXCEPT !.at = t]]
  BY DEF ObservadaEm
<1> QED
  BY <1>2, <1>3 DEF ObservadaEm, Row, Observation

LEMMA ConhecidasType ==
  /\ Conhecidas \subseteq Row
  /\ UNION Lotes \subseteq Conhecidas
  /\ \A x \in Conhecidas, t \in Tempo : ObservadaEm(x, t) \in Conhecidas
<1>1. UNION Lotes \subseteq Row
  BY LotesAssumption
<1>2. \A x \in Row : x.o.at \in Tempo
  BY DEF Row, Observation
<1> QED
  BY <1>1, <1>2, ObservadaEmType DEF Conhecidas

LEMMA OfType ==
  ASSUME NEW rows, rows \subseteq Conhecidas, NEW c
  PROVE  Of(rows, c) \in SUBSET Observation /\ Of(rows, c) \in SUBSET Of(Conhecidas, c)
BY ConhecidasType DEF Of, Row
-----------------------------------------------------------------------------
(* Type correctness, for the moment with counters that may be negative.    *)

\* Between the load and the participations, a transaction works on one chave.
MeioPC == {"upsert", "countOld", "countNew", "parts"}

\* What a transaction t relies on between two statements, beside the committed
\* rows n of notas.
Coerente(t, n) ==
  /\ t.pc = "idle" => t = Ocioso
  /\ t.pc = "insert" => \A c \in ChaveAcesso : t.notas[c] = Nenhuma
  /\ t.pc \in MeioPC => t.chave \in t.affected
  /\ t.pc \in MeioPC \ {"upsert"} => t.notas[t.chave] = t.lida.nota
  /\ t.pc = "countOld" => n[t.chave] # Nenhuma
  /\ \A c \in t.affected : t.notas[c] # Nenhuma =>
       t.pc \in MeioPC \ {"upsert"} /\ c = t.chave

\* The lock on a row of notas: no two open transactions have written it.
Exclusiva ==
  \A v, w \in Worker, c \in ChaveAcesso : v # w => ~(Wrote(v, c) /\ Wrote(w, c))

Escrita == Exclusiva /\ \A w \in Worker : Coerente(tx[w], notas)

Tipado ==
  /\ observations \subseteq Conhecidas
  /\ notas \in [ChaveAcesso -> NotaRow \cup {Nenhuma}]
  /\ nota_empresa \in [ChaveAcesso -> Partes]
  /\ counts \in [NotaStatus -> Int]
  /\ tx \in [Worker -> TxType]

LEMMA OciosoType == Ocioso \in TxType
<1>1. NotaDe({}) \in NotaRow /\ ParticipacoesDe({}) \in Partes
  BY NotaDeType, ParticipacoesDeType
<1> QED
  BY <1>1 DEF Ocioso, TxType

\* The transaction of w after each statement.
DoAppend(lote) ==
  [Ocioso EXCEPT !.pc = IF lote = {} THEN "recompute" ELSE "insert", !.todo = lote]
DoInsert(w, x, known) ==
  [tx[w] EXCEPT
     !.todo = @ \ {x},
     !.ins = IF known THEN @ ELSE @ \cup {x},
     !.affected = IF known THEN @ ELSE @ \cup {x.chave},
     !.pc = IF tx[w].todo = {x} THEN "recompute" ELSE @]
DoDelete(c) ==
  [Ocioso EXCEPT !.pc = "recompute", !.affected = {c}, !.del = Ignoradas(c)]
DoUpdate(c, t) ==
  [Ocioso EXCEPT
     !.pc = "recompute", !.affected = {c}, !.del = Corrigidas(c, t),
     !.ins = {ObservadaEm(x, t) : x \in Corrigidas(c, t)}]
DoSkip(w, c) == [tx[w] EXCEPT !.affected = @ \ {c}]
DoLoad(w, c) ==
  [tx[w] EXCEPT
     !.pc = "upsert", !.chave = c,
     !.lida = [nota |-> NotaDe(Of(Visible(w), c)),
               partes |-> ParticipacoesDe(Of(Visible(w), c))]]
DoUpsert(w) ==
  [tx[w] EXCEPT !.notas[tx[w].chave] = tx[w].lida.nota,
                !.pc = AfterUpsert(notas[tx[w].chave], tx[w].lida.nota)]
DoCount(w, s, by, next) ==
  [tx[w] EXCEPT !.delta[s] = @ + by, !.locks = @ \cup {s}, !.pc = next]
DoReplace(w) ==
  [tx[w] EXCEPT !.partes[tx[w].chave] = tx[w].lida.partes,
                !.affected = @ \ {tx[w].chave}, !.pc = "recompute"]

\* t is what a transaction of w can begin with, or the next it can turn into.
Inicio(w, t) ==
  \/ \E lote \in Lotes : t = DoAppend(lote)
  \/ \E c \in ChaveAcesso : Free(w, Ignoradas(c)) /\ t = DoDelete(c)
  \/ \E c \in ChaveAcesso, at \in Tempo :
       Free(w, Corrigidas(c, at)) /\ t = DoUpdate(c, at)

Continua(w, t) ==
  \/ \E x \in tx[w].todo, known \in BOOLEAN :
       /\ tx[w].pc = "insert" /\ Free(w, {x})
       /\ known <=> \E y \in Visible(w) : DedupKey(y) = DedupKey(x)
       /\ t = DoInsert(w, x, known)
  \/ \E c \in tx[w].affected :
       /\ tx[w].pc = "recompute"
       /\ \/ Of(Visible(w), c) = {} /\ t = DoSkip(w, c)
          \/ Of(Visible(w), c) # {} /\ t = DoLoad(w, c)
  \/ /\ tx[w].pc = "upsert" /\ t = DoUpsert(w)
     /\ \A v \in Others(w) : ~Wrote(v, tx[w].chave)
  \/ /\ tx[w].pc = "countOld"
     /\ t = DoCount(w, notas[tx[w].chave].status, -1, "countNew")
  \/ /\ tx[w].pc = "countNew"
     /\ t = DoCount(w, tx[w].lida.nota.status, 1, "parts")
  \/ tx[w].pc = "parts" /\ t = DoReplace(w)
  \/ tx[w].pc # "idle" /\ t = Ocioso

LEMMA BeginType ==
  ASSUME Tipado, NEW w \in Worker, NEW t \in TxType, Begin(w, t)
  PROVE  Tipado'
<1>1. \A u \in TxType, b \in BOOLEAN : [u EXCEPT !.alone = b] \in TxType
  BY DEF TxType
<1>2. tx' \in [Worker -> TxType]
  BY <1>1 DEF Begin, Tipado
<1> QED
  BY <1>2 DEF Begin, Tipado

LEMMA StepType ==
  ASSUME Tipado, NEW w \in Worker, NEW t \in TxType, Step(w, t)
  PROVE  Tipado'
BY DEF Step, Tipado

LEMMA TipadoInit == Init => Tipado
<1>1. ParticipacoesDe({}) \in Partes
  BY ParticipacoesDeType
<1> QED
  BY <1>1, OciosoType DEF Init, Tipado

LEMMA DoTypes ==
  ASSUME Tipado, Escrita, NEW w \in Worker
  PROVE  /\ \A lote \in Lotes : DoAppend(lote) \in TxType
         /\ \A x \in tx[w].todo, known \in BOOLEAN : DoInsert(w, x, known) \in TxType
         /\ \A c \in ChaveAcesso :
              /\ DoDelete(c) \in TxType
              /\ \A t \in Tempo : DoUpdate(c, t) \in TxType
              /\ DoSkip(w, c) \in TxType
              /\ DoLoad(w, c) \in TxType
         /\ DoUpsert(w) \in TxType
         /\ tx[w].pc = "countOld" =>
              /\ notas[tx[w].chave].status \in NotaStatus
              /\ DoCount(w, notas[tx[w].chave].status, -1, "countNew") \in TxType
         /\ DoCount(w, tx[w].lida.nota.status, 1, "parts") \in TxType
         /\ DoReplace(w) \in TxType
<1>0. tx[w] \in TxType /\ observations \subseteq Conhecidas
  BY DEF Tipado
<1>1. \A lote \in Lotes : DoAppend(lote) \in TxType
  BY OciosoType, ConhecidasType DEF DoAppend, TxType
<1>2. ASSUME NEW x \in tx[w].todo, NEW known \in BOOLEAN
      PROVE  DoInsert(w, x, known) \in TxType
  <2>1. x \in Conhecidas /\ x.chave \in ChaveAcesso
    BY <1>0, ConhecidasType DEF TxType, Row
  <2> QED
    BY <1>0, <2>1 DEF DoInsert, TxType
<1>3. ASSUME NEW c \in ChaveAcesso PROVE DoDelete(c) \in TxType
  BY <1>0, OciosoType DEF DoDelete, TxType, Ignoradas
<1>4. ASSUME NEW c \in ChaveAcesso, NEW t \in Tempo PROVE DoUpdate(c, t) \in TxType
  <2>1. /\ Corrigidas(c, t) \subseteq Conhecidas
        /\ {ObservadaEm(x, t) : x \in Corrigidas(c, t)} \subseteq Conhecidas
    BY <1>0, ConhecidasType DEF Corrigidas
  <2> QED
    BY <2>1, OciosoType DEF DoUpdate, TxType
<1>5. ASSUME NEW c \in ChaveAcesso PROVE DoSkip(w, c) \in TxType
  BY <1>0 DEF DoSkip, TxType
<1>6. ASSUME NEW c \in ChaveAcesso PROVE DoLoad(w, c) \in TxType
  <2>1. Of(Visible(w), c) \in SUBSET Observation
    BY <1>0, OfType DEF Visible, TxType
  <2>2. /\ NotaDe(Of(Visible(w), c)) \in NotaRow
        /\ ParticipacoesDe(Of(Visible(w), c)) \in Partes
    BY <2>1, NotaDeType, ParticipacoesDeType
  <2> QED
    BY <1>0, <2>2 DEF DoLoad, TxType
<1>7. DoUpsert(w) \in TxType
  <2>1. AfterUpsert(notas[tx[w].chave], tx[w].lida.nota)
          \in {"countNew", "countOld", "parts"}
    BY DEF AfterUpsert
  <2>2. tx[w].lida.nota \in NotaRow
    BY <1>0 DEF TxType
  <2> QED
    BY <1>0, <2>1, <2>2 DEF DoUpsert, TxType
<1>8. ASSUME NEW s \in NotaStatus, NEW by \in Int, NEW next \in {"countNew", "parts"}
      PROVE  DoCount(w, s, by, next) \in TxType
  <2>1. [tx[w].delta EXCEPT ![s] = @ + by] \in [NotaStatus -> Int]
    BY <1>0 DEF TxType
  <2>2. tx[w].locks \cup {s} \in SUBSET NotaStatus
    BY <1>0 DEF TxType
  <2> QED
    BY <1>0, <2>1, <2>2 DEF DoCount, TxType
<1>9. tx[w].lida.nota.status \in NotaStatus
  BY <1>0 DEF TxType, NotaRow
<1>10. ASSUME tx[w].pc = "countOld" PROVE notas[tx[w].chave].status \in NotaStatus
  BY <1>0, <1>10 DEF Tipado, TxType, Escrita, Coerente, MeioPC, NotaRow
<1>11. DoReplace(w) \in TxType
  BY <1>0 DEF DoReplace, TxType
<1> QED
  BY <1>1, <1>2, <1>3, <1>4, <1>5, <1>6, <1>7, <1>8, <1>9, <1>10, <1>11

\* Every step begins a transaction, continues one or commits one.
LEMMA Passos ==
  ASSUME Tipado, Escrita, Next
  PROVE  \E w \in Worker :
           \/ \E t \in TxType : Inicio(w, t) /\ Begin(w, t)
           \/ \E t \in TxType : Continua(w, t) /\ Step(w, t)
           \/ Commit(w)
<1>1. PICK w \in Worker :
    \/ \E lote \in Lotes : AppendObservations(w, lote)
    \/ \E x \in tx[w].todo : Insert(w, x)
    \/ \E c \in ChaveAcesso :
         \/ DeleteImportIgnoredObs(w, c)
         \/ \E t \in Tempo : UpdateImportedObservedAt(w, c, t)
         \/ SkipChave(w, c) \/ LoadObservations(w, c)
    \/ UpsertNota(w) \/ CountOld(w) \/ CountNew(w) \/ ReplaceParticipacoes(w)
    \/ Commit(w) \/ Rollback(w)
  BY DEF Next
<1> DEFINE Comeca == \E t \in TxType : Inicio(w, t) /\ Begin(w, t)
           Segue == \E t \in TxType : Continua(w, t) /\ Step(w, t)
<1>2. ASSUME NEW lote \in Lotes, AppendObservations(w, lote) PROVE Comeca
  <2>1. Begin(w, DoAppend(lote)) /\ DoAppend(lote) \in TxType
    BY <1>2, DoTypes DEF AppendObservations, DoAppend
  <2> QED
    BY <2>1 DEF Inicio
<1>3. ASSUME NEW x \in tx[w].todo, Insert(w, x) PROVE Segue
  <2> DEFINE known == \E y \in Visible(w) : DedupKey(y) = DedupKey(x)
  <2>1. known \in BOOLEAN
    OBVIOUS
  <2>2. Step(w, DoInsert(w, x, known)) /\ tx[w].pc = "insert" /\ Free(w, {x})
    BY <1>3 DEF Insert, DoInsert
  <2>3. DoInsert(w, x, known) \in TxType
    BY <2>1, DoTypes
  <2>4. Continua(w, DoInsert(w, x, known))
    BY <2>1, <2>2 DEF Continua
  <2> QED
    BY <2>2, <2>3, <2>4
<1>4. ASSUME NEW c \in ChaveAcesso, DeleteImportIgnoredObs(w, c) PROVE Comeca
  <2>1. Begin(w, DoDelete(c)) /\ DoDelete(c) \in TxType /\ Free(w, Ignoradas(c))
    BY <1>4, DoTypes DEF DeleteImportIgnoredObs, DoDelete
  <2> QED
    BY <2>1 DEF Inicio
<1>5. ASSUME NEW c \in ChaveAcesso, NEW at \in Tempo, UpdateImportedObservedAt(w, c, at)
      PROVE  Comeca
  <2>1. Begin(w, DoUpdate(c, at)) /\ Free(w, Corrigidas(c, at))
    BY <1>5 DEF UpdateImportedObservedAt, DoUpdate
  <2>2. DoUpdate(c, at) \in TxType
    BY DoTypes
  <2> QED
    BY <2>1, <2>2 DEF Inicio
<1>6. ASSUME NEW c \in ChaveAcesso, SkipChave(w, c) PROVE Segue
  <2>1. Step(w, DoSkip(w, c))
    BY <1>6 DEF SkipChave, DoSkip
  <2>2. DoSkip(w, c) \in TxType
    BY DoTypes
  <2> QED
    BY <1>6, <2>1, <2>2 DEF Continua, SkipChave
<1>7. ASSUME NEW c \in ChaveAcesso, LoadObservations(w, c) PROVE Segue
  <2>1. Step(w, DoLoad(w, c))
    BY <1>7 DEF LoadObservations, DoLoad
  <2>2. DoLoad(w, c) \in TxType
    BY DoTypes
  <2> QED
    BY <1>7, <2>1, <2>2 DEF Continua, LoadObservations
<1>8. CASE UpsertNota(w)
  <2>1. Step(w, DoUpsert(w)) /\ DoUpsert(w) \in TxType
    BY <1>8, DoTypes DEF UpsertNota, DoUpsert
  <2> QED
    BY <1>8, <2>1 DEF Continua, UpsertNota
<1>9. CASE CountOld(w)
  <2> DEFINE t == DoCount(w, notas[tx[w].chave].status, -1, "countNew")
  <2>1. tx[w].pc = "countOld" /\ Step(w, t)
    BY <1>9 DEF CountOld, Count, DoCount
  <2>2. t \in TxType /\ Continua(w, t)
    BY <2>1, DoTypes DEF Continua
  <2> QED
    BY <2>1, <2>2
<1>10. CASE CountNew(w)
  <2> DEFINE t == DoCount(w, tx[w].lida.nota.status, 1, "parts")
  <2>1. tx[w].pc = "countNew" /\ Step(w, t)
    BY <1>10 DEF CountNew, Count, DoCount
  <2>2. t \in TxType /\ Continua(w, t)
    BY <2>1, DoTypes DEF Continua
  <2> QED
    BY <2>1, <2>2
<1>11. CASE ReplaceParticipacoes(w)
  <2>1. Step(w, DoReplace(w)) /\ DoReplace(w) \in TxType
    BY <1>11, DoTypes DEF ReplaceParticipacoes, DoReplace
  <2> QED
    BY <1>11, <2>1 DEF Continua, ReplaceParticipacoes
<1>12. CASE Rollback(w)
  BY <1>12, OciosoType DEF Rollback, Continua
<1> QED
  BY <1>1, <1>2, <1>3, <1>4, <1>5, <1>6, <1>7, <1>8, <1>9, <1>10, <1>11, <1>12

LEMMA TipadoStep == Tipado /\ Escrita /\ [Next]_vars => Tipado'
<1> SUFFICES ASSUME Tipado, Escrita, [Next]_vars PROVE Tipado'
  OBVIOUS
<1>1. CASE UNCHANGED vars
  BY <1>1 DEF vars, Tipado
<1>2. ASSUME NEW w \in Worker, Commit(w) PROVE Tipado'
  BY <1>2, OciosoType DEF Commit, Tipado, TxType, Visible, Wrote
<1>3. CASE Next
  <2> QED
    BY <1>2, <1>3, Passos, BeginType, StepType
<1> QED
  BY <1>1, <1>3

-----------------------------------------------------------------------------
(* The transactions stay coherent, and exclude one another row by row.     *)

\* Begin and Step change the transaction of one worker; the others keep theirs
\* but for the history variable.
LEMMA OnlyOwn ==
  ASSUME Tipado, Escrita, NEW w \in Worker, NEW t \in TxType, Coerente(t, notas),
         (Begin(w, t) /\ t.pc # "idle") \/ Step(w, t),
         \A c \in ChaveAcesso : t.notas[c] # Nenhuma =>
           \A v \in Others(w) : ~Wrote(v, c)
  PROVE  Escrita'
<1>0. \A u \in TxType : u = [u EXCEPT !.alone = u.alone] /\ u.alone \in BOOLEAN
  BY DEF TxType
<1>1. PICK b \in BOOLEAN : tx'[w] = [t EXCEPT !.alone = b]
  <2>1. CASE Begin(w, t)
    BY <2>1 DEF Begin, Tipado
  <2>2. CASE Step(w, t)
    BY <1>0, <2>2 DEF Step, Tipado
  <2> QED
    BY <2>1, <2>2
<1>2. ASSUME NEW v \in Others(w)
      PROVE  tx'[v] = tx[v] \/ tx'[v] = [tx[v] EXCEPT !.alone = FALSE]
  BY DEF Begin, Step, Others, Tipado
<1>3. ASSUME NEW u \in TxType, Coerente(u, notas), NEW f \in BOOLEAN,
             u.pc # "idle" \/ f = FALSE
      PROVE  Coerente([u EXCEPT !.alone = f], notas)
  <2>1. CASE u.pc = "idle"
    <3>1. u = Ocioso /\ f = FALSE /\ Ocioso.alone = FALSE
      BY <1>3, <2>1 DEF Coerente, Ocioso
    <3> QED
      BY <1>0, <1>3, <3>1
  <2>2. CASE u.pc # "idle"
    BY <1>3, <2>2 DEF Coerente, TxType
  <2> QED
    BY <2>1, <2>2
<1>4. notas' = notas
  BY DEF Begin, Step
<1>5. Coerente(tx'[w], notas')
  <2>1. CASE Step(w, t)
    BY <1>4, <2>1 DEF Step, Tipado
  <2>2. CASE t.pc # "idle"
    BY <1>1, <1>3, <1>4, <2>2
  <2> QED
    BY <2>1, <2>2
<1>6. \A v \in Others(w) : Coerente(tx'[v], notas')
  BY <1>2, <1>3, <1>4 DEF Escrita, Others, Tipado
<1>7. tx'[w].notas = t.notas /\ \A v \in Others(w) : tx'[v].notas = tx[v].notas
  <2>1. \A u \in TxType, f \in BOOLEAN : [u EXCEPT !.alone = f].notas = u.notas
    BY DEF TxType
  <2>2. \A v \in Others(w) : tx[v] \in TxType
    BY DEF Tipado, Others
  <2> QED
    BY <1>1, <1>2, <2>1, <2>2
<1>8. Exclusiva'
  BY <1>7 DEF Escrita, Exclusiva, Wrote, Others
<1> QED
  BY <1>5, <1>6, <1>8 DEF Escrita, Others

LEMMA EscritaInit == Init => Escrita
BY DEF Init, Escrita, Exclusiva, Coerente, Wrote, Ocioso, MeioPC

\* A beginning transaction has written nothing, and no idle one is coherent
\* but Ocioso.
LEMMA InicioCoerente ==
  ASSUME Tipado, Escrita, NEW w \in Worker, NEW t \in TxType, Inicio(w, t)
  PROVE  /\ Coerente(t, notas) /\ t.pc \in {"insert", "recompute"}
         /\ \A c \in ChaveAcesso : t.notas[c] = Nenhuma
<1>1. /\ t.pc \in {"insert", "recompute"} /\ t.notas = Ocioso.notas
      /\ t.affected \subseteq ChaveAcesso
  BY DEF Inicio, DoAppend, DoDelete, DoUpdate, Ocioso, TxType
<1>2. \A c \in ChaveAcesso : Ocioso.notas[c] = Nenhuma
  BY DEF Ocioso
<1> QED
  BY <1>1, <1>2 DEF Coerente, MeioPC

LEMMA ContinuaCoerente ==
  ASSUME Tipado, Escrita, NEW w \in Worker, NEW t \in TxType, Continua(w, t)
  PROVE  /\ Coerente(t, notas)
         /\ \A c \in ChaveAcesso : t.notas[c] # Nenhuma =>
              \A v \in Others(w) : ~Wrote(v, c)
<1>0. /\ tx[w] \in TxType /\ Coerente(tx[w], notas)
      /\ \A c \in ChaveAcesso : Wrote(w, c) => \A v \in Others(w) : ~Wrote(v, c)
  BY DEF Tipado, Escrita, Exclusiva, Others
<1>1. ASSUME NEW x \in tx[w].todo, NEW known \in BOOLEAN, tx[w].pc = "insert",
             t = DoInsert(w, x, known)
      PROVE  /\ Coerente(t, notas) /\ t.notas = tx[w].notas
  <2>1. /\ t.notas = tx[w].notas /\ t.pc \in {"insert", "recompute"}
        /\ t.affected \subseteq ChaveAcesso
    BY <1>0, <1>1 DEF DoInsert, TxType
  <2> QED
    BY <1>0, <1>1, <2>1 DEF Coerente, MeioPC
<1>2. ASSUME NEW c \in tx[w].affected, tx[w].pc = "recompute", t = DoSkip(w, c)
      PROVE  /\ Coerente(t, notas) /\ t.notas = tx[w].notas
  BY <1>0, <1>2 DEF DoSkip, Coerente, MeioPC, TxType
<1>3. ASSUME NEW c \in tx[w].affected, tx[w].pc = "recompute", t = DoLoad(w, c)
      PROVE  /\ Coerente(t, notas) /\ t.notas = tx[w].notas
  <2>1. /\ t.notas = tx[w].notas /\ t.pc = "upsert" /\ t.chave = c
        /\ t.affected = tx[w].affected
    BY <1>0, <1>3 DEF DoLoad, TxType
  <2> QED
    BY <1>0, <1>3, <2>1 DEF Coerente, MeioPC
<1>4. ASSUME tx[w].pc = "upsert", t = DoUpsert(w),
             \A v \in Others(w) : ~Wrote(v, tx[w].chave)
      PROVE  /\ Coerente(t, notas)
             /\ \A c \in ChaveAcesso : t.notas[c] # Nenhuma =>
                  \A v \in Others(w) : ~Wrote(v, c)
  <2> DEFINE c == tx[w].chave
  <2>1. /\ t.notas = [tx[w].notas EXCEPT ![c] = tx[w].lida.nota]
        /\ t.pc = AfterUpsert(notas[c], tx[w].lida.nota)
        /\ t.chave = c /\ t.lida = tx[w].lida /\ t.affected = tx[w].affected
    BY <1>0, <1>4 DEF DoUpsert, TxType
  <2>2. /\ t.pc \in MeioPC \ {"upsert"} /\ t.pc # "idle" /\ t.pc # "insert"
        /\ t.pc = "countOld" => notas[c] # Nenhuma
    BY <2>1 DEF AfterUpsert, MeioPC
  <2>3. c \in tx[w].affected /\ c \in ChaveAcesso
    BY <1>0, <1>4 DEF Coerente, MeioPC, TxType
  <2>4. /\ t.notas[c] = tx[w].lida.nota
        /\ \A d \in ChaveAcesso \ {c} : t.notas[d] = tx[w].notas[d]
    BY <1>0, <2>1, <2>3 DEF TxType
  <2>5. \A d \in tx[w].affected : tx[w].notas[d] = Nenhuma
    BY <1>0, <1>4 DEF Coerente, MeioPC
  <2>6. Coerente(t, notas)
    <3>1. tx[w].affected \subseteq ChaveAcesso
      BY <1>0 DEF TxType
    <3> QED
      BY <2>1, <2>2, <2>3, <2>4, <2>5, <3>1 DEF Coerente
  <2> QED
    BY <1>0, <1>4, <2>4, <2>6 DEF Wrote
<1>5. ASSUME NEW s, NEW by, NEW next, t = DoCount(w, s, by, next),
             \/ tx[w].pc = "countOld" /\ next = "countNew"
             \/ tx[w].pc = "countNew" /\ next = "parts"
      PROVE  /\ Coerente(t, notas) /\ t.notas = tx[w].notas
  <2>1. /\ t.notas = tx[w].notas /\ t.pc = next /\ t.chave = tx[w].chave
        /\ t.lida = tx[w].lida /\ t.affected = tx[w].affected
    BY <1>0, <1>5 DEF DoCount, TxType
  <2> QED
    BY <1>0, <1>5, <2>1 DEF Coerente, MeioPC
<1>6. ASSUME tx[w].pc = "parts", t = DoReplace(w)
      PROVE  /\ Coerente(t, notas) /\ t.notas = tx[w].notas
  <2>1. /\ t.notas = tx[w].notas /\ t.pc = "recompute"
        /\ t.affected = tx[w].affected \ {tx[w].chave}
    BY <1>0, <1>6 DEF DoReplace, TxType
  <2> QED
    BY <1>0, <1>6, <2>1 DEF Coerente, MeioPC
<1>7. ASSUME t = Ocioso
      PROVE  /\ Coerente(t, notas) /\ \A c \in ChaveAcesso : t.notas[c] = Nenhuma
  BY <1>7 DEF Ocioso, Coerente, MeioPC
<1> QED
  BY <1>0, <1>1, <1>2, <1>3, <1>4, <1>5, <1>6, <1>7 DEF Continua, Wrote

LEMMA EscritaStep == Tipado /\ Escrita /\ [Next]_vars => Escrita'
<1> SUFFICES ASSUME Tipado, Escrita, [Next]_vars PROVE Escrita'
  OBVIOUS
<1>1. CASE UNCHANGED vars
  BY <1>1 DEF vars, Escrita, Exclusiva, Wrote
<1>2. ASSUME NEW w \in Worker, NEW t \in TxType, Inicio(w, t), Begin(w, t)
      PROVE  Escrita'
  BY <1>2, InicioCoerente, OnlyOwn
<1>3. ASSUME NEW w \in Worker, NEW t \in TxType, Continua(w, t), Step(w, t)
      PROVE  Escrita'
  BY <1>3, ContinuaCoerente, OnlyOwn
<1>4. ASSUME NEW w \in Worker, Commit(w) PROVE Escrita'
  <2>1. tx'[w] = Ocioso /\ \A v \in Others(w) : tx'[v] = tx[v]
    BY <1>4 DEF Commit, Tipado, Others
  <2>2. \A c \in ChaveAcesso : notas[c] # Nenhuma => notas'[c] # Nenhuma
    BY <1>4 DEF Commit, Wrote
  <2>3. \A c \in ChaveAcesso : Ocioso.notas[c] = Nenhuma
    BY DEF Ocioso
  <2>4. Exclusiva'
    BY <2>1, <2>3 DEF Escrita, Exclusiva, Wrote, Others
  <2>5. Coerente(Ocioso, notas')
    BY DEF Coerente, Ocioso, MeioPC
  <2>6. ASSUME NEW v \in Others(w) PROVE Coerente(tx[v], notas')
    <3>1. Coerente(tx[v], notas) /\ tx[v] \in TxType
      BY DEF Escrita, Others, Tipado
    <3>2. tx[v].pc = "countOld" => tx[v].chave \in ChaveAcesso
      BY <3>1 DEF Coerente, MeioPC, TxType
    <3> QED
      BY <2>2, <3>1, <3>2 DEF Coerente
  <2> QED
    BY <2>1, <2>4, <2>5, <2>6 DEF Escrita, Others
<1> QED
  BY <1>1, <1>2, <1>3, <1>4, Passos
-----------------------------------------------------------------------------
(* The counters.  What a transaction has added to the counter of s is the  *)
(* number of its rows that enter s, less the number of those that leave    *)
(* it, but for the statements of the trigger still to come.                *)

Somadas(t, s) ==
  {c \in ChaveAcesso :
     /\ t.notas[c] # Nenhuma /\ t.notas[c].status = s
     /\ ~(t.pc \in {"countOld", "countNew"} /\ c = t.chave)}

Subtraidas(t, n, s) ==
  {c \in ChaveAcesso :
     /\ t.notas[c] # Nenhuma /\ n[c] # Nenhuma /\ n[c].status = s
     /\ ~(t.pc = "countOld" /\ c = t.chave)}

Conta(t, n) ==
  \A s \in NotaStatus :
    t.delta[s] = Cardinality(Somadas(t, s)) - Cardinality(Subtraidas(t, n, s))

Contado == CountsMatch /\ \A w \in Worker : Conta(tx[w], notas)

\* Sets of chaves are finite.
LEMMA Tamanho ==
  ASSUME NEW S \in SUBSET ChaveAcesso
  PROVE  /\ IsFiniteSet(S) /\ Cardinality(S) \in Nat
         /\ \A c : c \notin S => Cardinality(S \cup {c}) = Cardinality(S) + 1
BY ChaveAssumption, FS_Subset, FS_CardinalityType, FS_AddElement

LEMMA ContaVazia ==
  ASSUME NEW t, NEW n, \A s \in NotaStatus : t.delta[s] = 0,
         \A c \in ChaveAcesso : t.notas[c] = Nenhuma
  PROVE  Conta(t, n)
<1>1. ASSUME NEW s PROVE Somadas(t, s) = {} /\ Subtraidas(t, n, s) = {}
  BY DEF Somadas, Subtraidas
<1> QED
  BY <1>1, FS_EmptySet DEF Conta

\* The statements that write no row of notas and no counter.
LEMMA ContaIgual ==
  ASSUME NEW t, NEW u, NEW n, Conta(t, n), u.delta = t.delta, u.notas = t.notas,
         t.pc \notin {"countOld", "countNew"}, u.pc \notin {"countOld", "countNew"}
  PROVE  Conta(u, n)
<1>1. ASSUME NEW s PROVE Somadas(u, s) = Somadas(t, s) /\ Subtraidas(u, n, s) = Subtraidas(t, n, s)
  BY DEF Somadas, Subtraidas
<1> QED
  BY <1>1 DEF Conta

LEMMA ContaUpsert ==
  ASSUME Tipado, Escrita, NEW w \in Worker, tx[w].pc = "upsert", Conta(tx[w], notas)
  PROVE  Conta(DoUpsert(w), notas)
<1> DEFINE t == DoUpsert(w)
           c == tx[w].chave
           new == tx[w].lida.nota
<1>1. /\ tx[w] \in TxType /\ c \in ChaveAcesso /\ new # Nenhuma
      /\ tx[w].notas[c] = Nenhuma
  BY NenhumaAssumption DEF Tipado, Escrita, Coerente, MeioPC, TxType
<1>2. /\ t.notas = [tx[w].notas EXCEPT ![c] = new]
      /\ t.delta = tx[w].delta /\ t.chave = c
      /\ t.pc = AfterUpsert(notas[c], new)
  BY <1>1 DEF DoUpsert, TxType
<1>3. t.notas[c] = new /\ \A d \in ChaveAcesso \ {c} : t.notas[d] = tx[w].notas[d]
  BY <1>1, <1>2 DEF TxType
<1> HIDE DEF t
<1>4. ASSUME NEW s \in NotaStatus
      PROVE  Cardinality(Somadas(t, s)) - Cardinality(Subtraidas(t, notas, s)) =
             Cardinality(Somadas(tx[w], s)) - Cardinality(Subtraidas(tx[w], notas, s))
  <2>1. CASE t.pc \in {"countOld", "countNew"}
    <3>1. t.pc = "countNew" => notas[c] = Nenhuma
      BY <1>2 DEF AfterUpsert
    <3>2. Somadas(t, s) = Somadas(tx[w], s)
      BY <1>1, <1>2, <1>3, <2>1 DEF Somadas
    <3>3. Subtraidas(t, notas, s) = Subtraidas(tx[w], notas, s)
      BY <1>1, <1>2, <1>3, <2>1, <3>1 DEF Subtraidas
    <3> QED
      BY <3>2, <3>3
  <2>2. CASE t.pc \notin {"countOld", "countNew"}
    <3>1. notas[c] # Nenhuma /\ notas[c].status = new.status
      BY <1>2, <2>2 DEF AfterUpsert
    <3>2. CASE new.status = s
      <4>1. Somadas(t, s) = Somadas(tx[w], s) \cup {c} /\ c \notin Somadas(tx[w], s)
        BY <1>1, <1>2, <1>3, <2>2, <3>1, <3>2 DEF Somadas
      <4>2. /\ Subtraidas(t, notas, s) = Subtraidas(tx[w], notas, s) \cup {c}
            /\ c \notin Subtraidas(tx[w], notas, s)
        BY <1>1, <1>2, <1>3, <2>2, <3>1, <3>2 DEF Subtraidas
      <4>3. Somadas(tx[w], s) \subseteq ChaveAcesso
            /\ Subtraidas(tx[w], notas, s) \subseteq ChaveAcesso
        BY DEF Somadas, Subtraidas
      <4>4. Cardinality(Somadas(t, s)) = Cardinality(Somadas(tx[w], s)) + 1
        BY <4>1, <4>3, Tamanho
      <4>5. Cardinality(Subtraidas(t, notas, s)) =
              Cardinality(Subtraidas(tx[w], notas, s)) + 1
        BY <4>2, <4>3, Tamanho
      <4>6. /\ Cardinality(Somadas(tx[w], s)) \in Nat
            /\ Cardinality(Subtraidas(tx[w], notas, s)) \in Nat
        BY <4>3, Tamanho
      <4> QED
        BY <4>4, <4>5, <4>6
    <3>3. CASE new.status # s
      <4>1. Somadas(t, s) = Somadas(tx[w], s)
        BY <1>1, <1>2, <1>3, <2>2, <3>3 DEF Somadas
      <4>2. Subtraidas(t, notas, s) = Subtraidas(tx[w], notas, s)
        BY <1>1, <1>2, <1>3, <2>2, <3>1, <3>3 DEF Subtraidas
      <4> QED
        BY <4>1, <4>2
    <3> QED
      BY <3>2, <3>3
  <2> QED
    BY <2>1, <2>2
<1> QED
  BY <1>2, <1>4 DEF Conta, t

\* The first statement of the trigger takes one from the old status.
LEMMA ContaCountOld ==
  ASSUME Tipado, Escrita, NEW w \in Worker, tx[w].pc = "countOld", Conta(tx[w], notas)
  PROVE  Conta(DoCount(w, notas[tx[w].chave].status, -1, "countNew"), notas)
<1> DEFINE c == tx[w].chave
           so == notas[c].status
           t == DoCount(w, so, -1, "countNew")
<1>1. /\ tx[w] \in TxType /\ c \in ChaveAcesso /\ so \in NotaStatus
      /\ tx[w].notas[c] # Nenhuma /\ notas[c] # Nenhuma
  BY NenhumaAssumption DEF Tipado, Escrita, Coerente, MeioPC, TxType, NotaRow
<1>2. /\ t.notas = tx[w].notas /\ t.chave = c /\ t.pc = "countNew"
      /\ t.delta = [tx[w].delta EXCEPT ![so] = @ + (-1)]
  BY <1>1 DEF DoCount, TxType
<1>3. /\ t.delta[so] = tx[w].delta[so] - 1
      /\ \A s \in NotaStatus \ {so} : t.delta[s] = tx[w].delta[s]
  BY <1>1, <1>2 DEF TxType
<1> HIDE DEF t
<1>4. ASSUME NEW s PROVE Somadas(t, s) = Somadas(tx[w], s)
  BY <1>2 DEF Somadas
<1>5. ASSUME NEW s \in NotaStatus, s # so
      PROVE  Subtraidas(t, notas, s) = Subtraidas(tx[w], notas, s)
  BY <1>1, <1>2, <1>5 DEF Subtraidas
<1>6. Cardinality(Subtraidas(t, notas, so)) =
        Cardinality(Subtraidas(tx[w], notas, so)) + 1
  <2>1. /\ Subtraidas(t, notas, so) = Subtraidas(tx[w], notas, so) \cup {c}
        /\ c \notin Subtraidas(tx[w], notas, so)
        /\ Subtraidas(tx[w], notas, so) \subseteq ChaveAcesso
    BY <1>1, <1>2 DEF Subtraidas
  <2> QED
    BY <2>1, Tamanho
<1>7. ASSUME NEW s
      PROVE  /\ Cardinality(Somadas(tx[w], s)) \in Nat
             /\ Cardinality(Subtraidas(tx[w], notas, s)) \in Nat
  <2>1. Somadas(tx[w], s) \subseteq ChaveAcesso
        /\ Subtraidas(tx[w], notas, s) \subseteq ChaveAcesso
    BY DEF Somadas, Subtraidas
  <2> QED
    BY <2>1, Tamanho
<1>8. ASSUME NEW s \in NotaStatus
      PROVE  t.delta[s] = Cardinality(Somadas(t, s)) - Cardinality(Subtraidas(t, notas, s))
  <2>1. tx[w].delta[s] =
          Cardinality(Somadas(tx[w], s)) - Cardinality(Subtraidas(tx[w], notas, s))
    BY DEF Conta
  <2>2. CASE s = so
    BY <1>3, <1>4, <1>6, <1>7, <2>1, <2>2
  <2>3. CASE s # so
    BY <1>3, <1>4, <1>5, <2>1, <2>3
  <2> QED
    BY <2>2, <2>3
<1> QED
  BY <1>8 DEF Conta, t

\* The second adds one to the new status.
LEMMA ContaCountNew ==
  ASSUME Tipado, Escrita, NEW w \in Worker, tx[w].pc = "countNew", Conta(tx[w], notas)
  PROVE  Conta(DoCount(w, tx[w].lida.nota.status, 1, "parts"), notas)
<1> DEFINE c == tx[w].chave
           sn == tx[w].lida.nota.status
           t == DoCount(w, sn, 1, "parts")
<1>1. /\ tx[w] \in TxType /\ c \in ChaveAcesso /\ sn \in NotaStatus
      /\ tx[w].notas[c] # Nenhuma /\ tx[w].notas[c].status = sn
  BY NenhumaAssumption DEF Tipado, Escrita, Coerente, MeioPC, TxType, NotaRow
<1>2. /\ t.notas = tx[w].notas /\ t.chave = c /\ t.pc = "parts"
      /\ t.delta = [tx[w].delta EXCEPT ![sn] = @ + 1]
  BY <1>1 DEF DoCount, TxType
<1>3. /\ t.delta[sn] = tx[w].delta[sn] + 1
      /\ \A s \in NotaStatus \ {sn} : t.delta[s] = tx[w].delta[s]
  BY <1>1, <1>2 DEF TxType
<1> HIDE DEF t
<1>4. ASSUME NEW s PROVE Subtraidas(t, notas, s) = Subtraidas(tx[w], notas, s)
  BY <1>2 DEF Subtraidas
<1>5. ASSUME NEW s \in NotaStatus, s # sn PROVE Somadas(t, s) = Somadas(tx[w], s)
  BY <1>1, <1>2, <1>5 DEF Somadas
<1>6. Cardinality(Somadas(t, sn)) = Cardinality(Somadas(tx[w], sn)) + 1
  <2>1. /\ Somadas(t, sn) = Somadas(tx[w], sn) \cup {c}
        /\ c \notin Somadas(tx[w], sn)
        /\ Somadas(tx[w], sn) \subseteq ChaveAcesso
    BY <1>1, <1>2 DEF Somadas
  <2> QED
    BY <2>1, Tamanho
<1>7. ASSUME NEW s
      PROVE  /\ Cardinality(Somadas(tx[w], s)) \in Nat
             /\ Cardinality(Subtraidas(tx[w], notas, s)) \in Nat
  <2>1. Somadas(tx[w], s) \subseteq ChaveAcesso
        /\ Subtraidas(tx[w], notas, s) \subseteq ChaveAcesso
    BY DEF Somadas, Subtraidas
  <2> QED
    BY <2>1, Tamanho
<1>8. ASSUME NEW s \in NotaStatus
      PROVE  t.delta[s] = Cardinality(Somadas(t, s)) - Cardinality(Subtraidas(t, notas, s))
  <2>1. tx[w].delta[s] =
          Cardinality(Somadas(tx[w], s)) - Cardinality(Subtraidas(tx[w], notas, s))
    BY DEF Conta
  <2>2. CASE s = sn
    BY <1>3, <1>4, <1>6, <1>7, <2>1, <2>2
  <2>3. CASE s # sn
    BY <1>3, <1>4, <1>5, <2>1, <2>3
  <2> QED
    BY <2>2, <2>3
<1> QED
  BY <1>8 DEF Conta, t

LEMMA ContaContinua ==
  ASSUME Tipado, Escrita, NEW w \in Worker, NEW t \in TxType, Continua(w, t),
         Conta(tx[w], notas)
  PROVE  Conta(t, notas)
<1>0. tx[w] \in TxType
  BY DEF Tipado
<1>1. ASSUME NEW x \in tx[w].todo, NEW known \in BOOLEAN, tx[w].pc = "insert",
             t = DoInsert(w, x, known)
      PROVE  Conta(t, notas)
  <2>1. t.delta = tx[w].delta /\ t.notas = tx[w].notas /\ t.pc \in {"insert", "recompute"}
    BY <1>0, <1>1 DEF DoInsert, TxType
  <2> QED
    BY <1>1, <2>1, ContaIgual
<1>2. ASSUME NEW c \in tx[w].affected, tx[w].pc = "recompute",
             t = DoSkip(w, c) \/ t = DoLoad(w, c)
      PROVE  Conta(t, notas)
  <2>1. t.delta = tx[w].delta /\ t.notas = tx[w].notas /\ t.pc \in {"recompute", "upsert"}
    BY <1>0, <1>2 DEF DoSkip, DoLoad, TxType
  <2> QED
    BY <1>2, <2>1, ContaIgual
<1>3. ASSUME tx[w].pc = "parts", t = DoReplace(w) PROVE Conta(t, notas)
  <2>1. t.delta = tx[w].delta /\ t.notas = tx[w].notas /\ t.pc = "recompute"
    BY <1>0, <1>3 DEF DoReplace, TxType
  <2> QED
    BY <1>3, <2>1, ContaIgual
<1>4. Conta(Ocioso, notas)
  BY ContaVazia DEF Ocioso
<1> QED
  BY <1>1, <1>2, <1>3, <1>4, ContaUpsert, ContaCountOld, ContaCountNew DEF Continua

LEMMA ContadoCommit ==
  ASSUME Tipado, Escrita, Contado, NEW w \in Worker, Commit(w)
  PROVE  Contado'
<1>0. /\ tx[w] \in TxType /\ notas' \in [ChaveAcesso -> NotaRow \cup {Nenhuma}]
      /\ tx[w].pc = "recompute"
  BY TipadoStep DEF Tipado, Commit, Next
<1>1. ASSUME NEW s \in NotaStatus PROVE counts'[s] = Cardinality(NotasEm(s)')
  <2> DEFINE sai == Subtraidas(tx[w], notas, s)
             entra == Somadas(tx[w], s)
             ficam == NotasEm(s) \ sai
  <2>1. NotasEm(s)' = ficam \cup entra /\ ficam \cap entra = {}
    BY <1>0 DEF Commit, NotasEm, Subtraidas, Somadas, Wrote
  <2>2. /\ IsFiniteSet(NotasEm(s)) /\ IsFiniteSet(entra) /\ IsFiniteSet(ficam)
        /\ NotasEm(s) \cap sai = sai
    <3>1. /\ NotasEm(s) \subseteq ChaveAcesso /\ entra \subseteq ChaveAcesso
          /\ sai \subseteq NotasEm(s)
      BY DEF NotasEm, Somadas, Subtraidas
    <3> QED
      BY <3>1, Tamanho
  <2>3. Cardinality(ficam) = Cardinality(NotasEm(s)) - Cardinality(sai)
    BY <2>2, FS_Difference
  <2>4. Cardinality(NotasEm(s)') = Cardinality(ficam) + Cardinality(entra)
    <3>1. Cardinality(ficam \cup entra) =
            Cardinality(ficam) + Cardinality(entra) - Cardinality(ficam \cap entra)
      BY <2>2, FS_Union
    <3>2. Cardinality(ficam) \in Nat /\ Cardinality(entra) \in Nat
      BY <2>2, FS_CardinalityType
    <3>3. Cardinality(ficam \cap entra) = 0
      BY <2>1, FS_EmptySet
    <3>4. Cardinality(NotasEm(s)') = Cardinality(ficam \cup entra)
      BY <2>1
    <3> HIDE DEF ficam, entra
    <3> QED
      BY <3>1, <3>2, <3>3, <3>4
  <2>5. /\ counts'[s] = counts[s] + tx[w].delta[s]
        /\ counts[s] = Cardinality(NotasEm(s))
        /\ tx[w].delta[s] = Cardinality(entra) - Cardinality(sai)
    BY DEF Commit, Contado, CountsMatch, Conta
  <2>6. /\ Cardinality(NotasEm(s)) \in Nat /\ Cardinality(entra) \in Nat
        /\ Cardinality(sai) \in Nat
    <3>1. sai \subseteq ChaveAcesso
      BY DEF Subtraidas
    <3> QED
      BY <2>2, <3>1, FS_CardinalityType, Tamanho
  <2> QED
    BY <2>3, <2>4, <2>5, <2>6
<1>2. tx'[w] = Ocioso /\ Conta(Ocioso, notas')
  BY ContaVazia DEF Commit, Tipado, Ocioso
<1>3. ASSUME NEW v \in Others(w) PROVE tx'[v] = tx[v] /\ Conta(tx[v], notas')
  <2>1. tx'[v] = tx[v] /\ Conta(tx[v], notas)
    BY DEF Commit, Tipado, Others, Contado
  <2>2. ASSUME NEW c \in ChaveAcesso, tx[v].notas[c] # Nenhuma
        PROVE  notas'[c] = notas[c]
    BY <2>2 DEF Commit, Wrote, Escrita, Exclusiva, Others
  <2>3. ASSUME NEW s PROVE Subtraidas(tx[v], notas', s) = Subtraidas(tx[v], notas, s)
    BY <2>2 DEF Subtraidas
  <2> QED
    BY <2>1, <2>3 DEF Conta
<1> QED
  BY <1>1, <1>2, <1>3 DEF Contado, CountsMatch, Others

\* Counting looks at no history.
LEMMA ContadoPasso ==
  ASSUME Tipado, Contado, NEW w \in Worker, NEW t \in TxType, Conta(t, notas),
         Begin(w, t) \/ Step(w, t)
  PROVE  Contado'
<1>1. ASSUME NEW u \in TxType, Conta(u, notas), NEW b \in BOOLEAN
      PROVE  Conta([u EXCEPT !.alone = b], notas)
  <2>1. /\ [u EXCEPT !.alone = b].delta = u.delta /\ [u EXCEPT !.alone = b].notas = u.notas
        /\ [u EXCEPT !.alone = b].pc = u.pc /\ [u EXCEPT !.alone = b].chave = u.chave
    BY DEF TxType
  <2>2. ASSUME NEW s
        PROVE  /\ Somadas([u EXCEPT !.alone = b], s) = Somadas(u, s)
               /\ Subtraidas([u EXCEPT !.alone = b], notas, s) = Subtraidas(u, notas, s)
    BY <2>1 DEF Somadas, Subtraidas
  <2> QED
    BY <1>1, <2>1, <2>2 DEF Conta
<1>2. \A v \in Worker : Conta(tx'[v], notas)
  <2>1. CASE Step(w, t)
    BY <2>1 DEF Step, Tipado, Contado
  <2>2. CASE Begin(w, t)
    BY <1>1, <2>2 DEF Begin, Tipado, Contado
  <2> QED
    BY <2>1, <2>2
<1>3. notas' = notas /\ counts' = counts
  BY DEF Begin, Step
<1>4. CountsMatch'
  BY <1>3 DEF Contado, CountsMatch, NotasEm
<1> QED
  BY <1>2, <1>3, <1>4 DEF Contado

LEMMA ContadoInit == Init => Contado
<1> SUFFICES ASSUME Init PROVE Contado
  OBVIOUS
<1>1. \A s : NotasEm(s) = {}
  BY DEF Init, NotasEm
<1>2. \A w \in Worker : Conta(tx[w], notas)
  BY ContaVazia DEF Init, Ocioso
<1> QED
  BY <1>1, <1>2, FS_EmptySet DEF Init, Contado, CountsMatch

LEMMA ContadoStep == Tipado /\ Escrita /\ Contado /\ [Next]_vars => Contado'
<1> SUFFICES ASSUME Tipado, Escrita, Contado, [Next]_vars PROVE Contado'
  OBVIOUS
<1>1. CASE UNCHANGED vars
  BY <1>1 DEF vars, Contado, CountsMatch, NotasEm
<1>2. ASSUME NEW w \in Worker, NEW t \in TxType, Inicio(w, t), Begin(w, t)
      PROVE  Contado'
  <2>1. t.delta = Ocioso.delta /\ t.notas = Ocioso.notas
    BY <1>2 DEF Inicio, DoAppend, DoDelete, DoUpdate, Ocioso
  <2>2. Conta(t, notas)
    BY <2>1, ContaVazia DEF Ocioso
  <2> QED
    BY <1>2, <2>2, ContadoPasso
<1>3. ASSUME NEW w \in Worker, NEW t \in TxType, Continua(w, t), Step(w, t)
      PROVE  Contado'
  BY <1>3, ContaContinua, ContadoPasso DEF Contado
<1> QED
  BY <1>1, <1>2, <1>3, ContadoCommit, Passos

\* The counters kept by the triggers are exact at every commit, whatever
\* transactions overlap, wait for one another or are rolled back.
THEOREM CountsMatchHolds == Spec => []CountsMatch
<1>1. Tipado /\ Escrita /\ Contado /\ [Next]_vars => (Tipado /\ Escrita /\ Contado)'
  BY TipadoStep, EscritaStep, ContadoStep
<1>2. Contado => CountsMatch
  BY DEF Contado
<1> QED
  BY <1>1, <1>2, TipadoInit, EscritaInit, ContadoInit, PTL DEF Spec

\* The tables keep their shape, and no counter falls below zero.
THEOREM TypeCorrect == Spec => []TypeOK
<1>1. Tipado /\ Escrita /\ Contado /\ [Next]_vars => (Tipado /\ Escrita /\ Contado)'
  BY TipadoStep, EscritaStep, ContadoStep
<1>2. Tipado /\ Contado => TypeOK
  <2>1. ASSUME Contado, NEW s \in NotaStatus PROVE counts[s] \in Nat
    <3>1. NotasEm(s) \subseteq ChaveAcesso
      BY DEF NotasEm
    <3> QED
      BY <2>1, <3>1, Tamanho DEF Contado, CountsMatch
  <2> QED
    BY <2>1 DEF Tipado, TypeOK
<1> QED
  BY <1>1, <1>2, TipadoInit, EscritaInit, ContadoInit, PTL DEF Spec
-----------------------------------------------------------------------------
(* The two derived tables.  A transaction takes both from one load.        *)

Deriva(t) ==
  /\ t.pc \in MeioPC => Derivadas(t.lida.nota, t.lida.partes, t.chave)
  /\ \A c \in ChaveAcesso :
       t.notas[c] # Nenhuma /\ ~(t.pc \in MeioPC /\ c = t.chave) =>
         Derivadas(t.notas[c], t.partes[c], c)

Derivam == DerivedsAgree /\ \A w \in Worker : Deriva(tx[w])

LEMMA DerivaContinua ==
  ASSUME Tipado, Escrita, NEW w \in Worker, NEW t \in TxType, Continua(w, t),
         Deriva(tx[w])
  PROVE  Deriva(t)
<1>0. /\ tx[w] \in TxType /\ Coerente(tx[w], notas)
      /\ tx[w].pc \in MeioPC => tx[w].chave \in ChaveAcesso
  BY DEF Tipado, Escrita, Coerente, MeioPC, TxType
<1>1. ASSUME NEW x \in tx[w].todo, NEW known \in BOOLEAN, tx[w].pc = "insert",
             t = DoInsert(w, x, known)
      PROVE  Deriva(t)
  <2>1. t.notas = tx[w].notas /\ t.pc \in {"insert", "recompute"}
    BY <1>0, <1>1 DEF DoInsert, TxType
  <2> QED
    BY <1>0, <1>1, <2>1 DEF Deriva, Coerente, MeioPC
<1>2. ASSUME NEW c \in tx[w].affected, tx[w].pc = "recompute", t = DoSkip(w, c)
      PROVE  Deriva(t)
  <2>1. t.notas = tx[w].notas /\ t.partes = tx[w].partes /\ t.pc = "recompute"
    BY <1>0, <1>2 DEF DoSkip, TxType
  <2> QED
    BY <1>2, <2>1 DEF Deriva, MeioPC
<1>3. ASSUME NEW c \in tx[w].affected, tx[w].pc = "recompute", t = DoLoad(w, c)
      PROVE  Deriva(t)
  <2>1. /\ t.notas = tx[w].notas /\ t.partes = tx[w].partes /\ t.chave = c
        /\ t.lida.nota = NotaDe(Of(Visible(w), c))
        /\ t.lida.partes = ParticipacoesDe(Of(Visible(w), c))
    BY <1>0, <1>3 DEF DoLoad, TxType
  <2>2. Of(Visible(w), c) \in SUBSET Of(Conhecidas, c)
    BY <1>0, OfType DEF Visible, Tipado, TxType
  <2>3. Derivadas(t.lida.nota, t.lida.partes, t.chave)
    BY <2>1, <2>2 DEF Derivadas
  <2> QED
    BY <1>3, <2>1, <2>3 DEF Deriva, MeioPC
<1>4. ASSUME tx[w].pc = "upsert", t = DoUpsert(w) PROVE Deriva(t)
  <2>1. /\ t.partes = tx[w].partes /\ t.chave = tx[w].chave /\ t.lida = tx[w].lida
        /\ t.pc \in MeioPC
        /\ \A d \in ChaveAcesso \ {tx[w].chave} : t.notas[d] = tx[w].notas[d]
    BY <1>0, <1>4 DEF DoUpsert, TxType, AfterUpsert, MeioPC
  <2> QED
    BY <1>4, <2>1 DEF Deriva, MeioPC
<1>5. ASSUME NEW s, NEW by, NEW next, t = DoCount(w, s, by, next),
             tx[w].pc \in {"countOld", "countNew"}, next \in {"countNew", "parts"}
      PROVE  Deriva(t)
  <2>1. /\ t.notas = tx[w].notas /\ t.partes = tx[w].partes /\ t.pc \in MeioPC
        /\ t.chave = tx[w].chave /\ t.lida = tx[w].lida
    BY <1>0, <1>5 DEF DoCount, TxType, MeioPC
  <2> QED
    BY <1>5, <2>1 DEF Deriva, MeioPC
<1>6. ASSUME tx[w].pc = "parts", t = DoReplace(w) PROVE Deriva(t)
  <2> DEFINE c == tx[w].chave
  <2>1. /\ t.notas = tx[w].notas /\ t.pc = "recompute"
        /\ t.partes = [tx[w].partes EXCEPT ![c] = tx[w].lida.partes]
    BY <1>0, <1>6 DEF DoReplace, TxType
  <2>2. /\ t.partes[c] = tx[w].lida.partes
        /\ \A d \in ChaveAcesso \ {c} : t.partes[d] = tx[w].partes[d]
        /\ t.notas[c] = tx[w].lida.nota
    BY <1>0, <1>6, <2>1 DEF TxType, Coerente, MeioPC
  <2> QED
    BY <1>6, <2>1, <2>2 DEF Deriva, MeioPC
<1>7. Deriva(Ocioso)
  BY DEF Deriva, Ocioso, MeioPC
<1> QED
  BY <1>1, <1>2, <1>3, <1>4, <1>5, <1>6, <1>7 DEF Continua

LEMMA DerivamStep == Tipado /\ Escrita /\ Derivam /\ [Next]_vars => Derivam'
<1> SUFFICES ASSUME Tipado, Escrita, Derivam, [Next]_vars PROVE Derivam'
  OBVIOUS
<1>1. CASE UNCHANGED vars
  BY <1>1 DEF vars, Derivam, DerivedsAgree
<1>2. ASSUME NEW u \in TxType, Deriva(u), NEW b \in BOOLEAN
      PROVE  Deriva([u EXCEPT !.alone = b])
  BY <1>2 DEF Deriva, TxType
<1>3. ASSUME NEW w \in Worker, NEW t \in TxType, Deriva(t), Begin(w, t) \/ Step(w, t)
      PROVE  Derivam'
  <2>1. \A v \in Worker : Deriva(tx'[v])
    <3>1. CASE Step(w, t)
      BY <1>3, <3>1 DEF Step, Tipado, Derivam
    <3>2. CASE Begin(w, t)
      BY <1>2, <1>3, <3>2 DEF Begin, Tipado, Derivam
    <3> QED
      BY <1>3, <3>1, <3>2
  <2>2. notas' = notas /\ nota_empresa' = nota_empresa
    BY <1>3 DEF Begin, Step
  <2> QED
    BY <2>1, <2>2 DEF Derivam, DerivedsAgree
<1>4. ASSUME NEW w \in Worker, NEW t \in TxType, Inicio(w, t), Begin(w, t)
      PROVE  Derivam'
  <2>1. Deriva(t)
    BY <1>4, InicioCoerente DEF Deriva, MeioPC
  <2> QED
    BY <1>3, <1>4, <2>1
<1>5. ASSUME NEW w \in Worker, NEW t \in TxType, Continua(w, t), Step(w, t)
      PROVE  Derivam'
  BY <1>3, <1>5, DerivaContinua DEF Derivam
<1>6. ASSUME NEW w \in Worker, Commit(w) PROVE Derivam'
  <2>1. \A c \in ChaveAcesso : Wrote(w, c) => Derivadas(tx[w].notas[c], tx[w].partes[c], c)
    BY <1>6 DEF Commit, Derivam, Deriva, Wrote, MeioPC
  <2>2. ASSUME NEW c \in ChaveAcesso, notas'[c] # Nenhuma
        PROVE  Derivadas(notas'[c], nota_empresa'[c], c)
    BY <1>6, <2>1, <2>2 DEF Commit, Derivam, DerivedsAgree
  <2>3. Deriva(Ocioso)
    BY DEF Deriva, Ocioso, MeioPC
  <2>4. \A v \in Worker : Deriva(tx'[v])
    BY <1>6, <2>3 DEF Commit, Tipado, Derivam
  <2> QED
    BY <2>2, <2>4 DEF Derivam, DerivedsAgree, Derivadas
<1> QED
  BY <1>1, <1>4, <1>5, <1>6, Passos

\* The row of notas and the rows of nota_empresa of a chave never diverge.
THEOREM DerivedsAgreeHolds == Spec => []DerivedsAgree
<1>1. Init => Derivam
  BY DEF Init, Derivam, DerivedsAgree, Deriva, Ocioso, MeioPC
<1>2. Tipado /\ Escrita /\ Derivam /\ [Next]_vars => (Tipado /\ Escrita /\ Derivam)'
  BY TipadoStep, EscritaStep, DerivamStep
<1>3. Derivam => DerivedsAgree
  BY DEF Derivam
<1> QED
  BY <1>1, <1>2, <1>3, TipadoInit, EscritaInit, PTL DEF Spec
-----------------------------------------------------------------------------
(* Imported notas are backed.  A transaction that takes an imported        *)
(* observation away puts another of the same chave in its place.           *)

Tem(rows, c) == \E x \in rows : x.chave = c /\ x.o.event = "imported"

Respalda(t, obs) ==
  /\ \A x \in t.del : x.o.event = "imported" => Tem(t.ins, x.chave)
  /\ t.pc \in MeioPC /\ t.lida.nota.imported # Never => Tem(obs \cup t.ins, t.chave)
  /\ \A c \in ChaveAcesso :
       t.notas[c] # Nenhuma /\ t.notas[c].imported # Never => Tem(obs \cup t.ins, c)

Respaldo ==
  /\ \A c \in ChaveAcesso :
       notas[c] # Nenhuma /\ notas[c].imported # Never => Tem(observations, c)
  /\ \A w \in Worker : Respalda(tx[w], observations)

LEMMA RespaldaInicio ==
  ASSUME Tipado, Escrita, NEW w \in Worker, NEW t \in TxType, Inicio(w, t)
  PROVE  Respalda(t, observations)
<1>1. t.pc \notin MeioPC /\ \A c \in ChaveAcesso : t.notas[c] = Nenhuma
  BY InicioCoerente DEF MeioPC
<1>2. ASSUME NEW x \in t.del, x.o.event = "imported" PROVE Tem(t.ins, x.chave)
  <2>1. CASE \E lote \in Lotes : t = DoAppend(lote)
    BY <1>2, <2>1 DEF DoAppend, Ocioso
  <2>2. CASE \E c \in ChaveAcesso : t = DoDelete(c)
    BY <1>2, <2>2 DEF DoDelete, Ocioso, Ignoradas
  <2>3. CASE \E c \in ChaveAcesso, at \in Tempo : t = DoUpdate(c, at)
    <3>1. PICK c \in ChaveAcesso, at \in Tempo : t = DoUpdate(c, at)
      BY <2>3
    <3>2. /\ x \in observations /\ x \in Row /\ ObservadaEm(x, at) \in t.ins
      BY <1>2, <3>1, ConhecidasType DEF DoUpdate, Ocioso, Corrigidas, Tipado
    <3>3. ObservadaEm(x, at).chave = x.chave /\ ObservadaEm(x, at).o.event = "imported"
      BY <1>2, <3>2, ObservadaEmType
    <3> QED
      BY <3>2, <3>3 DEF Tem
  <2> QED
    BY <2>1, <2>2, <2>3 DEF Inicio
<1> QED
  BY <1>1, <1>2 DEF Respalda

LEMMA RespaldaContinua ==
  ASSUME Tipado, Escrita, NEW w \in Worker, NEW t \in TxType, Continua(w, t),
         Respalda(tx[w], observations)
  PROVE  Respalda(t, observations)
<1>0. /\ tx[w] \in TxType /\ Coerente(tx[w], notas)
      /\ tx[w].pc \in MeioPC => tx[w].chave \in ChaveAcesso
  BY DEF Tipado, Escrita, Coerente, MeioPC, TxType
<1>1. ASSUME NEW x \in tx[w].todo, NEW known \in BOOLEAN, tx[w].pc = "insert",
             t = DoInsert(w, x, known)
      PROVE  Respalda(t, observations)
  <2>1. /\ t.notas = tx[w].notas /\ t.pc \in {"insert", "recompute"}
        /\ t.del = tx[w].del /\ tx[w].ins \subseteq t.ins
    BY <1>0, <1>1 DEF DoInsert, TxType
  <2> QED
    BY <1>0, <1>1, <2>1 DEF Respalda, MeioPC, Tem
<1>2. ASSUME NEW c \in tx[w].affected, tx[w].pc = "recompute", t = DoSkip(w, c)
      PROVE  Respalda(t, observations)
  <2>1. /\ t.notas = tx[w].notas /\ t.pc = "recompute"
        /\ t.del = tx[w].del /\ tx[w].ins = t.ins
    BY <1>0, <1>2 DEF DoSkip, TxType
  <2> QED
    BY <2>1 DEF Respalda, MeioPC
<1>3. ASSUME NEW c \in tx[w].affected, tx[w].pc = "recompute", t = DoLoad(w, c)
      PROVE  Respalda(t, observations)
  <2> DEFINE S == Of(Visible(w), c)
  <2>1. /\ t.notas = tx[w].notas /\ t.del = tx[w].del /\ tx[w].ins = t.ins
        /\ t.chave = c /\ t.lida.nota = NotaDe(S)
    BY <1>0, <1>3 DEF DoLoad, TxType
  <2>2. S \in SUBSET Observation
    BY <1>0, OfType DEF Visible, Tipado, TxType
  <2>3. NotaDe(S).imported # Never => Viu(S, {"imported"})
    BY <2>2, PrimeiraType DEF NotaDe
  <2>4. Viu(S, {"imported"}) => Tem(observations \cup tx[w].ins, c)
    BY DEF Viu, Of, Visible, Tem
  <2> QED
    BY <2>1, <2>3, <2>4 DEF Respalda
<1>4. ASSUME tx[w].pc = "upsert", t = DoUpsert(w) PROVE Respalda(t, observations)
  <2>1. /\ t.ins = tx[w].ins /\ t.del = tx[w].del /\ t.chave = tx[w].chave
        /\ t.lida = tx[w].lida
        /\ \A d \in ChaveAcesso : t.notas[d] =
              IF d = tx[w].chave THEN tx[w].lida.nota ELSE tx[w].notas[d]
    BY <1>0, <1>4 DEF DoUpsert, TxType
  <2> QED
    BY <1>4, <2>1 DEF Respalda, MeioPC
<1>5. ASSUME NEW s, NEW by, NEW next, t = DoCount(w, s, by, next),
             tx[w].pc \in {"countOld", "countNew"}
      PROVE  Respalda(t, observations)
  <2>1. /\ t.notas = tx[w].notas /\ t.ins = tx[w].ins /\ t.del = tx[w].del
        /\ t.chave = tx[w].chave /\ t.lida = tx[w].lida
    BY <1>0, <1>5 DEF DoCount, TxType
  <2> QED
    BY <1>5, <2>1 DEF Respalda, MeioPC
<1>6. ASSUME tx[w].pc = "parts", t = DoReplace(w) PROVE Respalda(t, observations)
  <2>1. /\ t.notas = tx[w].notas /\ t.pc = "recompute"
        /\ t.ins = tx[w].ins /\ t.del = tx[w].del
    BY <1>0, <1>6 DEF DoReplace, TxType
  <2> QED
    BY <2>1 DEF Respalda, MeioPC
<1>7. Respalda(Ocioso, observations)
  BY DEF Respalda, Ocioso, MeioPC
<1> QED
  BY <1>1, <1>2, <1>3, <1>4, <1>5, <1>6, <1>7 DEF Continua

LEMMA RespaldoStep == Tipado /\ Escrita /\ Respaldo /\ [Next]_vars => Respaldo'
<1> SUFFICES ASSUME Tipado, Escrita, Respaldo, [Next]_vars PROVE Respaldo'
  OBVIOUS
<1>1. CASE UNCHANGED vars
  BY <1>1 DEF vars, Respaldo
<1>2. ASSUME NEW u \in TxType, Respalda(u, observations), NEW b \in BOOLEAN
      PROVE  Respalda([u EXCEPT !.alone = b], observations)
  BY <1>2 DEF Respalda, TxType
<1>3. ASSUME NEW w \in Worker, NEW t \in TxType, Respalda(t, observations),
             Begin(w, t) \/ Step(w, t)
      PROVE  Respaldo'
  <2>1. \A v \in Worker : Respalda(tx'[v], observations)
    <3>1. CASE Step(w, t)
      BY <1>3, <3>1 DEF Step, Tipado, Respaldo
    <3>2. CASE Begin(w, t)
      BY <1>2, <1>3, <3>2 DEF Begin, Tipado, Respaldo
    <3> QED
      BY <1>3, <3>1, <3>2
  <2>2. notas' = notas /\ observations' = observations
    BY <1>3 DEF Begin, Step
  <2> QED
    BY <2>1, <2>2 DEF Respaldo
<1>4. ASSUME NEW w \in Worker, Commit(w) PROVE Respaldo'
  <2>1. ASSUME NEW c, Tem(observations \cup tx[w].ins, c) PROVE Tem(observations', c)
    BY <1>4, <2>1 DEF Commit, Visible, Tem, Respaldo, Respalda
  <2>2. ASSUME NEW c, NEW rows, Tem(observations \cup rows, c)
        PROVE  Tem(observations' \cup rows, c)
    BY <2>1, <2>2 DEF Tem
  <2>3. ASSUME NEW c \in ChaveAcesso, notas'[c] # Nenhuma, notas'[c].imported # Never
        PROVE  Tem(observations', c)
    <3>1. CASE Wrote(w, c)
      BY <1>4, <2>1, <2>3, <3>1 DEF Commit, Respaldo, Respalda, Wrote
    <3>2. CASE ~Wrote(w, c)
      <4>1. Tem(observations, c)
        BY <1>4, <2>3, <3>2 DEF Commit, Respaldo
      <4> QED
        BY <2>1, <4>1 DEF Tem
    <3> QED
      BY <3>1, <3>2
  <2>4. Respalda(Ocioso, observations')
    BY DEF Respalda, Ocioso, MeioPC
  <2>5. \A v \in Worker : Respalda(tx[v], observations')
    BY <2>2 DEF Respaldo, Respalda
  <2>6. \A v \in Worker : Respalda(tx'[v], observations')
    BY <1>4, <2>4, <2>5 DEF Commit, Tipado
  <2> QED
    BY <2>3, <2>6 DEF Respaldo
<1>5. ASSUME NEW w \in Worker, NEW t \in TxType, Inicio(w, t), Begin(w, t)
      PROVE  Respaldo'
  BY <1>3, <1>5, RespaldaInicio
<1>6. ASSUME NEW w \in Worker, NEW t \in TxType, Continua(w, t), Step(w, t)
      PROVE  Respaldo'
  BY <1>3, <1>6, RespaldaContinua DEF Respaldo
<1> QED
  BY <1>1, <1>4, <1>5, <1>6, Passos

\* A nota shown as imported has a committed imported observation.
THEOREM ImportedIsBackedHolds == Spec => []ImportedIsBacked
<1>1. Init => Respaldo
  BY DEF Init, Respaldo, Respalda, Ocioso, MeioPC
<1>2. Tipado /\ Escrita /\ Respaldo /\ [Next]_vars => (Tipado /\ Escrita /\ Respaldo)'
  BY TipadoStep, EscritaStep, RespaldoStep
<1>3. Respaldo => ImportedIsBacked
  BY DEF Respaldo, ImportedIsBacked, Tem, Viu, Of
<1> QED
  BY <1>1, <1>2, <1>3, TipadoInit, EscritaInit, PTL DEF Spec
-----------------------------------------------------------------------------
(* A transaction that runs alone.  Every chave it has changed is still to  *)
(* be derived, or has been from all that the transaction will commit.      *)

Exata(t, rows) ==
  /\ t.pc \in MeioPC =>
       /\ t.lida.nota = NotaDe(Of(rows, t.chave))
       /\ t.lida.partes = ParticipacoesDe(Of(rows, t.chave))
  /\ \A c \in ChaveAcesso : Of(rows, c) # Of(observations, c) =>
       \/ c \in t.affected \/ Of(rows, c) = {}
       \/ /\ t.notas[c] = NotaDe(Of(rows, c))
          /\ t.partes[c] = ParticipacoesDe(Of(rows, c))

\* What t will commit.
Futuras(t) == (observations \ t.del) \cup t.ins

Sozinha ==
  \A w \in Worker : tx[w].alone /\ tx[w].pc # "idle" =>
    /\ \A v \in Others(w) : tx[v].pc = "idle"
    /\ Exata(tx[w], Futuras(tx[w]))

LEMMA ExataInicio ==
  ASSUME Tipado, Escrita, NEW w \in Worker, NEW t \in TxType, Inicio(w, t)
  PROVE  Exata(t, Futuras(t))
<1>1. t.pc \notin MeioPC
  BY InicioCoerente DEF MeioPC
<1>2. ASSUME NEW c \in ChaveAcesso, c \notin t.affected
      PROVE  Of(Futuras(t), c) = Of(observations, c)
  <2>1. CASE \E lote \in Lotes : t = DoAppend(lote)
    BY <2>1 DEF DoAppend, Ocioso, Futuras
  <2>2. CASE \E d \in ChaveAcesso : t = DoDelete(d)
    BY <1>2, <2>2 DEF DoDelete, Ocioso, Futuras, Ignoradas, Of
  <2>3. CASE \E d \in ChaveAcesso, at \in Tempo : t = DoUpdate(d, at)
    <3>1. PICK d \in ChaveAcesso, at \in Tempo : t = DoUpdate(d, at)
      BY <2>3
    <3>2. /\ d # c /\ t.del = Corrigidas(d, at)
          /\ t.ins = {ObservadaEm(x, at) : x \in Corrigidas(d, at)}
      BY <1>2, <3>1 DEF DoUpdate, Ocioso
    <3>3. \A x \in t.del \cup t.ins : x.chave # c
      BY <3>2, ConhecidasType, ObservadaEmType DEF Corrigidas, Tipado
    <3> QED
      BY <3>3 DEF Futuras, Of
  <2> QED
    BY <2>1, <2>2, <2>3 DEF Inicio
<1> QED
  BY <1>1, <1>2 DEF Exata

LEMMA ContinuaAlone ==
  ASSUME Tipado, NEW w \in Worker, NEW t \in TxType, Continua(w, t), t.pc # "idle"
  PROVE  t.alone = tx[w].alone
<1>0. tx[w] \in TxType
  BY DEF Tipado
<1>1. ASSUME NEW x, NEW known, t = DoInsert(w, x, known) PROVE t.alone = tx[w].alone
  BY <1>0, <1>1 DEF DoInsert, TxType
<1>2. ASSUME NEW c, t = DoSkip(w, c) \/ t = DoLoad(w, c) PROVE t.alone = tx[w].alone
  BY <1>0, <1>2 DEF DoSkip, DoLoad, TxType
<1>3. CASE t = DoUpsert(w) \/ t = DoReplace(w)
  BY <1>0, <1>3 DEF DoUpsert, DoReplace, TxType
<1>4. ASSUME NEW s, NEW by, NEW next, t = DoCount(w, s, by, next)
      PROVE  t.alone = tx[w].alone
  BY <1>0, <1>4 DEF DoCount, TxType
<1>5. t # Ocioso
  BY DEF Ocioso
<1> QED
  BY <1>1, <1>2, <1>3, <1>4, <1>5 DEF Continua

LEMMA ExataContinua ==
  ASSUME Tipado, Escrita, NEW w \in Worker, NEW t \in TxType, Continua(w, t),
         Exata(tx[w], Futuras(tx[w])), t.pc # "idle"
  PROVE  Exata(t, Futuras(t))
<1>0. /\ tx[w] \in TxType /\ Coerente(tx[w], notas)
      /\ tx[w].pc \in MeioPC => tx[w].chave \in ChaveAcesso
      /\ Futuras(tx[w]) = Visible(w)
  BY DEF Tipado, Escrita, Coerente, MeioPC, TxType, Futuras, Visible
<1>1. ASSUME NEW x \in tx[w].todo, NEW known \in BOOLEAN, tx[w].pc = "insert",
             t = DoInsert(w, x, known)
      PROVE  Exata(t, Futuras(t))
  <2>1. /\ t.notas = tx[w].notas /\ t.partes = tx[w].partes
        /\ t.pc \in {"insert", "recompute"} /\ t.del = tx[w].del
        /\ t.ins = IF known THEN tx[w].ins ELSE tx[w].ins \cup {x}
        /\ t.affected = IF known THEN tx[w].affected ELSE tx[w].affected \cup {x.chave}
    BY <1>0, <1>1 DEF DoInsert, TxType
  <2>2. ASSUME NEW c \in ChaveAcesso, c \notin t.affected
        PROVE  Of(Futuras(t), c) = Of(Futuras(tx[w]), c) /\ c \notin tx[w].affected
    BY <2>1, <2>2 DEF Of, Futuras
  <2> QED
    BY <2>1, <2>2 DEF Exata, MeioPC
<1>2. ASSUME NEW c \in tx[w].affected, tx[w].pc = "recompute", t = DoSkip(w, c),
             Of(Visible(w), c) = {}
      PROVE  Exata(t, Futuras(t))
  <2>1. /\ t.notas = tx[w].notas /\ t.partes = tx[w].partes /\ t.pc = "recompute"
        /\ t.affected = tx[w].affected \ {c}
        /\ t.del = tx[w].del /\ t.ins = tx[w].ins
    BY <1>0, <1>2 DEF DoSkip, TxType
  <2>2. Futuras(t) = Futuras(tx[w])
    BY <2>1 DEF Futuras
  <2> QED
    BY <1>0, <1>2, <2>1, <2>2 DEF Exata, MeioPC
<1>3. ASSUME NEW c \in tx[w].affected, tx[w].pc = "recompute", t = DoLoad(w, c)
      PROVE  Exata(t, Futuras(t))
  <2>1. /\ t.notas = tx[w].notas /\ t.partes = tx[w].partes /\ t.chave = c
        /\ t.affected = tx[w].affected
        /\ t.del = tx[w].del /\ t.ins = tx[w].ins
        /\ t.lida.nota = NotaDe(Of(Visible(w), c))
        /\ t.lida.partes = ParticipacoesDe(Of(Visible(w), c))
    BY <1>0, <1>3 DEF DoLoad, TxType
  <2>2. Futuras(t) = Visible(w)
    BY <2>1 DEF Futuras, Visible
  <2> QED
    BY <1>0, <2>1, <2>2 DEF Exata
<1>4. ASSUME tx[w].pc = "upsert", t = DoUpsert(w)
      PROVE  Exata(t, Futuras(t))
  <2>1. /\ t.partes = tx[w].partes /\ t.chave = tx[w].chave /\ t.lida = tx[w].lida
        /\ t.affected = tx[w].affected
        /\ t.del = tx[w].del /\ t.ins = tx[w].ins
        /\ \A d \in ChaveAcesso \ {tx[w].chave} : t.notas[d] = tx[w].notas[d]
    BY <1>0, <1>4 DEF DoUpsert, TxType
  <2>2. Futuras(t) = Futuras(tx[w]) /\ t.chave \in t.affected
    BY <1>0, <1>4, <2>1 DEF Futuras, Coerente, MeioPC
  <2> QED
    BY <1>4, <2>1, <2>2 DEF Exata, MeioPC
<1>5. ASSUME NEW s, NEW by, NEW next, t = DoCount(w, s, by, next),
             tx[w].pc \in {"countOld", "countNew"}
      PROVE  Exata(t, Futuras(t))
  <2>1. /\ t.notas = tx[w].notas /\ t.partes = tx[w].partes
        /\ t.chave = tx[w].chave /\ t.lida = tx[w].lida
        /\ t.affected = tx[w].affected
        /\ t.del = tx[w].del /\ t.ins = tx[w].ins
    BY <1>0, <1>5 DEF DoCount, TxType
  <2>2. Futuras(t) = Futuras(tx[w])
    BY <2>1 DEF Futuras
  <2> QED
    BY <1>5, <2>1, <2>2 DEF Exata, MeioPC
<1>6. ASSUME tx[w].pc = "parts", t = DoReplace(w)
      PROVE  Exata(t, Futuras(t))
  <2> DEFINE c == tx[w].chave
  <2>1. /\ t.notas = tx[w].notas /\ t.pc = "recompute"
        /\ t.partes = [tx[w].partes EXCEPT ![c] = tx[w].lida.partes]
        /\ t.affected = tx[w].affected \ {c}
        /\ t.del = tx[w].del /\ t.ins = tx[w].ins
    BY <1>0, <1>6 DEF DoReplace, TxType
  <2>2. /\ t.partes[c] = tx[w].lida.partes
        /\ \A d \in ChaveAcesso \ {c} : t.partes[d] = tx[w].partes[d]
        /\ t.notas[c] = tx[w].lida.nota
    BY <1>0, <1>6, <2>1 DEF TxType, Coerente, MeioPC
  <2>3. Futuras(t) = Futuras(tx[w])
    BY <2>1 DEF Futuras
  <2> QED
    BY <1>6, <2>1, <2>2, <2>3 DEF Exata, MeioPC
<1>7. t # Ocioso
  BY DEF Ocioso
<1> QED
  BY <1>1, <1>2, <1>3, <1>4, <1>5, <1>6, <1>7 DEF Continua

LEMMA SozinhaStep == Tipado /\ Escrita /\ Sozinha /\ [Next]_vars => Sozinha'
<1> SUFFICES ASSUME Tipado, Escrita, Sozinha, [Next]_vars PROVE Sozinha'
  OBVIOUS
<1>1. CASE UNCHANGED vars
  BY <1>1 DEF vars, Sozinha, Exata, Futuras
<1>2. ASSUME NEW w \in Worker, NEW t \in TxType, Inicio(w, t), Begin(w, t)
      PROVE  Sozinha'
  <2>1. /\ observations' = observations
        /\ tx'[w] = [t EXCEPT !.alone = \A u \in Others(w) : tx[u].pc = "idle"]
        /\ \A v \in Others(w) : tx'[v] = [tx[v] EXCEPT !.alone = FALSE]
    BY <1>2 DEF Begin, Tipado, Others
  <2>2. ASSUME NEW v \in Others(w) PROVE ~tx'[v].alone /\ tx'[v].pc = tx[v].pc
    <3>1. tx[v] \in TxType /\ tx'[v] = [tx[v] EXCEPT !.alone = FALSE]
      BY <2>1 DEF Tipado, Others
    <3>2. tx'[v].alone = FALSE
      BY <3>1 DEF TxType
    <3>3. tx'[v].pc = tx[v].pc
      BY <3>1 DEF TxType
    <3> QED
      BY <3>2, <3>3
  <2>3. tx'[w].alone = (\A u \in Others(w) : tx[u].pc = "idle")
    BY <2>1 DEF TxType
  <2>4. Exata(tx'[w], Futuras(tx'[w]))
    <3>1. /\ tx'[w].pc = t.pc /\ tx'[w].lida = t.lida /\ tx'[w].chave = t.chave
          /\ tx'[w].affected = t.affected /\ tx'[w].notas = t.notas
          /\ tx'[w].partes = t.partes /\ tx'[w].del = t.del /\ tx'[w].ins = t.ins
      BY <2>1 DEF TxType
    <3>2. Exata(t, Futuras(t))
      BY <1>2, ExataInicio
    <3> QED
      BY <3>1, <3>2 DEF Exata, Futuras
  <2>5. Exata(tx[w], Futuras(tx[w]))'
    BY <2>1, <2>4 DEF Exata, Futuras
  <2> QED
    BY <2>2, <2>3, <2>5 DEF Sozinha, Others
<1>3. ASSUME NEW w \in Worker, NEW t \in TxType, Continua(w, t), Step(w, t)
      PROVE  Sozinha'
  <2>1. /\ observations' = observations /\ tx'[w] = t
        /\ \A v \in Others(w) : tx'[v] = tx[v]
    BY <1>3 DEF Step, Tipado, Others
  <2>2. tx[w].pc # "idle"
    BY <1>3 DEF Continua
  <2>3. ASSUME t.alone, t.pc # "idle"
        PROVE  /\ \A v \in Others(w) : tx[v].pc = "idle"
               /\ Exata(t, Futuras(t))
    <3>1. tx[w].alone = t.alone
      BY <1>3, <2>3, ContinuaAlone
    <3>2. /\ \A v \in Others(w) : tx[v].pc = "idle"
          /\ Exata(tx[w], Futuras(tx[w]))
      BY <2>2, <2>3, <3>1 DEF Sozinha
    <3> QED
      BY <1>3, <2>3, <3>2, ExataContinua
  <2>4. ASSUME NEW v \in Others(w), tx[v].alone, tx[v].pc # "idle" PROVE FALSE
    BY <2>2, <2>4 DEF Sozinha, Others
  <2>5. \A v \in Worker : Exata(tx'[v], Futuras(tx'[v])) => Exata(tx[v], Futuras(tx[v]))'
    BY <2>1 DEF Exata, Futuras
  <2> QED
    BY <2>1, <2>3, <2>4, <2>5 DEF Sozinha, Others
<1>4. ASSUME NEW w \in Worker, Commit(w) PROVE Sozinha'
  <2>1. tx'[w] = Ocioso /\ \A v \in Others(w) : tx'[v] = tx[v]
    BY <1>4 DEF Commit, Tipado, Others
  <2>2. tx[w].pc # "idle"
    BY <1>4 DEF Commit
  <2>3. ASSUME NEW v \in Others(w), tx[v].alone, tx[v].pc # "idle" PROVE FALSE
    BY <2>2, <2>3 DEF Sozinha, Others
  <2> QED
    BY <2>1, <2>3 DEF Sozinha, Others, Ocioso
<1> QED
  BY <1>1, <1>2, <1>3, <1>4, Passos

\* A transaction that runs by itself leaves every chave it changed exactly as
\* its observations say, whatever stale state it found.
THEOREM SerialIsExactHolds == Spec => SerialIsExact
<1>1. Init => Sozinha
  BY DEF Init, Sozinha, Ocioso
<1>2. Tipado /\ Escrita /\ Sozinha /\ [Next]_vars => (Tipado /\ Escrita /\ Sozinha)'
  BY TipadoStep, EscritaStep, SozinhaStep
<1>3. ASSUME Tipado, Escrita, Sozinha, [Next]_vars, observations' # observations,
             NEW u \in Worker, tx[u].pc # "idle", tx[u].alone,
             NEW c \in ChaveAcesso, Of(observations', c) # Of(observations, c),
             Of(observations', c) # {}
      PROVE  /\ notas'[c] = NotaDe(Of(observations', c))
             /\ nota_empresa'[c] = ParticipacoesDe(Of(observations', c))
  <2>1. PICK w \in Worker : Commit(w)
    BY <1>3, Passos DEF Begin, Step, vars
  <2>2. u = w
    BY <1>3, <2>1 DEF Sozinha, Others, Commit
  <2>3. observations' = Futuras(tx[w]) /\ Exata(tx[w], Futuras(tx[w]))
    BY <1>3, <2>1, <2>2 DEF Sozinha, Commit, Visible, Futuras
  <2>4. /\ tx[w].notas[c] = NotaDe(Of(observations', c))
        /\ tx[w].partes[c] = ParticipacoesDe(Of(observations', c))
    BY <1>3, <2>1, <2>3 DEF Exata, Commit
  <2>5. Of(observations', c) \in SUBSET Observation
    BY <1>3, TipadoStep, OfType DEF Tipado
  <2>6. Wrote(w, c)
    BY <2>4, <2>5, NotaDeType, NenhumaAssumption DEF Wrote
  <2> QED
    BY <2>1, <2>4, <2>6 DEF Commit
<1>4. Tipado /\ Escrita /\ Sozinha /\ [Next]_vars =>
        [observations' # observations /\ (\E w \in Worker : tx[w].pc # "idle" /\ tx[w].alone) =>
           \A c \in ChaveAcesso :
             LET S == Of(observations', c) IN
             S # Of(observations, c) /\ S # {} =>
               notas'[c] = NotaDe(S) /\ nota_empresa'[c] = ParticipacoesDe(S)]_vars
  BY <1>3
<1> QED
  BY <1>1, <1>2, <1>4, TipadoInit, EscritaInit, PTL DEF Spec, SerialIsExact
=============================================================================
