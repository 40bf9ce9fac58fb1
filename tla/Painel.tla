------------------------------- MODULE Painel -------------------------------
(***************************************************************************)
(* The dashboard: notas that change as observations arrive, the triggers   *)
(* that count them, the questions, and the cache in front of Postgres.     *)
(***************************************************************************)
EXTENDS Cached, Consultas, Derive

CONSTANTS
  Nota,        \* the notas
  DocDe,       \* doc_type, which follows from the chave
  EmissaoDe,   \* data_emissao, as a day, in the events of a nota that carry it, or Never
  LadoDe,      \* the direction of a nota for each company, or ""
  Sinal,       \* what may be observed: [event, emp, fil]
  Pergunta,    \* questions asked of the stores
  Inicio,      \* first instant
  Saltos,      \* how much time may pass between two events
  Cenario      \* whether readers ask, what may happen, and events left (bound)

ASSUME FiltroAssumption == Filtro \subseteq Pergunta
ASSUME PerguntaAssumption == Pergunta \subseteq Questao
ASSUME NotasAssumption ==
  /\ DocDe \in [Nota -> STRING] /\ EmissaoDe \in [Nota -> [Event -> Nat]]
  /\ \A c \in Nota, e \in Empresa : LadoDe[c][e] \in STRING

Sinaliza(o, t) == [event |-> o.event, emp |-> o.emp, fil |-> o.fil, at |-> t]
ASSUME SinalAssumption == \A o \in Sinal, t \in Tempo : Sinaliza(o, t) \in Observation

\* Day 0 is that of Never.
ASSUME InicioAssumption == Inicio \in PorDia .. MaxTempo /\ Saltos \subseteq Nat
ASSUME CenarioPainelAssumption == 
  Cenario \subseteq [cache : BOOLEAN, sinais : SUBSET Sinal, saltos : SUBSET Saltos, restam : Nat]

VARIABLES
  observations,    \* per nota: what was accepted, in order of arrival, in both stores
  notas,           \* the table notas of Postgres: the row of each nota known
  notas_counts,    \* the table of the counters by status
  empresa_counts,  \* and of those by company
  agora,           \* now
  cenario

painelVars == <<observations, notas, notas_counts, empresa_counts, agora, cenario>>
vars == <<cacheVars, painelVars>>

PainelInit ==
  /\ Init
  /\ observations = [c \in Nota |-> <<>>]
  /\ notas = [c \in {} |-> <<>>]
  /\ notas_counts = [d \in {} |-> 0] /\ empresa_counts = [d \in {} |-> 0]
  /\ agora = Inicio
  /\ cenario \in Cenario
-----------------------------------------------------------------------------
(* A nota as its observations s, in the order they are read, give it.       *)

\* The side of the company of an observation.  The agent does not know it, and
\* the others find it by the CNPJ of the branch.
Lado(c, o) == IF o.event \in {"file_seen", "file_moved"} \/ o.fil = Nulo THEN "" ELSE LadoDe[c][o.emp]

\* The last that is not empty.
DirecaoDe(c, sorted) ==
  LET comLado == {i \in DOMAIN sorted : Lado(c, sorted[i]) # ""}
  IN IF comLado = {} THEN "" ELSE Lado(c, sorted[Max(comLado)])

\* A document has one data_emissao, whichever observation carries it.
EmissaoDas(c, S) ==
  LET dias == {EmissaoDe[c][o.event] : o \in S} \ {Never}
  IN IF dias = {} THEN Never ELSE CHOOSE d \in dias : TRUE

NotaDerivada(c, s) ==
  LET n == NotaParticipacoes(s)
      sorted == sortObs(s)
  IN [chave |-> c, doc |-> DocDe[c], status |-> n.status, dir |-> DirecaoDe(c, sorted),
      emp |-> n.spans.codigo, fil |-> n.spans.filial, emissao |-> EmissaoDas(c, ToSet(s)),
      first |-> sorted[1].at, arrived |-> n.spans.arrived, synced |-> n.spans.synced,
      pending |-> n.spans.pending, imported |-> n.spans.imported]

\* Memory derives a nota whenever it is asked, from what it keeps in order of arrival.
NotaMemoria(c) == NotaDerivada(c, observations[c])
TabelaMemoria == {NotaMemoria(c) : c \in {x \in Nota : observations[x] # <<>>}}
-----------------------------------------------------------------------------
(* Postgres keeps the derived nota as a row.                                *)

Tabela == {notas[c] : c \in DOMAIN notas}

\* ORDER BY observed_at: ties come in any order.
loadObservations(o) ==
  {s \in [1 .. Len(o) -> ToSet(o)] :
     /\ ToSet(s) = ToSet(o)
     /\ \A i, j \in 1 .. Len(o) : i < j => s[i].at <= s[j].at}

COALESCE(v, vazio, guardado) == IF v = vazio THEN guardado ELSE v

\* first_seen_at is not among the columns an UPDATE sets.
upsertNota(c, n) ==
  IF c \notin DOMAIN notas THEN n
  ELSE [n EXCEPT !.emp = COALESCE(@, Nulo, notas[c].emp), !.fil = COALESCE(@, Nulo, notas[c].fil),
                 !.emissao = COALESCE(@, Never, notas[c].emissao),
                 !.dir = COALESCE(@, "", notas[c].dir), !.first = notas[c].first]

\* The direction is not among the columns of an observation: what is read of
\* them has none.
recompute(c, s) == upsertNota(c, [NotaDerivada(c, s) EXCEPT !.dir = ""])

\* The row of c is written, and the triggers run.
Escreve(c, linha) ==
  LET nova == c \notin DOMAIN notas IN
  /\ cenario.restam > 0
  /\ DadosMudam
  /\ notas' = [x \in DOMAIN notas \cup {c} |-> IF x = c THEN linha ELSE notas[x]]
  /\ notas_counts' = IF nova THEN Soma(notas_counts, DimNota(linha))
                     ELSE notas_counts_sync(notas_counts, notas[c], linha)
  /\ empresa_counts' = IF nova THEN Soma(empresa_counts, DimEmpresa(linha))
                       ELSE empresa_counts_sync(empresa_counts, notas[c], linha)
  /\ cenario' = [cenario EXCEPT !.restam = @ - 1]
  /\ UNCHANGED agora

\* A file seen has its mtime, and an import the day its row entered Athenas, or
\* now without it: both may be past.  Every other event is dated now.
InstantesDe(event) ==
  IF event \in {"file_seen", "imported"} THEN {MeiaNoite(Dia(agora)), agora} ELSE {agora}

\* An observation is ingested; the same event of the same company is a duplicate.
Observa(c, o) ==
  /\ \A x \in ToSet(observations[c]) : <<x.event, x.emp, x.fil>> # <<o.event, o.emp, o.fil>>
  /\ \E t \in InstantesDe(o.event) :
       observations' = [observations EXCEPT ![c] = Append(@, Sinaliza(o, t))]
  /\ \E s \in loadObservations(observations'[c]) : Escreve(c, recompute(c, s))

\* repoll --backfill-direction, a block of pages with one nota: its company and
\* branch are known, and are one of its sides.
BackfillDirection(c) ==
  /\ c \in DOMAIN notas
  /\ LET n == notas[c] IN
     /\ n.dir = "" /\ n.emp # Nulo /\ n.fil # Nulo
     /\ LadoDe[c][n.emp] # ""
     /\ Escreve(c, [n EXCEPT !.dir = LadoDe[c][n.emp]])
  /\ UNCHANGED observations

Passa(d) ==
  /\ cenario.restam > 0
  /\ agora + d <= MaxTempo
  /\ agora' = agora + d
  /\ cenario' = [cenario EXCEPT !.restam = @ - 1]
  /\ UNCHANGED <<cacheVars, observations, notas, notas_counts, empresa_counts>>

PainelNext ==
  \/ cenario.cache /\ Cache /\ UNCHANGED painelVars
  \/ \E c \in Nota : BackfillDirection(c) \/ \E o \in cenario.sinais : Observa(c, o)
  \/ \E d \in cenario.saltos : Passa(d)

PainelSpec == PainelInit /\ [][PainelNext]_vars /\ Justica
-----------------------------------------------------------------------------
\* The answer of Postgres to a question.
Resposta(f) ==
  CASE f.rota = "overview" -> OverviewPostgres(Tabela, notas_counts, f, agora)
    [] f.rota = "empresas" -> EmpresasPostgres(Tabela, empresa_counts, f)
    [] f.rota = "timeseries" -> TimeseriesPostgres(Tabela, f, agora)
    [] f.rota = "latency" -> Latency(Tabela, f, agora)
    [] f.rota = "backlog-age" -> BacklogAge(Tabela, agora)

\* Questions that share a key of the cache.
Colidem == {p \in Pergunta \X Pergunta : p[1] # p[2] /\ CacheKeyOf(p[1]) = CacheKeyOf(p[2])}

\* "dois filtros ... colidiam e o segundo recebia o resultado cacheado do
\* primeiro": questions that share a key of the cache have one answer, whatever
\* the notas.
KeyIsEnough == \A p \in Colidem : Resposta(p[1]) = Resposta(p[2])

\* A nota that arrived, was synced or imported in the last day asked for, after
\* its midnight: Postgres leaves it out and Memory does not.
NaBorda(f) ==
  /\ f.campo \in {"arrived", "synced", "imported"} /\ f.ate # 0
  /\ \E n \in Tabela : notaDate(n, f.campo) = f.ate /\ Coluna(n, f.campo) > MeiaNoite(f.ate)

RespostaMemoria(f) ==
  CASE f.rota = "overview" -> OverviewMemoria(TabelaMemoria, f, agora)
    [] f.rota = "empresas" -> EmpresasMemoria(TabelaMemoria, f)
    [] f.rota = "timeseries" -> TimeseriesMemoria(TabelaMemoria, f, agora)
    [] f.rota = "latency" -> Latency(TabelaMemoria, f, agora)
    [] f.rota = "backlog-age" -> BacklogAge(TabelaMemoria, agora)

\* The latest observations of c that name a company, or a branch, tie and name
\* two: which of them the nota goes to depends on the order they are read in.
Empate(c) ==
  LET ultimas(T) == {o \in T : \A u \in T : u.at <= o.at}
      S == ToSet(observations[c])
  IN \/ \E o, u \in ultimas({x \in S : x.emp # Nulo}) : o.emp # u.emp
     \/ \E o, u \in ultimas({x \in S : x.fil # Nulo}) : o.fil # u.fil

\* What the two stores do not promise each other: the direction, which Memory
\* takes from the observations and Postgres from a backfill; the company among
\* ties; and first_seen_at, which in Postgres does not go back.
LeDirecao(f) == f.rota = "empresas" /\ f.dir # ""
LeEmpresa(f) == f.rota = "empresas" \/ (f.rota = "overview" /\ (f.emp # Nulo \/ f.fil # Nulo))
Diverge(f) ==
  \E c \in DOMAIN notas :
    \/ LeDirecao(f) /\ notas[c].dir # NotaMemoria(c).dir
    \/ LeEmpresa(f) /\ Empate(c)
    \/ /\ f.rota = "backlog-age" /\ notas[c].arrived = Never
       /\ notas[c].first # NotaMemoria(c).first

\* Counters that came back to zero keep their line.
Concordam(f) ==
  IF f.rota = "empresas"
  THEN LET pg == Resposta(f)
           mem == RespostaMemoria(f)
       IN /\ \A k \in DOMAIN mem : k \in DOMAIN pg /\ pg[k] = mem[k]
          /\ \A k \in DOMAIN pg \ DOMAIN mem : pg[k] = Zero
  ELSE Resposta(f) = RespostaMemoria(f)

\* Postgres, which writes a row at each observation and counts rows by triggers,
\* and Memory, which derives every nota when asked, give one answer ("ambos os
\* caminhos produzem as MESMAS colunas"): no observation, however late or however
\* far back it takes the status, drifts a row or a counter.
StoresAgree ==
  /\ \A c \in DOMAIN notas :
       LET fatos(n) == <<n.status, n.arrived, n.synced, n.pending, n.imported, n.emissao>>
       IN fatos(notas[c]) = fatos(NotaMemoria(c))
  /\ DocTypes(notas_counts) =
       [d \in DOMAIN DocTypes(notas_counts) |-> Cardinality({n \in TabelaMemoria : n.doc = d})]
  /\ \A f \in Pergunta : NaBorda(f) \/ Diverge(f) \/ Concordam(f)
=============================================================================
