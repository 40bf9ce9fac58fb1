----------------------------- MODULE Consultas ------------------------------
(***************************************************************************)
(* internal/store: the questions of the dashboard, as the two stores       *)
(* answer them.  Memory counts the derived notas; Postgres counts rows of  *)
(* notas only when it must, and else reads the counters the triggers of    *)
(* migration 00014 keep.  Percentiles, names, pages and their order are    *)
(* left out.  One instant is half a day, and days begin on even instants.  *)
(***************************************************************************)
EXTENDS Observation, FiniteSetsExt, Integers

PorDia == 2
HorasPorInstante == 12
Dia(t) == t \div PorDia
MeiaNoite(d) == d * PorDia

\* The routes and their parameters; a route leaves those it does not read alone.
Rota == {"overview", "empresas", "timeseries", "latency", "backlog-age"}
Questao == [rota : Rota, doc : STRING, dir : STRING, campo : STRING, de : Nat, ate : Nat,
            emp : Empresa \cup {Nulo}, fil : Filial \cup {Nulo}, pendentes : BOOLEAN,
            dias : Nat, bucket : STRING]

\* The tests of a filter: "" or 0 or Nulo asks nothing.
Filtra(campo, vazio, valor) == campo = vazio \/ campo = valor

dateColumn(f) == f.campo \in {"emissao", "arrived", "synced", "imported"}
windowed(f) == dateColumn(f) /\ (f.de # 0 \/ f.ate # 0)
live(f) == windowed(f) \/ f.emp # Nulo \/ f.fil # Nulo

PorStatus(S) == [s \in NotaStatus |-> Cardinality({n \in S : n.status = s})]
pendentes(linha) == linha["arrived"] + linha["synced"] + linha["pending_import"]

\* Rows of a company that has nothing.
Zero == [s \in NotaStatus |-> 0]
-----------------------------------------------------------------------------
(* The window of dates: Memory compares calendar days, and Postgres the     *)
(* column with the midnight that begins each day.                           *)

notaDate(n, campo) ==
  CASE campo = "emissao" -> n.emissao
    [] campo = "arrived" -> Dia(n.arrived)
    [] campo = "synced" -> Dia(n.synced)
    [] campo = "imported" -> Dia(n.imported)

inDateWindow(n, f) ==
  windowed(f) => LET d == notaDate(n, f.campo) IN
    d # Never /\ (f.de # 0 => d >= f.de) /\ (f.ate # 0 => d <= f.ate)

Coluna(n, campo) ==
  CASE campo = "emissao" -> MeiaNoite(n.emissao)
    [] campo = "arrived" -> n.arrived
    [] campo = "synced" -> n.synced
    [] campo = "imported" -> n.imported

entreDatas(n, f) ==
  windowed(f) => LET v == Coluna(n, f.campo) IN
    /\ v # Never
    /\ f.de # 0 => v >= MeiaNoite(f.de)
    /\ f.ate # 0 => v <= MeiaNoite(f.ate)

daEmpresa(n, f) == Filtra(f.emp, Nulo, n.emp) /\ Filtra(f.fil, Nulo, n.fil)
doTipo(n, f) == Filtra(f.doc, "", n.doc)
daDirecao(n, f) == Filtra(f.dir, "", n.dir)
-----------------------------------------------------------------------------
(* The counters: partial functions, a row stays when it is back at zero.    *)

DimNota(n) == [doc |-> n.doc, status |-> n.status, dir |-> n.dir]

\* Notas without a company are one line, whatever their branch.
DimEmpresa(n) == [emp |-> n.emp, fil |-> IF n.emp = Nulo THEN Nulo ELSE n.fil,
                  doc |-> n.doc, dir |-> n.dir, status |-> n.status]

Retira(cont, dim) == [d \in DOMAIN cont |-> cont[d] - IF d = dim THEN 1 ELSE 0]
Soma(cont, dim) ==
  [d \in DOMAIN cont \cup {dim} |-> (IF d \in DOMAIN cont THEN cont[d] ELSE 0) + IF d = dim THEN 1 ELSE 0]

\* Mutant of MudouNota: the condition of 00008, which had no direction.
MudouNotaSemDirecao(o, n) == o.doc # n.doc \/ o.status # n.status

\* The WHEN of the two UPDATE triggers.
MudouNota(o, n) == o.doc # n.doc \/ o.status # n.status \/ o.dir # n.dir

MudouEmpresa(o, n) == MudouNota(o, n) \/ o.emp # n.emp \/ o.fil # n.fil

notas_counts_sync(cont, o, n) ==
  IF MudouNota(o, n) THEN Soma(Retira(cont, DimNota(o)), DimNota(n)) ELSE cont
empresa_counts_sync(cont, o, n) ==
  IF MudouEmpresa(o, n) THEN Soma(Retira(cont, DimEmpresa(o)), DimEmpresa(n)) ELSE cont

\* sum(n) of the rows of D, and ... GROUP BY status
Total(cont, D) == MapThenSumSet(LAMBDA d : cont[d], D)
SomaPorStatus(cont, D) == [s \in NotaStatus |-> Total(cont, {d \in D : d.status = s})]
-----------------------------------------------------------------------------
(* GET /metrics/overview.  importedToday is global in both.                 *)

overviewMatches(n, f) == inDateWindow(n, f) /\ daEmpresa(n, f) /\ doTipo(n, f)
overviewWhere(n, f) == entreDatas(n, f) /\ daEmpresa(n, f) /\ doTipo(n, f)

Modo(f) == IF windowed(f) THEN "flow" ELSE ""
importedToday(T, agora) == Cardinality({n \in T : n.imported # Never /\ Dia(n.imported) = Dia(agora)})

OverviewMemoria(T, f, agora) ==
  [status |-> PorStatus({n \in T : overviewMatches(n, f)}),
   hoje |-> importedToday(T, agora), modo |-> Modo(f)]

OverviewPostgres(T, notas_counts, f, agora) ==
  [status |-> IF live(f) THEN PorStatus({n \in T : overviewWhere(n, f)})
              ELSE SomaPorStatus(notas_counts, {d \in DOMAIN notas_counts : doTipo(d, f)}),
   hoje |-> importedToday(T, agora), modo |-> Modo(f)]
-----------------------------------------------------------------------------
(* GET /empresas: a line of counts per company and branch.                  *)

\* HAVING, or the loop that skips.
SoPendentes(linhas, f) ==
  [k \in {j \in DOMAIN linhas : f.pendentes => pendentes(linhas[j]) > 0} |-> linhas[k]]

Grupo(n) == <<DimEmpresa(n).emp, DimEmpresa(n).fil>>
Agrupa(S) == [k \in {Grupo(n) : n \in S} |-> PorStatus({n \in S : Grupo(n) = k})]

EmpresasMemoria(T, f) ==
  SoPendentes(Agrupa({n \in T : inDateWindow(n, f) /\ doTipo(n, f) /\ daDirecao(n, f)}), f)

empresasFilteredQuery(T, f) ==
  Agrupa({n \in T : entreDatas(n, f) /\ doTipo(n, f) /\ daDirecao(n, f)})

empresasCounterQuery(cont, f) ==
  LET D == {d \in DOMAIN cont : doTipo(d, f) /\ daDirecao(d, f)}
  IN [k \in {Grupo(d) : d \in D} |-> SomaPorStatus(cont, {d \in D : Grupo(d) = k})]

EmpresasPostgres(T, empresa_counts, f) ==
  SoPendentes(IF windowed(f) THEN empresasFilteredQuery(T, f)
              ELSE empresasCounterQuery(empresa_counts, f), f)
-----------------------------------------------------------------------------
(* GET /metrics/timeseries: what happened in each day or week (from Monday). *)

bucketStart(d, f) == IF f.bucket = "week" THEN d - (d % 7) ELSE d
Passo(f) == IF f.bucket = "week" THEN 7 ELSE 1
Espinha(f, agora) ==
  LET fim == bucketStart(Dia(agora), f)
  IN {b \in bucketStart(Dia(agora) - (f.dias - 1), f) .. fim : (fim - b) % Passo(f) = 0}

Balde(T, f, b) ==
  LET no(t) == t # Never /\ bucketStart(Dia(t), f) = b IN
  [arrived |-> Cardinality({n \in T : no(n.arrived)}),
   synced |-> Cardinality({n \in T : no(n.synced)}),
   imported |-> Cardinality({n \in T : no(n.imported)})]

TimeseriesMemoria(T, f, agora) == [b \in Espinha(f, agora) |-> Balde(T, f, b)]

\* Postgres first cuts each column, a week beyond the range.
TimeseriesPostgres(T, f, agora) ==
  LET corte(t) == IF t >= agora - (f.dias + 7) * PorDia THEN t ELSE Never
      U == {[n EXCEPT !.arrived = corte(@), !.synced = corte(@), !.imported = corte(@)] : n \in T}
  IN [b \in Espinha(f, agora) |-> Balde(U, f, b)]
-----------------------------------------------------------------------------
(* What both stores compute the same way.                                   *)

Faixa(limites, idade) == Cardinality({h \in limites : h <= idade})
Horas(agora, t) == (agora - t) * HorasPorInstante

BacklogBucketOf(horas) == Faixa({1, 6, 24, 72, 168}, horas)

Coalesce(t, u) == IF t # Never THEN t ELSE u

BacklogAge(T, agora) ==
  LET S == {n \in T : n.status \in {"arrived", "synced", "pending_import"}}
      faixa(n) == BacklogBucketOf(Horas(agora, Coalesce(n.arrived, n.first)))
  IN [i \in 0 .. 5 |-> Cardinality({n \in S : faixa(n) = i})]

\* Arrival to sync by day of the sync; sync to import in calendar days, because
\* imported_at is a date.
Latency(T, f, agora) ==
  LET desde == MeiaNoite(Dia(agora) - f.dias)
      S == {n \in T : n.synced # Never /\ n.synced >= desde /\ n.arrived # Never /\ n.synced >= n.arrived}
      I == {n \in T : n.imported # Never /\ n.imported >= desde /\ n.synced # Never}
      dd(n) == Dia(n.imported) - Dia(n.synced)
  IN [daily |-> [d \in {Dia(n.synced) : n \in S} |-> Cardinality({n \in S : Dia(n.synced) = d})],
      same_day |-> Cardinality({n \in I : dd(n) <= 0}),
      d1 |-> Cardinality({n \in I : dd(n) = 1}),
      d2_plus |-> Cardinality({n \in I : dd(n) >= 2})]

DocTypes(notas_counts) ==
  [doc \in {d.doc : d \in DOMAIN notas_counts} |->
     Total(notas_counts, {d \in DOMAIN notas_counts : d.doc = doc})]
-----------------------------------------------------------------------------
(* The key each question has in the cache.                                  *)

\* Mutant of CacheKeyOf: the companies without the dates.
CacheKeySemDatas(f) ==
  CASE f.rota = "overview" ->
         IF live(f) \/ f.doc # "" THEN <<"overview", f.campo, f.de, f.ate, f.emp, f.fil, f.doc>>
         ELSE <<"overview">>
    [] f.rota = "empresas" -> <<"empresas", f.pendentes, f.doc, f.dir>>
    [] f.rota = "timeseries" -> <<"ts", f.dias, f.bucket>>
    [] f.rota = "latency" -> <<"latency", f.dias>>
    [] f.rota = "backlog-age" -> <<"backlog_age">>

CacheKeyOf(f) ==
  CASE f.rota = "overview" ->
         IF live(f) \/ f.doc # "" THEN <<"overview", f.campo, f.de, f.ate, f.emp, f.fil, f.doc>>
         ELSE <<"overview">>
    [] f.rota = "empresas" -> <<"empresas", f.pendentes, f.doc, f.dir, f.campo, f.de, f.ate>>
    [] f.rota = "timeseries" -> <<"ts", f.dias, f.bucket>>
    [] f.rota = "latency" -> <<"latency", f.dias>>
    [] f.rota = "backlog-age" -> <<"backlog_age">>
=============================================================================
