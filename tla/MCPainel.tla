------------------------------ MODULE MCPainel ------------------------------
(* Two notas, of two types; the cache holds three questions in two keys.     *)
EXTENDS Painel

CONSTANTS c1, c2, e1, e2, matriz, r1, r2, g1, g2

MCDocDe == c1 :> "NFE" @@ c2 :> "CTE"
\* The file of c1 could not be read on arrival.
MCEmissaoDe == c1 :> [e \in Event |-> IF e \in ArrivalEvent THEN Never ELSE 19] @@ c2 :> [e \in Event |-> 20]

\* c1 goes from e1 to e2; e2 is no party of c2.
MCLadoDe == c1 :> (e1 :> "saida" @@ e2 :> "entrada") @@ c2 :> (e1 :> "entrada" @@ e2 :> "")

sinal(event, emp, fil) == [event |-> event, emp |-> emp, fil |-> fil]
MCSinal == {sinal("file_seen", Nulo, Nulo), sinal("file_moved", e1, matriz),
            sinal("seen_pending", e1, Nulo), sinal("imported", e2, matriz),
            sinal("import_ignored", e1, matriz)}

P0 == [rota |-> "overview", doc |-> "", dir |-> "", campo |-> "", de |-> 0, ate |-> 0,
       emp |-> Nulo, fil |-> Nulo, pendentes |-> FALSE, dias |-> 0, bucket |-> ""]
E0 == [P0 EXCEPT !.rota = "empresas"]
S0 == [P0 EXCEPT !.rota = "timeseries", !.dias = 7, !.bucket = "day"]
Geral == P0
GeralSemJanela == [P0 EXCEPT !.campo = "arrived"]
Chegadas == [P0 EXCEPT !.campo = "arrived", !.de = 20, !.ate = 20]
MCFiltro == {Geral, Chegadas}
MCPergunta == MCFiltro \cup {GeralSemJanela} \cup
  {[P0 EXCEPT !.doc = "NFE"], [P0 EXCEPT !.emp = e1], [P0 EXCEPT !.emp = e1, !.fil = matriz, !.doc = "CTE"],
   [P0 EXCEPT !.campo = "emissao", !.de = 20], [P0 EXCEPT !.campo = "imported", !.ate = 20],
   [P0 EXCEPT !.campo = "synced", !.de = 20, !.ate = 21],
   E0, [E0 EXCEPT !.doc = "NFE"], [E0 EXCEPT !.dir = "saida"], [E0 EXCEPT !.pendentes = TRUE],
   [E0 EXCEPT !.campo = "emissao", !.de = 20, !.ate = 20], [E0 EXCEPT !.campo = "imported", !.de = 20, !.ate = 20],
   S0, [S0 EXCEPT !.bucket = "week"], [S0 EXCEPT !.dias = 30],
   [P0 EXCEPT !.rota = "latency", !.dias = 1], [P0 EXCEPT !.rota = "latency", !.dias = 7],
   [P0 EXCEPT !.rota = "backlog-age"]}
MCCacheKey == [f \in MCFiltro |-> CacheKeyOf(f)]

\* Readers beside a nota that changes; all kinds of observation in short
\* histories; and longer ones of the kinds that name a company.
MCCenario ==
  {[cache |-> TRUE, sinais |-> {sinal("file_moved", e1, matriz)}, saltos |-> {}, restam |-> 1],
   [cache |-> FALSE, sinais |-> MCSinal, saltos |-> {1, 17}, restam |-> 3],
   [cache |-> FALSE, sinais |-> {o \in MCSinal : o.emp # Nulo}, saltos |-> {1}, restam |-> 4]}
=============================================================================
