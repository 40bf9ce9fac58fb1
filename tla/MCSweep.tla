------------------------------- MODULE MCSweep -------------------------------
EXTENDS Sweep

CONSTANTS d1, d2, ruim, doc1, doc2, doc3, k1, k2, k3

(* "b" and "b!" : a folder and a folder whose name goes on with a character *)
(* that sorts before the slash.                                             *)
b == <<98>>
bExcl == <<98, 33>>
c == <<99>>

f1 == [dir |-> d1, rel |-> <<b, c>>]
f2 == [dir |-> d1, rel |-> <<bExcl, b>>]
f3 == [dir |-> d1, rel |-> <<c>>]
f4 == [dir |-> d2, rel |-> <<b>>]
MCArquivo == {f1, f2, f3, f4}

\* k1 concerns both companies of the allowlist, k2 also one that is not in it.
xml(k, e, d) == [parse |-> TRUE, chave |-> k, doc |-> "NFe", mes |-> 24,
                 emit |-> e, dest |-> d, tpNF |-> "1"]
x1 == xml(k1, doc1, doc2)
x2 == xml(k2, doc1, doc3)
x3 == xml(k3, doc2, ruim)
MCXml == {x1, x2, x3}
MCXmlInicial == f1 :> x3 @@ f2 :> x2 @@ f3 :> x1 @@ f4 :> x3

MCFiliais == {[emp |-> 1, fil |-> 1, cnpj |-> doc1, nome |-> b],
              [emp |-> 2, fil |-> 1, cnpj |-> doc2, nome |-> <<>>],
              [emp |-> 3, fil |-> 1, cnpj |-> doc3, nome |-> c]}
MCEmpresaNomes == [e \in 1 .. 3 |-> c]

Sweep0 == [modo |-> "sweep", dry |-> FALSE, inicio |-> MCArquivo, maxScan |-> 2, maxPer |-> 1,
           limite |-> 3, falhas |-> 0, chegadas |-> 0, sumicos |-> 0]
MCCenario == {
  [Sweep0 EXCEPT !.falhas = 1],
  [Sweep0 EXCEPT !.chegadas = 1, !.sumicos = 1, !.maxPer = 2],
  [Sweep0 EXCEPT !.dry = TRUE, !.maxScan = 3],
  [Sweep0 EXCEPT !.modo = "worklist", !.sumicos = 1, !.chegadas = 1, !.falhas = 1],
  [Sweep0 EXCEPT !.modo = "worklist", !.dry = TRUE, !.limite = 2]}
MCDirs == {<<d1, d2>>, <<d2>>}
MCOrdem == <<k1, k2, k3>>
=============================================================================
