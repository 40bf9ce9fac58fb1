------------------------------ MODULE MCPoller ------------------------------
EXTENDS Poller

CONSTANTS matriz, c1, c2, c3

\* Company 1 owns c1; company 2 has a copy of it, which it ignores or imports.
\* The row of company 2 has no date.
linha(id, c, e, data) == [id |-> id, chave |-> c, emp |-> e, fil |-> matriz,
                          robo |-> Never, inclusao |-> data]

MCEmpresa == {1, 2}
MCFilial == {matriz}
MCLinha == {linha(1, c1, 1, 1), linha(2, c1, 2, Never)}

MCCenario == {
  [ativos |-> {"rotacao", "reconcile", "repoll"}, fixPending |-> TRUE,
   falhas |-> 0, comandos |-> 1, remocoes |-> 0],
  [ativos |-> {"rotacao", "sweep"}, fixPending |-> FALSE,
   falhas |-> 0, comandos |-> 0, remocoes |-> 0],
  [ativos |-> {"rotacao", "repoll"}, fixPending |-> FALSE,
   falhas |-> 1, comandos |-> 1, remocoes |-> 0],
  [ativos |-> {"rotacao", "fix"}, fixPending |-> FALSE,
   falhas |-> 0, comandos |-> 1, remocoes |-> 0],
  [ativos |-> {"reconcile"}, fixPending |-> FALSE,
   falhas |-> 0, comandos |-> 0, remocoes |-> 1]}
=============================================================================
