------------------------------ MODULE MCStore -------------------------------
EXTENDS TrackerStore

CONSTANTS clw, rosemberg, matriz, c1, c2

MCEmpresa == {clw, rosemberg}
MCFilial == {matriz}
MCChave == {c1, c2}

agente(c) == [chave |-> c, o |-> [event |-> "file_seen", emp |-> Nulo, fil |-> Nulo, at |-> 1]]
linha(c, e, evento) ==
  [chave |-> c, o |-> [event |-> evento, emp |-> e, fil |-> matriz, at |-> 1]]

\* A batch of the agent over two notas, and what the poller reads of them, one
\* company imported, the other pending and then ignored.
MCLotes ==
  { {agente(c1), agente(c2)},
    {linha(c1, clw, "imported")},
    {linha(c1, rosemberg, "import_ignored"), linha(c2, clw, "seen_pending")},
    {linha(c1, rosemberg, "seen_pending")} }
=============================================================================
