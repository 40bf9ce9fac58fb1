---------------------------- MODULE MemoryStore ----------------------------
(***************************************************************************)
(* internal/store/memory.go: the store as its callers see it.  It keeps    *)
(* the observations and derives every nota when it is read, so one call is *)
(* one step.  Postgres gives the same results as long as no two            *)
(* transactions change one chave at a time (TrackerStore: SerialIsExact).  *)
(***************************************************************************)
EXTENDS NotaSpec

CONSTANT ChaveAcesso

\* The accepted observations of each nota.
Observacoes == [ChaveAcesso -> SUBSET Observation]

DedupKey(o) == <<o.event, o.emp, o.fil>>

\* What is new is kept, what has a known key is rejected; a batch of the poller
\* has no two observations of one key.
AppendObservations(obs, lote) ==
  [c \in ChaveAcesso |->
     obs[c] \cup {o \in lote[c] : \A x \in obs[c] : DedupKey(x) # DedupKey(o)}]

Conhecidas(obs) == {c \in ChaveAcesso : obs[c] # {}}

ListChavesByStatus(obs, s) == {c \in Conhecidas(obs) : SituacaoNota(obs[c]) = s}

\* Mutant of Inflight: a nota leaves the rotation with its first outcome.
InflightSemDesfecho(obs) ==
  {c \in Conhecidas(obs) : ~Viu(obs[c], {"imported", "import_ignored"})}

\* The notas the rotation visits: everything that is not terminal.
Inflight(obs) == {c \in Conhecidas(obs) : SituacaoNota(obs[c]) \notin TerminalStatus}

StatusForChaves(obs, chaves) ==
  [c \in chaves \cap Conhecidas(obs) |-> SituacaoNota(obs[c])]

\* At least one participation is imported, whatever the status of the nota.
KnownImported(obs, chaves) == {c \in chaves : Viu(obs[c], {"imported"})}

\* By imported_at, as Postgres does it: a nota imported by one company of two is
\* listed.  (memory.go asks for the status instead, and misses it.)
ListChavesImportedSince(obs, since) ==
  {c \in Conhecidas(obs) : Primeira(obs[c], {"imported"}) >= since}

DeleteImportIgnoredObs(obs, c) ==
  [obs EXCEPT ![c] = {o \in @ : o.event # "import_ignored"}]

\* Every imported observation of the chave gets the one time.
UpdateImportedObservedAt(obs, c, t) ==
  [obs EXCEPT ![c] = {IF o.event = "imported" THEN [o EXCEPT !.at = t] ELSE o : o \in @}]
=============================================================================
