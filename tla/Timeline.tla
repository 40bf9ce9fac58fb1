------------------------------ MODULE Timeline ------------------------------
(***************************************************************************)
(* The observations of one chave as the store receives them: any of them,  *)
(* in any order of arrival, with equal or decreasing times.  The derived   *)
(* state is compared, after every arrival, with a definition that only     *)
(* knows the SET of observations.                                          *)
(***************************************************************************)
EXTENDS Derive, NotaSpec

CONSTANTS
  Sinais,   \* the observations that may arrive
  MaxObs    \* how many of them (bound)

ASSUME SinaisAssumption == Sinais \subseteq Observation

VARIABLES
  spans,   \* observations of the chave, in order of arrival
  nota     \* the derived nota and participations

vars == <<spans, nota>>

\* The chave is known from its first observation on.
Init ==
  \E o \in Sinais : spans = <<o>> /\ nota = NotaParticipacoes(<<o>>)

\* An accepted observation re-derives the nota.
Recebe(o) ==
  /\ Len(spans) < MaxObs
  /\ LET s == Append(spans, o) IN
       spans' = s /\ nota' = NotaParticipacoes(s)

Next == \E o \in Sinais : Recebe(o)

Spec == Init /\ [][Next]_vars
-----------------------------------------------------------------------------
Terminal == nota.status \in TerminalStatus
Sinal == spans'[Len(spans')]

\* The derived state depends on the set of observations alone: neither their
\* order of arrival, nor ties in observed_at, nor repetitions change the status,
\* a span or a participation.
OrderFree ==
  LET S == ToSet(spans) IN
  /\ NotaDe(S) = [status |-> nota.status, imported |-> nota.spans.imported]
  /\ nota.spans.arrived = Primeira(S, ArrivalEvent)
  /\ nota.spans.synced = Primeira(S, Progresso)
  /\ nota.spans.pending = Primeira(S, {"seen_pending"})
  /\ ParticipacoesDe(S) = [k \in DOMAIN nota.parts |-> nota.parts[k].status]
  /\ \A k \in Envolvidas(S) :
       /\ nota.parts[k].imported = Primeira(Daquela(S, k), {"imported"})
       /\ nota.parts[k].synced = Primeira(Daquela(S, k), Progresso)

\* M0, "importada 1/2": the nota leaves the poller's rotation only when every
\* company it involves has its outcome.
TerminalOnlyWhenAllAre ==
  Terminal =>
    \A i \in DOMAIN spans :
      Funda(spans[i]) =>
        \E j \in DOMAIN spans :
          /\ spans[j].event \in {"imported", "import_ignored"}
          /\ spans[j].emp = spans[i].emp /\ spans[j].fil = spans[i].fil

\* The company the nota is attributed to is the one of the latest observation
\* that names a company: an older one that arrives late does not take it back.
LatestCompanyWins ==
  LET nomeadas == {o \in ToSet(spans) : o.emp # Nulo} IN
  IF nomeadas = {} THEN nota.spans.codigo = Nulo
  ELSE \E o \in nomeadas :
         /\ nota.spans.codigo = o.emp
         /\ \A u \in nomeadas : u.at <= o.at

\* A terminal nota reopens only because a company not known before appears: no
\* late, repeated or older observation of a known one takes the outcome back.
TerminalSticks ==
  [][Terminal /\ ~Terminal' =>
       /\ Funda(Sinal)
       /\ Chave(Sinal) \notin DOMAIN nota.parts]_vars

\* sync_failed and sync_db_inserted are timeline only: they move no status and
\* make no participation look alive.
TimelineOnly ==
  [][Sinal.event \in {"sync_failed", "sync_db_inserted"} =>
       /\ nota'.status = nota.status
       /\ nota'.parts = nota.parts]_vars
=============================================================================
