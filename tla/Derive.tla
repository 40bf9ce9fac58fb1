------------------------------- MODULE Derive -------------------------------
(***************************************************************************)
(* internal/derive: the state of one nota computed from its observations.  *)
(* The code walks a time-sorted slice; here the walk is a recursive        *)
(* function over the indices of the same sequence.                         *)
(***************************************************************************)
EXTENDS Observation, SequencesExt
-----------------------------------------------------------------------------
\* Mutant of sortObs: the order of arrival is kept.
naoOrdena(obs) == obs

\* How many of the sorted s do not come later than o.
NaoDepois(s, o) ==
  CHOOSE n \in 0 .. Len(s) : \A j \in 1 .. Len(s) : j <= n <=> s[j].at <= o.at

\* Stable sort by observed_at: each observation goes after those that are not
\* later, in their order of arrival.
Ordenadas(obs) ==
  LET ate[i \in 0 .. Len(obs)] ==
        IF i = 0 THEN <<>>
        ELSE InsertAt(ate[i - 1], NaoDepois(ate[i - 1], obs[i]) + 1, obs[i])
  IN ate

sortObs(obs) == Ordenadas(obs)[Len(obs)]

\* Mutant of setIfEarlier: the last observation wins.
setIfLater(cur, t) == t

setIfEarlier(cur, t) == IF cur = Never \/ t < cur THEN t ELSE cur

Vazia == [arrived |-> Never, synced |-> Never, pending |-> Never,
          imported |-> Never, ignored |-> FALSE, codigo |-> Nulo, filial |-> Nulo]

\* One turn of the loop over the sorted observations.  A participation is
\* accumulated by the same assignments, over its own observations.
Aplicar(n, o) ==
  LET first(when, cur) == IF when THEN setIfEarlier(cur, o.at) ELSE cur IN
  [codigo   |-> IF o.emp # Nulo THEN o.emp ELSE n.codigo,
   filial   |-> IF o.fil # Nulo THEN o.fil ELSE n.filial,
   arrived  |-> first(o.event \in ArrivalEvent, n.arrived),
   synced   |-> first(syncProgress(o.event), n.synced),
   pending  |-> first(o.event = "seen_pending", n.pending),
   imported |-> first(o.event = "imported", n.imported),
   ignored  |-> IF o.event = "import_ignored" THEN TRUE ELSE n.ignored]

\* Mutant of StatusParticipacao: a later sighting reopens an ignored participation.
StatusParticipacaoReaberta(p) ==
  IF p.imported # Never THEN "imported"
  ELSE IF p.pending # Never THEN "pending_import"
  ELSE IF p.ignored THEN "import_ignored"
  ELSE IF p.synced # Never THEN "synced" ELSE "pending_import"

StatusParticipacao(p) ==
  IF p.imported # Never THEN "imported"
  ELSE IF p.ignored THEN "import_ignored"
  ELSE IF p.pending # Never THEN "pending_import"
  ELSE IF p.synced # Never THEN "synced" ELSE "pending_import"

\* The loop over s that skips every observation whose index is not in I.
Andamento(s, I) ==
  LET n[i \in 0 .. Len(s)] ==
        IF i = 0 THEN Vazia
        ELSE IF i \in I THEN Aplicar(n[i - 1], s[i]) ELSE n[i - 1]
  IN n
Percorre(s, I) == Andamento(s, I)[Len(s)]

Resumo(p) ==
  [status |-> StatusParticipacao(p), pending |-> p.pending,
   imported |-> p.imported, synced |-> p.synced]

participacoes(sorted) ==
  LET fundadoras == {i \in 1 .. Len(sorted) : Funda(sorted[i])} IN
  [k \in {Chave(sorted[i]) : i \in fundadoras} |->
     Resumo(Percorre(sorted, {i \in fundadoras : Chave(sorted[i]) = k}))]

\* Mutant of StatusNota: the precedence before M0, blind to open participations.
StatusNotaClassico(n, parts) ==
  IF n.imported # Never THEN "imported"
  ELSE IF n.ignored THEN "import_ignored"
  ELSE IF n.pending # Never THEN "pending_import"
  ELSE IF n.synced # Never THEN "synced"
  ELSE IF n.arrived # Never THEN "arrived" ELSE "pending_import"

\* Mutant of StatusNota: the fallback for a lone timeline event is missing.
StatusNotaSemFallback(n, parts) ==
  IF n.imported # Never THEN "imported"
  ELSE IF n.pending # Never THEN "pending_import"
  ELSE IF n.synced # Never THEN "synced"
  ELSE IF n.arrived # Never THEN "arrived" ELSE ""

StatusNota(n, parts) ==
  LET aberta == \E k \in DOMAIN parts : parts[k].status \notin TerminalStatus
      pendente == \E k \in DOMAIN parts : parts[k].status = "pending_import"
  IN IF ~aberta /\ n.imported # Never THEN "imported"
     ELSE IF ~aberta /\ n.ignored THEN "import_ignored"
     ELSE IF pendente \/ n.pending # Never THEN "pending_import"
     ELSE IF n.synced # Never THEN "synced"
     ELSE IF n.arrived # Never THEN "arrived" ELSE "pending_import"

\* The nota and its participations, in one pass.  The caller never asks for a
\* chave without observations (recompute returns before).
NotaParticipacoes(obs) ==
  LET sorted == sortObs(obs)
      n == Percorre(sorted, 1 .. Len(sorted))
      parts == participacoes(sorted)
  IN [status |-> StatusNota(n, parts), spans |-> n, parts |-> parts]
=============================================================================
