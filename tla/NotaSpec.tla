------------------------------ MODULE NotaSpec ------------------------------
(***************************************************************************)
(* The derived state of a nota as a function of the SET of its             *)
(* observations: what the documentation of derive.go promises, with no     *)
(* order in it.  Timeline checks that the code's walk computes it; the     *)
(* modules that only need the result use it.                               *)
(***************************************************************************)
EXTENDS Observation

Progresso == {"file_moved", "sync_moved"}

\* The earliest time an event of E was observed.
Primeira(S, E) ==
  LET ats == {o.at : o \in {x \in S : x.event \in E}}
      menores == {t \in ats : \A u \in ats : t <= u}
  IN IF menores = {} THEN Never ELSE CHOOSE t \in menores : TRUE

Viu(S, E) == \E o \in S : o.event \in E

\* A participation is a company seen in Athenas, or whose copy was placed.
Envolvidas(S) ==
  {Chave(o) : o \in {x \in S : x.emp # Nulo /\ x.event \in ImportEvent \cup Progresso}}
Daquela(S, k) == {o \in S : o.emp # Nulo /\ Chave(o) = k}

\* Imported is a fact; ignored ends the participation; a row of Athenas that is
\* neither is pending; a copy alone is synced.
SituacaoDe(S, k) ==
  LET D == Daquela(S, k) IN
  IF Viu(D, {"imported"}) THEN "imported"
  ELSE IF Viu(D, {"import_ignored"}) THEN "import_ignored"
  ELSE IF Viu(D, {"seen_pending"}) THEN "pending_import" ELSE "synced"

Abertas(S) == {k \in Envolvidas(S) : SituacaoDe(S, k) \notin TerminalStatus}

\* Terminal only when no participation is open; else the most advanced step.
SituacaoNota(S) ==
  IF Abertas(S) = {} /\ Viu(S, {"imported"}) THEN "imported"
  ELSE IF Abertas(S) = {} /\ Viu(S, {"import_ignored"}) THEN "import_ignored"
  ELSE IF Viu(S, {"seen_pending"}) THEN "pending_import"
  ELSE IF Viu(S, Progresso) THEN "synced"
  ELSE IF Viu(S, ArrivalEvent) THEN "arrived" ELSE "pending_import"

NotaDe(S) == [status |-> SituacaoNota(S), imported |-> Primeira(S, {"imported"})]
ParticipacoesDe(S) == [k \in Envolvidas(S) |-> SituacaoDe(S, k)]
=============================================================================
