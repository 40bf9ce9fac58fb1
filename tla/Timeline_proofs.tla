-------------------------- MODULE Timeline_proofs --------------------------
(***************************************************************************)
(* What is promised of the nota holds for any observations in any order of *)
(* arrival: NotaSpec_proofs shows that the walk of derive.go computes the  *)
(* nota of their set.                                                      *)
(***************************************************************************)
EXTENDS Timeline, NotaSpec_proofs

\* The store holds observations, and the nota is what the code derives of them.
Derivada ==
  /\ spans \in Seq(Observation)
  /\ nota = NotaParticipacoes(spans)

LEMMA DerivadaInit == Init => Derivada
BY SinaisAssumption DEF Init, Derivada

LEMMA RecebeDeriva ==
  ASSUME Derivada, NEW o \in Sinais, Recebe(o)
  PROVE  /\ Derivada'
         /\ o \in Observation /\ Sinal = o
         /\ ToSet(spans') = ToSet(spans) \cup {o}
<1>1. o \in Observation /\ spans \in Seq(Observation) /\ spans' = Append(spans, o)
      /\ nota' = NotaParticipacoes(spans')
  BY SinaisAssumption DEF Recebe, Derivada
<1>2. /\ spans' \in Seq(Observation)
      /\ Len(spans) \in Nat /\ Len(spans') = Len(spans) + 1
      /\ spans'[Len(spans')] = o
      /\ \A i \in 1 .. Len(spans) : spans'[i] = spans[i]
  BY <1>1
<1>3. ToSet(spans') = {spans'[i] : i \in 1 .. Len(spans) + 1} /\ ToSet(spans) = {spans[i] : i \in 1 .. Len(spans)}
  BY <1>1, <1>2 DEF ToSet
<1>4. ToSet(spans') = ToSet(spans) \cup {o}
  BY <1>2, <1>3
<1> QED
  BY <1>1, <1>2, <1>4 DEF Derivada, Sinal

LEMMA DerivadaStep == Derivada /\ [Next]_vars => Derivada'
<1>1. CASE UNCHANGED vars
  BY <1>1 DEF vars, Derivada
<1>2. ASSUME Derivada, NEW o \in Sinais, Recebe(o) PROVE Derivada'
  BY <1>2, RecebeDeriva
<1> QED
  BY <1>1, <1>2 DEF Next

\* The nota kept is that of the set of the observations.
LEMMA NotaGuardada ==
  ASSUME Derivada
  PROVE  /\ ToSet(spans) \in SUBSET Observation
         /\ Marcam(nota.spans, ToSet(spans))
         /\ nota.status = SituacaoNota(ToSet(spans))
         /\ nota.parts = [k \in Envolvidas(ToSet(spans)) |-> ParteDe(ToSet(spans), k)]
<1>1. ToSet(spans) \in SUBSET Observation
  BY DEF Derivada, ToSet
<1> QED
  BY <1>1, NotaDoConjunto DEF Derivada

\* The derived state depends on the set of observations alone: the walk of
\* derive.go gives, for any order of arrival, ties and repetitions, the status,
\* the spans and the participations of NotaSpec.
THEOREM OrderFreeHolds == Spec => []OrderFree
<1>1. Derivada => OrderFree
  <2> SUFFICES ASSUME Derivada PROVE OrderFree
    OBVIOUS
  <2> DEFINE S == ToSet(spans)
  <2>1. /\ Marcam(nota.spans, S)
        /\ nota.status = SituacaoNota(S)
        /\ nota.parts = [k \in Envolvidas(S) |-> ParteDe(S, k)]
    BY NotaGuardada
  <2> HIDE DEF S
  <2>2. \A k \in Envolvidas(S) :
           /\ nota.parts[k].status = SituacaoDe(S, k)
           /\ nota.parts[k].imported = Primeira(Daquela(S, k), {"imported"})
           /\ nota.parts[k].synced = Primeira(Daquela(S, k), Progresso)
    BY <2>1 DEF ParteDe
  <2>3. ParticipacoesDe(S) = [k \in DOMAIN nota.parts |-> nota.parts[k].status]
    BY <2>1, <2>2 DEF ParticipacoesDe
  <2>4. NotaDe(S) = [status |-> nota.status, imported |-> nota.spans.imported]
    BY <2>1 DEF NotaDe, Marcam
  <2>5. /\ nota.spans.arrived = Primeira(S, ArrivalEvent)
        /\ nota.spans.synced = Primeira(S, Progresso)
        /\ nota.spans.pending = Primeira(S, {"seen_pending"})
    BY <2>1 DEF Marcam
  <2> QED
    BY <2>2, <2>3, <2>4, <2>5 DEF OrderFree, S
<1> QED
  BY <1>1, DerivadaInit, DerivadaStep, PTL DEF Spec

\* The nota is attributed to the company of the latest observation that names
\* one, whatever arrives late.
THEOREM LatestCompanyWinsHolds == Spec => []LatestCompanyWins
<1>1. Derivada => LatestCompanyWins
  <2> SUFFICES ASSUME Derivada PROVE LatestCompanyWins
    OBVIOUS
  <2>1. ToSet(spans) \in SUBSET Observation
    BY DEF Derivada, ToSet
  <2>2. Ultima(ToSet(spans), NomeiaEmpresa, nota.spans.codigo)
    BY UltimasNomeadas DEF Derivada
  <2> QED
    BY <2>1, <2>2 DEF LatestCompanyWins, Ultima, NomeiaEmpresa
<1> QED
  BY <1>1, DerivadaInit, DerivadaStep, PTL DEF Spec

\* M0, "importada 1/2": a terminal nota has the outcome of every company that
\* was seen in Athenas or had its copy placed.
THEOREM TerminalOnlyWhenAllAreHolds == Spec => []TerminalOnlyWhenAllAre
<1>1. Derivada => TerminalOnlyWhenAllAre
  <2> SUFFICES ASSUME Derivada, Terminal, NEW i \in DOMAIN spans, Funda(spans[i])
               PROVE  \E j \in DOMAIN spans :
                        /\ spans[j].event \in {"imported", "import_ignored"}
                        /\ spans[j].emp = spans[i].emp /\ spans[j].fil = spans[i].fil
    BY DEF TerminalOnlyWhenAllAre
  <2> DEFINE S == ToSet(spans)
             k == Chave(spans[i])
  <2>1. SituacaoNota(S) \in TerminalStatus
    BY NotaGuardada DEF Terminal
  <2>2. spans[i] \in S
    BY DEF ToSet
  <2>3. k \in Envolvidas(S)
    BY <2>2 DEF Envolvidas, Funda, syncProgress, Progresso
  <2>4. PICK o \in Daquela(S, k) : o.event \in {"imported", "import_ignored"}
    <3> HIDE DEF S, k
    <3> QED
      BY <2>1, <2>3, TerminalHasAllOutcomes DEF Viu
  <2>5. o \in S /\ o.emp = spans[i].emp /\ o.fil = spans[i].fil
    BY <2>4 DEF Daquela, Chave
  <2>6. PICK j \in DOMAIN spans : o = spans[j]
    BY <2>5 DEF ToSet
  <2> QED
    BY <2>4, <2>5, <2>6
<1> QED
  BY <1>1, DerivadaInit, DerivadaStep, PTL DEF Spec

\* A terminal nota reopens only for a company not known before.
THEOREM TerminalSticksHolds == Spec => TerminalSticks
<1>1. ASSUME Derivada, NEW o \in Sinais, Recebe(o), Terminal, ~Terminal'
      PROVE  Funda(Sinal) /\ Chave(Sinal) \notin DOMAIN nota.parts
  <2>1. /\ Derivada' /\ Sinal = o /\ o \in Observation
        /\ ToSet(spans') = ToSet(spans) \cup {o}
    BY <1>1, RecebeDeriva
  <2>2. /\ ToSet(spans) \in SUBSET Observation
        /\ nota.status = SituacaoNota(ToSet(spans))
        /\ DOMAIN nota.parts = Envolvidas(ToSet(spans))
    BY <1>1, NotaGuardada
  <2>3. nota'.status = SituacaoNota(ToSet(spans'))
    BY <2>1, NotaDoConjunto DEF Derivada
  <2> QED
    BY <1>1, <2>1, <2>2, <2>3, ReopensForNewCompanyOnly DEF Terminal
<1>2. Derivada /\ [Next]_vars =>
        [Terminal /\ ~Terminal' =>
           /\ Funda(Sinal)
           /\ Chave(Sinal) \notin DOMAIN nota.parts]_vars
  BY <1>1 DEF Next
<1> QED
  BY <1>2, DerivadaInit, DerivadaStep, PTL DEF Spec, TerminalSticks

\* sync_failed and sync_db_inserted add nothing to what S says.
LEMMA SoLinhaDoTempo ==
  ASSUME NEW S, NEW o, o.event \in {"sync_failed", "sync_db_inserted"}
  PROVE  /\ SituacaoNota(S \cup {o}) = SituacaoNota(S)
         /\ Envolvidas(S \cup {o}) = Envolvidas(S)
         /\ \A k : ParteDe(S \cup {o}, k) = ParteDe(S, k)
<1> DEFINE R == S \cup {o}
           Marca == {ArrivalEvent, Progresso, {"seen_pending"}, {"imported"}, {"import_ignored"}}
<1>1. \A E \in Marca : o.event \notin E
  BY DEF ArrivalEvent, Progresso
<1>2. ASSUME NEW E \in Marca PROVE Primeira(R, E) = Primeira(S, E) /\ (Viu(R, E) <=> Viu(S, E))
  <2>1. {x \in R : x.event \in E} = {x \in S : x.event \in E}
    BY <1>1
  <2> QED
    BY <2>1, SoOsEventos
<1>3. ASSUME NEW k, NEW E \in Marca
      PROVE  /\ Primeira(Daquela(R, k), E) = Primeira(Daquela(S, k), E)
             /\ Viu(Daquela(R, k), E) <=> Viu(Daquela(S, k), E)
  <2>1. {x \in Daquela(R, k) : x.event \in E} = {x \in Daquela(S, k) : x.event \in E}
    BY <1>1 DEF Daquela
  <2> QED
    BY <2>1, SoOsEventos
<1>4. /\ ArrivalEvent \in Marca /\ Progresso \in Marca /\ {"seen_pending"} \in Marca
      /\ {"imported"} \in Marca /\ {"import_ignored"} \in Marca
  OBVIOUS
<1> HIDE DEF Marca, R
<1>5. Envolvidas(R) = Envolvidas(S)
  BY DEF Envolvidas, ImportEvent, Progresso, R
<1>6. \A k : SituacaoDe(R, k) = SituacaoDe(S, k)
  BY <1>3, <1>4 DEF SituacaoDe
<1>7. \A k : ParteDe(R, k) = ParteDe(S, k)
  BY <1>3, <1>4, <1>6 DEF ParteDe
<1>8. Abertas(R) = Abertas(S)
  BY <1>5, <1>6 DEF Abertas
<1>9. SituacaoNota(R) = SituacaoNota(S)
  BY <1>2, <1>4, <1>8 DEF SituacaoNota
<1> QED
  BY <1>5, <1>7, <1>9 DEF R

\* A failed copy and the INSERT are timeline only: neither moves a status nor
\* makes a participation look alive.
THEOREM TimelineOnlyHolds == Spec => TimelineOnly
<1>1. ASSUME Derivada, NEW o \in Sinais, Recebe(o),
             Sinal.event \in {"sync_failed", "sync_db_inserted"}
      PROVE  nota'.status = nota.status /\ nota'.parts = nota.parts
  <2> DEFINE S == ToSet(spans)
  <2>1. Derivada' /\ Sinal = o /\ ToSet(spans') = S \cup {o}
    BY <1>1, RecebeDeriva
  <2>2. nota.status = SituacaoNota(S) /\ nota.parts = [k \in Envolvidas(S) |-> ParteDe(S, k)]
    BY <1>1, NotaGuardada
  <2>3. /\ nota'.status = SituacaoNota(S \cup {o})
        /\ nota'.parts = [k \in Envolvidas(S \cup {o}) |-> ParteDe(S \cup {o}, k)]
    BY <2>1, NotaDoConjunto DEF Derivada
  <2>4. /\ SituacaoNota(S \cup {o}) = SituacaoNota(S)
        /\ Envolvidas(S \cup {o}) = Envolvidas(S)
        /\ \A k : ParteDe(S \cup {o}, k) = ParteDe(S, k)
    BY <1>1, <2>1, SoLinhaDoTempo
  <2> HIDE DEF S
  <2> QED
    BY <2>2, <2>3, <2>4
<1>2. Derivada /\ [Next]_vars =>
        [Sinal.event \in {"sync_failed", "sync_db_inserted"} =>
           nota'.status = nota.status /\ nota'.parts = nota.parts]_vars
  BY <1>1 DEF Next
<1> QED
  BY <1>2, DerivadaInit, DerivadaStep, PTL DEF Spec, TimelineOnly
=============================================================================
