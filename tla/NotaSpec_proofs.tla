-------------------------- MODULE NotaSpec_proofs --------------------------
(***************************************************************************)
(* The first times and the status of a nota as its set of observations     *)
(* grows, and that the code, which walks a sequence, computes them: for    *)
(* any companies, branches and times.                                      *)
(***************************************************************************)
EXTENDS Derive, NotaSpec, WellFoundedInduction, SequenceTheorems, TLAPS

\* Induction in the form the provers can instantiate: over a set, not a predicate.
LEMMA MenorNatural ==
  ASSUME NEW T \in SUBSET Nat, T # {}
  PROVE  \E x \in T : \A y \in T : x <= y
<1> DEFINE R == OpToRel(<, Nat)
<1>1. IsWellFoundedOn(R, Nat)
  BY NatLessThanWellFounded
<1>2. PICK x \in T : \A y \in T : <<y, x>> \notin R
  <2> HIDE DEF R
  <2> QED
  BY <1>1, WFMin
<1>3. \A y \in T : ~(y < x)
  BY <1>2 DEF OpToRel
<1> QED
  BY <1>3

LEMMA Inducao ==
  ASSUME NEW T, 0 \in T, \A n \in Nat : n \in T => n + 1 \in T
  PROVE  \A n \in Nat : n \in T
<1> DEFINE F == {n \in Nat : n \notin T}
<1> SUFFICES ASSUME F # {} PROVE FALSE
  OBVIOUS
<1>1. PICK x \in F : \A y \in F : x <= y
  <2> HIDE DEF F
  <2>1. F \in SUBSET Nat
    BY DEF F
  <2> QED
  BY <2>1, MenorNatural
<1>2. x # 0 /\ x \in Nat /\ x - 1 \in Nat
  OBVIOUS
<1>3. x - 1 \notin F
  BY <1>1, <1>2
<1>4. (x - 1) + 1 \in T
  BY <1>2, <1>3
<1> QED
  BY <1>2, <1>4

\* Primeira is the least time of an event of E, and Never without one.
LEMMA PrimeiraMinima ==
  ASSUME NEW S \in SUBSET Observation, NEW E
  PROVE  IF Viu(S, E)
         THEN /\ \E o \in S : o.event \in E /\ o.at = Primeira(S, E)
              /\ \A o \in S : o.event \in E => Primeira(S, E) <= o.at
         ELSE Primeira(S, E) = Never
<1> DEFINE ats == {o.at : o \in {x \in S : x.event \in E}}
           menores == {t \in ats : \A u \in ats : t <= u}
<1>1. Primeira(S, E) = IF menores = {} THEN Never ELSE CHOOSE t \in menores : TRUE
  BY DEF Primeira
<1>2. CASE ~Viu(S, E)
  <2>1. ats = {}
    BY <1>2 DEF Viu
  <2> QED
    BY <1>1, <1>2, <2>1
<1>3. CASE Viu(S, E)
  <2>1. ats \in SUBSET Nat /\ ats # {}
    BY <1>3 DEF Viu, Observation, Tempo
  <2>2. menores # {}
    <3>1. \E t \in ats : \A u \in ats : t <= u
      <4> HIDE DEF ats
      <4> QED
        BY <2>1, MenorNatural
    <3> QED
      BY <3>1
  <2>3. Primeira(S, E) \in menores
    BY <1>1, <2>2
  <2> QED
    BY <1>3, <2>3
<1> QED
  BY <1>2, <1>3

LEMMA PrimeiraTipo ==
  ASSUME NEW S \in SUBSET Observation, NEW E
  PROVE  Primeira(S, E) \in Nat
<1>1. CASE Viu(S, E)
  BY <1>1, PrimeiraMinima DEF Observation, Tempo
<1>2. CASE ~Viu(S, E)
  BY <1>2, PrimeiraMinima DEF Never
<1> QED
  BY <1>1, <1>2

\* Viu and Primeira look at the observations of their events alone.
LEMMA SoOsEventos ==
  ASSUME NEW S, NEW R, NEW E, {o \in S : o.event \in E} = {o \in R : o.event \in E}
  PROVE  Primeira(S, E) = Primeira(R, E) /\ (Viu(S, E) <=> Viu(R, E))
<1>1. Primeira(S, E) = Primeira(R, E)
  BY DEF Primeira
<1>2. Viu(S, E) <=> {o \in S : o.event \in E} # {}
  BY DEF Viu
<1>3. Viu(R, E) <=> {o \in R : o.event \in E} # {}
  BY DEF Viu
<1> QED
  BY <1>1, <1>2, <1>3

LEMMA PrimeiraSeViu ==
  ASSUME NEW S \in SUBSET Observation, NEW E
  PROVE  Primeira(S, E) # Never <=> Viu(S, E)
BY PrimeiraMinima DEF Observation, Tempo, Never

LEMMA ViuCresce ==
  ASSUME NEW S, NEW R, S \subseteq R, NEW E, Viu(S, E)
  PROVE  Viu(R, E)
BY DEF Viu

\* The outcome of a participation is not taken back by more observations.
LEMMA DesfechoFica ==
  ASSUME NEW S, NEW R, S \subseteq R, NEW k, SituacaoDe(S, k) \in TerminalStatus
  PROVE  SituacaoDe(R, k) \in TerminalStatus
<1>1. Daquela(S, k) \subseteq Daquela(R, k)
  BY DEF Daquela
<1>2. Viu(Daquela(S, k), {"imported"}) \/ Viu(Daquela(S, k), {"import_ignored"})
  BY DEF SituacaoDe, TerminalStatus
<1>3. Viu(Daquela(R, k), {"imported"}) \/ Viu(Daquela(R, k), {"import_ignored"})
  BY <1>1, <1>2, ViuCresce
<1> QED
  BY <1>3 DEF SituacaoDe, TerminalStatus

\* A nota is terminal exactly when some outcome is known and no participation
\* is open.
LEMMA TerminalSse ==
  ASSUME NEW S
  PROVE  SituacaoNota(S) \in TerminalStatus <=>
           /\ Abertas(S) = {}
           /\ Viu(S, {"imported"}) \/ Viu(S, {"import_ignored"})
BY DEF SituacaoNota, TerminalStatus

\* "importada 1/2": a terminal nota has the outcome of every company it involves.
THEOREM TerminalHasAllOutcomes ==
  ASSUME NEW S, SituacaoNota(S) \in TerminalStatus, NEW k \in Envolvidas(S)
  PROVE  Viu(Daquela(S, k), {"imported", "import_ignored"})
<1>1. SituacaoDe(S, k) \in TerminalStatus
  BY TerminalSse DEF Abertas
<1> QED
  BY <1>1 DEF SituacaoDe, TerminalStatus, Viu

\* A terminal nota reopens only when an observation brings in a company that was
\* not involved before: nothing said later about a known one reopens it.
THEOREM ReopensForNewCompanyOnly ==
  ASSUME NEW S \in SUBSET Observation, NEW o \in Observation,
         SituacaoNota(S) \in TerminalStatus,
         SituacaoNota(S \cup {o}) \notin TerminalStatus
  PROVE  Funda(o) /\ Chave(o) \notin Envolvidas(S)
<1> DEFINE R == S \cup {o}
<1>1. SUFFICES ASSUME ~Funda(o) \/ Chave(o) \in Envolvidas(S) PROVE FALSE
  OBVIOUS
<1>2. Envolvidas(R) = Envolvidas(S)
  <2>1. Envolvidas(S) \subseteq Envolvidas(R)
    BY DEF Envolvidas
  <2>2. ASSUME NEW k \in Envolvidas(R) PROVE k \in Envolvidas(S)
    <3>1. PICK x \in R : /\ x.emp # Nulo /\ x.event \in ImportEvent \cup Progresso
                        /\ k = Chave(x)
      BY DEF Envolvidas
    <3>2. CASE x \in S
      BY <3>1, <3>2 DEF Envolvidas
    <3>3. CASE x = o
      BY <1>1, <3>1, <3>3 DEF Funda, syncProgress, Progresso
    <3> QED
      BY <3>2, <3>3
  <2> QED
    BY <2>1, <2>2
<1>3. Abertas(R) = {}
  <2>1. \A k \in Envolvidas(S) : SituacaoDe(S, k) \in TerminalStatus
    BY TerminalSse DEF Abertas
  <2>2. \A k \in Envolvidas(R) : SituacaoDe(R, k) \in TerminalStatus
    BY <1>2, <2>1, DesfechoFica
  <2> QED
    BY <2>2 DEF Abertas
<1>4. Viu(R, {"imported"}) \/ Viu(R, {"import_ignored"})
  BY TerminalSse, ViuCresce
<1> QED
  BY <1>3, <1>4, TerminalSse
-----------------------------------------------------------------------------
(* The walk of derive.go computes NotaSpec, for sequences of any length: the *)
(* loop and the sort are followed by induction over their turns.            *)

\* f runs the steps of G, at most m of them, from b.
Percurso(f, m, V, b, G) ==
  /\ f \in [0 .. m -> V]
  /\ f[0] = b
  /\ \A i \in 1 .. m : f[i] = G[<<i, f[i - 1]>>]

LEMMA Recursao ==
  ASSUME NEW V, NEW b \in V, NEW m \in Nat, NEW G \in [(1 .. m) \X V -> V]
  PROVE  \E f : Percurso(f, m, V, b, G)
<1> USE DEF Percurso
<1> DEFINE Ate(n) == \E f : Percurso(f, n, V, b, G)
           T == {n \in Nat : n <= m => Ate(n)}
<1>1. 0 \in T
  <2> DEFINE g == [i \in 0 .. 0 |-> b]
  <2>1. g \in [0 .. 0 -> V] /\ g[0] = b
    OBVIOUS
  <2>2. Ate(0)
    <3> HIDE DEF g
    <3> QED
      BY <2>1
  <2> QED
    BY <2>2
<1>2. ASSUME NEW n \in Nat, n \in T PROVE n + 1 \in T
  <2> SUFFICES ASSUME n + 1 <= m PROVE Ate(n + 1)
    OBVIOUS
  <2>1. PICK f : Percurso(f, n, V, b, G)
    BY <1>2
  <2> DEFINE g == [i \in 0 .. n + 1 |-> IF i = n + 1 THEN G[<<n + 1, f[n]>>] ELSE f[i]]
  <2>2. <<n + 1, f[n]>> \in (1 .. m) \X V
    BY <2>1
  <2>3. g \in [0 .. n + 1 -> V]
    BY <2>1, <2>2
  <2>4. g[0] = b
    BY <2>1
  <2>5. ASSUME NEW i \in 1 .. n + 1 PROVE g[i] = G[<<i, g[i - 1]>>]
    <3>1. CASE i = n + 1
      <4>1. g[i] = G[<<i, f[n]>>] /\ g[n] = f[n] /\ i - 1 = n
        BY <3>1
      <4> QED
        BY <4>1
    <3>2. CASE i \in 1 .. n
      BY <2>1, <3>2
    <3> QED
      BY <3>1, <3>2
  <2> QED
    BY <2>3, <2>4, <2>5
<1>3. m \in T
  <2> HIDE DEF T
  <2> QED
    BY <1>1, <1>2, Inducao
<1> QED
  BY <1>3

Marcas == [arrived : Nat, synced : Nat, pending : Nat, imported : Nat,
           ignored : BOOLEAN, codigo : Empresa \cup {Nulo}, filial : Filial \cup {Nulo}]

LEMMA AplicarTipo ==
  ASSUME NEW n \in Marcas, NEW o \in Observation
  PROVE  Aplicar(n, o) \in Marcas
<1>1. /\ o.at \in Nat /\ o.emp \in Empresa \cup {Nulo} /\ o.fil \in Filial \cup {Nulo}
  BY DEF Observation, Tempo
<1>2. \A t \in Nat : setIfEarlier(t, o.at) \in Nat
  BY <1>1 DEF setIfEarlier
<1> QED
  BY <1>1, <1>2 DEF Marcas, Aplicar

LEMMA AndamentoPassos ==
  ASSUME NEW s \in Seq(Observation), NEW I
  PROVE  /\ Andamento(s, I) \in [0 .. Len(s) -> Marcas]
         /\ Andamento(s, I)[0] = Vazia
         /\ \A i \in 1 .. Len(s) :
              Andamento(s, I)[i] = IF i \in I THEN Aplicar(Andamento(s, I)[i - 1], s[i])
                                   ELSE Andamento(s, I)[i - 1]
<1> DEFINE G == [p \in (1 .. Len(s)) \X Marcas |->
                   IF p[1] \in I THEN Aplicar(p[2], s[p[1]]) ELSE p[2]]
           E(f) == [i \in 0 .. Len(s) |-> IF i = 0 THEN Vazia ELSE
                      IF i \in I THEN Aplicar(f[i - 1], s[i]) ELSE f[i - 1]]
<1>0. Len(s) \in Nat
  OBVIOUS
<1>1. G \in [(1 .. Len(s)) \X Marcas -> Marcas]
  BY AplicarTipo
<1>2. Vazia \in Marcas
  BY DEF Vazia, Marcas, Never
<1>3. PICK f : Percurso(f, Len(s), Marcas, Vazia, G)
  <2> HIDE DEF G
  <2> QED
    BY <1>0, <1>1, <1>2, Recursao
<1>4. f = E(f)
  <2>1. \A i \in 1 .. Len(s) : f[i] = IF i \in I THEN Aplicar(f[i - 1], s[i]) ELSE f[i - 1]
    <3> SUFFICES ASSUME NEW i \in 1 .. Len(s)
                 PROVE  f[i] = IF i \in I THEN Aplicar(f[i - 1], s[i]) ELSE f[i - 1]
      OBVIOUS
    <3>1. <<i, f[i - 1]>> \in (1 .. Len(s)) \X Marcas
      BY <1>0, <1>3 DEF Percurso
    <3> QED
      BY <1>3, <3>1 DEF Percurso
  <2> QED
    BY <2>1, <1>3 DEF Percurso
<1>5. Andamento(s, I) = E(Andamento(s, I))
  BY <1>4 DEF Andamento
<1>6. ASSUME NEW g, g = E(g) PROVE g = f
  <2> DEFINE T == {i \in Nat : i <= Len(s) => g[i] = f[i]}
  <2>1. 0 \in T
    BY <1>3, <1>6 DEF Percurso
  <2>2. ASSUME NEW i \in Nat, i \in T PROVE i + 1 \in T
    BY <2>2, <1>4, <1>6
  <2>3. \A i \in Nat : i \in T
    <3> HIDE DEF T
    <3> QED
      BY <2>1, <2>2, Inducao
  <2>4. DOMAIN g = 0 .. Len(s) /\ g = [i \in 0 .. Len(s) |-> g[i]]
    BY <1>6
  <2>5. \A i \in 0 .. Len(s) : g[i] = f[i]
    BY <1>0, <2>3
  <2> QED
    BY <1>4, <2>4, <2>5
<1>7. Andamento(s, I) = f
  BY <1>5, <1>6
<1>8. \A i \in 1 .. Len(s) : f[i] = IF i \in I THEN Aplicar(f[i - 1], s[i]) ELSE f[i - 1]
  BY <1>4
<1> QED
  BY <1>3, <1>7, <1>8 DEF Percurso

\* What one more observation does to the first time of an event.
LEMMA PrimeiraMais ==
  ASSUME NEW S \in SUBSET Observation, NEW o \in Observation, NEW E
  PROVE  Primeira(S \cup {o}, E) =
           IF o.event \in E THEN setIfEarlier(Primeira(S, E), o.at) ELSE Primeira(S, E)
<1> DEFINE R == S \cup {o}
<1>1. R \in SUBSET Observation
  OBVIOUS
<1>2. o.at \in Nat /\ o.at # Never /\ \A x \in S : x.at \in Nat /\ x.at # Never
  BY DEF Observation, Tempo, Never
<1>3. Primeira(S, E) \in Nat /\ Primeira(R, E) \in Nat
  BY <1>1, PrimeiraTipo
<1>4. Viu(R, E) <=> Viu(S, E) \/ o.event \in E
  BY DEF Viu
<1>5. /\ Viu(S, E) => \E x \in S : x.event \in E /\ x.at = Primeira(S, E)
      /\ Viu(S, E) => \A x \in S : x.event \in E => Primeira(S, E) <= x.at
      /\ ~Viu(S, E) => Primeira(S, E) = Never
  BY PrimeiraMinima
<1>6. /\ Viu(R, E) => \E x \in R : x.event \in E /\ x.at = Primeira(R, E)
      /\ Viu(R, E) => \A x \in R : x.event \in E => Primeira(R, E) <= x.at
      /\ ~Viu(R, E) => Primeira(R, E) = Never
  BY <1>1, PrimeiraMinima
<1>7. CASE o.event \notin E
  <2>1. ASSUME Viu(S, E) PROVE Primeira(R, E) = Primeira(S, E)
    <3>1. PICK x \in S : x.event \in E /\ x.at = Primeira(S, E)
      BY <2>1, <1>5
    <3>2. PICK y \in S : y.event \in E /\ y.at = Primeira(R, E)
      BY <2>1, <1>4, <1>6, <1>7
    <3>3. Primeira(R, E) <= Primeira(S, E) /\ Primeira(S, E) <= Primeira(R, E)
      BY <2>1, <1>4, <1>5, <1>6, <3>1, <3>2
    <3> QED
      BY <3>3, <1>3
  <2> QED
    BY <1>4, <1>5, <1>6, <1>7, <2>1
<1>8. CASE o.event \in E
  <2>1. CASE ~Viu(S, E)
    BY <1>2, <1>3, <1>4, <1>5, <1>6, <1>8, <2>1 DEF setIfEarlier, Viu
  <2>2. CASE Viu(S, E)
    <3>1. PICK x \in S : x.event \in E /\ x.at = Primeira(S, E)
      BY <2>2, <1>5
    <3>2. Primeira(R, E) <= x.at /\ Primeira(R, E) <= o.at
      BY <1>4, <1>6, <1>8, <2>2, <3>1
    <3>3. PICK y \in R : y.event \in E /\ y.at = Primeira(R, E)
      BY <2>2, <1>4, <1>6
    <3>4. y = o \/ Primeira(S, E) <= y.at
      BY <2>2, <1>5, <3>3
    <3>5. Primeira(S, E) # Never
      BY <1>2, <3>1
    <3> QED
      BY <1>2, <1>3, <3>1, <3>2, <3>3, <3>4, <3>5 DEF setIfEarlier
  <2> QED
    BY <2>1, <2>2
<1> QED
  BY <1>7, <1>8

\* The marks of n are those of the set S.
Marcam(n, S) ==
  /\ n.arrived = Primeira(S, ArrivalEvent)
  /\ n.synced = Primeira(S, Progresso)
  /\ n.pending = Primeira(S, {"seen_pending"})
  /\ n.imported = Primeira(S, {"imported"})
  /\ n.ignored <=> Viu(S, {"import_ignored"})

LEMMA MarcamMais ==
  ASSUME NEW S \in SUBSET Observation, NEW o \in Observation, NEW n, Marcam(n, S)
  PROVE  Marcam(Aplicar(n, o), S \cup {o})
<1>1. syncProgress(o.event) <=> o.event \in Progresso
  BY DEF syncProgress, Progresso
<1>2. Viu(S \cup {o}, {"import_ignored"}) <=> o.event = "import_ignored" \/ Viu(S, {"import_ignored"})
  BY DEF Viu
<1>3. Aplicar(n, o).ignored <=> o.event = "import_ignored" \/ n.ignored
  BY DEF Aplicar
<1>4. /\ Aplicar(n, o).arrived = Primeira(S \cup {o}, ArrivalEvent)
      /\ Aplicar(n, o).synced = Primeira(S \cup {o}, Progresso)
      /\ Aplicar(n, o).pending = Primeira(S \cup {o}, {"seen_pending"})
      /\ Aplicar(n, o).imported = Primeira(S \cup {o}, {"imported"})
  <2>1. \A E : Primeira(S \cup {o}, E) =
          IF o.event \in E THEN setIfEarlier(Primeira(S, E), o.at) ELSE Primeira(S, E)
    BY PrimeiraMais
  <2>2. /\ n.arrived = Primeira(S, ArrivalEvent)
        /\ n.synced = Primeira(S, Progresso)
        /\ n.pending = Primeira(S, {"seen_pending"})
        /\ n.imported = Primeira(S, {"imported"})
    BY DEF Marcam
  <2>3. Aplicar(n, o).arrived = Primeira(S \cup {o}, ArrivalEvent)
    BY <2>1, <2>2 DEF Aplicar
  <2>4. Aplicar(n, o).synced = Primeira(S \cup {o}, Progresso)
    BY <1>1, <2>1, <2>2 DEF Aplicar
  <2>5. Aplicar(n, o).pending = Primeira(S \cup {o}, {"seen_pending"})
    BY <2>1, <2>2 DEF Aplicar
  <2>6. Aplicar(n, o).imported = Primeira(S \cup {o}, {"imported"})
    BY <2>1, <2>2 DEF Aplicar
  <2> QED
    BY <2>3, <2>4, <2>5, <2>6
<1> QED
  BY <1>2, <1>3, <1>4 DEF Marcam

LEMMA MarcamVazio == Marcam(Vazia, {})
<1>1. \A E : ~Viu({}, E)
  BY DEF Viu
<1>2. \A E : Primeira({}, E) = Never
  BY <1>1, PrimeiraMinima
<1>3. ~Vazia.ignored /\ Vazia.arrived = Never /\ Vazia.synced = Never
      /\ Vazia.pending = Never /\ Vazia.imported = Never
  BY DEF Vazia
<1> QED
  BY <1>1, <1>2, <1>3 DEF Marcam

\* The observations of s up to the i-th whose index is in I.
AteAqui(s, I, i) == {s[j] : j \in {x \in 1 .. i : x \in I}}

LEMMA AndamentoMarca ==
  ASSUME NEW s \in Seq(Observation), NEW I
  PROVE  \A i \in 0 .. Len(s) : Marcam(Andamento(s, I)[i], AteAqui(s, I, i))
<1> DEFINE T == {i \in Nat : i <= Len(s) => Marcam(Andamento(s, I)[i], AteAqui(s, I, i))}
<1>0. Len(s) \in Nat
  OBVIOUS
<1>1. 0 \in T
  <2>1. AteAqui(s, I, 0) = {}
    BY DEF AteAqui
  <2> QED
    BY <2>1, AndamentoPassos, MarcamVazio
<1>2. ASSUME NEW i \in Nat, i \in T PROVE i + 1 \in T
  <2> SUFFICES ASSUME i + 1 <= Len(s)
               PROVE  Marcam(Andamento(s, I)[i + 1], AteAqui(s, I, i + 1))
    OBVIOUS
  <2>1. Marcam(Andamento(s, I)[i], AteAqui(s, I, i)) /\ i + 1 \in 1 .. Len(s)
    BY <1>0, <1>2
  <2>2. AteAqui(s, I, i) \in SUBSET Observation /\ s[i + 1] \in Observation
    BY <2>1 DEF AteAqui
  <2>3. Andamento(s, I)[i + 1] = IF i + 1 \in I THEN Aplicar(Andamento(s, I)[i], s[i + 1])
                                 ELSE Andamento(s, I)[i]
    BY <2>1, AndamentoPassos
  <2>4. CASE i + 1 \in I
    <3>1. AteAqui(s, I, i + 1) = AteAqui(s, I, i) \cup {s[i + 1]}
      BY <2>4 DEF AteAqui
    <3> QED
      BY <2>1, <2>2, <2>3, <2>4, <3>1, MarcamMais
  <2>5. CASE i + 1 \notin I
    <3>1. AteAqui(s, I, i + 1) = AteAqui(s, I, i)
      BY <2>5 DEF AteAqui
    <3> QED
      BY <2>1, <2>3, <2>5, <3>1
  <2> QED
    BY <2>4, <2>5
<1>3. \A i \in Nat : i \in T
  <2> HIDE DEF T
  <2> QED
    BY <1>1, <1>2, Inducao
<1> QED
  BY <1>0, <1>3

Crescentes ==
  {v \in Seq(Observation) : \A i, j \in 1 .. Len(v) : i <= j => v[i].at <= v[j].at}

LEMMA NaoDepoisSepara ==
  ASSUME NEW v \in Crescentes, NEW o \in Observation
  PROVE  /\ NaoDepois(v, o) \in 0 .. Len(v)
         /\ \A j \in 1 .. Len(v) : j <= NaoDepois(v, o) <=> v[j].at <= o.at
<1> DEFINE T == {j \in 1 .. Len(v) : ~(v[j].at <= o.at)}
<1>1. /\ v \in Seq(Observation) /\ Len(v) \in Nat /\ o.at \in Nat
      /\ \A j \in 1 .. Len(v) : v[j].at \in Nat
  BY DEF Crescentes, Observation, Tempo
<1>2. \E n \in 0 .. Len(v) : \A j \in 1 .. Len(v) : j <= n <=> v[j].at <= o.at
  <2>1. CASE T = {}
    <3>1. \A j \in 1 .. Len(v) : j <= Len(v) /\ v[j].at <= o.at
      BY <1>1, <2>1
    <3> QED
      BY <1>1, <3>1
  <2>2. CASE T # {}
    <3>1. PICK x \in T : \A y \in T : x <= y
      <4> HIDE DEF T
      <4>1. T \in SUBSET Nat
        BY <1>1 DEF T
      <4> QED
        BY <2>2, <4>1, MenorNatural
    <3>2. x - 1 \in 0 .. Len(v)
      BY <1>1
    <3>3. ASSUME NEW j \in 1 .. Len(v) PROVE j <= x - 1 <=> v[j].at <= o.at
      <4>1. CASE j <= x - 1
        BY <1>1, <3>1, <4>1
      <4>2. CASE x <= j
        <5>1. v[x].at <= v[j].at
          BY <4>2 DEF Crescentes
        <5> QED
          BY <1>1, <4>2, <5>1
      <4> QED
        BY <4>1, <4>2, <1>1
    <3> QED
      BY <3>2, <3>3
  <2> QED
    BY <2>1, <2>2
<1> QED
  BY <1>2 DEF NaoDepois

LEMMA InsereEm ==
  ASSUME NEW v \in Seq(Observation), NEW o \in Observation, NEW n \in 0 .. Len(v)
  PROVE  InsertAt(v, n + 1, o) =
           [j \in 1 .. Len(v) + 1 |->
              IF j <= n THEN v[j] ELSE IF j = n + 1 THEN o ELSE v[j - 1]]
<1> DEFINE a == SubSeq(v, 1, n)
           b == SubSeq(v, n + 1, Len(v))
           w == (a \o <<o>>) \o b
<1>1. Len(v) \in Nat /\ (n + 1) - 1 = n /\ InsertAt(v, n + 1, o) = w
  BY DEF InsertAt
<1>2. a \in Seq(Observation) /\ Len(a) = n /\ \A j \in 1 .. n : a[j] = v[j]
  BY <1>1
<1>3. b \in Seq(Observation) /\ Len(b) = Len(v) - n /\ \A j \in 1 .. Len(v) - n : b[j] = v[n + j]
  BY <1>1
<1>4. /\ a \o <<o>> \in Seq(Observation) /\ Len(a \o <<o>>) = n + 1
      /\ \A j \in 1 .. n + 1 : (a \o <<o>>)[j] = IF j <= n THEN v[j] ELSE o
  <2> HIDE DEF a
  <2> QED
    BY <1>2
<1>5. /\ w \in Seq(Observation) /\ Len(w) = Len(v) + 1
      /\ \A j \in 1 .. Len(v) + 1 :
           w[j] = IF j <= n THEN v[j] ELSE IF j = n + 1 THEN o ELSE v[j - 1]
  <2> DEFINE c == a \o <<o>>
  <2>1. c \in Seq(Observation) /\ Len(c) = n + 1 /\ \A j \in 1 .. n + 1 : c[j] = IF j <= n THEN v[j] ELSE o
    BY <1>4
  <2>2. w = c \o b
    OBVIOUS
  <2> HIDE DEF a, b, c, w
  <2>3. w \in Seq(Observation) /\ Len(w) = Len(c) + Len(b)
    BY <1>3, <2>1, <2>2, ConcatProperties
  <2>5. Len(w) = Len(v) + 1
    BY <1>1, <1>3, <2>1, <2>3
  <2>4. ASSUME NEW j \in 1 .. Len(v) + 1
        PROVE  w[j] = IF j <= n THEN v[j] ELSE IF j = n + 1 THEN o ELSE v[j - 1]
    <3>1. CASE j <= n + 1
      BY <1>1, <1>3, <2>1, <2>2, <3>1
    <3>2. CASE n + 1 < j
      <4>1. w[j] = b[j - (n + 1)]
        BY <1>1, <1>3, <2>1, <2>2, <3>2
      <4>2. j - (n + 1) \in 1 .. Len(v) - n /\ n + (j - (n + 1)) = j - 1
        BY <1>1, <3>2
      <4>3. b[j - (n + 1)] = v[j - 1]
        <5> DEFINE l == j - (n + 1)
        <5>1. b[l] = v[n + l] /\ n + l = j - 1
          BY <1>3, <4>2
        <5> QED
          BY <5>1
      <4>4. ~(j <= n) /\ j # n + 1
        BY <3>2
      <4> QED
        BY <4>1, <4>3, <4>4
    <3> QED
      BY <3>1, <3>2, <1>1
  <2> QED
    BY <2>3, <2>4, <2>5
<1> QED
  <2> HIDE DEF w
  <2>1. w = [j \in 1 .. Len(v) + 1 |-> w[j]]
    BY <1>5, <1>1
  <2> QED
    BY <1>1, <1>5, <2>1

\* Inserting keeps the order and adds one element.
LEMMA InsereOrdenado ==
  ASSUME NEW v \in Crescentes, NEW o \in Observation
  PROVE  LET w == InsertAt(v, NaoDepois(v, o) + 1, o) IN
         /\ w \in Crescentes
         /\ Len(w) = Len(v) + 1
         /\ ToSet(w) = ToSet(v) \cup {o}
<1> DEFINE n == NaoDepois(v, o)
           w == InsertAt(v, n + 1, o)
<1>1. /\ n \in 0 .. Len(v) /\ v \in Seq(Observation) /\ Len(v) \in Nat /\ o.at \in Nat
      /\ \A j \in 1 .. Len(v) : v[j].at \in Nat /\ v[j] \in Observation
      /\ \A j \in 1 .. Len(v) : j <= n <=> v[j].at <= o.at
      /\ \A i, j \in 1 .. Len(v) : i <= j => v[i].at <= v[j].at
  <2>1. v \in Seq(Observation) /\ \A i, j \in 1 .. Len(v) : i <= j => v[i].at <= v[j].at
    BY DEF Crescentes
  <2> QED
    BY <2>1, NaoDepoisSepara DEF Observation, Tempo
<1> HIDE DEF n
<1>2. w = [j \in 1 .. Len(v) + 1 |->
             IF j <= n THEN v[j] ELSE IF j = n + 1 THEN o ELSE v[j - 1]]
  BY <1>1, InsereEm
<1> HIDE DEF w
<1>3. w \in Seq(Observation) /\ Len(w) = Len(v) + 1
  BY <1>1, <1>2
<1>4. ASSUME NEW i \in 1 .. Len(w), NEW j \in 1 .. Len(w), i <= j
      PROVE  w[i].at <= w[j].at
  <2> DEFINE val(x) == IF x <= n THEN v[x] ELSE IF x = n + 1 THEN o ELSE v[x - 1]
  <2>1. w[i] = val(i) /\ w[j] = val(j) /\ i \in 1 .. Len(v) + 1 /\ j \in 1 .. Len(v) + 1
    BY <1>1, <1>2, <1>3, <1>4
  <2>2. CASE j <= n
    BY <1>1, <1>4, <2>1, <2>2
  <2>3. CASE i <= n /\ j = n + 1
    BY <1>1, <2>1, <2>3
  <2>4. CASE i <= n /\ j > n + 1
    <3>1. i \in 1 .. Len(v) /\ j - 1 \in 1 .. Len(v) /\ i <= j - 1
      BY <1>1, <2>1, <2>4
    <3> QED
      BY <1>1, <2>1, <2>4, <3>1
  <2>5. CASE i = n + 1 /\ j = n + 1
    BY <1>1, <2>1, <2>5
  <2>6. CASE i = n + 1 /\ j > n + 1
    <3>1. j - 1 \in 1 .. Len(v) /\ ~(j - 1 <= n)
      BY <1>1, <2>1, <2>6
    <3>2. ~(v[j - 1].at <= o.at) /\ v[j - 1].at \in Nat
      BY <1>1, <3>1
    <3> QED
      BY <1>1, <2>1, <2>6, <3>2
  <2>7. CASE i > n + 1
    <3>1. i - 1 \in 1 .. Len(v) /\ j - 1 \in 1 .. Len(v) /\ i - 1 <= j - 1 /\ j > n + 1
      BY <1>1, <1>4, <2>1, <2>7
    <3> QED
      BY <1>1, <2>1, <2>7, <3>1
  <2> QED
    BY <1>1, <1>4, <2>1, <2>2, <2>3, <2>4, <2>5, <2>6, <2>7
<1>5. ToSet(w) \subseteq ToSet(v) \cup {o}
  BY <1>1, <1>2, <1>3 DEF ToSet
<1>6. ToSet(v) \subseteq ToSet(w)
  <2>0. DOMAIN v = 1 .. Len(v) /\ DOMAIN w = 1 .. Len(v) + 1
    BY <1>1, <1>2
  <2> SUFFICES ASSUME NEW j \in 1 .. Len(v) PROVE \E i \in 1 .. Len(v) + 1 : w[i] = v[j]
    BY <2>0 DEF ToSet
  <2>1. CASE j <= n
    BY <1>1, <1>2, <2>1
  <2>2. CASE n < j
    <3>1. j + 1 \in 1 .. Len(v) + 1 /\ w[j + 1] = v[j]
      BY <1>1, <1>2, <2>2
    <3> QED
      BY <3>1
  <2> QED
    BY <2>1, <2>2, <1>1
<1>7. o \in ToSet(w)
  <2>1. n + 1 \in 1 .. Len(w) /\ w[n + 1] = o
    BY <1>1, <1>2, <1>3
  <2> QED
    BY <1>3, <2>1 DEF ToSet
<1>8. w \in Crescentes
  BY <1>3, <1>4 DEF Crescentes
<1> QED
  BY <1>3, <1>5, <1>6, <1>7, <1>8 DEF w, n

\* sortObs keeps the observations and puts them in the order of their times.
LEMMA SortObsOrdena ==
  ASSUME NEW obs \in Seq(Observation)
  PROVE  /\ sortObs(obs) \in Crescentes
         /\ Len(sortObs(obs)) = Len(obs)
         /\ ToSet(sortObs(obs)) = ToSet(obs)
<1> DEFINE N == Len(obs)
           G == [p \in (1 .. N) \X Crescentes |->
                   InsertAt(p[2], NaoDepois(p[2], obs[p[1]]) + 1, obs[p[1]])]
           E(f) == [i \in 0 .. Len(obs) |-> IF i = 0 THEN <<>> ELSE
                      InsertAt(f[i - 1], NaoDepois(f[i - 1], obs[i]) + 1, obs[i])]
<1>0. N \in Nat /\ \A i \in 1 .. N : obs[i] \in Observation
  OBVIOUS
<1>1. G \in [(1 .. N) \X Crescentes -> Crescentes]
  <2>1. \A p \in (1 .. N) \X Crescentes : p[2] \in Crescentes /\ obs[p[1]] \in Observation
    BY <1>0
  <2> QED
    BY <2>1, InsereOrdenado
<1>2. <<>> \in Crescentes
  BY DEF Crescentes
<1>3. PICK f : Percurso(f, N, Crescentes, <<>>, G)
  <2> HIDE DEF G, N
  <2> QED
    BY <1>0, <1>1, <1>2, Recursao
<1>4. ASSUME NEW i \in 1 .. N
      PROVE  /\ f[i - 1] \in Crescentes
             /\ f[i] = InsertAt(f[i - 1], NaoDepois(f[i - 1], obs[i]) + 1, obs[i])
  <2>1. <<i, f[i - 1]>> \in (1 .. N) \X Crescentes
    BY <1>0, <1>3 DEF Percurso
  <2> QED
    BY <1>3, <2>1 DEF Percurso
<1>5. f = E(f)
  BY <1>3, <1>4 DEF Percurso
<1>6. Ordenadas(obs) = E(Ordenadas(obs))
  BY <1>5 DEF Ordenadas
<1>7. ASSUME NEW g, g = E(g) PROVE g = f
  <2> DEFINE T == {i \in Nat : i <= N => g[i] = f[i]}
  <2>1. 0 \in T
    BY <1>3, <1>7 DEF Percurso
  <2>2. ASSUME NEW i \in Nat, i \in T PROVE i + 1 \in T
    BY <2>2, <1>5, <1>7
  <2>3. \A i \in Nat : i \in T
    <3> HIDE DEF T
    <3> QED
      BY <2>1, <2>2, Inducao
  <2>4. DOMAIN g = 0 .. N /\ g = [i \in 0 .. N |-> g[i]]
    BY <1>7
  <2>5. \A i \in 0 .. N : g[i] = f[i]
    BY <1>0, <2>3
  <2> QED
    BY <1>5, <2>4, <2>5
<1>8. Ordenadas(obs) = f
  BY <1>6, <1>7
<1> DEFINE Certo(i) == Len(f[i]) = i /\ ToSet(f[i]) = {obs[j] : j \in 1 .. i}
           T == {i \in Nat : i <= N => Certo(i)}
<1>9. 0 \in T
  BY <1>3 DEF Percurso, ToSet
<1>10. ASSUME NEW i \in Nat, i \in T PROVE i + 1 \in T
  <2> SUFFICES ASSUME i + 1 <= N PROVE Certo(i + 1)
    OBVIOUS
  <2>1. i + 1 \in 1 .. N /\ (i + 1) - 1 = i /\ Certo(i)
    BY <1>0, <1>10
  <2>2. /\ f[i] \in Crescentes
        /\ f[i + 1] = InsertAt(f[i], NaoDepois(f[i], obs[i + 1]) + 1, obs[i + 1])
    BY <1>4, <2>1
  <2>3. Len(f[i + 1]) = Len(f[i]) + 1 /\ ToSet(f[i + 1]) = ToSet(f[i]) \cup {obs[i + 1]}
    BY <1>0, <2>1, <2>2, InsereOrdenado
  <2>4. {obs[j] : j \in 1 .. i + 1} = {obs[j] : j \in 1 .. i} \cup {obs[i + 1]}
    OBVIOUS
  <2> QED
    BY <2>1, <2>3, <2>4
<1>11. N \in T
  <2> HIDE DEF T
  <2> QED
    BY <1>0, <1>9, <1>10, Inducao
<1>12. ToSet(obs) = {obs[j] : j \in 1 .. N}
  BY DEF ToSet
<1>13. f[N] \in Crescentes
  BY <1>0, <1>3 DEF Percurso
<1> QED
  BY <1>0, <1>8, <1>11, <1>12, <1>13 DEF sortObs

\* The walk over s marks the set of the observations it does not skip.
LEMMA PercorreMarca ==
  ASSUME NEW s \in Seq(Observation), NEW I \in SUBSET (1 .. Len(s))
  PROVE  Marcam(Percorre(s, I), {s[i] : i \in I})
<1>1. Len(s) \in 0 .. Len(s)
  OBVIOUS
<1>2. {x \in 1 .. Len(s) : x \in I} = I
  OBVIOUS
<1>3. AteAqui(s, I, Len(s)) = {s[i] : i \in I}
  BY <1>2 DEF AteAqui
<1> QED
  BY <1>1, <1>3, AndamentoMarca DEF Percorre

\* What the code keeps of the participation k, as the set S has it.
ParteDe(S, k) ==
  [status |-> SituacaoDe(S, k),
   pending |-> Primeira(Daquela(S, k), {"seen_pending"}),
   imported |-> Primeira(Daquela(S, k), {"imported"}),
   synced |-> Primeira(Daquela(S, k), Progresso)]

\* The observations of s that found k.
Fundam(s, k) == {i \in 1 .. Len(s) : Funda(s[i]) /\ Chave(s[i]) = k}

LEMMA ResumoDaParte ==
  ASSUME NEW s \in Seq(Observation), NEW k \in Envolvidas(ToSet(s))
  PROVE  Resumo(Percorre(s, Fundam(s, k))) = ParteDe(ToSet(s), k)
<1> DEFINE S == ToSet(s)
           D == Daquela(S, k)
           R == {s[i] : i \in Fundam(s, k)}
           p == Percorre(s, Fundam(s, k))
<1>1. S = {s[i] : i \in 1 .. Len(s)} /\ S \in SUBSET Observation
  BY DEF ToSet
<1>2. Marcam(p, R)
  <2>1. Fundam(s, k) \in SUBSET (1 .. Len(s))
    BY DEF Fundam
  <2> QED
    BY <2>1, PercorreMarca
<1>3. R = {o \in D : o.event \in ImportEvent \cup Progresso}
  BY <1>1 DEF Fundam, Funda, Daquela, syncProgress, Progresso
<1>4. D \in SUBSET Observation /\ R \in SUBSET Observation
  BY <1>1, <1>3 DEF Daquela
<1>5. \A E \in SUBSET (ImportEvent \cup Progresso) :
         Primeira(R, E) = Primeira(D, E) /\ (Viu(R, E) <=> Viu(D, E))
  <2> SUFFICES ASSUME NEW E \in SUBSET (ImportEvent \cup Progresso)
               PROVE  {o \in R : o.event \in E} = {o \in D : o.event \in E}
    BY SoOsEventos
  <2> QED
    BY <1>3
<1>6. /\ {"seen_pending"} \in SUBSET (ImportEvent \cup Progresso)
      /\ {"imported"} \in SUBSET (ImportEvent \cup Progresso)
      /\ {"import_ignored"} \in SUBSET (ImportEvent \cup Progresso)
      /\ Progresso \in SUBSET (ImportEvent \cup Progresso)
  BY DEF ImportEvent
<1>7. /\ p.pending = Primeira(D, {"seen_pending"})
      /\ p.imported = Primeira(D, {"imported"})
      /\ p.synced = Primeira(D, Progresso)
      /\ p.ignored <=> Viu(D, {"import_ignored"})
  BY <1>2, <1>5, <1>6 DEF Marcam
<1>8. Viu(D, ImportEvent \cup Progresso)
  BY DEF Envolvidas, Viu, Daquela
<1>9. Viu(D, {"imported"}) \/ Viu(D, {"import_ignored"}) \/ Viu(D, {"seen_pending"}) \/ Viu(D, Progresso)
  BY <1>8 DEF Viu, ImportEvent
<1>10. StatusParticipacao(p) = SituacaoDe(S, k)
  <2>1. /\ p.pending # Never <=> Viu(D, {"seen_pending"})
        /\ p.imported # Never <=> Viu(D, {"imported"})
        /\ p.synced # Never <=> Viu(D, Progresso)
    BY <1>4, <1>7, PrimeiraSeViu
  <2> HIDE DEF p, D
  <2>2. SituacaoDe(S, k) = IF Viu(D, {"imported"}) THEN "imported"
           ELSE IF Viu(D, {"import_ignored"}) THEN "import_ignored"
           ELSE IF Viu(D, {"seen_pending"}) THEN "pending_import" ELSE "synced"
    BY DEF SituacaoDe, D
  <2> QED
    BY <1>7, <1>9, <2>1, <2>2 DEF StatusParticipacao
<1> QED
  BY <1>7, <1>10 DEF Resumo, ParteDe

LEMMA ParticipacoesDoConjunto ==
  ASSUME NEW s \in Seq(Observation)
  PROVE  participacoes(s) = [k \in Envolvidas(ToSet(s)) |-> ParteDe(ToSet(s), k)]
<1> DEFINE F == {i \in 1 .. Len(s) : Funda(s[i])}
<1>1. ToSet(s) = {s[i] : i \in 1 .. Len(s)}
  BY DEF ToSet
<1>2. {Chave(s[i]) : i \in F} = Envolvidas(ToSet(s))
  BY <1>1 DEF Envolvidas, Funda, syncProgress, Progresso
<1>3. \A k : {i \in F : Chave(s[i]) = k} = Fundam(s, k)
  BY DEF Fundam
<1>4. participacoes(s) =
        [k \in {Chave(s[i]) : i \in F} |-> Resumo(Percorre(s, {i \in F : Chave(s[i]) = k}))]
  BY DEF participacoes
<1>5. participacoes(s) = [k \in Envolvidas(ToSet(s)) |-> Resumo(Percorre(s, Fundam(s, k)))]
  <2> HIDE DEF F
  <2> QED
    BY <1>2, <1>3, <1>4
<1> QED
  BY <1>5, ResumoDaParte

\* The status of the nota from marks and participations that agree with S.
LEMMA StatusDoConjunto ==
  ASSUME NEW S \in SUBSET Observation, NEW n, Marcam(n, S)
  PROVE  StatusNota(n, [k \in Envolvidas(S) |-> ParteDe(S, k)]) = SituacaoNota(S)
<1> DEFINE parts == [k \in Envolvidas(S) |-> ParteDe(S, k)]
<1>1. /\ n.pending # Never <=> Viu(S, {"seen_pending"})
      /\ n.imported # Never <=> Viu(S, {"imported"})
      /\ n.synced # Never <=> Viu(S, Progresso)
      /\ n.arrived # Never <=> Viu(S, ArrivalEvent)
      /\ n.ignored <=> Viu(S, {"import_ignored"})
  BY PrimeiraSeViu DEF Marcam
<1>2. DOMAIN parts = Envolvidas(S) /\ \A k \in Envolvidas(S) : parts[k].status = SituacaoDe(S, k)
  BY DEF ParteDe
<1>3. (\E k \in DOMAIN parts : parts[k].status \notin TerminalStatus) <=> Abertas(S) # {}
  BY <1>2 DEF Abertas
<1>4. (\E k \in DOMAIN parts : parts[k].status = "pending_import") => Viu(S, {"seen_pending"})
  BY <1>2 DEF SituacaoDe, Viu, Daquela
<1>5. StatusNota(n, parts) =
        IF Abertas(S) = {} /\ n.imported # Never THEN "imported"
        ELSE IF Abertas(S) = {} /\ n.ignored THEN "import_ignored"
        ELSE IF n.pending # Never THEN "pending_import"
        ELSE IF n.synced # Never THEN "synced"
        ELSE IF n.arrived # Never THEN "arrived" ELSE "pending_import"
  <2> HIDE DEF parts
  <2> QED
    BY <1>1, <1>3, <1>4 DEF StatusNota
<1>6. SituacaoNota(S) =
        IF Abertas(S) = {} /\ Viu(S, {"imported"}) THEN "imported"
        ELSE IF Abertas(S) = {} /\ Viu(S, {"import_ignored"}) THEN "import_ignored"
        ELSE IF Viu(S, {"seen_pending"}) THEN "pending_import"
        ELSE IF Viu(S, Progresso) THEN "synced"
        ELSE IF Viu(S, ArrivalEvent) THEN "arrived" ELSE "pending_import"
  BY DEF SituacaoNota
<1> QED
  BY <1>1, <1>5, <1>6

\* NotaParticipacoes computes NotaSpec: marks, status and participations of
\* every sequence of observations are those of its set.
THEOREM NotaDoConjunto ==
  ASSUME NEW obs \in Seq(Observation)
  PROVE  /\ Marcam(NotaParticipacoes(obs).spans, ToSet(obs))
         /\ NotaParticipacoes(obs).status = SituacaoNota(ToSet(obs))
         /\ NotaParticipacoes(obs).parts =
              [k \in Envolvidas(ToSet(obs)) |-> ParteDe(ToSet(obs), k)]
<1> DEFINE sorted == sortObs(obs)
           n == Percorre(sorted, 1 .. Len(sorted))
           S == ToSet(obs)
<1>1. sorted \in Seq(Observation) /\ ToSet(sorted) = S /\ S \in SUBSET Observation
  <2>1. S \in SUBSET Observation
    BY DEF ToSet
  <2> QED
    BY <2>1, SortObsOrdena DEF Crescentes
<1>2. /\ NotaParticipacoes(obs).spans = n
      /\ NotaParticipacoes(obs).parts = participacoes(sorted)
      /\ NotaParticipacoes(obs).status = StatusNota(n, participacoes(sorted))
  BY DEF NotaParticipacoes
<1> HIDE DEF sorted
<1>3. Marcam(n, S)
  <2>1. ToSet(sorted) = {sorted[i] : i \in 1 .. Len(sorted)}
    BY <1>1 DEF ToSet
  <2>2. 1 .. Len(sorted) \in SUBSET (1 .. Len(sorted))
    OBVIOUS
  <2> QED
    BY <1>1, <2>1, <2>2, PercorreMarca
<1>4. participacoes(sorted) = [k \in Envolvidas(S) |-> ParteDe(S, k)]
  BY <1>1, ParticipacoesDoConjunto
<1>5. StatusNota(n, [k \in Envolvidas(S) |-> ParteDe(S, k)]) = SituacaoNota(S)
  <2> HIDE DEF n, S
  <2> QED
    BY <1>1, <1>3, StatusDoConjunto
<1> QED
  <2> HIDE DEF n
  <2> QED
    BY <1>2, <1>3, <1>4, <1>5
-----------------------------------------------------------------------------
\* What observations name.
NomeiaEmpresa == [o \in Observation |-> o.emp]
NomeiaFilial == [o \in Observation |-> o.fil]

\* x is what the latest of S that names something names.
Ultima(S, V, x) ==
  IF \A o \in S : V[o] = Nulo THEN x = Nulo
  ELSE \E o \in S : V[o] # Nulo /\ x = V[o] /\ \A u \in S : V[u] # Nulo => u.at <= o.at

\* After the first i of s, x is what the last of them that names something names.
Atribui(s, i, V, x) ==
  IF \A j \in 1 .. i : V[s[j]] = Nulo THEN x = Nulo
  ELSE \E j \in 1 .. i :
         /\ V[s[j]] # Nulo /\ x = V[s[j]]
         /\ \A l \in 1 .. i : V[s[l]] # Nulo => l <= j

\* A walk in which the last that names something wins.
LEMMA UltimoVence ==
  ASSUME NEW s \in Crescentes, NEW V, NEW f, f[0] = Nulo,
         \A i \in 1 .. Len(s) : f[i] = IF V[s[i]] # Nulo THEN V[s[i]] ELSE f[i - 1]
  PROVE  Ultima(ToSet(s), V, f[Len(s)])
<1> DEFINE T == {i \in Nat : i <= Len(s) => Atribui(s, i, V, f[i])}
<1>0. Len(s) \in Nat /\ s \in Seq(Observation)
  BY DEF Crescentes
<1>1. 0 \in T
  BY DEF Atribui
<1>2. ASSUME NEW i \in Nat, i \in T PROVE i + 1 \in T
  <2> SUFFICES ASSUME i + 1 <= Len(s) PROVE Atribui(s, i + 1, V, f[i + 1])
    OBVIOUS
  <2>1. Atribui(s, i, V, f[i]) /\ i + 1 \in 1 .. Len(s)
    BY <1>0, <1>2
  <2>2. f[i + 1] = IF V[s[i + 1]] # Nulo THEN V[s[i + 1]] ELSE f[i]
    BY <2>1
  <2>3. 1 .. i + 1 = (1 .. i) \cup {i + 1} /\ \A l \in 1 .. i : l <= i + 1
    OBVIOUS
  <2>4. CASE V[s[i + 1]] # Nulo
    BY <2>2, <2>3, <2>4 DEF Atribui
  <2>5. CASE V[s[i + 1]] = Nulo
    BY <2>1, <2>2, <2>3, <2>5 DEF Atribui
  <2> QED
    BY <2>4, <2>5
<1>3. Atribui(s, Len(s), V, f[Len(s)])
  <2>1. \A i \in Nat : i \in T
    <3> HIDE DEF T
    <3> QED
      BY <1>1, <1>2, Inducao
  <2> QED
    BY <1>0, <2>1
<1>4. ToSet(s) = {s[i] : i \in 1 .. Len(s)}
  BY <1>0 DEF ToSet
<1>5. CASE \A j \in 1 .. Len(s) : V[s[j]] = Nulo
  BY <1>3, <1>4, <1>5 DEF Atribui, Ultima
<1>6. CASE ~ \A j \in 1 .. Len(s) : V[s[j]] = Nulo
  <2>1. PICK j \in 1 .. Len(s) :
           /\ V[s[j]] # Nulo /\ f[Len(s)] = V[s[j]]
           /\ \A l \in 1 .. Len(s) : V[s[l]] # Nulo => l <= j
    BY <1>3, <1>6 DEF Atribui
  <2>2. ASSUME NEW u \in ToSet(s), V[u] # Nulo PROVE u.at <= s[j].at
    <3>1. PICK l \in 1 .. Len(s) : u = s[l]
      BY <1>4
    <3> QED
      BY <2>1, <2>2, <3>1 DEF Crescentes
  <2> QED
    BY <1>4, <1>6, <2>1, <2>2 DEF Ultima
<1> QED
  BY <1>5, <1>6

LEMMA AplicarNomeia ==
  ASSUME NEW n, NEW o
  PROVE  /\ Aplicar(n, o).codigo = IF o.emp # Nulo THEN o.emp ELSE n.codigo
         /\ Aplicar(n, o).filial = IF o.fil # Nulo THEN o.fil ELSE n.filial
BY DEF Aplicar

\* The company and the branch of the nota are the latest that were named.
LEMMA UltimasNomeadas ==
  ASSUME NEW obs \in Seq(Observation)
  PROVE  /\ Ultima(ToSet(obs), NomeiaEmpresa, NotaParticipacoes(obs).spans.codigo)
         /\ Ultima(ToSet(obs), NomeiaFilial, NotaParticipacoes(obs).spans.filial)
<1> DEFINE s == sortObs(obs)
           A == Andamento(s, 1 .. Len(s))
           E == [i \in 0 .. Len(s) |-> A[i].codigo]
           F == [i \in 0 .. Len(s) |-> A[i].filial]
<1>1. NotaParticipacoes(obs).spans = A[Len(s)]
  BY DEF NotaParticipacoes, Percorre
<1>2. s \in Crescentes /\ s \in Seq(Observation) /\ ToSet(obs) = ToSet(s)
  BY SortObsOrdena DEF Crescentes
<1> HIDE DEF s
<1>3. /\ Len(s) \in Nat /\ A[0] = Vazia
      /\ \A i \in 1 .. Len(s) : A[i] = Aplicar(A[i - 1], s[i]) /\ s[i] \in Observation
  BY <1>2, AndamentoPassos
<1> HIDE DEF A
<1>4. E[0] = Nulo /\ F[0] = Nulo
  BY <1>3 DEF Vazia
<1>5. ASSUME NEW i \in 1 .. Len(s)
      PROVE  /\ E[i] = IF NomeiaEmpresa[s[i]] # Nulo THEN NomeiaEmpresa[s[i]] ELSE E[i - 1]
             /\ F[i] = IF NomeiaFilial[s[i]] # Nulo THEN NomeiaFilial[s[i]] ELSE F[i - 1]
  <2>1. /\ E[i] = A[i].codigo /\ E[i - 1] = A[i - 1].codigo
        /\ F[i] = A[i].filial /\ F[i - 1] = A[i - 1].filial
    BY <1>3
  <2>2. /\ A[i].codigo = IF s[i].emp # Nulo THEN s[i].emp ELSE A[i - 1].codigo
        /\ A[i].filial = IF s[i].fil # Nulo THEN s[i].fil ELSE A[i - 1].filial
    <3> HIDE DEF E, F
    <3>1. A[i] = Aplicar(A[i - 1], s[i])
      BY <1>3
    <3> QED
      BY <3>1, AplicarNomeia
  <2>3. NomeiaEmpresa[s[i]] = s[i].emp /\ NomeiaFilial[s[i]] = s[i].fil
    BY <1>3 DEF NomeiaEmpresa, NomeiaFilial
  <2> HIDE DEF E, F
  <2> QED
    BY <2>1, <2>2, <2>3
<1>6. E[Len(s)] = A[Len(s)].codigo /\ F[Len(s)] = A[Len(s)].filial
  BY <1>3
<1> HIDE DEF E, F
<1>7. Ultima(ToSet(s), NomeiaEmpresa, E[Len(s)]) /\ Ultima(ToSet(s), NomeiaFilial, F[Len(s)])
  BY <1>2, <1>4, <1>5, UltimoVence
<1> QED
  BY <1>1, <1>2, <1>6, <1>7
=============================================================================
