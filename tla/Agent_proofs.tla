--------------------------- MODULE Agent_proofs ---------------------------
(***************************************************************************)
(* Types of the agent for any folders, batch size, clock and faults, that  *)
(* what is recorded as seen is held, and that the pruning misses nothing.  *)
(***************************************************************************)
EXTENDS Agent, TLAPS, FiniteSetTheorems, FunctionTheorems

\* Where a loop has nothing in its batch, and room where it walks.
SemLote == {"parado", "flush", "corte", "grava", "estado", "marca", "completa"}
LoteOK(l) ==
  /\ IsFiniteSet(l.batch) /\ Cardinality(l.batch) <= BatchSize
  /\ l.pc = "anda" => Cardinality(l.batch) < BatchSize
  /\ l.pc \in SemLote => l.batch = {}

\* A loop by itself.
LacoOK(l) == l \in Laco /\ UmaPorPath(l.pending) /\ LoteOK(l)

DiscoOK ==
  /\ now \in Tempo \ {Nunca} /\ fs \subseteq Info /\ UmaPorPath(fs)
  /\ dirMod \in [Pasta("sync") -> Tempo]
  /\ seen \subseteq Ficha /\ UmaPorPath(seen)
  /\ meta \in [seed : Tempo, lastScan : Tempo, lastFull : Tempo]
  /\ sink \in Grupo \cup {"ticker", "livre"}
  /\ spool \in Seq(Lote) /\ api \subseteq Path /\ falhas \in 0 .. MaxFalhas

LacosOK ==
  /\ scan = [g \in Grupo |-> scan[g]]
  /\ \A g \in Grupo : LacoOK(scan[g])

TypeInv == DiscoOK /\ LacosOK
-----------------------------------------------------------------------------
LEMMA TypeInvImplies == TypeInv => TypeOK
BY DEF TypeInv, DiscoOK, LacosOK, LacoOK, LoteOK, TypeOK

LEMMA Consts ==
  /\ Nunca \in Tempo /\ 1 \in Tempo \ {Nunca} /\ 0 \in 0 .. MaxFalhas
  /\ BatchSize \in Nat /\ BatchSize > 0
BY RelogioAssumption, LotesAssumption DEF Nunca, Tempo

LEMMA ParadoOK == LacoOK(Parado)
<1>1. Cardinality({}) = 0 /\ IsFiniteSet({})
  BY FS_EmptySet
<1>2. Parado \in Laco
  BY Consts DEF Parado, Laco, ScanPC
<1> QED
  BY <1>1, <1>2, Consts DEF LacoOK, LoteOK, UmaPorPath, Parado

\* A step of one loop that leaves it well formed leaves all of them so.
LEMMA UmLaco ==
  ASSUME LacosOK, NEW g \in Grupo, NEW l, LacoOK(l), scan' = [scan EXCEPT ![g] = l]
  PROVE  LacosOK'
BY DEF LacosOK

\* Merging keeps one entry per path.
LEMMA GuardaUma ==
  ASSUME NEW B, NEW P, UmaPorPath(B), UmaPorPath(P)
  PROVE  UmaPorPath(Guarda(B, P))
BY DEF UmaPorPath, Guarda

LEMMA TypeInit == Init => TypeInv
<1> SUFFICES ASSUME Init PROVE TypeInv
  OBVIOUS
<1>1. LacosOK
  BY ParadoOK DEF Init, LacosOK
<1>2. DiscoOK
  BY Consts DEF Init, DiscoOK, UmaPorPath
<1> QED
  BY <1>1, <1>2 DEF TypeInv

-----------------------------------------------------------------------------
(* The environment, the flush of the spool and a crash.                    *)

LEMMA AmbienteType ==
  ASSUME TypeInv, Ambiente
  PROVE  TypeInv'
<1> USE DEF TypeInv, DiscoOK, disco
<1>0. LacosOK' <=> LacosOK
  BY DEF Ambiente, Tick, Chega, Completa, Move, LacosOK
<1>1. CASE Tick
  <2>1. now' \in Tempo \ {Nunca}
    BY <1>1, RelogioAssumption DEF Tick, Tempo, Nunca
  <2> QED
    BY <1>0, <1>1, <2>1 DEF Tick
<1>2. ASSUME NEW p \in Chegada, Chega(p) PROVE TypeInv'
  <2>1. PICK whole \in BOOLEAN :
          fs' = fs \cup {[p |-> p, mod |-> now, inteiro |-> whole]}
    BY <1>2 DEF Chega
  <2>2. fs' \subseteq Info
    BY <2>1 DEF Info, Path
  <2>3. UmaPorPath(fs')
    BY <1>2, <2>1 DEF Chega, UmaPorPath
  <2> QED
    BY <1>0, <1>2, <2>2, <2>3 DEF Chega, UmaPorPath
<1>3. ASSUME NEW f \in fs, Completa(f) PROVE TypeInv'
  <2>1. f \in Info /\ now \in Tempo
    OBVIOUS
  <2> DEFINE h == [f EXCEPT !.mod = now, !.inteiro = TRUE]
  <2>2. h \in Info /\ h.p = f.p
    BY <2>1 DEF Info
  <2> HIDE DEF h
  <2>a. fs' = (fs \ {f}) \cup {h}
    BY <1>3 DEF Completa, h
  <2>3. fs' \subseteq Info
    BY <2>2, <2>a
  <2>4. UmaPorPath(fs')
    BY <2>2, <2>a DEF UmaPorPath
  <2> QED
    BY <1>0, <1>3, <2>3, <2>4 DEF Completa, UmaPorPath
<1>4. ASSUME NEW f \in fs, Move(f) PROVE TypeInv'
  <2>1. f \in Info /\ f.p \in Chegada /\ SincDe[f.p] \in Sinc
    BY <1>4, PastasAssumption DEF Move
  <2> DEFINE h == [f EXCEPT !.p = SincDe[f.p]]
  <2>2. h \in Info /\ h.p = SincDe[f.p]
    BY <2>1 DEF Info, Path
  <2> HIDE DEF h
  <2>a. fs' = (fs \ {f}) \cup {h}
    BY <1>4 DEF Move, h
  <2>3. fs' \subseteq Info
    BY <2>2, <2>a
  <2>4. UmaPorPath(fs')
    BY <1>4, <2>2, <2>a DEF UmaPorPath, Move
  <2>5. dirMod' \in [Pasta("sync") -> Tempo]
    BY <1>4 DEF Move
  <2> QED
    BY <1>0, <1>4, <2>3, <2>4, <2>5 DEF Move, UmaPorPath
<1> QED
  BY <1>1, <1>2, <1>3, <1>4 DEF Ambiente

\* A loop that only moves on among the states with no batch.
LEMMA MudaPC ==
  ASSUME NEW l, LacoOK(l), l.pc \in SemLote, NEW c \in SemLote
  PROVE  LacoOK([l EXCEPT !.pc = c])
BY Consts DEF LacoOK, LoteOK, SemLote, Laco, ScanPC

LEMMA FlushType ==
  ASSUME TypeInv, NEW w \in Grupo \cup {"ticker"}, Flush(w)
  PROVE  TypeInv'
<1> USE DEF TypeInv, DiscoOK, ambiente, disco
<1>1. CASE PegaSpool(w)
  BY <1>1 DEF PegaSpool, LacosOK, UmaPorPath
<1>2. CASE ReenviaOk(w)
  <2>1. Head(spool) \in Lote /\ Tail(spool) \in Seq(Lote)
    BY <1>2 DEF ReenviaOk
  <2>2. Head(spool).obs \subseteq Path
    BY <2>1 DEF Lote
  <2> QED
    BY <1>2, <2>1, <2>2 DEF ReenviaOk, LacosOK, UmaPorPath
<1>3. ASSUME NoFlush(w), scan' = DepoisDoFlush(w) PROVE LacosOK'
  <2>1. CASE w \in Grupo
    <3>1. LacoOK([scan[w] EXCEPT !.pc = "corte"])
      BY <1>3, <2>1, MudaPC DEF NoFlush, LacosOK, SemLote
    <3>2. scan' = [scan EXCEPT ![w] = [scan[w] EXCEPT !.pc = "corte"]]
      BY <1>3, <2>1 DEF DepoisDoFlush, LacosOK
    <3> QED
      BY <2>1, <3>1, <3>2, UmLaco
  <2>2. CASE w \notin Grupo
    BY <1>3, <2>2 DEF DepoisDoFlush, LacosOK
  <2> QED
    BY <2>1, <2>2
<1>4. CASE ReenviaFalha(w)
  <2>2. spool # <<>> => Head(spool) \in Lote
    OBVIOUS
  <2>1. spool # <<>> => Head(spool).obs \subseteq Path
    BY <2>2 DEF Lote
  <2> QED
    BY <1>3, <1>4, <2>1 DEF ReenviaFalha, Solta, UmaPorPath
<1>5. CASE FlushSpoolFim(w)
  BY <1>3, <1>5 DEF FlushSpoolFim, Solta, UmaPorPath
<1> QED
  BY <1>1, <1>2, <1>4, <1>5 DEF Flush

LEMMA QuedaType ==
  ASSUME TypeInv, Queda
  PROVE  TypeInv'
<1> USE DEF TypeInv, DiscoOK, ambiente, disco
<1>1. LacosOK'
  BY ParadoOK DEF Queda, LacosOK
<1>2. falhas' \in 0 .. MaxFalhas
  BY RelogioAssumption DEF Queda
<1>3. spool' \in Seq(Lote)
  <2>1. ASSUME NEW g \in Grupo PROVE [obs |-> scan[g].batch, rasgado |-> TRUE] \in Lote
    BY DEF LacosOK, LacoOK, Laco, Lote
  <2>2. CASE spool' = spool
    BY <2>2
  <2>3. ASSUME NEW g \in Grupo, spool' = Append(spool, [obs |-> scan[g].batch, rasgado |-> TRUE])
        PROVE spool' \in Seq(Lote)
    <3> DEFINE l == [obs |-> scan[g].batch, rasgado |-> TRUE]
    <3>1. l \in Lote
      BY <2>1
    <3> HIDE DEF l
    <3>2. spool' = Append(spool, l)
      BY <2>3 DEF l
    <3> QED
      BY <3>1, <3>2
  <2> QED
    BY <2>2, <2>3 DEF Queda
<1> QED
  BY <1>1, <1>2, <1>3 DEF Queda, UmaPorPath

-----------------------------------------------------------------------------
(* A scan.                                                                 *)

LEMMA ListagemType ==
  ASSUME TypeInv, NEW g \in Grupo
  PROVE  Listagem(g) \subseteq [dir : {Particao[p] : p \in Path}, mod : Tempo]
<1> SUFFICES ASSUME NEW d \in Pasta(g)
             PROVE [dir |-> d, mod |-> IF g = "sync" THEN dirMod[d] ELSE Nunca]
                     \in [dir : {Particao[p] : p \in Path}, mod : Tempo]
  BY DEF Listagem
<1>1. d \in {Particao[p] : p \in Path}
  BY DEF Pasta, Raiz, Path
<1>2. (IF g = "sync" THEN dirMod[d] ELSE Nunca) \in Tempo
  BY Consts DEF TypeInv, DiscoOK
<1> QED
  BY <1>1, <1>2

LEMMA AnotaType ==
  ASSUME TypeInv, NEW g \in Grupo, scan[g].pc = "anda", NEW f \in scan[g].lista,
         NEW ok \in BOOLEAN, Anota(g, f, ok)
  PROVE  /\ seen' \subseteq Ficha /\ UmaPorPath(seen')
         /\ LacosOK'
<1> DEFINE x == [p |-> f.p, mod |-> f.mod, inteiro |-> f.inteiro, chave |-> ok]
           pend == Guarda(scan[g].pending, {x})
           cheio == Cardinality(pend) >= FlushSeenEvery
           batch == IF ok THEN scan[g].batch \cup {f.p} ELSE scan[g].batch
           l == [scan[g] EXCEPT !.lista = @ \ {f},
                                !.pending = IF cheio THEN {} ELSE pend,
                                !.batch = batch,
                                !.pc = IF ok /\ LoteCheio(batch) THEN "submete" ELSE @]
<1>1. LacoOK(scan[g]) /\ scan[g] \in Laco
  BY DEF TypeInv, LacosOK, LacoOK
<1>2. f \in Info
  BY <1>1 DEF Laco
<1>3. x \in Ficha
  BY <1>2 DEF Info, Ficha
<1>4. pend \subseteq Ficha /\ UmaPorPath(pend)
  <2>1. UmaPorPath({x})
    BY DEF UmaPorPath
  <2> HIDE DEF x
  <2> QED
    BY <1>1, <1>3, <2>1, GuardaUma DEF Guarda, LacoOK, Laco
<1>5. /\ batch \subseteq Path /\ IsFiniteSet(batch)
      /\ Cardinality(batch) <= BatchSize
      /\ ~(ok /\ LoteCheio(batch)) => Cardinality(batch) < BatchSize
  <2>1. scan[g].batch \subseteq Path /\ f.p \in Path
    BY <1>1, <1>2 DEF Laco, Info
  <2>2. IsFiniteSet(scan[g].batch) /\ Cardinality(scan[g].batch) < BatchSize
    BY <1>1 DEF LacoOK, LoteOK
  <2>3. Cardinality(scan[g].batch) \in Nat
    BY <2>2, FS_CardinalityType
  <2>4. /\ IsFiniteSet(scan[g].batch \cup {f.p})
        /\ \/ Cardinality(scan[g].batch \cup {f.p}) = Cardinality(scan[g].batch)
           \/ Cardinality(scan[g].batch \cup {f.p}) = Cardinality(scan[g].batch) + 1
    BY <2>2, FS_AddElement
  <2> QED
    BY <2>1, <2>2, <2>3, <2>4, Consts DEF LoteCheio
<1>6. LacoOK(l)
  <2>1. l.pending \subseteq Ficha /\ UmaPorPath(l.pending)
    BY <1>1, <1>4 DEF Laco, UmaPorPath
  <2>2. l.lista \subseteq Info /\ l.batch = batch /\ l.pc \in {"submete", "anda"}
    BY <1>1 DEF Laco
  <2>3. l.pc = "anda" <=> ~(ok /\ LoteCheio(batch))
    BY <1>1 DEF Laco
  <2>5. l \in Laco
    <3>1. (IF cheio THEN {} ELSE pend) \subseteq Ficha
      BY <1>4
    <3> HIDE DEF batch, pend, cheio
    <3> QED
      BY <1>1, <1>5, <3>1 DEF Laco, ScanPC
  <2> HIDE DEF l, batch
  <2> QED
    BY <1>5, <2>1, <2>2, <2>3, <2>5 DEF LacoOK, LoteOK, SemLote
<1>7. scan' = [scan EXCEPT ![g] = l]
  BY DEF Anota, TypeInv, LacosOK
<1>8. LacosOK'
  <2> HIDE DEF l
  <2> QED
    BY <1>6, <1>7, UmLaco DEF TypeInv
<1>9. seen' = IF cheio THEN Guarda(seen, pend) ELSE seen
  BY DEF Anota
<1>10. seen' \subseteq Ficha /\ UmaPorPath(seen')
  <2> HIDE DEF pend, cheio
  <2> QED
    BY <1>4, <1>9, GuardaUma DEF TypeInv, DiscoOK, Guarda
<1> QED
  BY <1>8, <1>10

\* What a step of a loop needs of it.
LEMMA LacoType ==
  ASSUME TypeInv, NEW g \in Grupo
  PROVE  /\ LacoOK(scan[g]) /\ scan[g] \in Laco
         /\ LacoOK(Parado)
         /\ scan[g].batch \subseteq Path /\ scan[g].pending \subseteq Ficha
         /\ scan[g].start \in Tempo
BY ParadoOK DEF TypeInv, LacosOK, LacoOK, Laco

\* A batch that was taken over leaves room.
LEMMA AceitoType ==
  ASSUME TypeInv, NEW g \in Grupo, scan' = Aceito(g)
  PROVE  LacosOK'
<1> DEFINE l == [scan[g] EXCEPT !.pc = "anda", !.batch = {}]
<1>1. Cardinality({}) = 0 /\ IsFiniteSet({})
  BY FS_EmptySet
<1>0. LacoOK(scan[g]) /\ scan[g] \in Laco
  BY LacoType
<1>a. l \in Laco /\ l.batch = {} /\ l.pc = "anda" /\ l.pending = scan[g].pending
  BY <1>0 DEF Laco, ScanPC
<1>2. LacoOK(l)
  <2> HIDE DEF l
  <2> QED
    BY <1>0, <1>1, <1>a, Consts DEF LacoOK, LoteOK, SemLote
<1>3. scan' = [scan EXCEPT ![g] = l]
  BY DEF Aceito, TypeInv, LacosOK
<1> HIDE DEF l
<1> QED
  BY <1>2, <1>3, UmLaco DEF TypeInv

\* A directory is left behind, and its files, or none, are next.
LEMMA PastaPassa ==
  ASSUME TypeInv, NEW g \in Grupo, EntraPasta(g)
  PROVE  \E d \in scan[g].dirs, s \in SUBSET Info :
           scan' = [scan EXCEPT ![g] = [scan[g] EXCEPT !.dirs = @ \ {d}, !.lista = s]]
<1>0. scan[g] \in Laco /\ scan = [h \in Grupo |-> scan[h]] /\ scan[g].lista = {}
  BY LacoType DEF TypeInv, LacosOK, EntraPasta
<1>1. PICK d \in scan[g].dirs :
        \/ scan' = [scan EXCEPT
             ![g].dirs = @ \ {d},
             ![g].lista = IF Podada(d, scan[g].desde) THEN {}
                          ELSE {f \in fs : f.p \in Raiz(g) /\ Particao[f.p] = d.dir}]
        \/ scan' = [scan EXCEPT ![g].dirs = @ \ {d}]
  BY DEF EntraPasta
<1>2. CASE scan' = [scan EXCEPT ![g].dirs = @ \ {d}]
  <2>1. [scan[g] EXCEPT !.dirs = @ \ {d}]
          = [scan[g] EXCEPT !.dirs = @ \ {d}, !.lista = {}]
    BY <1>0 DEF Laco
  <2>2. scan' = [scan EXCEPT ![g] = [scan[g] EXCEPT !.dirs = @ \ {d}]]
    BY <1>0, <1>2
  <2> QED
    BY <2>1, <2>2
<1>3. CASE scan' = [scan EXCEPT
             ![g].dirs = @ \ {d},
             ![g].lista = IF Podada(d, scan[g].desde) THEN {}
                          ELSE {f \in fs : f.p \in Raiz(g) /\ Particao[f.p] = d.dir}]
  <2> DEFINE s == IF Podada(d, scan[g].desde) THEN {}
                  ELSE {f \in fs : f.p \in Raiz(g) /\ Particao[f.p] = d.dir}
  <2>1. s \in SUBSET Info
    BY DEF TypeInv, DiscoOK
  <2>2. scan' = [scan EXCEPT ![g] = [scan[g] EXCEPT !.dirs = @ \ {d}, !.lista = s]]
    BY <1>0, <1>3
  <2> HIDE DEF s
  <2> QED
    BY <2>1, <2>2
<1> QED
  BY <1>1, <1>2, <1>3

LEMMA CaminhadaType ==
  ASSUME TypeInv, NEW g \in Grupo,
         \/ Inicia(g) \/ LeCorte(g) \/ GravaCorte(g) \/ EntraPasta(g)
         \/ VisitaArquivo(g) \/ FimDaCaminhada(g)
  PROVE  TypeInv'
<1> USE DEF ambiente, disco
<1>0. /\ LacoOK(scan[g]) /\ scan[g] \in Laco
      /\ Listagem(g) \subseteq [dir : {Particao[p] : p \in Path}, mod : Tempo]
  BY LacoType, ListagemType
<1>a. ASSUME NEW l, LacoOK(l), scan' = [scan EXCEPT ![g] = l] PROVE LacosOK'
  BY <1>a, UmLaco DEF TypeInv
<1>b. ASSUME LacosOK', UNCHANGED <<ambiente, disco, sink, spool, api, falhas>> PROVE TypeInv'
  BY <1>b DEF TypeInv, DiscoOK, UmaPorPath
<1>c. meta.seed \in Tempo /\ meta.lastScan \in Tempo /\ now \in Tempo
  BY DEF TypeInv, DiscoOK
<1>1. CASE Inicia(g)
  <2> DEFINE l == [scan[g] EXCEPT !.pc = "flush",
                     !.start = IF g = "sync" THEN now ELSE @,
                     !.desde = IF g = "sync" THEN syncPruneCutoff ELSE @]
  <2>1. syncPruneCutoff \in Tempo
    BY <1>c, Consts DEF syncPruneCutoff
  <2>2. LacoOK(l)
    BY <1>0, <1>1, <1>c, <2>1, Consts DEF Inicia, LacoOK, LoteOK, Laco, ScanPC, SemLote
  <2>3. scan' = [scan EXCEPT ![g] = l]
    BY <1>1 DEF Inicia, TypeInv, LacosOK
  <2> HIDE DEF l
  <2> QED
    BY <1>1, <1>a, <1>b, <2>2, <2>3 DEF Inicia
<1>2. CASE LeCorte(g)
  <2> DEFINE l == [scan[g] EXCEPT !.pc = "anda", !.cutoff = meta.seed, !.dirs = Listagem(g)]
             m == [scan[g] EXCEPT !.pc = "grava", !.cutoff = now]
  <2>0. Cardinality({}) = 0
    BY FS_EmptySet
  <2>1. LacoOK(l) /\ LacoOK(m)
    BY <1>0, <1>2, <1>c, <2>0, Consts DEF LeCorte, LacoOK, LoteOK, Laco, ScanPC, SemLote
  <2>2. scan' = [scan EXCEPT ![g] = l] \/ scan' = [scan EXCEPT ![g] = m]
    BY <1>2 DEF LeCorte, TypeInv, LacosOK
  <2> HIDE DEF l, m
  <2> QED
    BY <1>2, <1>a, <1>b, <2>1, <2>2 DEF LeCorte
<1>3. CASE GravaCorte(g)
  <2> DEFINE l == [scan[g] EXCEPT !.pc = "anda", !.dirs = Listagem(g)]
  <2>0. Cardinality({}) = 0
    BY FS_EmptySet
  <2>1. LacoOK(l)
    BY <1>0, <1>3, <2>0, Consts DEF GravaCorte, LacoOK, LoteOK, Laco, ScanPC, SemLote
  <2>2. scan' = [scan EXCEPT ![g] = l]
    BY <1>3 DEF GravaCorte, TypeInv, LacosOK
  <2>3. scan[g].cutoff \in Tempo
    BY <1>0 DEF Laco
  <2>4. meta' \in [seed : Tempo, lastScan : Tempo, lastFull : Tempo]
    BY <1>3, <2>3 DEF GravaCorte, TypeInv, DiscoOK
  <2> HIDE DEF l
  <2>5. LacosOK'
    BY <1>a, <2>1, <2>2
  <2> QED
    BY <1>3, <2>4, <2>5 DEF GravaCorte, TypeInv, DiscoOK, UmaPorPath
<1>4. CASE EntraPasta(g)
  <2>1. PICK d \in scan[g].dirs, s \in SUBSET Info :
          scan' = [scan EXCEPT ![g] = [scan[g] EXCEPT !.dirs = @ \ {d}, !.lista = s]]
    BY <1>4, PastaPassa
  <2> DEFINE l == [scan[g] EXCEPT !.dirs = @ \ {d}, !.lista = s]
  <2>2. LacoOK(l)
    BY <1>0 DEF LacoOK, LoteOK, Laco
  <2> HIDE DEF l
  <2>3. LacosOK'
    BY <1>a, <2>1, <2>2 DEF l
  <2>4. falhas' = falhas \/ (falhas < MaxFalhas /\ falhas' = falhas + 1)
    BY <1>4 DEF EntraPasta
  <2>5. falhas' \in 0 .. MaxFalhas
    BY <2>4, RelogioAssumption DEF TypeInv, DiscoOK
  <2> QED
    BY <1>4, <2>3, <2>5 DEF EntraPasta, TypeInv, DiscoOK, UmaPorPath
<1>5. CASE VisitaArquivo(g)
  <2>0. falhas' = falhas \/ (falhas < MaxFalhas /\ falhas' = falhas + 1)
    BY <1>5 DEF VisitaArquivo
  <2>1. falhas' \in 0 .. MaxFalhas
    BY <2>0, RelogioAssumption DEF TypeInv, DiscoOK
  <2>2. seen' \subseteq Ficha /\ UmaPorPath(seen') /\ LacosOK'
    <3>1. PICK f \in scan[g].lista :
            \/ scan' = [scan EXCEPT ![g].lista = @ \ {f}] /\ seen' = seen
            \/ Anota(g, f, TemChave(f)) \/ Anota(g, f, FALSE)
      BY <1>5 DEF VisitaArquivo
    <3>2. CASE scan' = [scan EXCEPT ![g].lista = @ \ {f}] /\ seen' = seen
      <4> DEFINE l == [scan[g] EXCEPT !.lista = @ \ {f}]
      <4>1. LacoOK(l)
        BY <1>0 DEF LacoOK, LoteOK, Laco
      <4>2. scan' = [scan EXCEPT ![g] = l]
        BY <3>2 DEF TypeInv, LacosOK
      <4> HIDE DEF l
      <4> QED
        BY <1>a, <3>2, <4>1, <4>2 DEF TypeInv, DiscoOK, UmaPorPath
    <3>3. CASE Anota(g, f, TemChave(f))
      BY <1>5, <3>3, AnotaType DEF VisitaArquivo, TemChave
    <3>4. CASE Anota(g, f, FALSE)
      BY <1>5, <3>4, AnotaType DEF VisitaArquivo
    <3> QED
      BY <3>1, <3>2, <3>3, <3>4
  <2> QED
    BY <1>5, <2>1, <2>2 DEF VisitaArquivo, TypeInv, DiscoOK, UmaPorPath
<1>6. CASE FimDaCaminhada(g)
  <2> DEFINE l == [scan[g] EXCEPT !.pc = Fecho(g)]
  <2>1. LacoOK(l)
    BY <1>0 DEF Fecho, LacoOK, LoteOK, Laco, ScanPC, SemLote
  <2>2. scan' = [scan EXCEPT ![g] = l]
    BY <1>6 DEF FimDaCaminhada, TypeInv, LacosOK
  <2> HIDE DEF l
  <2> QED
    BY <1>6, <1>a, <1>b, <2>1, <2>2 DEF FimDaCaminhada
<1> QED
  BY <1>1, <1>2, <1>3, <1>4, <1>5, <1>6

LEMMA EntregaType ==
  ASSUME TypeInv, NEW g \in Grupo,
         \/ Submete(g) \/ PostOk(g) \/ PostFalha(g) \/ SpoolOk(g) \/ SpoolFalha(g)
  PROVE  TypeInv'
<1> USE DEF ambiente, disco
<1>0. /\ LacoOK(scan[g]) /\ scan[g] \in Laco /\ LacoOK(Parado)
      /\ scan[g].batch \subseteq Path
  BY LacoType
<1>a. ASSUME NEW l, LacoOK(l), scan' = [scan EXCEPT ![g] = l] PROVE LacosOK'
  BY <1>a, UmLaco DEF TypeInv
<1>b. ASSUME NEW r \in BOOLEAN
      PROVE  Append(spool, [obs |-> scan[g].batch, rasgado |-> r]) \in Seq(Lote)
  <2> DEFINE b == [obs |-> scan[g].batch, rasgado |-> r]
  <2>1. b \in Lote
    BY <1>0 DEF Lote
  <2> HIDE DEF b
  <2>2. Append(spool, b) \in Seq(Lote)
    BY <2>1 DEF TypeInv, DiscoOK
  <2> QED
    BY <2>2 DEF b
<1>1. CASE Submete(g)
  <2> DEFINE l == [scan[g] EXCEPT !.pc = "post"]
  <2>1. LacoOK(l)
    BY <1>0 DEF LacoOK, LoteOK, Laco, ScanPC, SemLote
  <2>2. scan' = [scan EXCEPT ![g] = l]
    BY <1>1 DEF Submete, TypeInv, LacosOK
  <2> HIDE DEF l
  <2> QED
    BY <1>1, <1>a, <2>1, <2>2 DEF Submete, TypeInv, DiscoOK, UmaPorPath
<1>2. CASE PostOk(g)
  BY <1>0, <1>2, AceitoType DEF PostOk, TypeInv, DiscoOK, UmaPorPath
<1>3. CASE PostFalha(g)
  <2> DEFINE l == [scan[g] EXCEPT !.pc = "spool"]
  <2>1. LacoOK(l)
    BY <1>0 DEF LacoOK, LoteOK, Laco, ScanPC, SemLote
  <2>2. scan' = [scan EXCEPT ![g] = l]
    BY <1>3 DEF PostFalha, TypeInv, LacosOK
  <2> HIDE DEF l
  <2> QED
    BY <1>0, <1>3, <1>a, <2>1, <2>2 DEF PostFalha, TypeInv, DiscoOK, UmaPorPath
<1>4. CASE SpoolOk(g)
  <2>1. spool' \in Seq(Lote)
    BY <1>4, <1>b DEF SpoolOk
  <2> QED
    BY <1>4, <2>1, AceitoType DEF SpoolOk, TypeInv, DiscoOK, UmaPorPath
<1>5. CASE SpoolFalha(g)
  <2>1. spool' \in Seq(Lote)
    BY <1>5, <1>b DEF SpoolFalha, TypeInv, DiscoOK
  <2>2. falhas' \in 0 .. MaxFalhas
    BY <1>5, RelogioAssumption DEF SpoolFalha, TypeInv, DiscoOK
  <2>3. LacosOK'
    BY <1>0, <1>5, <1>a DEF SpoolFalha
  <2> QED
    BY <1>5, <2>1, <2>2, <2>3 DEF SpoolFalha, TypeInv, DiscoOK, UmaPorPath
<1> QED
  BY <1>1, <1>2, <1>3, <1>4, <1>5

LEMMA FimType ==
  ASSUME TypeInv, NEW g \in Grupo, GravaEstado(g) \/ MarcaScan(g) \/ MarcaCompleta(g)
  PROVE  TypeInv'
<1> USE DEF ambiente, disco
<1>0. /\ LacoOK(scan[g]) /\ scan[g] \in Laco /\ LacoOK(Parado)
      /\ scan[g].pending \subseteq Ficha /\ scan[g].start \in Tempo
  BY LacoType
<1>a. ASSUME NEW l, LacoOK(l), scan' = [scan EXCEPT ![g] = l] PROVE LacosOK'
  BY <1>a, UmLaco DEF TypeInv
<1>1. CASE GravaEstado(g)
  <2> DEFINE l == [scan[g] EXCEPT !.pc = "marca", !.pending = {}]
  <2>1. LacoOK(l)
    BY <1>0, <1>1 DEF GravaEstado, LacoOK, LoteOK, Laco, ScanPC, SemLote, UmaPorPath
  <2>2. scan' = [scan EXCEPT ![g] = l] \/ scan' = [scan EXCEPT ![g] = Parado]
    BY <1>1 DEF GravaEstado, TypeInv, LacosOK
  <2> HIDE DEF l
  <2>3. LacosOK'
    BY <1>0, <1>a, <2>1, <2>2
  <2>4. seen' \subseteq Ficha /\ UmaPorPath(seen')
    BY <1>0, <1>1, GuardaUma DEF GravaEstado, TypeInv, DiscoOK, Guarda, LacoOK
  <2> QED
    BY <1>1, <2>3, <2>4 DEF GravaEstado, TypeInv, DiscoOK, UmaPorPath
<1>2. CASE MarcaScan(g)
  <2> DEFINE l == [scan[g] EXCEPT !.pc = "completa"]
  <2>1. LacoOK(l)
    BY <1>0, <1>2, MudaPC DEF MarcaScan, SemLote
  <2>2. scan' = [scan EXCEPT ![g] = l] \/ scan' = [scan EXCEPT ![g] = Parado]
    BY <1>2 DEF MarcaScan, TypeInv, LacosOK
  <2> HIDE DEF l
  <2>3. LacosOK'
    BY <1>0, <1>a, <2>1, <2>2
  <2>4. meta' \in [seed : Tempo, lastScan : Tempo, lastFull : Tempo]
    BY <1>0, <1>2 DEF MarcaScan, Referencia, TypeInv, DiscoOK
  <2> QED
    BY <1>2, <2>3, <2>4 DEF MarcaScan, TypeInv, DiscoOK, UmaPorPath
<1>3. CASE MarcaCompleta(g)
  <2>1. LacosOK'
    BY <1>0, <1>3, <1>a DEF MarcaCompleta
  <2>2. meta' \in [seed : Tempo, lastScan : Tempo, lastFull : Tempo]
    BY <1>0, <1>3 DEF MarcaCompleta, TypeInv, DiscoOK
  <2> QED
    BY <1>3, <2>1, <2>2 DEF MarcaCompleta, TypeInv, DiscoOK, UmaPorPath
<1> QED
  BY <1>1, <1>2, <1>3

LEMMA TypeStep == TypeInv /\ [Next]_vars => TypeInv'
<1> SUFFICES ASSUME TypeInv, [Next]_vars PROVE TypeInv'
  OBVIOUS
<1>1. CASE Ambiente
  BY <1>1, AmbienteType
<1>2. CASE Queda
  BY <1>2, QuedaType
<1>3. ASSUME NEW w \in Grupo \cup {"ticker"}, Flush(w) PROVE TypeInv'
  BY <1>3, FlushType
<1>4. ASSUME NEW g \in Grupo, Varre(g) PROVE TypeInv'
  BY <1>4, CaminhadaType, EntregaType, FimType DEF Varre
<1>5. CASE UNCHANGED vars
  BY <1>5 DEF vars, TypeInv, DiscoOK, LacosOK, UmaPorPath
<1> QED
  BY <1>1, <1>2, <1>3, <1>4, <1>5 DEF Next

\* Every reachable state is well formed, whatever the folders, the batch size
\* and the faults: one entry per path in the folders, in the bucket and in the
\* pending map, and no batch above BatchSize.
THEOREM TypeCorrect == Spec => []TypeOK
<1>1. Spec => []TypeInv
  BY TypeInit, TypeStep, PTL DEF Spec
<1> QED
  BY <1>1, TypeInvImplies, PTL

-----------------------------------------------------------------------------
(* What is recorded is held until it is handed over.                       *)

\* What is in memory is in the batch, or was handed over.
PendingIsKept ==
  \A g \in Grupo : \A x \in scan[g].pending :
    x.chave => Handed(x.p) \/ x.p \in scan[g].batch

KeptInv == PendingIsKept /\ \A g \in Grupo : IsFiniteSet(scan[g].pending)

\* What was handed over stays so: a batch leaves the spool for the store.
LEMMA HandedStays ==
  ASSUME TypeInv, [Next]_vars, NEW p \in Path, Handed(p)
  PROVE  Handed(p)'
<1> USE DEF Handed, NoSpool
<1>1. api \subseteq api'
  BY DEF Next, Ambiente, Tick, Chega, Completa, Move, Flush, PegaSpool, ReenviaOk,
         ReenviaFalha, FlushSpoolFim, Varre, Inicia, LeCorte, GravaCorte, EntraPasta,
         VisitaArquivo, FimDaCaminhada, Submete, PostOk, PostFalha, SpoolOk, SpoolFalha,
         GravaEstado, MarcaScan, MarcaCompleta, Queda, vars
<1>2. \/ spool' = spool
      \/ spool # <<>> /\ ~Head(spool).rasgado
         /\ spool' = Tail(spool) /\ api' = api \cup Head(spool).obs
      \/ \E b : spool' = Append(spool, b)
  BY DEF Next, Ambiente, Tick, Chega, Completa, Move, Flush, PegaSpool, ReenviaOk,
         ReenviaFalha, FlushSpoolFim, Varre, Inicia, LeCorte, GravaCorte, EntraPasta,
         VisitaArquivo, FimDaCaminhada, Submete, PostOk, PostFalha, SpoolOk, SpoolFalha,
         GravaEstado, MarcaScan, MarcaCompleta, Queda, vars
<1>3. CASE p \in api
  BY <1>1, <1>3
<1>4. ASSUME NEW i \in DOMAIN spool, ~spool[i].rasgado, p \in spool[i].obs
      PROVE  Handed(p)'
  <2>0. spool \in Seq(Lote)
    BY DEF TypeInv, DiscoOK
  <2>1. CASE spool' = spool
    BY <1>4, <2>1
  <2>2. CASE /\ spool # <<>> /\ spool' = Tail(spool)
             /\ api' = api \cup Head(spool).obs
    <3>1. CASE i = 1
      BY <1>4, <2>0, <2>2, <3>1
    <3>2. CASE i # 1
      <4>1. i - 1 \in DOMAIN spool' /\ spool'[i - 1] = spool[i]
        BY <2>0, <2>2, <3>2
      <4> QED
        BY <1>4, <4>1
    <3> QED
      BY <3>1, <3>2
  <2>3. ASSUME NEW b, spool' = Append(spool, b) PROVE Handed(p)'
    <3>1. i \in DOMAIN spool' /\ spool'[i] = spool[i]
      BY <2>0, <2>3
    <3> QED
      BY <1>4, <3>1
  <2> QED
    BY <1>2, <2>1, <2>2, <2>3
<1> QED
  BY <1>3, <1>4

\* A step that records nothing: every loop keeps its pending map, and its batch
\* until it is handed over, or ends.
LEMMA KeptFrame ==
  ASSUME TypeInv, KeptInv, [Next]_vars, seen' = seen,
         \A g \in Grupo :
           \/ /\ scan'[g].pending = scan[g].pending
              /\ \A p \in scan[g].batch : p \in scan'[g].batch \/ Handed(p)'
           \/ /\ scan'[g].pending = {}
              /\ \A p \in scan[g].batch : p \in scan'[g].batch \/ Handed(p)' \/ Interrompida(g, p)
  PROVE  KeptInv' /\ Retem
<1>1. \A x \in Ficha : Handed(x.p) => Handed(x.p)'
  BY HandedStays DEF Ficha
<1>2. ASSUME NEW g \in Grupo, NEW x \in scan'[g].pending, x.chave
      PROVE Handed(x.p)' \/ x.p \in scan'[g].batch
  BY <1>1, <1>2, LacoType DEF KeptInv, PendingIsKept
<1>3. \A g \in Grupo : IsFiniteSet(scan'[g].pending)
  BY FS_EmptySet DEF KeptInv
<1>4. KeptInv'
  BY <1>2, <1>3 DEF KeptInv, PendingIsKept
<1>5. Retem
  <2>1. \A s \in seen : Handed(s.p) => Handed(s.p)'
    BY <1>1 DEF TypeInv, DiscoOK
  <2>2. \A g \in Grupo : \A p \in scan[g].batch :
          p \in scan'[g].batch \/ Handed(p)' \/ Interrompida(g, p)
    OBVIOUS
  <2>3. \A p : NoLote(p) => Handed(p)' \/ NoLote(p)' \/ \E g \in Grupo : Interrompida(g, p)
    BY <2>2 DEF NoLote
  <2> QED
    BY <2>1, <2>3 DEF Retem
<1> QED
  BY <1>4, <1>5

\* A file that is read enters the pending map together with the batch, and the
\* map is recorded when it is full.
LEMMA AnotaKept ==
  ASSUME TypeInv, KeptInv, [Next]_vars, NEW g \in Grupo, NEW f \in scan[g].lista,
         scan[g].pc = "anda", NEW ok \in BOOLEAN, Anota(g, f, ok)
  PROVE  KeptInv' /\ Retem
<1> DEFINE x == [p |-> f.p, mod |-> f.mod, inteiro |-> f.inteiro, chave |-> ok]
           pend == Guarda(scan[g].pending, {x})
           cheio == Cardinality(pend) >= FlushSeenEvery
           batch == IF ok THEN scan[g].batch \cup {f.p} ELSE scan[g].batch
<1>1. /\ scan[g] \in Laco /\ scan[g].pending \subseteq Ficha
      /\ IsFiniteSet(scan[g].pending)
  BY LacoType DEF KeptInv
<1>2. x \in Ficha /\ x.p = f.p /\ x.chave = ok
  <2>1. f \in Info
    BY <1>1 DEF Laco
  <2> QED
    BY <2>1 DEF Info, Ficha
<1>3. /\ seen' = IF cheio THEN Guarda(seen, pend) ELSE seen
      /\ scan'[g].pending = (IF cheio THEN {} ELSE pend) /\ scan'[g].batch = batch
      /\ scan'[g].pc \in {"anda", "submete"}
      /\ \A h \in Grupo \ {g} : scan'[h] = scan[h]
  BY DEF Anota, TypeInv, LacosOK
<1> HIDE DEF x
<1>4. pend \subseteq scan[g].pending \cup {x} /\ pend \subseteq Ficha
  BY <1>1, <1>2 DEF Guarda
<1>5. IsFiniteSet(pend) /\ (cheio => Cardinality(scan[g].pending) + 1 >= FlushSeenEvery)
  <2>1. /\ IsFiniteSet(scan[g].pending \cup {x}) /\ Cardinality(scan[g].pending) \in Nat
        /\ Cardinality(scan[g].pending \cup {x}) <= Cardinality(scan[g].pending) + 1
        /\ Cardinality(scan[g].pending \cup {x}) \in Nat
    <3>1. Cardinality(scan[g].pending) \in Nat
      BY <1>1, FS_CardinalityType
    <3>2. /\ IsFiniteSet(scan[g].pending \cup {x})
          /\ \/ Cardinality(scan[g].pending \cup {x}) = Cardinality(scan[g].pending)
             \/ Cardinality(scan[g].pending \cup {x}) = Cardinality(scan[g].pending) + 1
      BY <1>1, FS_AddElement
    <3> QED
      BY <3>1, <3>2
  <2> HIDE DEF pend
  <2>2. IsFiniteSet(pend) /\ Cardinality(pend) \in Nat
        /\ Cardinality(pend) <= Cardinality(scan[g].pending \cup {x})
    BY <1>4, <2>1, FS_Subset, FS_CardinalityType
  <2> QED
    BY <2>1, <2>2, LotesAssumption
<1>6. \A z \in Ficha : Handed(z.p) => Handed(z.p)'
  BY HandedStays DEF Ficha
<1>7. ASSUME NEW z \in pend, z.chave PROVE Handed(z.p)' \/ z.p \in batch
  <2>1. CASE z = x
    BY <1>2, <1>7, <2>1
  <2>2. CASE z # x
    <3>1. z \in scan[g].pending
      BY <1>4, <2>2
    <3>2. Handed(z.p) \/ z.p \in scan[g].batch
      BY <1>7, <3>1 DEF KeptInv, PendingIsKept
    <3> QED
      BY <1>1, <1>6, <3>1, <3>2
  <2> QED
    BY <2>1, <2>2
<1> HIDE DEF pend, cheio
<1>8. KeptInv'
  <2>1. \A h \in Grupo : IsFiniteSet(scan'[h].pending)
    BY <1>3, <1>5, FS_EmptySet DEF KeptInv
  <2>2. ASSUME NEW h \in Grupo, NEW z \in scan'[h].pending, z.chave
        PROVE  Handed(z.p)' \/ z.p \in scan'[h].batch
    <3>1. CASE h # g
      BY <1>3, <1>6, <2>2, <3>1, LacoType DEF KeptInv, PendingIsKept
    <3>2. CASE h = g
      BY <1>3, <1>7, <2>2, <3>2
    <3> QED
      BY <3>1, <3>2
  <2> QED
    BY <2>1, <2>2 DEF KeptInv, PendingIsKept
<1>9. Retem
  <2>1. ASSUME NEW s \in seen', s.chave, s \notin seen
        PROVE  Handed(s.p)' \/ \E h \in Grupo : s.p \in scan'[h].batch /\ EncheuMapa(h)
    <3>1. cheio /\ s \in pend
      BY <1>3, <2>1 DEF Guarda
    <3>2. EncheuMapa(g)
      BY <1>3, <1>5, <3>1 DEF EncheuMapa
    <3> QED
      BY <1>3, <1>7, <2>1, <3>1, <3>2
  <2>2. \A s \in seen : Handed(s.p) => Handed(s.p)'
    BY <1>6 DEF TypeInv, DiscoOK
  <2>3. \A h \in Grupo : scan[h].batch \subseteq scan'[h].batch
    BY <1>3
  <2>4. \A p : NoLote(p) => NoLote(p)'
    BY <2>3 DEF NoLote
  <2> QED
    BY <2>1, <2>2, <2>4 DEF Retem
<1> QED
  BY <1>8, <1>9

LEMMA KeptInit == Init => KeptInv
<1> SUFFICES ASSUME Init PROVE KeptInv
  OBVIOUS
<1>1. \A g \in Grupo : scan[g].pending = {}
  BY DEF Init, Parado
<1> QED
  BY <1>1, FS_EmptySet DEF KeptInv, PendingIsKept

LEMMA VarreKept ==
  ASSUME TypeInv, KeptInv, [Next]_vars, NEW g \in Grupo, Varre(g)
  PROVE  KeptInv' /\ Retem
<1> USE DEF ambiente, disco
<1>0. scan \in [Grupo -> Laco]
  BY TypeInvImplies DEF TypeOK
<1>1. CASE Inicia(g) \/ LeCorte(g) \/ GravaCorte(g) \/ EntraPasta(g)
           \/ FimDaCaminhada(g) \/ Submete(g) \/ PostFalha(g)
  <2>1. /\ seen' = seen
        /\ \A h \in Grupo : scan'[h].pending = scan[h].pending /\ scan'[h].batch = scan[h].batch
    <3>1. CASE Inicia(g) \/ LeCorte(g) \/ GravaCorte(g)
      BY <1>0, <3>1 DEF Inicia, LeCorte, GravaCorte, Laco
    <3>2. CASE EntraPasta(g)
      <4>1. seen' = seen
        BY <3>2 DEF EntraPasta
      <4>2. PICK d, s :
              scan' = [scan EXCEPT ![g] = [scan[g] EXCEPT !.dirs = @ \ {d}, !.lista = s]]
        BY <3>2, PastaPassa
      <4> QED
        BY <1>0, <4>1, <4>2 DEF Laco
    <3>3. CASE FimDaCaminhada(g) \/ Submete(g) \/ PostFalha(g)
      BY <1>0, <3>3 DEF FimDaCaminhada, Submete, PostFalha, Laco
    <3> QED
      BY <1>1, <3>1, <3>2, <3>3
  <2> QED
    BY <2>1, KeptFrame
<1>2. CASE MarcaScan(g) \/ MarcaCompleta(g)
  <2>1. scan[g].batch = {}
    BY <1>2, LacoType DEF MarcaScan, MarcaCompleta, LacoOK, LoteOK, SemLote
  <2>2. /\ seen' = seen
        /\ \A h \in Grupo \ {g} : scan'[h] = scan[h]
        /\ scan'[g].pending \in {scan[g].pending, {}}
    BY <1>0, <1>2 DEF MarcaScan, MarcaCompleta, Parado, Laco
  <2>3. \A h \in Grupo : h = g \/ (scan'[h].pending = scan[h].pending /\ scan'[h].batch = scan[h].batch)
    BY <2>2
  <2> QED
    BY <2>1, <2>2, <2>3, KeptFrame
<1>3. CASE VisitaArquivo(g)
  <2>1. PICK f \in scan[g].lista :
          \/ scan' = [scan EXCEPT ![g].lista = @ \ {f}] /\ seen' = seen
          \/ Anota(g, f, TemChave(f)) \/ Anota(g, f, FALSE)
    BY <1>3 DEF VisitaArquivo
  <2>2. CASE scan' = [scan EXCEPT ![g].lista = @ \ {f}] /\ seen' = seen
    <3>1. \A h \in Grupo : /\ scan'[h].pending = scan[h].pending
                           /\ scan'[h].batch = scan[h].batch
      BY <1>0, <2>2
    <3> QED
      BY <2>2, <3>1, KeptFrame
  <2>3. scan[g].pc = "anda"
    BY <1>3 DEF VisitaArquivo
  <2>4. CASE Anota(g, f, TemChave(f))
    BY <2>3, <2>4, AnotaKept DEF TemChave
  <2>5. CASE Anota(g, f, FALSE)
    BY <2>3, <2>5, AnotaKept
  <2> QED
    BY <2>1, <2>2, <2>4, <2>5
<1>4. ASSUME seen' = seen, scan' = Aceito(g), \A p \in scan[g].batch : Handed(p)'
      PROVE  KeptInv' /\ Retem
  <2>1. \A h \in Grupo : /\ scan'[h].pending = scan[h].pending
                         /\ h # g => scan'[h].batch = scan[h].batch
    BY <1>0, <1>4 DEF Aceito
  <2> QED
    BY <1>4, <2>1, KeptFrame
<1>5. CASE PostOk(g)
  BY <1>4, <1>5 DEF PostOk, Handed
<1>6. CASE SpoolOk(g)
  <2>1. spool \in Seq(Lote)
    BY DEF TypeInv, DiscoOK
  <2> DEFINE b == [obs |-> scan[g].batch, rasgado |-> FALSE]
  <2>2. b.obs = scan[g].batch /\ ~b.rasgado
    OBVIOUS
  <2>3. spool' = Append(spool, b)
    BY <1>6 DEF SpoolOk
  <2> HIDE DEF b
  <2>4. Len(spool) + 1 \in DOMAIN spool' /\ spool'[Len(spool) + 1] = b
    BY <2>1, <2>3
  <2>5. \A p \in scan[g].batch : Handed(p)'
    BY <2>2, <2>4 DEF Handed, NoSpool
  <2> QED
    BY <1>4, <1>6, <2>5 DEF SpoolOk
<1>7. CASE SpoolFalha(g)
  <2>1. seen' = seen /\ scan'[g] = Parado /\ \A h \in Grupo \ {g} : scan'[h] = scan[h]
    BY <1>0, <1>7 DEF SpoolFalha
  <2>2. falhas' > falhas
    BY <1>7, RelogioAssumption DEF SpoolFalha, TypeInv, DiscoOK
  <2>3. scan'[g].pending = {} /\ \A p \in scan[g].batch : Interrompida(g, p)
    BY <2>1, <2>2 DEF Interrompida, Parado
  <2>4. \A h \in Grupo : h = g \/ (scan'[h].pending = scan[h].pending /\ scan'[h].batch = scan[h].batch)
    BY <2>1
  <2> QED
    BY <2>1, <2>3, <2>4, KeptFrame
<1>8. CASE GravaEstado(g)
  <2>1. scan[g].batch = {} /\ scan[g].pending \subseteq Ficha
    BY <1>8, LacoType DEF GravaEstado, LacoOK, LoteOK, SemLote
  <2>2. \A z \in Ficha : Handed(z.p) => Handed(z.p)'
    BY HandedStays DEF Ficha
  <2>3. /\ seen' = Guarda(seen, scan[g].pending)
        /\ scan'[g].pending = {} /\ \A h \in Grupo \ {g} : scan'[h] = scan[h]
    BY <1>0, <1>8 DEF GravaEstado, Parado
  <2>4. KeptInv'
    <3>1. \A h \in Grupo : h = g \/ scan'[h] = scan[h]
      BY <2>3
    <3>2. \A h \in Grupo : IsFiniteSet(scan'[h].pending)
      BY <2>3, <3>1, FS_EmptySet DEF KeptInv
    <3>3. PendingIsKept'
      BY <2>2, <2>3, <3>1, LacoType DEF KeptInv, PendingIsKept
    <3> QED
      BY <3>2, <3>3 DEF KeptInv
  <2>5. \A s \in seen' : s \notin seen /\ s.chave => Handed(s.p)'
    BY <2>1, <2>2, <2>3 DEF Guarda, KeptInv, PendingIsKept
  <2>6. \A s \in seen : Handed(s.p) => Handed(s.p)'
    BY <2>2 DEF TypeInv, DiscoOK
  <2>7. \A p : NoLote(p) => NoLote(p)'
    <3>1. \A h \in Grupo : scan[h].batch \subseteq scan'[h].batch
      BY <2>1, <2>3
    <3> QED
      BY <3>1 DEF NoLote
  <2>8. Retem
    BY <2>5, <2>6, <2>7 DEF Retem
  <2> QED
    BY <2>4, <2>8
<1> QED
  BY <1>1, <1>2, <1>3, <1>5, <1>6, <1>7, <1>8 DEF Varre

LEMMA KeptStep == TypeInv /\ KeptInv /\ [Next]_vars => KeptInv' /\ Retem
<1> SUFFICES ASSUME TypeInv, KeptInv, [Next]_vars PROVE KeptInv' /\ Retem
  OBVIOUS
<1> USE DEF disco, ambiente
<1>0. scan \in [Grupo -> Laco]
  BY TypeInvImplies DEF TypeOK
<1>1. CASE Ambiente
  <2>1. seen' = seen /\ scan' = scan
    BY <1>1 DEF Ambiente, Tick, Chega, Completa, Move
  <2> QED
    BY <2>1, KeptFrame
<1>2. CASE Queda
  <2>1. seen' = seen /\ \A g \in Grupo : scan'[g] = Parado
    BY <1>2 DEF Queda
  <2>2. falhas' > falhas
    BY <1>2, RelogioAssumption DEF Queda, TypeInv, DiscoOK
  <2>3. \A g \in Grupo : scan'[g].pending = {} /\ \A p \in scan[g].batch : Interrompida(g, p)
    BY <2>1, <2>2 DEF Interrompida, Parado
  <2> QED
    BY <2>1, <2>3, KeptFrame
<1>3. ASSUME NEW w \in Grupo \cup {"ticker"}, Flush(w) PROVE KeptInv' /\ Retem
  <2>1. /\ seen' = seen
        /\ \A g \in Grupo : /\ scan'[g].pending = scan[g].pending
                            /\ scan'[g].batch = scan[g].batch
    <3>1. scan' = scan \/ scan' = DepoisDoFlush(w)
      BY <1>3 DEF Flush, PegaSpool, ReenviaOk, ReenviaFalha, FlushSpoolFim
    <3>2. seen' = seen
      BY <1>3 DEF Flush, PegaSpool, ReenviaOk, ReenviaFalha, FlushSpoolFim
    <3>3. scan' = scan \/ (w \in Grupo /\ scan' = [scan EXCEPT ![w].pc = "corte"])
      BY <3>1 DEF DepoisDoFlush
    <3> QED
      BY <1>0, <3>2, <3>3 DEF Laco
  <2> QED
    BY <2>1, KeptFrame
<1>4. ASSUME NEW g \in Grupo, Varre(g) PROVE KeptInv' /\ Retem
  BY <1>4, VarreKept
<1>5. CASE UNCHANGED vars
  BY <1>5, KeptFrame DEF vars
<1> QED
  BY <1>1, <1>2, <1>3, <1>4, <1>5 DEF Next

\* For any folders, batch size and size of the map, and whatever crashes, spool
\* errors and lost replies: what a scan records at its end was handed over, what
\* it records while it walks is handed over or in its batch, and nothing recorded
\* is lost but by the interruption of the scan whose batch holds it.
THEOREM SeenHeld == Spec => SeenIsHeld
<1>1. Init => TypeInv /\ KeptInv
  BY TypeInit, KeptInit
<1>2. TypeInv /\ KeptInv /\ [Next]_vars => (TypeInv /\ KeptInv)'
  BY TypeStep, KeptStep
<1>3. TypeInv /\ KeptInv /\ [Next]_vars => [Retem]_vars
  BY KeptStep
<1> QED
  BY <1>1, <1>2, <1>3, PTL DEF Spec, SeenIsHeld
-----------------------------------------------------------------------------
(* The pruning: syncPruneCutoff calls its correctness inductive.           *)

\* A directory is at least as recent as what was moved into it; moved files are
\* whole, and nothing has a time to come.
Relogio ==
  /\ \A f \in fs : f.mod <= now
  /\ \A f \in fs : f.p \in Sinc => f.inteiro /\ f.mod <= dirMod[Particao[f.p]]
  /\ \A d \in Pasta("sync") : dirMod[d] <= now
  /\ \A g \in Grupo : scan[g].start <= now
  /\ meta.lastScan <= now

\* The seed is set once: all loops that walk, or are about to, agree on it.
Andando == {"anda", "submete", "post", "spool", "estado", "marca", "completa"}
Semente ==
  \A g \in Grupo :
    /\ scan[g].pc = "grava" =>
         ~Backfill /\ scan[g].cutoff = now /\ meta.seed \in {Nunca, now}
    /\ scan[g].pc \in Andando /\ ~Backfill =>
         meta.seed # Nunca /\ scan[g].cutoff = meta.seed

\* The sync scan prunes against the last one, and its listing is not older than
\* its start.
SemLista == {"parado", "flush", "corte", "grava"}
Listado ==
  "sync" \in Grupo =>
    /\ scan["sync"].pc \in SemLista => scan["sync"].dirs = {}
    /\ scan["sync"].desde \in {Nunca, meta.lastScan}
    /\ \A d \in scan["sync"].dirs :
         /\ d.dir \in Pasta("sync")
         /\ \/ dirMod[d.dir] = d.mod
            \/ dirMod[d.dir] >= scan["sync"].start

\* What the sync scan still has to look at.
NaFila(l, f) ==
  \/ \E d \in l.dirs : d.dir = Particao[f.p]
  \/ f \in l.lista
  \/ \E x \in l.pending : x.p = f.p

\* Every file of SINCRONIZADO is accounted for: recorded, backlog, in a directory
\* that stays hot, or still to be looked at.
Coberto ==
  "sync" \in Grupo /\ scan["sync"].pc \in Andando \ {"completa"} =>
    /\ \A f \in fs : f.p \in Sinc =>
         \/ Conhecido(f.p) \/ Backlog(f)
         \/ dirMod[Particao[f.p]] >= scan["sync"].start - Margem
         \/ NaFila(scan["sync"], f)
    /\ scan["sync"].pc \in {"estado", "marca"} =>
         scan["sync"].dirs = {} /\ scan["sync"].lista = {}
    /\ scan["sync"].pc = "marca" => scan["sync"].pending = {}

HotInv == Relogio /\ Semente /\ Listado /\ Coberto /\ PartitionStaysHot

\* The numbers and the records the comparisons below are about.
LEMMA Tipos ==
  ASSUME TypeInv
  PROVE  /\ Tempo \subseteq Int /\ Margem \in Nat /\ StableAge \in Nat
         /\ now \in Tempo \ {Nunca} /\ fs \subseteq Info
         /\ \A f \in fs : f.mod \in Tempo /\ f.p \in Path
         /\ \A f \in fs : f.p \in Sinc => Particao[f.p] \in Pasta("sync")
         /\ \A d \in Pasta("sync") : dirMod[d] \in Tempo
         /\ meta.seed \in Tempo /\ meta.lastScan \in Tempo
         /\ scan \in [Grupo -> Laco]
         /\ \A g \in Grupo : scan[g].start \in Tempo /\ scan[g].desde \in Tempo
                             /\ scan[g].cutoff \in Tempo
<1>1. Tempo \subseteq Int /\ Margem \in Nat /\ StableAge \in Nat
  BY RelogioAssumption DEF Tempo, Nunca
<1>2. scan \in [Grupo -> Laco]
  BY TypeInvImplies DEF TypeOK
<1>3. \A f \in fs : f.mod \in Tempo /\ f.p \in Path
  BY DEF TypeInv, DiscoOK, Info
<1>4. \A f \in fs : f.p \in Sinc => Particao[f.p] \in Pasta("sync")
  BY DEF Pasta, Raiz
<1>5. \A g \in Grupo : scan[g].start \in Tempo /\ scan[g].desde \in Tempo
                       /\ scan[g].cutoff \in Tempo
  BY <1>2 DEF Laco
<1> QED
  BY <1>1, <1>2, <1>3, <1>4, <1>5 DEF TypeInv, DiscoOK

LEMMA HotInit == Init => HotInv
<1> SUFFICES ASSUME Init PROVE HotInv
  OBVIOUS
<1>1. Relogio
  BY DEF Init, Relogio, Parado, Nunca
<1>2. Semente
  BY DEF Init, Semente, Parado, Andando
<1>3. Listado
  BY DEF Init, Listado, Parado, SemLista
<1>4. Coberto
  BY DEF Init, Coberto, Parado, Andando
<1>5. PartitionStaysHot
  BY DEF Init, PartitionStaysHot
<1> QED
  BY <1>1, <1>2, <1>3, <1>4, <1>5 DEF HotInv

\* Steps that touch neither the files nor what is recorded of them, and move the
\* loops on, or drop them, without changing what they still have to look at.
Avanca(l, m) ==
  /\ m.start = l.start /\ m.desde = l.desde /\ m.cutoff = l.cutoff
  /\ m.dirs = l.dirs /\ m.lista = l.lista /\ m.pending = l.pending
  /\ \/ m.pc = l.pc
     \/ l.pc = "flush" /\ m.pc = "corte"
     \/ /\ l.pc \in {"anda", "submete", "post", "spool"}
        /\ \/ m.pc \in {"anda", "submete", "post", "spool"}
           \/ m.pc = "estado" /\ l.dirs = {} /\ l.lista = {}

LEMMA HotQuiet ==
  ASSUME TypeInv, HotInv, ambiente' = ambiente, seen' = seen,
         meta'.seed = meta.seed, meta'.lastScan = meta.lastScan,
         \A g \in Grupo : scan'[g] = Parado \/ Avanca(scan[g], scan'[g])
  PROVE  HotInv'
<1> USE Tipos DEF ambiente
<1>1. Relogio'
  BY DEF HotInv, Relogio, Avanca, Parado, Tempo, Nunca
<1>2. Semente'
  BY DEF HotInv, Semente, Avanca, Parado, Andando
<1>3. Listado'
  BY DEF HotInv, Listado, SemLista, Avanca, Parado
<1>4. \A f : (Conhecido(f.p)' <=> Conhecido(f.p)) /\ (Backlog(f)' <=> Backlog(f))
  BY DEF Conhecido, Backlog
<1>5. Coberto'
  BY <1>4 DEF HotInv, Coberto, NaFila, Avanca, Parado, Andando
<1>6. PartitionStaysHot'
  BY <1>4 DEF HotInv, PartitionStaysHot
<1> QED
  BY <1>1, <1>2, <1>3, <1>5, <1>6 DEF HotInv

LEMMA HotAmbiente ==
  ASSUME TypeInv, HotInv, Ambiente
  PROVE  HotInv'
<1> USE Tipos, RelogioAssumption DEF disco
<1>0. /\ seen' = seen /\ meta' = meta /\ scan' = scan
      /\ now' \in Int /\ now' >= now
      /\ \A d \in Pasta("sync") : dirMod'[d] = dirMod[d] \/ dirMod'[d] = now
  <2>1. CASE Tick
    BY <2>1 DEF Tick
  <2>2. CASE \E p \in Chegada : Chega(p)
    BY <2>2 DEF Chega
  <2>3. CASE \E f \in fs : Completa(f)
    BY <2>3 DEF Completa
  <2>4. CASE \E f \in fs : Move(f)
    BY <2>4 DEF Move, TypeInv, DiscoOK
  <2> QED
    BY <2>1, <2>2, <2>3, <2>4 DEF Ambiente
<1>1. \A f \in fs' : f.mod <= now'
  <2>1. CASE Tick
    BY <1>0, <2>1 DEF Tick, HotInv, Relogio
  <2>2. CASE \E p \in Chegada : Chega(p)
    BY <2>2 DEF Chega, HotInv, Relogio
  <2>3. ASSUME NEW f \in fs, Completa(f) PROVE \A h \in fs' : h.mod <= now'
    <3> DEFINE n == [f EXCEPT !.mod = now, !.inteiro = TRUE]
    <3>1. n.mod = now
      BY DEF Info
    <3> HIDE DEF n
    <3>2. fs' = (fs \ {f}) \cup {n} /\ now' = now
      BY <2>3 DEF Completa, n
    <3> QED
      BY <3>1, <3>2 DEF HotInv, Relogio
  <2>4. ASSUME NEW f \in fs, Move(f) PROVE \A h \in fs' : h.mod <= now'
    BY <2>4 DEF Move, HotInv, Relogio, Info
  <2> QED
    BY <2>1, <2>2, <2>3, <2>4 DEF Ambiente
\* A file of SINCRONIZADO was there before, or has just been moved in.
<1>2. \A f \in fs' : f.p \in Sinc =>
        \/ f \in fs
        \/ f.inteiro /\ f.mod <= now /\ Particao[f.p] \in Pasta("sync")
           /\ dirMod'[Particao[f.p]] = now
  <2>1. CASE Tick
    BY <2>1 DEF Tick
  <2>2. ASSUME NEW p \in Chegada, Chega(p), NEW f \in fs', f.p \in Sinc PROVE f \in fs
    BY <2>2, PastasAssumption DEF Chega
  <2>3. ASSUME NEW f \in fs, Completa(f), NEW h \in fs', h.p \in Sinc PROVE h \in fs
    <3>1. f.p \notin Sinc
      BY <2>3 DEF Completa, HotInv, Relogio
    <3>2. [f EXCEPT !.mod = now, !.inteiro = TRUE].p = f.p
      BY DEF Info
    <3> QED
      BY <2>3, <3>1, <3>2 DEF Completa
  <2>4. ASSUME NEW f \in fs, Move(f), NEW h \in fs', h.p \in Sinc, h \notin fs
        PROVE /\ h.inteiro /\ h.mod <= now /\ Particao[h.p] \in Pasta("sync")
              /\ dirMod'[Particao[h.p]] = now
    <3>1. h = [f EXCEPT !.p = SincDe[f.p]] /\ f.inteiro /\ f.p \in Chegada
      BY <2>4 DEF Move
    <3>2. h.p = SincDe[f.p] /\ h.mod = f.mod /\ h.inteiro = f.inteiro
      BY <3>1 DEF Info
    <3>3. Particao[h.p] \in Pasta("sync")
      BY <2>4 DEF Pasta, Raiz
    <3>4. dirMod'[Particao[h.p]] = now
      BY <2>4, <3>2, <3>3 DEF Move, TypeInv, DiscoOK
    <3> QED
      BY <3>1, <3>2, <3>3, <3>4 DEF HotInv, Relogio
  <2> QED
    BY <2>1, <2>2, <2>3, <2>4 DEF Ambiente
<1>3. \A d \in Pasta("sync") : dirMod'[d] >= dirMod[d] /\ dirMod'[d] <= now'
                               /\ dirMod'[d] \in Int
  BY <1>0 DEF HotInv, Relogio
<1>4. Relogio'
  <2>1. \A f \in fs' : f.p \in Sinc => f.inteiro /\ f.mod <= dirMod'[Particao[f.p]]
    BY <1>2, <1>3 DEF HotInv, Relogio
  <2>2. \A g \in Grupo : scan'[g].start <= now'
    BY <1>0 DEF HotInv, Relogio
  <2>3. meta'.lastScan <= now'
    BY <1>0 DEF HotInv, Relogio
  <2> QED
    BY <1>1, <1>3, <2>1, <2>2, <2>3 DEF Relogio
<1>5. Semente'
  <2>1. \A g \in Grupo : scan[g].pc = "grava" => now' = now
    BY DEF Ambiente, Tick, Chega, Completa, Move
  <2> QED
    BY <1>0, <2>1 DEF HotInv, Semente
<1>6. Listado'
  <2>1. "sync" \in Grupo => scan["sync"].start <= now
    BY DEF HotInv, Relogio
  <2>2. \A d \in scan["sync"].dirs : "sync" \in Grupo =>
          \/ dirMod'[d.dir] = d.mod
          \/ dirMod'[d.dir] >= scan["sync"].start
    BY <1>0, <2>1 DEF HotInv, Listado
  <2> QED
    BY <1>0, <2>2 DEF HotInv, Listado
<1>7. Coberto'
  <2>1. "sync" \in Grupo => scan["sync"].start <= now
    BY DEF HotInv, Relogio
  <2>2. \A f : (Conhecido(f.p)' <=> Conhecido(f.p)) /\ (Backlog(f)' <=> Backlog(f))
    BY <1>0 DEF Conhecido, Backlog
  <2>3. ASSUME NEW f \in fs', f.p \in Sinc, "sync" \in Grupo,
               scan["sync"].pc \in Andando \ {"completa"}
        PROVE  \/ Conhecido(f.p) \/ Backlog(f)
               \/ dirMod'[Particao[f.p]] >= scan["sync"].start - Margem
               \/ NaFila(scan["sync"], f)
    <3>1. CASE f \in fs
      BY <1>3, <2>3, <3>1 DEF HotInv, Coberto
    <3>2. CASE f \notin fs
      BY <1>2, <2>1, <2>3, <3>2
    <3> QED
      BY <3>1, <3>2
  <2> QED
    BY <1>0, <2>2, <2>3 DEF HotInv, Coberto, NaFila
<1>8. PartitionStaysHot'
  <2>1. \A f : (Conhecido(f.p)' <=> Conhecido(f.p)) /\ (Backlog(f)' <=> Backlog(f))
    BY <1>0 DEF Conhecido, Backlog
  <2>2. ASSUME NEW f \in fs', f.p \in Sinc, ~Conhecido(f.p), ~Backlog(f)
        PROVE  dirMod'[Particao[f.p]] >= meta.lastScan - Margem
    <3>1. CASE f \in fs
      BY <1>3, <2>2, <3>1 DEF HotInv, PartitionStaysHot
    <3>2. CASE f \notin fs
      BY <1>2, <2>2, <3>2 DEF HotInv, Relogio
    <3> QED
      BY <3>1, <3>2
  <2> QED
    BY <1>0, <2>1, <2>2 DEF PartitionStaysHot
<1> QED
  BY <1>4, <1>5, <1>6, <1>7, <1>8 DEF HotInv

\* The steps that only hand observations over.
LEMMA HotEntrega ==
  ASSUME TypeInv, HotInv, NEW g \in Grupo,
         \/ FimDaCaminhada(g) \/ Submete(g) \/ PostOk(g) \/ PostFalha(g)
         \/ SpoolOk(g) \/ SpoolFalha(g) \/ MarcaCompleta(g)
  PROVE  HotInv'
<1> USE DEF disco, ambiente
<1>0. scan \in [Grupo -> Laco]
  BY Tipos
<1>1. \A h \in Grupo : scan'[h] = Parado \/ Avanca(scan[h], scan'[h])
  <2>1. CASE FimDaCaminhada(g)
    BY <1>0, <2>1 DEF FimDaCaminhada, Fecho, Avanca, Laco
  <2>2. CASE Submete(g) \/ PostFalha(g)
    BY <1>0, <2>2 DEF Submete, PostFalha, Avanca, Laco
  <2>3. CASE PostOk(g) \/ SpoolOk(g)
    BY <1>0, <2>3 DEF PostOk, SpoolOk, Aceito, Avanca, Laco
  <2>4. CASE SpoolFalha(g) \/ MarcaCompleta(g)
    BY <1>0, <2>4 DEF SpoolFalha, MarcaCompleta, Avanca, Laco
  <2> QED
    BY <2>1, <2>2, <2>3, <2>4
<1>2. /\ ambiente' = ambiente /\ seen' = seen
      /\ meta'.seed = meta.seed /\ meta'.lastScan = meta.lastScan
  BY DEF FimDaCaminhada, Submete, PostOk, PostFalha, SpoolOk, SpoolFalha, MarcaCompleta,
         TypeInv, DiscoOK
<1> QED
  BY <1>1, <1>2, HotQuiet

LEMMA HotFlush ==
  ASSUME TypeInv, HotInv, NEW w \in Grupo \cup {"ticker"}, Flush(w)
  PROVE  HotInv'
<1> USE DEF disco, ambiente
<1>0. scan \in [Grupo -> Laco]
  BY Tipos
<1>1. scan' = scan \/ (w \in Grupo /\ scan' = [scan EXCEPT ![w].pc = "corte"])
  BY DEF Flush, PegaSpool, ReenviaOk, ReenviaFalha, FlushSpoolFim, DepoisDoFlush
<1>b. w \in Grupo /\ scan' # scan => scan[w].pc = "flush"
  BY DEF Flush, PegaSpool, ReenviaOk, ReenviaFalha, FlushSpoolFim, NoFlush
<1>2. \A h \in Grupo : Avanca(scan[h], scan'[h])
  BY <1>0, <1>1, <1>b DEF Avanca, Laco
<1>3. ambiente' = ambiente /\ seen' = seen /\ meta' = meta
  BY DEF Flush, PegaSpool, ReenviaOk, ReenviaFalha, FlushSpoolFim
<1> QED
  BY <1>2, <1>3, HotQuiet

\* What a step of a scan owes: the same seed as the others, a listing that is not
\* older than the start, every file accounted for.
Deve(g, l, bucket) ==
  /\ l.start <= now
  /\ l.pc = "grava" => ~Backfill /\ l.cutoff = now /\ meta.seed \in {Nunca, now}
  /\ l.pc \in Andando /\ ~Backfill => meta.seed # Nunca /\ l.cutoff = meta.seed
  /\ g = "sync" =>
       /\ l.desde \in {Nunca, meta.lastScan}
       /\ l.pc \in SemLista => l.dirs = {}
       /\ \A d \in l.dirs :
            /\ d.dir \in Pasta("sync")
            /\ dirMod[d.dir] = d.mod \/ dirMod[d.dir] >= l.start
       /\ l.pc \in Andando \ {"completa"} =>
            /\ \A f \in fs : f.p \in Sinc =>
                 \/ (\E s \in bucket : s.p = f.p) \/ Backlog(f)
                 \/ dirMod[Particao[f.p]] >= l.start - Margem
                 \/ NaFila(l, f)
            /\ l.pc \in {"estado", "marca"} => l.dirs = {} /\ l.lista = {}
            /\ l.pc = "marca" => l.pending = {}

\* A loop owes nothing new for what it already holds.
LEMMA DeveAntes ==
  ASSUME TypeInv, HotInv, NEW g \in Grupo
  PROVE  Deve(g, scan[g], seen)
BY DEF HotInv, Relogio, Semente, Listado, Coberto, Deve, Conhecido

LEMMA HotPasso ==
  ASSUME TypeInv, HotInv, NEW g \in Grupo, NEW l, scan' = [scan EXCEPT ![g] = l],
         ambiente' = ambiente, meta' = meta,
         seen' = seen \/ \A p : Conhecido(p) => Conhecido(p)',
         Deve(g, l, seen')
  PROVE  HotInv'
<1> USE Tipos DEF ambiente
<1>0. scan'[g] = l /\ \A h \in Grupo \ {g} : scan'[h] = scan[h]
  OBVIOUS
<1>a. \A p : Conhecido(p) => Conhecido(p)'
  BY DEF Conhecido
<1>1. Relogio'
  BY <1>0 DEF HotInv, Relogio, Deve
<1>2. Semente'
  BY <1>0 DEF HotInv, Semente, Deve
<1>3. Listado'
  BY <1>0 DEF HotInv, Listado, Deve
<1>4. Coberto'
  <2>1. CASE g = "sync"
    BY <1>0, <2>1 DEF Deve, Coberto, NaFila, Backlog, Conhecido
  <2>2. CASE g # "sync"
    BY <1>0, <1>a, <2>2 DEF HotInv, Coberto, NaFila, Backlog
  <2> QED
    BY <2>1, <2>2
<1>5. PartitionStaysHot'
  BY <1>a DEF HotInv, PartitionStaysHot, Backlog
<1> QED
  BY <1>1, <1>2, <1>3, <1>4, <1>5 DEF HotInv

LEMMA HotInicia ==
  ASSUME TypeInv, HotInv, NEW g \in Grupo, Inicia(g)
  PROVE  HotInv'
<1> USE DEF ambiente, disco
<1> DEFINE l == [scan[g] EXCEPT !.pc = "flush",
                   !.start = IF g = "sync" THEN now ELSE @,
                   !.desde = IF g = "sync" THEN syncPruneCutoff ELSE @]
<1>1. scan[g] \in Laco /\ scan[g].start <= now
  BY Tipos DEF HotInv, Relogio
<1>2. scan' = [scan EXCEPT ![g] = l]
  BY Tipos DEF Inicia
<1>3. /\ l.pc = "flush" /\ l.start \in {now, scan[g].start}
      /\ g = "sync" => l.desde = syncPruneCutoff
      /\ l.dirs = scan[g].dirs
  BY <1>1 DEF Laco
<1> HIDE DEF l
<1>4. syncPruneCutoff \in {Nunca, meta.lastScan}
  BY DEF syncPruneCutoff
<1>5. g = "sync" => scan[g].dirs = {}
  BY DEF Inicia, HotInv, Listado, SemLista
<1>6. Deve(g, l, seen')
  BY <1>1, <1>3, <1>4, <1>5, Tipos DEF Deve, Andando
<1> QED
  BY <1>2, <1>6, HotPasso DEF Inicia

\* The listing holds every directory, with its mtime.
LEMMA ListagemCobre ==
  ASSUME TypeInv, NEW l, l.dirs = Listagem("sync")
  PROVE  /\ \A d \in l.dirs : d.dir \in Pasta("sync") /\ dirMod[d.dir] = d.mod
         /\ \A f \in fs : f.p \in Sinc => NaFila(l, f)
<1>1. \A d \in l.dirs : d.dir \in Pasta("sync") /\ dirMod[d.dir] = d.mod
  BY DEF Listagem
<1>2. ASSUME NEW f \in fs, f.p \in Sinc PROVE NaFila(l, f)
  <2>1. Particao[f.p] \in Pasta("sync")
    BY <1>2, Tipos
  <2> DEFINE d == [dir |-> Particao[f.p], mod |-> dirMod[Particao[f.p]]]
  <2>2. d \in l.dirs /\ d.dir = Particao[f.p]
    BY <2>1 DEF Listagem
  <2> QED
    BY <2>2 DEF NaFila
<1> QED
  BY <1>1, <1>2

LEMMA HotCorte ==
  ASSUME TypeInv, HotInv, NEW g \in Grupo, LeCorte(g) \/ GravaCorte(g)
  PROVE  HotInv'
<1> USE DEF ambiente, disco
<1>0. /\ scan[g] \in Laco /\ scan[g].start <= now
      /\ g = "sync" => scan[g].desde \in {Nunca, meta.lastScan} /\ scan[g].dirs = {}
  BY Tipos DEF HotInv, Relogio, Listado, SemLista, LeCorte, GravaCorte
<1>1. CASE LeCorte(g) /\ (meta.seed # Nunca \/ Backfill)
  <2> DEFINE l == [scan[g] EXCEPT !.pc = "anda", !.cutoff = meta.seed, !.dirs = Listagem(g)]
  <2>1. scan' = [scan EXCEPT ![g] = l]
    BY <1>1, Tipos DEF LeCorte
  <2>2. /\ l.pc = "anda" /\ l.start = scan[g].start /\ l.desde = scan[g].desde
        /\ l.cutoff = meta.seed /\ l.dirs = Listagem(g)
    BY <1>0 DEF Laco
  <2> HIDE DEF l
  <2>3. Deve(g, l, seen')
    BY <1>0, <1>1, <2>2, ListagemCobre DEF Deve, SemLista
  <2> QED
    BY <1>1, <2>1, <2>3, HotPasso DEF LeCorte
<1>2. CASE LeCorte(g) /\ ~(meta.seed # Nunca \/ Backfill)
  <2> DEFINE l == [scan[g] EXCEPT !.pc = "grava", !.cutoff = now]
  <2>1. scan' = [scan EXCEPT ![g] = l]
    BY <1>2, Tipos DEF LeCorte
  <2>2. /\ l.pc = "grava" /\ l.start = scan[g].start /\ l.desde = scan[g].desde
        /\ l.cutoff = now /\ l.dirs = scan[g].dirs
    BY <1>0 DEF Laco
  <2> HIDE DEF l
  <2>3. Deve(g, l, seen')
    BY <1>0, <1>2, <2>2 DEF Deve, SemLista, Andando
  <2> QED
    BY <1>2, <2>1, <2>3, HotPasso DEF LeCorte
\* The seed that is stored is the one the others have, or the first.
<1>3. CASE GravaCorte(g)
  <2> DEFINE l == [scan[g] EXCEPT !.pc = "anda", !.dirs = Listagem(g)]
  <2>1. scan' = [scan EXCEPT ![g] = l]
    BY <1>3, Tipos DEF GravaCorte
  <2>2. /\ l.pc = "anda" /\ l.start = scan[g].start /\ l.desde = scan[g].desde
        /\ l.cutoff = now /\ l.dirs = Listagem(g) /\ l.cutoff = scan[g].cutoff
        /\ ~Backfill /\ meta.seed \in {Nunca, now}
    BY <1>0, <1>3 DEF Laco, GravaCorte, HotInv, Semente
  <2> HIDE DEF l
  <2>3. /\ meta'.seed = now /\ meta'.lastScan = meta.lastScan
        /\ seen' = seen /\ fs' = fs /\ now' = now /\ dirMod' = dirMod
    BY <1>3, <2>2 DEF GravaCorte, TypeInv, DiscoOK
  <2>4. scan'[g] = l /\ \A h \in Grupo \ {g} : scan'[h] = scan[h]
    BY <2>1, Tipos
  <2>5. ASSUME NEW f \in fs, Backlog(f) PROVE Backlog(f)'
    <3>1. f.mod \in Int /\ f.mod >= Nunca
      BY Tipos, RelogioAssumption DEF Tempo, Nunca
    <3>2. meta.seed = now
      BY <2>2, <2>5, <3>1 DEF Backlog, Nunca
    <3> QED
      BY <2>3, <2>5, <3>2 DEF Backlog
  <2>6. \A p : Conhecido(p) <=> Conhecido(p)'
    BY <2>3 DEF Conhecido
  <2>7. Relogio'
    BY <1>0, <2>2, <2>3, <2>4 DEF HotInv, Relogio
  <2>8. Semente'
    BY <2>2, <2>3, <2>4, Tipos DEF HotInv, Semente
  <2>9. Listado'
    BY <1>0, <2>2, <2>3, <2>4, ListagemCobre DEF HotInv, Listado, SemLista
  <2>10. Coberto'
    <3>1. CASE g = "sync"
      BY <2>2, <2>3, <2>4, <3>1, ListagemCobre DEF Coberto, NaFila
    <3>2. CASE g # "sync"
      BY <2>3, <2>4, <2>5, <2>6, <3>2 DEF HotInv, Coberto, NaFila
    <3> QED
      BY <3>1, <3>2
  <2>11. PartitionStaysHot'
    BY <2>3, <2>5, <2>6 DEF HotInv, PartitionStaysHot
  <2> QED
    BY <2>7, <2>8, <2>9, <2>10, <2>11 DEF HotInv
<1> QED
  BY <1>1, <1>2, <1>3

\* A pruned partition has nothing to look at, a visited one puts it in lista.
LEMMA HotPasta ==
  ASSUME ~PastaFalha, TypeInv, HotInv, NEW g \in Grupo, EntraPasta(g)
  PROVE  HotInv'
<1> USE DEF ambiente, disco
<1>1. PICK d \in scan[g].dirs :
        scan' = [scan EXCEPT
          ![g].dirs = @ \ {d},
          ![g].lista = IF Podada(d, scan[g].desde) THEN {}
                       ELSE {f \in fs : f.p \in Raiz(g) /\ Particao[f.p] = d.dir}]
  BY DEF EntraPasta
<1> DEFINE poda == Podada(d, scan[g].desde)
           novos == {f \in fs : f.p \in Raiz(g) /\ Particao[f.p] = d.dir}
           l == [scan[g] EXCEPT !.dirs = @ \ {d}, !.lista = IF poda THEN {} ELSE novos]
<1>2. scan[g] \in Laco /\ scan[g].pc = "anda" /\ scan[g].lista = {} /\ Deve(g, scan[g], seen)
  BY Tipos, DeveAntes DEF EntraPasta
<1>3. scan' = [scan EXCEPT ![g] = l]
  BY <1>1, Tipos
<1>4. /\ l.pc = "anda" /\ l.start = scan[g].start /\ l.desde = scan[g].desde
      /\ l.cutoff = scan[g].cutoff /\ l.dirs = scan[g].dirs \ {d}
      /\ l.lista = IF poda THEN {} ELSE novos
      /\ l.pending = scan[g].pending
  BY <1>2 DEF Laco
<1> HIDE DEF l
<1>5. ASSUME g = "sync", NEW f \in fs, f.p \in Sinc
      PROVE  \/ \E s \in seen : s.p = f.p
             \/ Backlog(f)
             \/ dirMod[Particao[f.p]] >= l.start - Margem
             \/ NaFila(l, f)
  <2>1. \/ \E s \in seen : s.p = f.p
        \/ Backlog(f)
        \/ dirMod[Particao[f.p]] >= scan[g].start - Margem
        \/ NaFila(scan[g], f)
    BY <1>2, <1>5 DEF Deve, Andando
  <2>2. CASE NaFila(scan[g], f) /\ Particao[f.p] # d.dir
    BY <1>2, <1>4, <2>2 DEF NaFila
  <2>3. CASE Particao[f.p] = d.dir /\ ~poda
    BY <1>4, <1>5, <2>3 DEF NaFila, Raiz
  <2>4. CASE Particao[f.p] = d.dir /\ poda
    <3>1. dirMod[d.dir] = d.mod \/ dirMod[d.dir] >= scan[g].start
      BY <1>2, <1>5 DEF Deve
    <3>2. scan[g].desde = meta.lastScan /\ d.mod < scan[g].desde - Margem
      BY <1>2, <1>5, <2>4 DEF Deve, Podada
    <3>3. CASE dirMod[d.dir] >= scan[g].start
      <4>1. dirMod[Particao[f.p]] \in Int /\ scan[g].start \in Int /\ Margem \in Nat
        BY <1>5, Tipos
      <4> QED
        BY <1>4, <2>4, <3>3, <4>1
    <3>4. CASE dirMod[d.dir] = d.mod
      <4>1. ~(dirMod[Particao[f.p]] >= meta.lastScan - Margem)
        <5>1. dirMod[Particao[f.p]] \in Int /\ meta.lastScan \in Int /\ Margem \in Nat
          BY <1>5, Tipos
        <5> QED
          BY <2>4, <3>2, <3>4, <5>1
      <4> QED
        BY <1>5, <4>1 DEF HotInv, PartitionStaysHot, Conhecido
    <3> QED
      BY <3>1, <3>3, <3>4
  <2> QED
    BY <1>4, <2>1, <2>2, <2>3, <2>4
<1>6. Deve(g, l, seen')
  BY <1>2, <1>4, <1>5 DEF Deve, EntraPasta, SemLista
<1> QED
  BY <1>3, <1>6, HotPasso DEF EntraPasta

\* A file that was looked at is recorded, in memory or on disk.
LEMMA Anotado ==
  ASSUME TypeInv, NEW g \in Grupo, scan[g].pc = "anda", NEW f, NEW ok \in BOOLEAN, Anota(g, f, ok)
  PROVE  /\ \A p : Conhecido(p) => \E s \in seen' : s.p = p
         /\ scan'[g].start = scan[g].start /\ scan'[g].desde = scan[g].desde
         /\ scan'[g].cutoff = scan[g].cutoff /\ scan'[g].dirs = scan[g].dirs
         /\ scan'[g].lista = scan[g].lista \ {f}
         /\ scan'[g].pc \in {"anda", "submete"}
         /\ \A p : p = f.p \/ (\E x \in scan[g].pending : x.p = p) =>
              (\E s \in seen' : s.p = p) \/ \E x \in scan'[g].pending : x.p = p
<1> DEFINE x == [p |-> f.p, mod |-> f.mod, inteiro |-> f.inteiro, chave |-> ok]
           pend == Guarda(scan[g].pending, {x})
           cheio == Cardinality(pend) >= FlushSeenEvery
<1>0. scan \in [Grupo -> Laco] /\ scan[g] \in Laco
  BY Tipos
<1>1. /\ scan'[g].start = scan[g].start /\ scan'[g].desde = scan[g].desde
      /\ scan'[g].cutoff = scan[g].cutoff /\ scan'[g].dirs = scan[g].dirs
      /\ scan'[g].lista = scan[g].lista \ {f}
      /\ scan'[g].pending = IF cheio THEN {} ELSE pend
      /\ scan'[g].pc \in {"anda", "submete"}
  BY <1>0 DEF Anota, Laco
<1>2. seen' = IF cheio THEN Guarda(seen, pend) ELSE seen
  BY DEF Anota
<1>3. x.p = f.p
  OBVIOUS
<1> HIDE DEF x, cheio
<1>4. \A p : p = f.p \/ (\E y \in scan[g].pending : y.p = p) => \E y \in pend : y.p = p
  BY <1>3 DEF Guarda
<1> HIDE DEF pend
<1>5. \A p : Conhecido(p) => \E s \in seen' : s.p = p
  BY <1>2 DEF Guarda, Conhecido
<1>6. \A p : (\E y \in pend : y.p = p) =>
        (\E s \in seen' : s.p = p) \/ \E y \in scan'[g].pending : y.p = p
  BY <1>1, <1>2 DEF Guarda
<1> QED
  BY <1>1, <1>4, <1>5, <1>6

\* A file is passed over because it is recorded, because it is backlog, or because
\* it is so young that its directory stays hot.
LEMMA PuladoOK ==
  ASSUME TypeInv, HotInv, StableAge <= Margem + 1, NEW g \in Grupo,
         scan[g].pc = "anda", NEW f \in fs, f.p \in Sinc, Pulado(g, f)
  PROVE  \/ \E s \in seen : s.p = f.p
         \/ Backlog(f)
         \/ dirMod[Particao[f.p]] >= scan[g].start - Margem
<1>1. CASE now - f.mod < StableAge
  <2>1. f.mod <= dirMod[Particao[f.p]] /\ scan[g].start <= now
    BY DEF HotInv, Relogio
  <2>2. /\ f.mod \in Int /\ dirMod[Particao[f.p]] \in Int /\ scan[g].start \in Int
        /\ now \in Int /\ Margem \in Nat /\ StableAge \in Nat
    BY Tipos
  <2> QED
    BY <1>1, <2>1, <2>2
<1>2. CASE ~Backfill /\ f.mod < scan[g].cutoff
  BY <1>2 DEF HotInv, Semente, Andando, Backlog
<1>3. CASE \E s \in seen : s.p = f.p /\ s.mod = f.mod /\ s.inteiro = f.inteiro
  BY <1>3
<1> QED
  BY <1>1, <1>2, <1>3 DEF Pulado

LEMMA HotVisita ==
  ASSUME TypeInv, HotInv, StableAge <= Margem + 1, NEW g \in Grupo, VisitaArquivo(g)
  PROVE  HotInv'
<1> USE DEF ambiente, disco
<1>1. PICK f \in scan[g].lista :
        \/ Pulado(g, f) /\ scan' = [scan EXCEPT ![g].lista = @ \ {f}] /\ seen' = seen
        \/ \E ok \in BOOLEAN : Anota(g, f, ok)
  BY DEF VisitaArquivo, TemChave
<1>2. /\ scan[g] \in Laco /\ scan[g].pc = "anda" /\ Deve(g, scan[g], seen)
      /\ ambiente' = ambiente /\ meta' = meta
  BY Tipos, DeveAntes DEF VisitaArquivo
<1>3. CASE Pulado(g, f) /\ scan' = [scan EXCEPT ![g].lista = @ \ {f}] /\ seen' = seen
  <2> DEFINE l == [scan[g] EXCEPT !.lista = @ \ {f}]
  <2>1. scan' = [scan EXCEPT ![g] = l]
    BY <1>3, Tipos
  <2>2. /\ l.pc = "anda" /\ l.start = scan[g].start /\ l.desde = scan[g].desde
        /\ l.cutoff = scan[g].cutoff /\ l.dirs = scan[g].dirs
        /\ l.lista = scan[g].lista \ {f} /\ l.pending = scan[g].pending
    BY <1>2 DEF Laco
  <2> HIDE DEF l
  <2>3. ASSUME g = "sync", NEW h \in fs, h.p \in Sinc
        PROVE  \/ \E s \in seen : s.p = h.p
               \/ Backlog(h)
               \/ dirMod[Particao[h.p]] >= l.start - Margem
               \/ NaFila(l, h)
    <3>1. CASE h = f
      BY <1>2, <1>3, <2>2, <2>3, <3>1, PuladoOK
    <3>2. CASE h # f
      BY <1>2, <2>2, <2>3, <3>2 DEF Deve, Andando, NaFila
    <3> QED
      BY <3>1, <3>2
  <2>4. Deve(g, l, seen')
    BY <1>2, <1>3, <2>2, <2>3 DEF Deve, SemLista
  <2> QED
    BY <1>2, <1>3, <2>1, <2>4, HotPasso
<1>4. ASSUME NEW ok \in BOOLEAN, Anota(g, f, ok) PROVE HotInv'
  <2> DEFINE l == scan'[g]
  <2>1. scan' = [scan EXCEPT ![g] = l]
    <3>1. DOMAIN scan' = Grupo /\ \A h \in Grupo \ {g} : scan'[h] = scan[h]
      BY <1>4, Tipos DEF Anota
    <3>2. scan' = [h \in Grupo |-> scan'[h]] /\ scan = [h \in Grupo |-> scan[h]]
      BY <1>4, Tipos DEF Anota
    <3> HIDE DEF l
    <3>3. scan'[g] = l
      BY DEF l
    <3> QED
      BY <3>1, <3>2, <3>3
  <2>2. /\ l.start = scan[g].start /\ l.desde = scan[g].desde
        /\ l.cutoff = scan[g].cutoff /\ l.dirs = scan[g].dirs
        /\ l.lista = scan[g].lista \ {f} /\ l.pc \in {"anda", "submete"}
        /\ \A p : p = f.p \/ (\E x \in scan[g].pending : x.p = p) =>
             (\E s \in seen' : s.p = p) \/ \E x \in l.pending : x.p = p
        /\ \A p : Conhecido(p) => \E s \in seen' : s.p = p
    BY <1>2, <1>4, Anotado
  <2>a. \A p : Conhecido(p) => Conhecido(p)'
    BY <2>2 DEF Conhecido
  <2> HIDE DEF l
  <2>3. ASSUME g = "sync", NEW h \in fs, h.p \in Sinc
        PROVE  \/ \E s \in seen' : s.p = h.p
               \/ Backlog(h)
               \/ dirMod[Particao[h.p]] >= l.start - Margem
               \/ NaFila(l, h)
    <3>1. \/ Conhecido(h.p) \/ Backlog(h)
          \/ dirMod[Particao[h.p]] >= l.start - Margem
          \/ NaFila(scan[g], h)
      BY <1>2, <2>2, <2>3 DEF Deve, Andando, Conhecido
    <3>2. CASE Conhecido(h.p)
      BY <2>2, <3>2 DEF Conhecido
    <3>3. CASE NaFila(scan[g], h)
      BY <2>2, <3>3 DEF NaFila
    <3> QED
      BY <3>1, <3>2, <3>3
  <2>4. Deve(g, l, seen')
    BY <1>2, <2>2, <2>3 DEF Deve, SemLista, Andando
  <2> QED
    BY <1>2, <2>1, <2>a, <2>4, HotPasso
<1> QED
  BY <1>1, <1>3, <1>4

\* Only the sync scan moves the reference.
SoSync == \A g \in Grupo : scan[g].pc \in {"marca", "completa"} => g = "sync"

LEMMA HotGrava ==
  ASSUME TypeInv, HotInv, NEW g \in Grupo, GravaEstado(g)
  PROVE  HotInv'
<1> USE DEF ambiente, disco
<1>1. /\ scan[g] \in Laco /\ scan[g].pc = "estado" /\ Deve(g, scan[g], seen)
      /\ ambiente' = ambiente /\ meta' = meta /\ seen' = Guarda(seen, scan[g].pending)
  BY Tipos, DeveAntes DEF GravaEstado
<1>2. /\ \A p : Conhecido(p) => Conhecido(p)'
      /\ \A p : (\E x \in scan[g].pending : x.p = p) => \E s \in seen' : s.p = p
  BY <1>1 DEF Conhecido, Guarda
<1>3. CASE g = "sync"
  <2> DEFINE l == [scan[g] EXCEPT !.pc = "marca", !.pending = {}]
  <2>1. scan' = [scan EXCEPT ![g] = l]
    BY <1>3, Tipos DEF GravaEstado
  <2>2. /\ l.pc = "marca" /\ l.start = scan[g].start /\ l.desde = scan[g].desde
        /\ l.cutoff = scan[g].cutoff /\ l.dirs = scan[g].dirs
        /\ l.lista = scan[g].lista /\ l.pending = {}
    BY <1>1 DEF Laco
  <2> HIDE DEF l
  <2>3. scan[g].dirs = {} /\ scan[g].lista = {}
    BY <1>1, <1>3 DEF Deve, Andando
  <2>4. ASSUME NEW h \in fs, h.p \in Sinc
        PROVE  \/ \E s \in seen' : s.p = h.p
               \/ Backlog(h)
               \/ dirMod[Particao[h.p]] >= l.start - Margem
    BY <1>1, <1>2, <1>3, <2>2, <2>3, <2>4 DEF Deve, Andando, NaFila, Conhecido
  <2>5. Deve(g, l, seen')
    BY <1>1, <2>2, <2>3, <2>4 DEF Deve, SemLista, Andando
  <2> QED
    BY <1>1, <1>2, <2>1, <2>5, HotPasso
<1>4. CASE g # "sync"
  <2>1. scan' = [scan EXCEPT ![g] = Parado]
    BY <1>4, Tipos DEF GravaEstado
  <2>2. Deve(g, Parado, seen')
    BY <1>4, Tipos, RelogioAssumption DEF Deve, Parado, Andando, Tempo, Nunca
  <2> QED
    BY <1>1, <1>2, <2>1, <2>2, HotPasso
<1> QED
  BY <1>3, <1>4

\* The reference moves to the start of a scan that has looked at everything.
LEMMA HotMarca ==
  ASSUME TypeInv, HotInv, SoSync, NEW g \in Grupo, MarcaScan(g)
  PROVE  HotInv'
<1> USE DEF ambiente
<1>1. /\ g = "sync" /\ "sync" \in Grupo /\ scan[g] \in Laco /\ scan[g].pc = "marca"
      /\ fs' = fs /\ now' = now /\ dirMod' = dirMod /\ seen' = seen
  BY Tipos DEF MarcaScan, SoSync
<1>2. meta'.seed = meta.seed /\ meta'.lastScan = scan[g].start
  BY DEF MarcaScan, Referencia, TypeInv, DiscoOK
<1>3. scan[g].dirs = {} /\ scan[g].lista = {} /\ scan[g].pending = {}
  BY <1>1 DEF HotInv, Coberto, Andando
<1>4. /\ \A h \in Grupo \ {g} : scan'[h] = scan[h]
      /\ scan'[g].pc \in {"parado", "completa"}
      /\ scan'[g].desde = Nunca /\ scan'[g].dirs = {}
      /\ scan'[g].start \in {Nunca, scan[g].start}
      /\ scan'[g].pc = "completa" => scan'[g].cutoff = scan[g].cutoff
  <2>1. CASE scan[g].desde = Nunca
    <3>1. scan' = [scan EXCEPT ![g] = [scan[g] EXCEPT !.pc = "completa"]]
      BY <2>1, Tipos DEF MarcaScan
    <3> QED
      BY <1>1, <1>3, <2>1, <3>1, Tipos DEF Laco
  <2>2. CASE scan[g].desde # Nunca
    <3>1. scan' = [scan EXCEPT ![g] = Parado]
      BY <2>2, Tipos DEF MarcaScan
    <3> QED
      BY <3>1, Tipos DEF Parado
  <2> QED
    BY <2>1, <2>2
<1>5. \A f : (Conhecido(f.p)' <=> Conhecido(f.p)) /\ (Backlog(f)' <=> Backlog(f))
  BY <1>1, <1>2 DEF Conhecido, Backlog
<1>6. Relogio'
  BY <1>1, <1>2, <1>4, Tipos, RelogioAssumption DEF HotInv, Relogio, Tempo, Nunca
<1>7. Semente'
  <2>1. ~Backfill => meta.seed # Nunca /\ scan[g].cutoff = meta.seed
    BY <1>1 DEF HotInv, Semente, Andando
  <2>2. ASSUME NEW h \in Grupo
        PROVE  /\ scan'[h].pc = "grava" =>
                    ~Backfill /\ scan'[h].cutoff = now /\ meta.seed \in {Nunca, now}
               /\ scan'[h].pc \in Andando /\ ~Backfill =>
                    meta.seed # Nunca /\ scan'[h].cutoff = meta.seed
    <3>1. CASE h = g
      BY <1>4, <2>1, <3>1 DEF Andando
    <3>2. CASE h # g
      BY <1>4, <3>2 DEF HotInv, Semente
    <3> QED
      BY <3>1, <3>2
  <2> QED
    BY <1>1, <1>2, <2>2 DEF Semente
<1>8. Listado'
  BY <1>1, <1>4 DEF Listado
<1>9. Coberto'
  BY <1>1, <1>4 DEF Coberto, Andando
<1>10. PartitionStaysHot'
  BY <1>1, <1>2, <1>3, <1>5 DEF HotInv, Coberto, Andando, NaFila, PartitionStaysHot
<1> QED
  BY <1>6, <1>7, <1>8, <1>9, <1>10 DEF HotInv

LEMMA SoSyncStep ==
  ASSUME TypeInv, SoSync, [Next]_vars
  PROVE  SoSync'
<1> DEFINE Fim == {"marca", "completa"}
<1>0. scan \in [Grupo -> Laco]
  BY Tipos
<1> SUFFICES ASSUME NEW h \in Grupo, scan'[h].pc \in Fim, ~(scan[h].pc \in Fim)
             PROVE  h = "sync"
  BY DEF SoSync
<1>1. CASE UNCHANGED vars
  BY <1>1 DEF vars
<1>2. CASE Ambiente
  BY <1>2 DEF Ambiente, Tick, Chega, Completa, Move
<1>3. CASE Queda
  BY <1>3 DEF Queda, Parado
<1>4. ASSUME NEW w \in Grupo \cup {"ticker"}, Flush(w) PROVE h = "sync"
  BY <1>0, <1>4 DEF Flush, PegaSpool, ReenviaOk, ReenviaFalha, FlushSpoolFim,
                    DepoisDoFlush, Laco
<1>5. ASSUME NEW g \in Grupo, Varre(g) PROVE h = "sync"
  <2>1. CASE Inicia(g) \/ LeCorte(g) \/ GravaCorte(g) \/ EntraPasta(g) \/ FimDaCaminhada(g)
    <3>1. scan[g] \in Laco /\ \A k \in Grupo \ {g} : scan'[k] = scan[k]
      BY <1>0, <2>1, PastaPassa DEF Inicia, LeCorte, GravaCorte, FimDaCaminhada
    <3>2. CASE Inicia(g)
      BY <1>0, <3>1, <3>2 DEF Inicia, Laco
    <3>3. CASE LeCorte(g) \/ GravaCorte(g)
      BY <1>0, <3>1, <3>3 DEF LeCorte, GravaCorte, Laco
    <3>4. CASE EntraPasta(g)
      <4>1. PICK d \in scan[g].dirs, s \in SUBSET Info :
              scan' = [scan EXCEPT ![g] = [scan[g] EXCEPT !.dirs = @ \ {d}, !.lista = s]]
        BY <1>5, <3>4, PastaPassa
      <4> QED
        BY <1>0, <3>1, <4>1 DEF Laco
    <3>5. CASE FimDaCaminhada(g)
      BY <1>0, <3>1, <3>5 DEF FimDaCaminhada, Fecho, Laco
    <3> QED
      BY <2>1, <3>2, <3>3, <3>4, <3>5
  <2>2. CASE VisitaArquivo(g)
    <3>1. PICK f \in scan[g].lista :
            \/ scan' = [scan EXCEPT ![g].lista = @ \ {f}]
            \/ \E ok \in BOOLEAN : Anota(g, f, ok)
      BY <2>2 DEF VisitaArquivo, TemChave
    <3>2. CASE scan' = [scan EXCEPT ![g].lista = @ \ {f}]
      BY <1>0, <3>2 DEF Laco
    <3>3. ASSUME NEW ok \in BOOLEAN, Anota(g, f, ok) PROVE h = "sync"
      <4>1. scan'[g].pc \in {"anda", "submete"}
        BY <2>2, <3>3, Anotado DEF VisitaArquivo
      <4>2. \A k \in Grupo \ {g} : scan'[k] = scan[k]
        BY <1>0, <3>3 DEF Anota
      <4> QED
        BY <4>1, <4>2
    <3> QED
      BY <3>1, <3>2, <3>3
  <2>3. CASE Submete(g) \/ PostOk(g) \/ PostFalha(g) \/ SpoolOk(g)
    BY <1>0, <2>3 DEF Submete, PostOk, PostFalha, SpoolOk, Aceito, Laco
  <2>4. CASE SpoolFalha(g) \/ MarcaCompleta(g)
    BY <1>0, <2>4 DEF SpoolFalha, MarcaCompleta, Parado
  <2>5. CASE GravaEstado(g)
    BY <1>0, <2>5 DEF GravaEstado, Parado
  <2>6. CASE MarcaScan(g)
    BY <1>0, <2>6 DEF MarcaScan, Parado
  <2> QED
    BY <1>5, <2>1, <2>2, <2>3, <2>4, <2>5, <2>6 DEF Varre
<1> QED
  BY <1>1, <1>2, <1>3, <1>4, <1>5 DEF Next

LEMMA HotStep ==
  ASSUME StableAge <= Margem + 1, ~PastaFalha, TypeInv, HotInv, SoSync, [Next]_vars
  PROVE  HotInv'
<1>1. CASE UNCHANGED vars
  <2>1. ambiente' = ambiente /\ seen' = seen /\ meta' = meta /\ scan' = scan
    BY <1>1 DEF vars, ambiente
  <2> QED
    BY <2>1, HotQuiet DEF Avanca
<1>2. CASE Queda
  <2>1. /\ ambiente' = ambiente /\ seen' = seen /\ meta' = meta
        /\ \A g \in Grupo : scan'[g] = Parado
    BY <1>2 DEF Queda, ambiente, disco
  <2> QED
    BY <2>1, HotQuiet
<1>3. ASSUME NEW g \in Grupo, Varre(g) PROVE HotInv'
  BY <1>3, HotInicia, HotCorte, HotPasta, HotVisita, HotEntrega, HotGrava, HotMarca
     DEF Varre
<1> QED
  BY <1>1, <1>2, <1>3, HotAmbiente, HotFlush DEF Next

\* While StableAge is at most one tick over the margin and directories can be read,
\* no scan, crash, unreadable file or move makes the pruning of syncPruneCutoff lose
\* a file: a partition with an unrecorded file is never older than the reference.
THEOREM HotSafe ==
  ASSUME StableAge <= Margem + 1, ~PastaFalha
  PROVE  Spec => []PartitionStaysHot
<1>1. Init => TypeInv /\ HotInv /\ SoSync
  BY TypeInit, HotInit DEF Init, SoSync, Parado
<1>2. TypeInv /\ HotInv /\ SoSync /\ [Next]_vars => (TypeInv /\ HotInv /\ SoSync)'
  BY TypeStep, HotStep, SoSyncStep
<1>3. HotInv => PartitionStaysHot
  BY DEF HotInv
<1> QED
  BY <1>1, <1>2, <1>3, PTL DEF Spec
=============================================================================
