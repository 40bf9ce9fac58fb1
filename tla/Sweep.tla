-------------------------------- MODULE Sweep --------------------------------
(***************************************************************************)
(* How the syncer chooses what to synchronise: the rotating sweep of       *)
(* ASINCRONIZAR with its durable cursor, and the worklist the tracker      *)
(* serves.  One action is one directory entry of WalkDir, or one item of   *)
(* the list; what Execute does to one nota is one step here (Syncer has    *)
(* its steps), that may also fail half-way.                                *)
(***************************************************************************)
EXTENDS Plan, SequencesExt

CONSTANTS
  Arquivo,       \* places a file may have: [dir, rel], rel a sequence of names
  Xml,           \* what a file may hold
  XmlInicial,    \* what the files that are there at first hold
  DirsPossiveis, \* TRACKER_SYNCER_DIRS, as sequences
  Ordem,         \* the chaves by data_emissao, chave_acesso
  Quebrada,      \* chaves whose Execute always fails (a conflict, say)
  Cenario        \* configurations, and what may go wrong (bounds)

Chave == {x.chave : x \in Xml} \ {Nenhum}

\* A name is a file or a folder, never both.
ASSUME ArquivoAssumption ==
  /\ IsFiniteSet(Arquivo)
  /\ \A f \in Arquivo : /\ f = [dir |-> f.dir, rel |-> f.rel] /\ f.dir # Nenhum
                        /\ f.rel \in Seq(Seq(Nat)) /\ f.rel # <<>>
  /\ \A f, g \in Arquivo : f.dir = g.dir => ~IsStrictPrefix(f.rel, g.rel)
\* No folder is Nenhum; without an allowlist the list is the root alone.
ASSUME DirsAssumption == \A d \in DirsPossiveis : d \in Seq(ToSet(d)) /\ Nenhum \notin ToSet(d)
ASSUME XmlInicialAssumption == \A f \in Arquivo : XmlInicial[f] \in Xml
ASSUME OrdemAssumption == ToSet(Ordem) = Chave
\* limite, maxScan and maxPer are positive; falhas, chegadas and sumicos bound
\* the failures, the files that arrive and those another program takes away.
ASSUME CenarioSweepAssumption ==
  Cenario \subseteq [modo : {"sweep", "worklist"}, dry : BOOLEAN, inicio : SUBSET Arquivo,
                     maxScan : Nat \ {0}, maxPer : Nat \ {0}, limite : Nat \ {0},
                     falhas : Nat, chegadas : Nat, sumicos : Nat]

VARIABLES
  origem,     \* the XML of each place of ASINCRONIZAR, or Nenhum
  copias,     \* copies and rows made: [chave, emp, fil, dest]
  journal,    \* the bolt file: cursor and done and dry_planned marks
  ciclo,      \* the cycle under way, in memory
  rastreado,  \* the tracker: path of the arrival and whether it knows the sync
  dirs,       \* the folders allowed, in order
  cfg,        \* the configuration, with what is left of its bounds
  antigos,    \* history: files there since the cycle began
  falta       \* history: owed a look since this file was examined

historia == <<antigos, falta>>
vars == <<origem, copias, journal, ciclo, rastreado, dirs, cfg, antigos, falta>>

Inicio == [dir |-> Nenhum, path |-> <<>>]    \* no cursor
Parado == [pc |-> "idle", segs |-> <<>>, pilha |-> <<>>, last |-> Inicio,
           scanned |-> 0, planned |-> 0, itens |-> <<>>]

Presentes == {f \in Arquivo : origem[f] # Nenhum}

Init ==
  /\ cfg \in Cenario
  /\ dirs \in DirsPossiveis
  /\ origem = [f \in Arquivo |-> IF f \in cfg.inicio THEN XmlInicial[f] ELSE Nenhum]
  /\ copias = {}
  /\ journal = [cursor |-> Inicio, done |-> {}, dryPlanned |-> {}]
  /\ ciclo = Parado
  /\ rastreado = [c \in Chave |-> [path |-> Nenhum, synced |-> FALSE]]
  /\ antigos = {} /\ falta = [f \in Arquivo |-> {}]
-----------------------------------------------------------------------------
(* The order of WalkDir.                                                    *)

\* As Go compares strings.
MenorNome(s, t) ==
  LET dif == {i \in DOMAIN s \cap DOMAIN t : s[i] # t[i]} IN
  IF dif = {} THEN Len(s) < Len(t) ELSE s[Min(dif)] < t[Min(dif)]

Barra == 47

\* Mutant of pathLess: the joined strings.
pathLessInteira(a, b) ==
  LET junta(p) == FoldLeft(LAMBDA acc, n : acc \o <<Barra>> \o n, <<>>, p)
  IN MenorNome(junta(a), junta(b))

\* Component by component, a prefix first.
pathLess(a, b) ==
  LET dif == {i \in DOMAIN a \cap DOMAIN b : a[i] # b[i]} IN
  IF dif = {} THEN Len(a) < Len(b) ELSE MenorNome(a[Min(dif)], b[Min(dif)])

Filhos(dir, p) ==
  {SubSeq(f.rel, 1, Len(p) + 1) : f \in {g \in Presentes : g.dir = dir /\ IsStrictPrefix(p, g.rel)}}

\* What ReadDir gives for a directory: its entries, by name.
ReadDir(dir, p) ==
  CHOOSE s \in [1 .. Cardinality(Filhos(dir, p)) -> Filhos(dir, p)] :
    \A i, j \in DOMAIN s : i < j => MenorNome(Last(s[i]), Last(s[j]))

IsDir(dir, p) == \E f \in Arquivo : f.dir = dir /\ IsStrictPrefix(p, f.rel)

Lugar(dir, p) == CHOOSE f \in Arquivo : f.dir = dir /\ f.rel = p
-----------------------------------------------------------------------------
(* One rotation: from the cursor to the end, then from the start back to it. *)

Trecho(dir, after, upto) == [dir |-> dir, after |-> after, upto |-> upto]

\* Mutant of Rotacao: no wrap-around, the rotation starts over only when the
\* cursor is lost.
RotacaoSemVolta(cur) ==
  IF \E i \in DOMAIN dirs : dirs[i] = cur.dir
  THEN LET start == Min({i \in DOMAIN dirs : dirs[i] = cur.dir}) IN
       <<Trecho(dirs[start], cur.path, <<>>)>>
         \o [i \in 1 .. Len(dirs) - start |-> Trecho(dirs[start + i], <<>>, <<>>)]
  ELSE [i \in DOMAIN dirs |-> Trecho(dirs[i], <<>>, <<>>)]

\* A cursor in a folder that is no longer allowed is dropped.
Rotacao(cur) ==
  IF \E i \in DOMAIN dirs : dirs[i] = cur.dir
  THEN LET start == Min({i \in DOMAIN dirs : dirs[i] = cur.dir}) IN
       <<Trecho(dirs[start], cur.path, <<>>)>>
         \o [i \in 1 .. Len(dirs) - start |-> Trecho(dirs[start + i], <<>>, <<>>)]
         \o [i \in 1 .. start - 1 |-> Trecho(dirs[i], <<>>, <<>>)]
         \o <<Trecho(dirs[start], <<>>, cur.path)>>
  ELSE [i \in DOMAIN dirs |-> Trecho(dirs[i], <<>>, <<>>)]

\* The cursor the cycle starts from; one that is dropped counts as none.
Atual(cur) == IF \E i \in DOMAIN dirs : dirs[i] = cur.dir THEN cur ELSE Inicio

Mundo == <<origem, copias, journal, rastreado, dirs, cfg>>
Passo(r) == ciclo' = r /\ UNCHANGED <<Mundo, historia>>

\* Mutant of NoLimite: only what is examined counts.
NoLimiteExame == ciclo.scanned >= cfg.maxScan

NoLimite == ciclo.scanned >= cfg.maxScan \/ ciclo.planned >= cfg.maxPer

\* refreshResolve, then the segments.
SweepBegin ==
  /\ cfg.modo = "sweep" /\ ciclo.pc = "idle"
  /\ ciclo' = [Parado EXCEPT !.pc = "segmento", !.segs = Rotacao(journal.cursor),
                             !.last = Atual(journal.cursor)]
  /\ antigos' = Presentes
  /\ UNCHANGED <<Mundo, falta>>

\* The root of a segment is listed when it is entered.
SegmentBegin ==
  /\ ciclo.pc = "segmento" /\ ciclo.segs # <<>> /\ ~NoLimite
  /\ Passo([ciclo EXCEPT !.pc = "walk", !.pilha = ReadDir(Head(ciclo.segs).dir, <<>>)])

\* The segment ends with its tree, or with SkipAll.
Proximo == [ciclo EXCEPT !.pc = "segmento", !.segs = Tail(@), !.pilha = <<>>]

SegmentEnd ==
  /\ ciclo.pc = "walk" /\ ciclo.pilha = <<>>
  /\ Passo(Proximo)

\* The cursor is saved when something was examined; if that fails it is only
\* logged, and the next cycle starts where this one did.
SweepEnd ==
  LET salvo == ciclo.scanned > 0 IN
  /\ ciclo.pc = "segmento" /\ (ciclo.segs = <<>> \/ NoLimite)
  /\ ciclo' = Parado /\ antigos' = {}
  /\ UNCHANGED <<origem, copias, rastreado, dirs>>
  /\ \/ /\ journal' = IF salvo THEN [journal EXCEPT !.cursor = ciclo.last] ELSE journal
        /\ UNCHANGED <<cfg, falta>>
     \/ /\ salvo /\ cfg.falhas > 0
        /\ cfg' = [cfg EXCEPT !.falhas = @ - 1]
        /\ falta' = [f \in Arquivo |-> {}]
        /\ UNCHANGED journal

Segmento == Head(ciclo.segs)
Entrada == Head(ciclo.pilha)
Resto == Tail(ciclo.pilha)

\* A directory before the cursor is pruned unless the cursor is in it; past
\* upto the segment is over; an unreadable one is passed over.
VisitDir ==
  LET seg == Segmento
      podada == seg.after # <<>> /\ pathLess(Entrada, seg.after)
                /\ ~IsStrictPrefix(Entrada, seg.after)
      alem == seg.upto # <<>> /\ pathLess(seg.upto, Entrada)
  IN
  /\ ciclo.pc = "walk" /\ ciclo.pilha # <<>> /\ IsDir(seg.dir, Entrada)
  /\ \/ podada /\ Passo([ciclo EXCEPT !.pilha = Resto])
     \/ ~podada /\ alem /\ Passo(Proximo)
     \/ /\ ~podada /\ ~alem
        /\ Passo([ciclo EXCEPT !.pilha = ReadDir(seg.dir, Entrada) \o Resto])
     \/ /\ ~podada /\ ~alem /\ cfg.falhas > 0
        /\ ciclo' = [ciclo EXCEPT !.pilha = Resto]
        /\ cfg' = [cfg EXCEPT !.falhas = @ - 1]
        /\ falta' = [f \in Arquivo |->
             {g \in falta[f] : ~(g.dir = seg.dir /\ IsStrictPrefix(Entrada, g.rel))}]
        /\ UNCHANGED <<origem, copias, journal, rastreado, dirs, antigos>>
-----------------------------------------------------------------------------
(* What is done with one file, by the sweep or the worklist.                *)

Ausente == [parse |-> FALSE, chave |-> Nenhum]
Conteudo(f) == IF f \in Presentes THEN origem[f] ELSE Ausente

Planos == [x \in Xml \cup {Ausente} |-> PlanFile(x, TRUE)]
Plano(f) == Planos[Conteudo(f)]

Processada(c) == c \in journal.done \/ (cfg.dry /\ c \in journal.dryPlanned)

\* A nota already done is passed over before the reason to skip is looked at.
Trata(plan) == ~(plan.chave # Nenhum /\ Processada(plan.chave)) /\ plan.skip = ""

Efeitos(plan, P) == {[chave |-> plan.chave, emp |-> p.emp, fil |-> p.fil, dest |-> p.dest] : p \in P}

\* dry-run: the plan goes to a file, and the nota is marked as planned.
DryRun(plan) ==
  /\ cfg.dry
  /\ journal' = [journal EXCEPT !.dryPlanned = @ \cup {plan.chave}]
  /\ UNCHANGED <<origem, copias, rastreado, cfg>>

\* Every participation, the origin removed, the done mark; the tracker hears
\* of it from the spool in the end.
ExecuteOk(f, plan) ==
  /\ ~cfg.dry /\ plan.chave \notin Quebrada
  /\ copias' = copias \cup Efeitos(plan, plan.participacoes)
  /\ origem' = [origem EXCEPT ![f] = Nenhum]
  /\ journal' = [journal EXCEPT !.done = @ \cup {plan.chave}]
  /\ rastreado' = [rastreado EXCEPT ![plan.chave].synced = TRUE]
  /\ UNCHANGED cfg

\* Some participations, nothing removed, no mark.
ExecuteErro(plan) ==
  /\ ~cfg.dry
  /\ \/ plan.chave \in Quebrada /\ UNCHANGED <<cfg, copias>>
     \/ /\ plan.chave \notin Quebrada /\ cfg.falhas > 0
        /\ cfg' = [cfg EXCEPT !.falhas = @ - 1]
        /\ \E P \in SUBSET plan.participacoes : copias' = copias \cup Efeitos(plan, P)
  /\ UNCHANGED <<origem, journal, rastreado>>

\* The files within reach that are there since the cycle began are owed a look
\* before f is looked at again.  One that arrives in the middle may fall behind
\* the listing, and is owed nothing before the next cycle.
Examinado(f) ==
  /\ falta' = [g \in Arquivo |->
       IF g = f THEN {h \in antigos : h.dir \in ToSet(dirs)} \ {f} ELSE falta[g] \ {f}]
  /\ antigos' = {g \in antigos : origem'[g] # Nenhum}

VisitFile ==
  LET seg == Segmento
      fora == seg.after # <<>> /\ ~pathLess(seg.after, Entrada)
      alem == seg.upto # <<>> /\ pathLess(seg.upto, Entrada)
      f == Lugar(seg.dir, Entrada)
      plan == Plano(f)
      visto == [ciclo EXCEPT !.pilha = Resto, !.scanned = @ + 1,
                             !.last = [dir |-> seg.dir, path |-> Entrada]]
  IN
  /\ ciclo.pc = "walk" /\ ciclo.pilha # <<>> /\ ~IsDir(seg.dir, Entrada)
  /\ \/ fora /\ Passo([ciclo EXCEPT !.pilha = Resto])
     \/ ~fora /\ (alem \/ NoLimite) /\ Passo(Proximo)
     \/ /\ ~fora /\ ~alem /\ ~NoLimite
        /\ UNCHANGED dirs
        /\ \/ ~Trata(plan) /\ ciclo' = visto
              /\ UNCHANGED <<origem, copias, journal, rastreado, cfg>>
           \/ Trata(plan) /\ ciclo' = [visto EXCEPT !.planned = @ + 1]
              /\ (DryRun(plan) \/ ExecuteOk(f, plan) \/ ExecuteErro(plan))
        /\ Examinado(f)
-----------------------------------------------------------------------------
(* The worklist: what the tracker saw arrive and does not know as synced.    *)

\* CNPJ bases of the companies allowed; a base and its document are one here.
RootsForEmpresas == {f.cnpj : f \in {g \in Filiais : g.emp \in Empresas}} \cap Documento

\* A client on either side, and emitted since the first day of last month.
Interessa(c) ==
  \E x \in Xml : /\ x.chave = c
                /\ (Empresas = {} \/ {x.emit, x.dest} \cap RootsForEmpresas # {})
                /\ x.mes # Nenhum /\ x.mes >= Mes - 1

Pendentes == {c \in Chave : rastreado[c].path # Nenhum /\ ~rastreado[c].synced /\ Interessa(c)}
Worklist == LET todas == SelectSeq(Ordem, LAMBDA c : c \in Pendentes)
            IN SubSeq(todas, 1, Min({Len(todas), cfg.limite}))

\* RootsForEmpresas, FetchWorklistAPI and refreshResolve.
WorklistBegin ==
  /\ cfg.modo = "worklist" /\ ciclo.pc = "idle" /\ Worklist # <<>>
  /\ Passo([Parado EXCEPT !.pc = "lista", !.itens =
       [i \in DOMAIN Worklist |-> [chave |-> Worklist[i], path |-> rastreado[Worklist[i]].path]]])

\* Mutant of Contado: an attempt counts, as in the sweep.
ContadoTentativa(executou) == 1

\* Only what was executed counts for MaxPerCycle.
Contado(executou) == IF executou THEN 1 ELSE 0

RunItem ==
  LET item == Head(ciclo.itens)
      plan == Plano(item.path)
      trata == Trata(plan) /\ plan.chave = item.chave
      depois(executou) == [ciclo EXCEPT !.itens = Tail(@), !.planned = @ + Contado(executou)]
  IN
  /\ ciclo.pc = "lista" /\ ciclo.itens # <<>> /\ ciclo.planned < cfg.maxPer
  /\ \/ ~trata /\ ciclo' = [ciclo EXCEPT !.itens = Tail(@)]
        /\ UNCHANGED <<origem, copias, journal, rastreado, cfg>>
     \/ trata /\ DryRun(plan) /\ ciclo' = [ciclo EXCEPT !.itens = Tail(@)]
     \/ trata /\ ExecuteOk(item.path, plan) /\ ciclo' = depois(TRUE)
     \/ trata /\ ExecuteErro(plan) /\ ciclo' = depois(FALSE)
  /\ UNCHANGED <<dirs, historia>>

WorklistEnd ==
  /\ ciclo.pc = "lista" /\ (ciclo.itens = <<>> \/ ciclo.planned >= cfg.maxPer)
  /\ Passo(Parado)
-----------------------------------------------------------------------------
(* Around it.                                                                *)

\* A file arrives where there is none.
Chega(f, x) ==
  /\ cfg.chegadas > 0 /\ origem[f] = Nenhum
  /\ origem' = [origem EXCEPT ![f] = x]
  /\ cfg' = [cfg EXCEPT !.chegadas = @ - 1]
  /\ UNCHANGED <<copias, journal, ciclo, rastreado, dirs, historia>>

\* Another program, the DownloadXML, moves it away and tells nobody.
Some(f) ==
  /\ cfg.sumicos > 0 /\ origem[f] # Nenhum
  /\ origem' = [origem EXCEPT ![f] = Nenhum]
  /\ antigos' = antigos \ {f} /\ falta' = [g \in Arquivo |-> falta[g] \ {f}]
  /\ cfg' = [cfg EXCEPT !.sumicos = @ - 1]
  /\ UNCHANGED <<copias, journal, ciclo, rastreado, dirs>>

\* The agent reports the arrival; the last path it saw counts.
AgenteVe(f) ==
  LET c == Conteudo(f).chave IN
  /\ cfg.modo = "worklist" /\ c # Nenhum /\ rastreado[c].path # f
  /\ rastreado' = [rastreado EXCEPT ![c].path = f]
  /\ UNCHANGED <<origem, copias, journal, ciclo, dirs, cfg, historia>>

\* The service stops, in the middle of a cycle or not, and starts again,
\* perhaps with other folders.
Reinicia(d) ==
  /\ cfg.falhas > 0
  /\ cfg' = [cfg EXCEPT !.falhas = @ - 1]
  /\ dirs' = d /\ ciclo' = Parado /\ antigos' = {}
  /\ falta' = IF ciclo.pc = "idle" /\ d = dirs THEN falta ELSE [f \in Arquivo |-> {}]
  /\ UNCHANGED <<origem, copias, journal, rastreado>>

Syncer ==
  \/ SweepBegin \/ SegmentBegin \/ SegmentEnd \/ SweepEnd \/ VisitDir \/ VisitFile
  \/ WorklistBegin \/ RunItem \/ WorklistEnd

Entorno ==
  \/ \E f \in Arquivo : Some(f) \/ AgenteVe(f) \/ \E x \in Xml : Chega(f, x)
  \/ \E d \in DirsPossiveis : Reinicia(d)

Next == Syncer \/ Entorno

Spec == Init /\ [][Next]_vars

\* The ticker starts cycles and a cycle goes on to its end.
FairSpec == Spec /\ WF_vars(Syncer)
-----------------------------------------------------------------------------
CursorType == [dir : {f.dir : f \in Arquivo} \cup {Nenhum},
               path : {f.rel : f \in Arquivo} \cup {<<>>}]

\* The cursor names a file, the counters keep within their limits, and each
\* segment and each item belongs to its mode.
TypeOK ==
  /\ origem \in [Arquivo -> Xml \cup {Nenhum}]
  /\ journal.cursor \in CursorType /\ ciclo.last \in CursorType
  /\ journal.done \subseteq Chave /\ journal.dryPlanned \subseteq Chave
  /\ ciclo.pc \in {"idle", "segmento", "walk", "lista"}
  /\ ciclo.scanned <= cfg.maxScan /\ ciclo.planned <= cfg.maxPer
  /\ ciclo.pc = "walk" => ciclo.segs # <<>>
  /\ ciclo.pc # "lista" => ciclo.itens = <<>>
  /\ \A c \in Chave : rastreado[c].path \in Arquivo \cup {Nenhum}

\* "nenhum arquivo fica alem do alcance por mais de uma volta": no file is
\* examined twice while one that was there all along was not examined once,
\* wherever the limits cut the cycles, and whatever comes and goes.
OneLap ==
  [][ciclo'.scanned > ciclo.scanned =>
       falta[Lugar(ciclo'.last.dir, ciclo'.last.path)] = {}]_vars

\* "no multi-participacao nao se sincroniza pela metade": a nota that is done
\* has a copy and a row for every client branch it names, none of them outside
\* the allowlist, wherever an earlier attempt had stopped.
NeverHalf ==
  \A x \in {y \in Xml : y.chave \in journal.done} :
    \A f \in Filiais :
      f.cnpj \in Documento /\ f.cnpj \in {x.emit, x.dest} =>
        /\ Empresas # {} => f.emp \in Empresas
        /\ \E e \in copias : e.chave = x.chave /\ e.emp = f.emp /\ e.fil = f.fil

\* The file is there, its nota can be synchronised, and Execute works.
Sincronizavel(f) ==
  LET plan == Plano(f) IN
  plan.skip = "" /\ ~Processada(plan.chave) /\ (cfg.dry \/ plan.chave \notin Quebrada)

\* Every file that can be synchronised is, however many cannot, and however
\* many of those always fail.
SweepServes ==
  \A f \in Arquivo :
    (cfg.modo = "sweep" /\ f.dir \in ToSet(dirs) /\ Sincronizavel(f))
      ~> ~(f.dir \in ToSet(dirs) /\ Sincronizavel(f))

\* The same of the worklist, for the notas within its limit.
NaLista(c) ==
  /\ cfg.modo = "worklist" /\ c \in ToSet(Worklist)
  /\ Conteudo(rastreado[c].path).chave = c /\ Sincronizavel(rastreado[c].path)

WorklistServes == \A c \in Chave : NaLista(c) ~> ~NaLista(c)
=============================================================================
