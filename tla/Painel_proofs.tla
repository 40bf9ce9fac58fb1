--------------------------- MODULE Painel_proofs ----------------------------
(***************************************************************************)
(* The dashboard for any notas, observations and questions, and its cache  *)
(* for any keys, requests and refreshes.                                   *)
(***************************************************************************)
EXTENDS Painel, FiniteSetTheorems, NotaSpec_proofs, TLAPS

Registro == [pc : PC, f : Filtro \cup {Livre}, val : Versao, erro : BOOLEAN]
Item == [has : BOOLEAN, val : Versao, velho : BOOLEAN, refreshing : BOOLEAN]

Tipado ==
  /\ item \in [Key -> Item] /\ proc \in [Processo -> Registro]
  /\ trava \in [Key -> Leitor \cup {Livre}] /\ vaga \in Processo \cup {Livre} /\ versao \in Versao
  /\ \A p \in Processo : proc[p].pc # "idle" => proc[p].f \in Filtro

\* The holders of the slot and of the mutexes.
Donos ==
  /\ \A p \in Processo : vaga = p <=> proc[p].pc = "consulta"
  /\ \A p \in Leitor, k \in Key : trava[k] = p <=> Ocupado(p) /\ K(p) = k
  /\ \A k \in Key : item[k].has => trava[k] = Livre

\* Refreshes: each belongs to a mark, each mark to one of them, and what they
\* replace is there and stale until they end.
Renovacoes ==
  /\ \A g \in Fundo : proc[g].pc # "idle" => proc[g].pc # "trava" /\ item[K(g)].refreshing
  /\ \A g, h \in Fundo : proc[g].pc # "idle" /\ proc[h].pc # "idle" /\ K(g) = K(h) => g = h
  /\ \A k \in Key : item[k].refreshing =>
       /\ item[k].has /\ item[k].velho
       /\ \E g \in Fundo : proc[g].pc # "idle" /\ K(g) = k

\* An answer that is still to be kept is no older than the value it replaces.
Recente ==
  /\ \A k \in Key : item[k].val <= versao
  /\ \A p \in Processo : proc[p].val <= versao
  /\ \A p \in Processo :
       proc[p].pc \in {"consulta", "guarda"} /\ item[K(p)].has => item[K(p)].val <= proc[p].val

Inv == Tipado /\ Donos /\ Renovacoes /\ Recente
-----------------------------------------------------------------------------
LEMMA Constantes ==
  /\ 0 \in Versao /\ Livre \notin Processo /\ Leitor \subseteq Processo /\ Fundo \subseteq Processo
  /\ \A f \in Filtro : CacheKey[f] \in Key
  /\ \A p \in Leitor : p \notin Fundo
BY CacheKeyAssumption, ProcessoAssumption, VersaoAssumption DEF Versao, Processo, Key

LEMMA Chaves ==
  ASSUME Tipado, NEW p \in Processo, proc[p].pc # "idle"
  PROVE  K(p) \in Key
BY Constantes DEF Tipado, K

LEMMA ParadoTipo ==
  /\ Parado \in Registro
  /\ \A f \in Filtro : /\ [Parado EXCEPT !.pc = "trava", !.f = f] \in Registro
                       /\ [Parado EXCEPT !.pc = "vaga", !.f = f] \in Registro
BY Constantes DEF Parado, Registro, PC

LEMMA ItemTipo ==
  ASSUME NEW i \in Item
  PROVE  [i EXCEPT !.refreshing = TRUE] \in Item /\ [i EXCEPT !.velho = TRUE] \in Item
BY DEF Item

LEMMA TipoInit == Init => Tipado
<1> SUFFICES ASSUME Init PROVE Tipado
  OBVIOUS
<1>1. Vazio \in Item
  BY Constantes DEF Vazio, Item
<1> QED
  BY <1>1, ParadoTipo, Constantes DEF Init, Tipado, Parado

\* The steps of one reader, of one refresh, of a query, and of the world.
LEMMA TipoPasso ==
  ASSUME Tipado, [Next]_cacheVars
  PROVE  Tipado'
<1> USE Constantes
<1>1. ASSUME NEW p \in Leitor, NEW f \in Filtro, Pede(p, f) PROVE Tipado'
  BY <1>1, ParadoTipo DEF Pede, Tipado, Parado
<1>2. ASSUME NEW p \in Leitor, ServeGuardado(p) PROVE Tipado'
  <2>1. K(p) \in Key /\ proc[p].f \in Filtro
    BY <1>2, Chaves DEF ServeGuardado, Tipado
  <2>2. CASE Volta(p) /\ UNCHANGED item
    BY <1>2, <2>2, ParadoTipo DEF ServeGuardado, Volta, Tipado, Parado
  <2>3. CASE item' = [item EXCEPT ![K(p)].refreshing = TRUE]
             /\ \E g \in Fundo :
                  proc' = [proc EXCEPT ![p] = Parado, ![g] = [Parado EXCEPT !.pc = "vaga", !.f = proc[p].f]]
    <3>1. item' \in [Key -> Item]
      BY <2>1, <2>3, ItemTipo DEF Tipado
    <3>2. PICK g \in Fundo :
             proc' = [proc EXCEPT ![p] = Parado, ![g] = [Parado EXCEPT !.pc = "vaga", !.f = proc[p].f]]
      BY <2>3
    <3>3. proc' \in [Processo -> Registro]
      BY <2>1, <3>2, ParadoTipo DEF Tipado
    <3>4. \A q \in Processo : proc'[q].pc # "idle" => proc'[q].f \in Filtro
      BY <2>1, <3>2 DEF Tipado, Parado
    <3> QED
      BY <1>2, <3>1, <3>3, <3>4 DEF ServeGuardado, Tipado
  <2> QED
    BY <1>2, <2>2, <2>3 DEF ServeGuardado
<1>3. ASSUME NEW p \in Leitor, ColdStart(p) PROVE Tipado'
  <2>1. K(p) \in Key /\ proc[p].f \in Filtro
    BY <1>3, Chaves DEF ColdStart, Tipado
  <2>2. proc' \in [Processo -> Registro] /\ \A q \in Processo : proc'[q].f = proc[q].f
    BY <1>3 DEF ColdStart, Vai, Tipado, Registro, PC
  <2>3. trava' \in [Key -> Leitor \cup {Livre}]
    BY <1>3, <2>1 DEF ColdStart, Tipado
  <2> QED
    BY <1>3, <2>1, <2>2, <2>3 DEF ColdStart, Vai, Tipado
<1>4. ASSUME NEW p \in Processo, Adquire(p) PROVE Tipado'
  <2>1. proc' \in [Processo -> Registro] /\ \A q \in Processo : proc'[q].f = proc[q].f
    BY <1>4 DEF Adquire, Tipado, Registro, PC
  <2> QED
    BY <1>4, <2>1 DEF Adquire, Tipado
<1>5. ASSUME NEW p \in Processo, Responde(p) PROVE Tipado'
  <2>1. PICK erro \in BOOLEAN : proc' = [proc EXCEPT ![p].pc = "guarda", ![p].erro = erro]
    BY <1>5 DEF Responde
  <2>2. [proc[p] EXCEPT !.pc = "guarda", !.erro = erro] \in Registro
    BY DEF Tipado, Registro, PC
  <2>3. proc' = [proc EXCEPT ![p] = [proc[p] EXCEPT !.pc = "guarda", !.erro = erro]]
    BY <2>1 DEF Tipado
  <2>4. \A q \in Processo : proc'[q].f = proc[q].f
    BY <2>1 DEF Tipado, Registro
  <2> QED
    BY <1>5, <2>2, <2>3, <2>4 DEF Responde, Tipado
<1>6. ASSUME NEW p \in Processo, GuardaFrio(p) \/ GuardaFundo(p) PROVE Tipado'
  <2>1. K(p) \in Key
    BY <1>6, Chaves DEF GuardaFrio, GuardaFundo
  <2>2. Atualizado(item[K(p)], p) \in Item /\ Refresca(item[K(p)], p) \in Item
    BY <2>1 DEF Atualizado, Refresca, Tipado, Item, Registro
  <2>3. item' \in [Key -> Item]
    BY <1>6, <2>1, <2>2 DEF GuardaFrio, GuardaFundo, Tipado
  <2>4. trava' \in [Key -> Leitor \cup {Livre}]
    BY <1>6, <2>1 DEF GuardaFrio, GuardaFundo, Tipado
  <2>5. proc' = [proc EXCEPT ![p] = Parado]
    BY <1>6 DEF GuardaFrio, GuardaFundo, Volta
  <2>6. proc' \in [Processo -> Registro]
    BY <2>5, ParadoTipo DEF Tipado
  <2>7. \A q \in Processo : proc'[q].pc # "idle" => proc'[q].f \in Filtro
    BY <2>5 DEF Tipado, Parado
  <2> QED
    BY <1>6, <2>3, <2>4, <2>6, <2>7 DEF GuardaFrio, GuardaFundo, Tipado
<1>7. ASSUME NEW k \in Key, Expira(k) PROVE Tipado'
  BY <1>7 DEF Expira, Tipado, Item
<1>8. CASE DadosMudam
  BY <1>8, VersaoAssumption DEF DadosMudam, Tipado, Versao
<1>9. CASE UNCHANGED cacheVars
  BY <1>9 DEF cacheVars, Tipado
<1> QED
  BY <1>1, <1>2, <1>3, <1>4, <1>5, <1>6, <1>7, <1>8, <1>9
  DEF Next, Cache, Entra, Termina
-----------------------------------------------------------------------------
Resto == Donos /\ Renovacoes /\ Recente

\* What the steps of a query keep.
LEMMA MesmosDonos ==
  ASSUME Donos, UNCHANGED <<item, trava>>,
         \A p \in Processo : vaga' = p <=> proc'[p].pc = "consulta",
         \A p \in Leitor : (Ocupado(p)' <=> Ocupado(p)) /\ K(p)' = K(p)
  PROVE  Donos'
<1>1. \A k \in Key : item'[k].has => trava'[k] = Livre
  BY DEF Donos
<1>2. \A p \in Leitor, k \in Key : trava'[k] = p <=> Ocupado(p)' /\ K(p)' = k
  BY DEF Donos
<1> QED
  BY <1>1, <1>2 DEF Donos

LEMMA MesmasRenovacoes ==
  ASSUME Renovacoes, UNCHANGED item,
         \A g \in Fundo : /\ K(g)' = K(g)
                          /\ proc'[g].pc = "idle" <=> proc[g].pc = "idle"
                          /\ proc'[g].pc = "trava" => proc[g].pc = "trava"
  PROVE  Renovacoes'
BY DEF Renovacoes

\* The values stay, and a query under way has read the latest version or one it
\* had read before.
LEMMA MesmosValores ==
  ASSUME Inv, versao' = versao,
         \A k \in Key : item'[k].has = item[k].has /\ item'[k].val = item[k].val,
         \A p \in Processo :
           \/ proc'[p] = proc[p] /\ K(p)' = K(p)
           \/ proc'[p].pc \notin {"consulta", "guarda"} /\ proc'[p].val \in {0, proc[p].val}
           \/ proc'[p].val = versao /\ K(p)' \in Key
  PROVE  Recente'
<1>1. /\ versao \in Nat /\ \A k \in Key : item[k].val \in Nat
      /\ \A p \in Processo : proc[p].val \in Nat
  BY DEF Inv, Tipado, Item, Registro, Versao
<1>2. \A p \in Processo : proc'[p].val <= versao'
  BY <1>1 DEF Inv, Recente
<1>3. ASSUME NEW p \in Processo, proc'[p].pc \in {"consulta", "guarda"}, item'[K(p)'].has
      PROVE  item'[K(p)'].val <= proc'[p].val
  <2>1. CASE proc'[p] = proc[p] /\ K(p)' = K(p)
    <3>1. K(p) \in Key
      BY <1>3, <2>1, Chaves DEF Inv
    <3> QED
      BY <1>3, <2>1, <3>1 DEF Inv, Recente
  <2>2. CASE proc'[p].val = versao /\ K(p)' \in Key
    BY <2>2 DEF Inv, Recente
  <2> QED
    BY <1>3, <2>1, <2>2
<1> QED
  BY <1>2, <1>3 DEF Inv, Recente

\* A process that only enters the queue of a key, or leaves without a trace.
LEMMA PedePasso ==
  ASSUME Inv, Tipado', NEW p \in Leitor, NEW f \in Filtro, Pede(p, f)
  PROVE  Resto'
<1>1. /\ proc[p].pc = "idle" /\ proc'[p].pc = "trava" /\ proc'[p].val = 0
      /\ \A q \in Processo \ {p} : proc'[q] = proc[q]
  BY Constantes DEF Pede, Inv, Tipado, Registro, Parado
<1>2. \A q \in Processo \ {p} : K(q)' = K(q)
  BY <1>1 DEF K
<1>3. Donos'
  BY <1>1, <1>2, Constantes DEF Pede, Inv, Donos, Ocupado
<1>4. Renovacoes'
  BY <1>1, <1>2, Constantes DEF Pede, Inv, Renovacoes
<1>5. Recente'
  BY <1>1, <1>2, MesmosValores DEF Pede
<1> QED
  BY <1>3, <1>4, <1>5 DEF Resto

LEMMA ServePasso ==
  ASSUME Inv, Tipado', NEW p \in Leitor, ServeGuardado(p)
  PROVE  Resto'
<1> DEFINE k == K(p)
<1>1. k \in Key /\ proc[p].pc = "trava" /\ item[k].has /\ trava' = trava /\ vaga' = vaga /\ versao' = versao
  BY Chaves, Constantes DEF ServeGuardado, Inv
<1>2. CASE Volta(p) /\ UNCHANGED item
  <2>1. /\ proc'[p].pc = "idle" /\ proc'[p].val = 0
        /\ \A q \in Processo \ {p} : proc'[q] = proc[q] /\ K(q)' = K(q)
    BY <1>2, Constantes DEF Volta, Inv, Tipado, Parado, K
  <2>2. Donos'
    BY <1>1, <1>2, <2>1, Constantes DEF Inv, Donos, Ocupado
  <2>3. Renovacoes'
    BY <1>1, <1>2, <2>1, Constantes DEF Inv, Renovacoes
  <2>4. Recente'
    BY <1>1, <1>2, <2>1, MesmosValores
  <2> QED
    BY <2>2, <2>3, <2>4 DEF Resto
<1>3. ASSUME item[k].velho, ~item[k].refreshing,
             NEW g \in Fundo, proc[g].pc = "idle",
             proc' = [proc EXCEPT ![p] = Parado, ![g] = [Parado EXCEPT !.pc = "vaga", !.f = proc[p].f]],
             item' = [item EXCEPT ![k].refreshing = TRUE]
      PROVE  Resto'
  <2>1. /\ p # g /\ proc'[p].pc = "idle" /\ proc'[g].pc = "vaga" /\ K(g)' = k
        /\ proc'[p].val = 0 /\ proc'[g].val = 0
        /\ \A q \in Processo \ {p, g} : proc'[q] = proc[q] /\ K(q)' = K(q)
    BY <1>3, Constantes DEF Inv, Tipado, Parado, K
  <2>2. /\ item'[k] = [item[k] EXCEPT !.refreshing = TRUE]
        /\ \A j \in Key \ {k} : item'[j] = item[j]
    BY <1>1, <1>3 DEF Inv, Tipado
  <2>3. /\ item'[k].refreshing
        /\ \A j \in Key : item'[j].has = item[j].has /\ item'[j].val = item[j].val /\ item'[j].velho = item[j].velho
    BY <1>1, <2>2 DEF Inv, Tipado, Item
  <2>4. Donos'
    <3>1. ASSUME NEW q \in Processo
          PROVE  vaga' = q <=> proc'[q].pc = "consulta"
      <4>1. vaga = q <=> proc[q].pc = "consulta"
        BY DEF Inv, Donos
      <4>2. CASE q \in {p, g}
        BY <4>1, <4>2, <1>1, <1>3, <2>1
      <4>3. CASE q \notin {p, g}
        BY <4>1, <4>3, <1>1, <2>1
      <4> QED
        BY <4>2, <4>3
    <3>2. ASSUME NEW q \in Leitor, NEW j \in Key
          PROVE  trava'[j] = q <=> Ocupado(q)' /\ K(q)' = j
      <4>1. CASE q = p
        BY <4>1, <1>1, <2>1, Constantes DEF Inv, Donos, Ocupado
      <4>2. CASE q # p
        BY <4>2, <1>1, <2>1, Constantes DEF Inv, Donos, Ocupado
      <4> QED
        BY <4>1, <4>2
    <3>3. \A j \in Key : item'[j].has => trava'[j] = Livre
      BY <1>1, <2>3 DEF Inv, Donos
    <3> QED
      BY <3>1, <3>2, <3>3 DEF Donos
  <2>5. \A h \in Fundo : proc[h].pc # "idle" => K(h) # k
    BY <1>3 DEF Inv, Renovacoes
  <2>6. Renovacoes'
    <3>1. \A h \in Fundo : proc'[h].pc # "idle" => proc'[h].pc # "trava" /\ item'[K(h)'].refreshing
      <4> SUFFICES ASSUME NEW h \in Fundo, proc'[h].pc # "idle"
                   PROVE  proc'[h].pc # "trava" /\ item'[K(h)'].refreshing
        OBVIOUS
      <4>1. CASE h = g
        BY <4>1, <2>1, <2>3
      <4>2. CASE h # g
        <5>1. h \in Processo \ {p, g}
          BY <4>2, Constantes
        <5>2. proc[h].pc # "idle" /\ K(h) \in Key \ {k}
          BY <5>1, <2>1, <2>5, Chaves DEF Inv
        <5> QED
          BY <5>1, <5>2, <2>1, <2>2 DEF Inv, Renovacoes
      <4> QED
        BY <4>1, <4>2
    <3>2. \A h, i \in Fundo : proc'[h].pc # "idle" /\ proc'[i].pc # "idle" /\ K(h)' = K(i)' => h = i
      BY <1>1, <2>1, <2>5, Constantes DEF Inv, Renovacoes
    <3>3. ASSUME NEW j \in Key, item'[j].refreshing
          PROVE  item'[j].has /\ item'[j].velho /\ \E h \in Fundo : proc'[h].pc # "idle" /\ K(h)' = j
      <4>1. CASE j = k
        BY <4>1, <1>1, <1>3, <2>1, <2>3
      <4>2. CASE j # k
        <5>1. item[j].refreshing
          BY <3>3, <4>2, <2>2
        <5>2. PICK h \in Fundo : proc[h].pc # "idle" /\ K(h) = j
          BY <5>1 DEF Inv, Renovacoes
        <5>3. h # g /\ h # p
          BY <5>2, <1>3, Constantes
        <5> QED
          BY <5>1, <5>2, <5>3, <2>1, <2>3, Constantes DEF Inv, Renovacoes
      <4> QED
        BY <4>1, <4>2
    <3> QED
      BY <3>1, <3>2, <3>3 DEF Renovacoes
  <2>7. Recente'
    BY <1>1, <2>1, <2>3, MesmosValores
  <2> QED
    BY <2>4, <2>6, <2>7 DEF Resto
<1> QED
  BY <1>2, <1>3 DEF ServeGuardado

LEMMA ColdPasso ==
  ASSUME Inv, Tipado', NEW p \in Leitor, ColdStart(p)
  PROVE  Resto'
<1>1. K(p) \in Key /\ proc[p].pc = "trava" /\ trava[K(p)] = Livre /\ ~item[K(p)].has
  BY Chaves, Constantes DEF ColdStart, Inv
<1>2. proc'[p].pc = "vaga" /\ proc'[p].val = proc[p].val /\ \A q \in Processo : K(q)' = K(q) /\ (q # p => proc'[q] = proc[q])
  BY Constantes DEF ColdStart, Vai, Inv, Tipado, Registro, K
<1>3. trava'[K(p)] = p /\ \A j \in Key \ {K(p)} : trava'[j] = trava[j]
  BY <1>1 DEF ColdStart, Inv, Tipado
<1>4. Donos'
  <2>1. \A q \in Processo : vaga' = q <=> proc'[q].pc = "consulta"
    BY <1>1, <1>2 DEF ColdStart, Inv, Donos
  <2>2. ASSUME NEW q \in Leitor, NEW j \in Key
        PROVE  trava'[j] = q <=> Ocupado(q)' /\ K(q)' = j
    <3>1. CASE q = p
      BY <3>1, <1>1, <1>2, <1>3, Constantes DEF Inv, Donos, Ocupado
    <3>2. CASE q # p
      BY <3>2, <1>1, <1>2, <1>3, Constantes DEF Inv, Donos, Ocupado
    <3> QED
      BY <3>1, <3>2
  <2>3. \A j \in Key : item'[j].has => trava'[j] = Livre
    BY <1>1, <1>3 DEF ColdStart, Inv, Donos
  <2> QED
    BY <2>1, <2>2, <2>3 DEF Donos
<1>5. Renovacoes'
  BY <1>2, Constantes DEF ColdStart, Inv, Renovacoes
<1>6. Recente'
  BY <1>2, MesmosValores DEF ColdStart
<1> QED
  BY <1>4, <1>5, <1>6 DEF Resto

\* A query takes the version of the moment, which no value exceeds.
LEMMA AdquirePasso ==
  ASSUME Inv, Tipado', NEW p \in Processo, Adquire(p)
  PROVE  Resto'
<1>1. proc[p].pc = "vaga" /\ vaga = Livre /\ vaga' = p
  BY DEF Adquire
<1>2. /\ proc'[p].pc = "consulta" /\ proc'[p].val = versao
      /\ \A q \in Processo : K(q)' = K(q) /\ (q # p => proc'[q] = proc[q])
  BY DEF Adquire, Inv, Tipado, Registro, K
<1>3. Donos'
  <2>1. \A q \in Processo : vaga' = q <=> proc'[q].pc = "consulta"
    BY <1>1, <1>2, Constantes DEF Inv, Donos
  <2>2. \A q \in Leitor : (Ocupado(q)' <=> Ocupado(q)) /\ K(q)' = K(q)
    BY <1>1, <1>2, Constantes DEF Ocupado
  <2> QED
    BY <2>1, <2>2, MesmosDonos DEF Adquire, Inv
<1>4. Renovacoes'
  BY <1>1, <1>2, MesmasRenovacoes, Constantes DEF Adquire, Inv
<1>5. Recente'
  <2>1. K(p) \in Key
    BY <1>1, Chaves DEF Inv
  <2> QED
    BY <2>1, <1>2, MesmosValores DEF Adquire
<1> QED
  BY <1>3, <1>4, <1>5 DEF Resto

LEMMA RespondePasso ==
  ASSUME Inv, Tipado', NEW p \in Processo, Responde(p)
  PROVE  Resto'
<1>1. PICK erro \in BOOLEAN : proc' = [proc EXCEPT ![p].pc = "guarda", ![p].erro = erro]
  BY DEF Responde
<1>2. /\ proc[p].pc = "consulta" /\ proc'[p].pc = "guarda" /\ vaga' = Livre
      /\ \A q \in Processo : K(q)' = K(q) /\ proc'[q].val = proc[q].val /\ (q # p => proc'[q].pc = proc[q].pc)
  BY <1>1 DEF Responde, Inv, Tipado, Registro, K
<1>3. Donos'
  <2>1. \A q \in Processo : vaga' = q <=> proc'[q].pc = "consulta"
    BY <1>2, Constantes DEF Inv, Donos
  <2>2. \A q \in Leitor : (Ocupado(q)' <=> Ocupado(q)) /\ K(q)' = K(q)
    BY <1>2, Constantes DEF Ocupado
  <2> QED
    BY <2>1, <2>2, MesmosDonos DEF Responde, Inv
<1>4. Renovacoes'
  BY <1>2, MesmasRenovacoes, Constantes DEF Responde, Inv
<1>5. Recente'
  BY <1>2, Constantes DEF Responde, Inv, Recente
<1> QED
  BY <1>3, <1>4, <1>5 DEF Resto

\* What a kept answer makes of an item.
LEMMA Guardado ==
  ASSUME Inv, NEW p \in Processo, proc[p].pc = "guarda"
  PROVE  LET i == Atualizado(item[K(p)], p) IN
         /\ i.refreshing = item[K(p)].refreshing
         /\ item[K(p)].has => i.has /\ i.val >= item[K(p)].val
         /\ i.has => item[K(p)].has \/ i.val = proc[p].val
         /\ i.val \in {item[K(p)].val, proc[p].val}
         /\ Refresca(item[K(p)], p) = [i EXCEPT !.refreshing = FALSE]
         /\ i \in Item
<1>1. K(p) \in Key
  BY Chaves DEF Inv
<1>2. item[K(p)] \in Item /\ proc[p] \in Registro
  BY <1>1 DEF Inv, Tipado
<1>3. item[K(p)].has => proc[p].val >= item[K(p)].val
  BY <1>1, <1>2 DEF Inv, Recente, Item, Registro, Versao
<1>4. CASE proc[p].erro
  BY <1>2, <1>4, VersaoAssumption DEF Atualizado, Refresca, Item, Versao
<1>5. CASE ~proc[p].erro
  <2>1. [item[K(p)] EXCEPT !.has = TRUE, !.val = proc[p].val, !.velho = FALSE] \in Item
    BY <1>2 DEF Item, Registro
  <2> QED
    BY <1>2, <1>3, <1>5, <2>1 DEF Atualizado, Refresca, Item
<1> QED
  BY <1>4, <1>5

LEMMA FrioPasso ==
  ASSUME Inv, Tipado', NEW p \in Leitor, GuardaFrio(p)
  PROVE  Resto'
<1> DEFINE k == K(p)
           i == Atualizado(item[k], p)
<1>1. p \in Processo /\ k \in Key /\ proc[p].pc = "guarda" /\ trava[k] = p /\ ~item[k].has /\ ~item[k].refreshing
  <2>1. p \in Processo /\ k \in Key /\ proc[p].pc = "guarda"
    BY Chaves, Constantes DEF GuardaFrio, Inv
  <2> QED
    BY <2>1, Constantes DEF Inv, Donos, Renovacoes, Ocupado
<1>2. ~i.refreshing /\ i.val \in {item[k].val, proc[p].val}
  BY <1>1, Guardado
<1>3. /\ item'[k] = i /\ trava'[k] = Livre /\ vaga' = vaga /\ versao' = versao
      /\ \A j \in Key \ {k} : item'[j] = item[j] /\ trava'[j] = trava[j]
  BY <1>1 DEF GuardaFrio, Inv, Tipado
<1>4. proc'[p].pc = "idle" /\ proc'[p].val = 0 /\ \A q \in Processo \ {p} : proc'[q] = proc[q] /\ K(q)' = K(q)
  BY <1>1 DEF GuardaFrio, Volta, Inv, Tipado, Parado, K
\* Nobody else works on this key.
<1>5. \A q \in Processo \ {p} : Ocupado(q) => K(q) # k
  <2>1. ASSUME NEW q \in Leitor \ {p}, Ocupado(q) PROVE K(q) # k
    BY <2>1, <1>1 DEF Inv, Donos
  <2>2. ASSUME NEW q \in Fundo, Ocupado(q) PROVE K(q) # k
    BY <2>2, <1>1 DEF Inv, Renovacoes, Ocupado
  <2> QED
    BY <2>1, <2>2 DEF Processo
<1>6. Donos'
  <2>1. \A q \in Processo : vaga' = q <=> proc'[q].pc = "consulta"
    BY <1>1, <1>3, <1>4, Constantes DEF Inv, Donos
  <2>2. ASSUME NEW q \in Leitor, NEW j \in Key
        PROVE  trava'[j] = q <=> Ocupado(q)' /\ K(q)' = j
    <3>1. CASE q = p
      BY <3>1, <1>1, <1>3, <1>4, Constantes DEF Inv, Donos, Ocupado
    <3>2. CASE q # p
      BY <3>2, <1>1, <1>3, <1>4, <1>5, Constantes DEF Inv, Donos, Ocupado
    <3> QED
      BY <3>1, <3>2
  <2>3. \A j \in Key : item'[j].has => trava'[j] = Livre
    BY <1>3 DEF Inv, Donos
  <2> QED
    BY <2>1, <2>2, <2>3 DEF Donos
<1>7. Renovacoes'
  <2>1. \A g \in Fundo : proc'[g] = proc[g] /\ K(g)' = K(g) /\ (proc[g].pc # "idle" => K(g) \in Key \ {k})
    BY <1>1, <1>4, Chaves, Constantes DEF Inv, Renovacoes
  <2>2. \A j \in Key : item'[j].refreshing => item'[j] = item[j]
    BY <1>2, <1>3
  <2> QED
    BY <1>3, <2>1, <2>2 DEF Inv, Renovacoes
<1>8. Recente'
  <2>1. \A j \in Key : item'[j].val <= versao'
    BY <1>1, <1>2, <1>3 DEF Inv, Recente
  <2>2. \A q \in Processo : proc'[q].val <= versao'
    BY <1>3, <1>4 DEF Inv, Recente, Tipado, Versao
  <2>3. ASSUME NEW q \in Processo, proc'[q].pc \in {"consulta", "guarda"}, item'[K(q)'].has
        PROVE  item'[K(q)'].val <= proc'[q].val
    <3>1. q # p /\ Ocupado(q)
      BY <2>3, <1>4 DEF Ocupado
    <3>2. K(q) \in Key \ {k}
      BY <3>1, <1>5, Chaves DEF Inv, Ocupado
    <3> QED
      BY <2>3, <3>1, <3>2, <1>3, <1>4 DEF Inv, Recente
  <2> QED
    BY <2>1, <2>2, <2>3 DEF Recente
<1> QED
  BY <1>6, <1>7, <1>8 DEF Resto

LEMMA FundoPasso ==
  ASSUME Inv, Tipado', NEW p \in Fundo, GuardaFundo(p)
  PROVE  Resto'
<1> DEFINE k == K(p)
           i == Refresca(item[k], p)
<1>1. p \in Processo /\ k \in Key /\ proc[p].pc = "guarda" /\ trava[k] = Livre /\ item[k].has
  <2>1. p \in Processo /\ k \in Key /\ proc[p].pc = "guarda" /\ trava[k] = Livre
    BY Chaves, Constantes DEF GuardaFundo, Inv
  <2> QED
    BY <2>1 DEF Inv, Renovacoes
<1>2. ~i.refreshing /\ i.has /\ i.val \in {item[k].val, proc[p].val}
  BY <1>1, Guardado DEF Item
<1>3. /\ item'[k] = i /\ trava' = trava /\ vaga' = vaga /\ versao' = versao
      /\ \A j \in Key \ {k} : item'[j] = item[j]
  BY <1>1 DEF GuardaFundo, Inv, Tipado
<1>4. proc'[p].pc = "idle" /\ proc'[p].val = 0 /\ \A q \in Processo \ {p} : proc'[q] = proc[q] /\ K(q)' = K(q)
  BY <1>1 DEF GuardaFundo, Volta, Inv, Tipado, Parado, K
<1>5. \A q \in Processo \ {p} : Ocupado(q) => K(q) # k
  <2>1. ASSUME NEW q \in Leitor, Ocupado(q) PROVE K(q) # k
    BY <2>1, <1>1, Constantes DEF Inv, Donos
  <2>2. ASSUME NEW q \in Fundo \ {p}, Ocupado(q) PROVE K(q) # k
    BY <2>2, <1>1 DEF Inv, Renovacoes, Ocupado
  <2> QED
    BY <2>1, <2>2 DEF Processo
<1>6. Donos'
  <2>1. \A q \in Processo : vaga' = q <=> proc'[q].pc = "consulta"
    BY <1>1, <1>3, <1>4 DEF Inv, Donos
  <2>2. \A q \in Leitor, j \in Key : trava'[j] = q <=> Ocupado(q)' /\ K(q)' = j
    BY <1>3, <1>4, Constantes DEF Inv, Donos, Ocupado
  <2>3. \A j \in Key : item'[j].has => trava'[j] = Livre
    BY <1>1, <1>3 DEF Inv, Donos
  <2> QED
    BY <2>1, <2>2, <2>3 DEF Donos
<1>7. Renovacoes'
  <2>1. \A g \in Fundo \ {p} : /\ proc'[g] = proc[g] /\ K(g)' = K(g)
                               /\ proc[g].pc # "idle" => K(g) \in Key \ {k}
    BY <1>1, <1>4, Chaves, Constantes DEF Inv, Renovacoes
  <2>2. \A j \in Key : item'[j].refreshing => j # k /\ item'[j] = item[j]
    BY <1>2, <1>3
  <2>3. \A g \in Fundo : proc'[g].pc # "idle" => proc'[g].pc # "trava" /\ item'[K(g)'].refreshing
    BY <1>3, <1>4, <2>1 DEF Inv, Renovacoes
  <2>4. \A g, h \in Fundo : proc'[g].pc # "idle" /\ proc'[h].pc # "idle" /\ K(g)' = K(h)' => g = h
    BY <1>4, <2>1 DEF Inv, Renovacoes
  <2>5. ASSUME NEW j \in Key, item'[j].refreshing
        PROVE  item'[j].has /\ item'[j].velho /\ \E g \in Fundo : proc'[g].pc # "idle" /\ K(g)' = j
    <3>1. item[j].has /\ item[j].velho
      BY <2>5, <2>2 DEF Inv, Renovacoes
    <3>2. PICK g \in Fundo : proc[g].pc # "idle" /\ K(g) = j
      BY <2>5, <2>2 DEF Inv, Renovacoes
    <3>3. g # p
      BY <3>2, <2>5, <2>2
    <3> QED
      BY <3>1, <3>2, <3>3, <2>1, <2>2, <2>5
  <2> QED
    BY <2>3, <2>4, <2>5 DEF Renovacoes
<1>8. Recente'
  <2>1. \A j \in Key : item'[j].val <= versao'
    BY <1>1, <1>2, <1>3 DEF Inv, Recente
  <2>2. \A q \in Processo : proc'[q].val <= versao'
    BY <1>3, <1>4 DEF Inv, Recente, Tipado, Versao
  <2>3. ASSUME NEW q \in Processo, proc'[q].pc \in {"consulta", "guarda"}, item'[K(q)'].has
        PROVE  item'[K(q)'].val <= proc'[q].val
    <3>1. q # p /\ Ocupado(q)
      BY <2>3, <1>4 DEF Ocupado
    <3>2. K(q) \in Key \ {k}
      BY <3>1, <1>5, Chaves DEF Inv, Ocupado
    <3> QED
      BY <2>3, <3>1, <3>2, <1>3, <1>4 DEF Inv, Recente
  <2> QED
    BY <2>1, <2>2, <2>3 DEF Recente
<1> QED
  BY <1>6, <1>7, <1>8 DEF Resto

\* Values age and the data changes.
LEMMA MundoPasso ==
  ASSUME Inv, Tipado', (\E k \in Key : Expira(k)) \/ DadosMudam \/ UNCHANGED cacheVars
  PROVE  Resto'
<1>1. /\ \A j \in Key : /\ item'[j].has = item[j].has /\ item'[j].val = item[j].val
                        /\ item'[j].refreshing = item[j].refreshing /\ (item[j].velho => item'[j].velho)
      /\ trava' = trava /\ vaga' = vaga /\ proc' = proc /\ versao <= versao'
  <2>1. ASSUME NEW k \in Key, Expira(k) PROVE <1>1!1 /\ UNCHANGED <<trava, vaga, proc, versao>>
    BY <2>1 DEF Expira, Inv, Tipado, Item
  <2> QED
    BY <2>1, VersaoAssumption DEF DadosMudam, cacheVars, Inv, Tipado, Versao
<1>2. \A q \in Processo : K(q)' = K(q) /\ (Ocupado(q)' <=> Ocupado(q))
  BY <1>1 DEF K, Ocupado
<1>3. Donos'
  BY <1>1, <1>2 DEF Inv, Donos, Processo
<1>4. Renovacoes'
  <2>1. \A g \in Fundo : proc[g].pc # "idle" => K(g) \in Key
    BY Chaves, Constantes DEF Inv
  <2> QED
    BY <1>1, <1>2, <2>1, Constantes DEF Inv, Renovacoes
<1>5. Recente'
  <2>1. \A j \in Key : item[j].val \in Nat
    BY DEF Inv, Tipado, Item, Versao
  <2>2. \A q \in Processo : proc[q].val \in Nat /\ (Ocupado(q) => K(q) \in Key)
    BY Chaves DEF Inv, Tipado, Registro, Versao, Ocupado
  <2>3. versao \in Nat /\ versao' \in Nat
    BY DEF Inv, Tipado, Versao
  <2> QED
    BY <1>1, <1>2, <2>1, <2>2, <2>3 DEF Inv, Recente, Ocupado
<1> QED
  BY <1>3, <1>4, <1>5 DEF Resto
-----------------------------------------------------------------------------
LEMMA InvInit == Init => Inv
<1> SUFFICES ASSUME Init PROVE Inv
  OBVIOUS
<1>1. /\ \A k \in Key : ~item[k].has /\ ~item[k].refreshing /\ item[k].val = 0 /\ trava[k] = Livre
      /\ \A p \in Processo : proc[p].pc = "idle" /\ proc[p].val = 0
      /\ vaga = Livre /\ versao = 0
  BY DEF Init, Vazio, Parado
<1>2. Tipado
  BY TipoInit
<1>3. Donos
  BY <1>1, Constantes DEF Donos, Ocupado
<1>4. Renovacoes /\ Recente
  BY <1>1, Constantes DEF Renovacoes, Recente
<1> QED
  BY <1>2, <1>3, <1>4 DEF Inv

LEMMA InvPasso == Inv /\ [Next]_cacheVars => Inv'
<1> SUFFICES ASSUME Inv, [Next]_cacheVars PROVE Inv'
  OBVIOUS
<1>1. Tipado'
  BY TipoPasso DEF Inv
<1>2. Resto'
  <2>1. \A p \in Processo : GuardaFrio(p) => p \in Leitor
    BY DEF GuardaFrio
  <2>2. \A p \in Processo : GuardaFundo(p) => p \in Fundo
    BY DEF GuardaFundo
  <2> QED
    BY <1>1, <2>1, <2>2, PedePasso, ServePasso, ColdPasso, AdquirePasso, RespondePasso, FrioPasso,
       FundoPasso, MundoPasso
    DEF Next, Cache, Entra, Termina
<1> QED
  BY <1>1, <1>2 DEF Inv, Resto

LEMMA Sempre == Spec => []Inv
BY InvInit, InvPasso, PTL DEF Spec
-----------------------------------------------------------------------------
\* The slot and the mutexes have the holders they should, whatever fails.
THEOREM TypeCorrect == Spec => []TypeOK
<1>1. Inv => TypeOK
  BY DEF Inv, Tipado, Donos, TypeOK, Registro, Item
<1> QED
  BY <1>1, Sempre, PTL

\* One refresh per key, marked as long as it runs, and readers of a key that has
\* a value wait for no query.
THEOREM ServesStaleHolds == Spec => []ServesStale
<1>1. Inv => ServesStale
  BY DEF Inv, Donos, Renovacoes, ServesStale
<1> QED
  BY <1>1, Sempre, PTL

\* No step loses a value or goes back to an older answer, and no query begins for
\* a key whose value is fresh.
THEOREM NeverBackHolds == Spec => NeverBack
<1> DEFINE Guarda(k) == item[k].has => item'[k].has /\ item'[k].val >= item[k].val
           Comeca(p) == proc[p].pc = "vaga" /\ proc'[p].pc = "consulta" =>
                          ~item[K(p)].has \/ item[K(p)].velho
<1>1. ASSUME Inv, [Next]_cacheVars, NEW k \in Key PROVE Guarda(k)
  <2>1. item[k].val \in Nat
    BY <1>1 DEF Inv, Tipado, Item, Versao
  <2>2. ASSUME NEW p \in Processo, GuardaFrio(p) \/ GuardaFundo(p) PROVE Guarda(k)
    <3>1. /\ proc[p].pc = "guarda" /\ K(p) \in Key
          /\ item' = [item EXCEPT ![K(p)] = Atualizado(@, p)] \/ item' = [item EXCEPT ![K(p)] = Refresca(@, p)]
      BY <2>2, <1>1, Chaves DEF GuardaFrio, GuardaFundo, Inv
    <3>2. CASE k # K(p)
      BY <3>1, <3>2, <2>1, <1>1 DEF Inv, Tipado
    <3>3. CASE k = K(p)
      <4>1. /\ item[k].has => Atualizado(item[k], p).has /\ Atualizado(item[k], p).val >= item[k].val
            /\ Refresca(item[k], p) = [Atualizado(item[k], p) EXCEPT !.refreshing = FALSE]
            /\ Atualizado(item[k], p) \in Item
        BY <3>1, <3>3, <1>1, Guardado
      <4>2. item'[k] = Atualizado(item[k], p) \/ item'[k] = Refresca(item[k], p)
        BY <3>1, <3>3, <1>1 DEF Inv, Tipado
      <4> QED
        BY <4>1, <4>2 DEF Item
    <3> QED
      BY <3>2, <3>3
  <2>3. ASSUME NEW p \in Leitor, ServeGuardado(p) PROVE Guarda(k)
    BY <2>1, <2>3, <1>1 DEF ServeGuardado, Inv, Tipado, Item
  <2>4. ASSUME NEW j \in Key, Expira(j) PROVE Guarda(k)
    BY <2>1, <2>4, <1>1 DEF Expira, Inv, Tipado, Item
  <2>5. ASSUME UNCHANGED item PROVE Guarda(k)
    BY <2>1, <2>5
  <2> QED
    BY <1>1, <2>2, <2>3, <2>4, <2>5
    DEF Next, Cache, Entra, Termina, Pede, ColdStart, Adquire, Responde, DadosMudam, cacheVars
<1>2. ASSUME Inv, [Next]_cacheVars, NEW p \in Processo PROVE Comeca(p)
  <2>1. CASE p \in Leitor
    BY <2>1, <1>2, Chaves, Constantes DEF Inv, Donos, Ocupado
  <2>2. CASE p \in Fundo
    BY <2>2, <1>2, Chaves, Constantes DEF Inv, Renovacoes
  <2> QED
    BY <2>1, <2>2 DEF Processo
<1>3. Inv /\ [Next]_cacheVars =>
        [/\ \A k \in Key : Guarda(k)
         /\ \A p \in Processo : Comeca(p)]_cacheVars
  BY <1>1, <1>2
<1> QED
  BY <1>3, Sempre, PTL DEF Spec, NeverBack
-----------------------------------------------------------------------------
\* The dashboard implements the cache: whatever changes a nota is, for the cache,
\* a change of the data, and the clock is nothing.
THEOREM PainelImplementsCache == PainelSpec => Spec
<1>1. PainelInit => Init
  BY DEF PainelInit
<1>2. [PainelNext]_vars => [Next]_cacheVars
  BY DEF PainelNext, BackfillDirection, Observa, Escreve, Passa, Next, vars, painelVars
<1> QED
  BY <1>1, <1>2, PTL DEF PainelSpec, Spec

\* What holds of the cache holds of it in the dashboard.
THEOREM CacheInPainel == PainelSpec => []TypeOK /\ []ServesStale /\ NeverBack
BY PainelImplementsCache, TypeCorrect, ServesStaleHolds, NeverBackHolds, PTL
-----------------------------------------------------------------------------
\* The first field of a key tells its route.
Rotulo(f) == IF f.rota = "timeseries" THEN "ts"
             ELSE IF f.rota = "backlog-age" THEN "backlog_age" ELSE f.rota

LEMMA ChaveDizRota ==
  ASSUME NEW f \in Questao
  PROVE  CacheKeyOf(f)[1] = Rotulo(f)
<1>1. f.rota \in {"overview", "empresas", "timeseries", "latency", "backlog-age"}
  BY DEF Questao, Rota
<1> QED
  BY <1>1 DEF CacheKeyOf, Rotulo

LEMMA ChaveSeparaRotas ==
  ASSUME NEW p \in Questao, NEW q \in Questao, CacheKeyOf(p) = CacheKeyOf(q)
  PROVE  p.rota = q.rota
<1>1. Rotulo(p) = Rotulo(q)
  BY ChaveDizRota
<1>2. p.rota \in Rota /\ q.rota \in Rota
  BY DEF Questao
<1> QED
  BY <1>1, <1>2 DEF Rotulo, Rota

LEMMA MesmaChave ==
  ASSUME NEW p \in Questao, NEW q \in Questao, CacheKeyOf(p) = CacheKeyOf(q)
  PROVE  Resposta(p) = Resposta(q)
<1>1. p.rota = q.rota /\ p.rota \in {"overview", "empresas", "timeseries", "latency", "backlog-age"}
  BY ChaveSeparaRotas DEF Questao, Rota
<1>2. CASE p.rota = "overview"
  <2> DEFINE larga(f) == live(f) \/ f.doc # ""
             inteira(f) == <<"overview", f.campo, f.de, f.ate, f.emp, f.fil, f.doc>>
  <2>1. /\ CacheKeyOf(p) = IF larga(p) THEN inteira(p) ELSE <<"overview">>
        /\ CacheKeyOf(q) = IF larga(q) THEN inteira(q) ELSE <<"overview">>
    BY <1>1, <1>2 DEF CacheKeyOf
  <2>2. /\ Resposta(p) = OverviewPostgres(Tabela, notas_counts, p, agora)
        /\ Resposta(q) = OverviewPostgres(Tabela, notas_counts, q, agora)
    BY <1>1, <1>2 DEF Resposta
  <2>3. inteira(p) # <<"overview">> /\ inteira(q) # <<"overview">>
    <3>1. Len(inteira(p)) = 7 /\ Len(inteira(q)) = 7 /\ Len(<<"overview">>) = 1
      OBVIOUS
    <3> QED
      BY <3>1
  <2>4. CASE larga(p)
    <3>1. inteira(p) = inteira(q)
      BY <2>1, <2>3, <2>4
    <3>2. /\ p.campo = q.campo /\ p.de = q.de /\ p.ate = q.ate /\ p.emp = q.emp /\ p.fil = q.fil
          /\ p.doc = q.doc
      BY <3>1
    <3>3. live(p) <=> live(q)
      BY <3>2 DEF live, windowed, dateColumn
    <3>4. Modo(p) = Modo(q)
      BY <3>2 DEF Modo, windowed, dateColumn
    <3>5. \A n : overviewWhere(n, p) <=> overviewWhere(n, q)
      BY <3>2 DEF overviewWhere, entreDatas, windowed, dateColumn, daEmpresa, doTipo, Coluna
    <3>6. \A d : doTipo(d, p) <=> doTipo(d, q)
      BY <3>2 DEF doTipo
    <3>7. {n \in Tabela : overviewWhere(n, p)} = {n \in Tabela : overviewWhere(n, q)}
      BY <3>5
    <3>8. {d \in DOMAIN notas_counts : doTipo(d, p)} = {d \in DOMAIN notas_counts : doTipo(d, q)}
      BY <3>6
    <3> QED
      BY <2>2, <3>3, <3>4, <3>7, <3>8 DEF OverviewPostgres
  <2>5. CASE ~larga(p)
    <3>1. ~larga(q)
      BY <2>1, <2>3, <2>5
    <3>2. Modo(p) = Modo(q) /\ ~live(p) /\ ~live(q) /\ p.doc = q.doc
      BY <2>5, <3>1 DEF Modo, live
    <3>3. {d \in DOMAIN notas_counts : doTipo(d, p)} = {d \in DOMAIN notas_counts : doTipo(d, q)}
      BY <3>2 DEF doTipo
    <3> QED
      BY <2>2, <3>2, <3>3 DEF OverviewPostgres
  <2> QED
    BY <2>4, <2>5
<1>3. CASE p.rota = "empresas"
  <2>1. <<"empresas", p.pendentes, p.doc, p.dir, p.campo, p.de, p.ate>>
          = <<"empresas", q.pendentes, q.doc, q.dir, q.campo, q.de, q.ate>>
    BY <1>1, <1>3 DEF CacheKeyOf
  <2>2. /\ p.pendentes = q.pendentes /\ p.doc = q.doc /\ p.dir = q.dir /\ p.campo = q.campo
        /\ p.de = q.de /\ p.ate = q.ate
    BY <2>1
  <2>3. /\ Resposta(p) = EmpresasPostgres(Tabela, empresa_counts, p)
        /\ Resposta(q) = EmpresasPostgres(Tabela, empresa_counts, q)
    BY <1>1, <1>3 DEF Resposta
  <2>4. windowed(p) <=> windowed(q)
    BY <2>2 DEF windowed, dateColumn
  <2>5. \A n : entreDatas(n, p) /\ doTipo(n, p) /\ daDirecao(n, p)
               <=> entreDatas(n, q) /\ doTipo(n, q) /\ daDirecao(n, q)
    BY <2>2 DEF entreDatas, doTipo, daDirecao, windowed, dateColumn, Coluna
  <2>6. empresasFilteredQuery(Tabela, p) = empresasFilteredQuery(Tabela, q)
    <3>1. {n \in Tabela : entreDatas(n, p) /\ doTipo(n, p) /\ daDirecao(n, p)}
            = {n \in Tabela : entreDatas(n, q) /\ doTipo(n, q) /\ daDirecao(n, q)}
      BY <2>5
    <3> QED
      BY <3>1 DEF empresasFilteredQuery
  <2>7. empresasCounterQuery(empresa_counts, p) = empresasCounterQuery(empresa_counts, q)
    <3>1. {d \in DOMAIN empresa_counts : doTipo(d, p) /\ daDirecao(d, p)}
            = {d \in DOMAIN empresa_counts : doTipo(d, q) /\ daDirecao(d, q)}
      BY <2>2 DEF doTipo, daDirecao
    <3> QED
      BY <3>1 DEF empresasCounterQuery
  <2>8. \A linhas : SoPendentes(linhas, p) = SoPendentes(linhas, q)
    BY <2>2 DEF SoPendentes
  <2> QED
    BY <2>3, <2>4, <2>6, <2>7, <2>8 DEF EmpresasPostgres
<1>4. CASE p.rota = "timeseries"
  <2>1. p.dias = q.dias /\ p.bucket = q.bucket
    <3>1. <<"ts", p.dias, p.bucket>> = <<"ts", q.dias, q.bucket>>
      BY <1>1, <1>4 DEF CacheKeyOf
    <3> QED
      BY <3>1
  <2>2. TimeseriesPostgres(Tabela, p, agora) = TimeseriesPostgres(Tabela, q, agora)
    BY <2>1 DEF TimeseriesPostgres, Espinha, Balde, bucketStart, Passo
  <2> QED
    BY <1>1, <1>4, <2>2 DEF Resposta
<1>5. CASE p.rota = "latency"
  <2>1. p.dias = q.dias
    <3>1. <<"latency", p.dias>> = <<"latency", q.dias>>
      BY <1>1, <1>5 DEF CacheKeyOf
    <3> QED
      BY <3>1
  <2>2. Latency(Tabela, p, agora) = Latency(Tabela, q, agora)
    BY <2>1 DEF Latency
  <2> QED
    BY <1>1, <1>5, <2>2 DEF Resposta
<1>6. CASE p.rota = "backlog-age"
  BY <1>1, <1>6 DEF Resposta
<1> QED
  BY <1>1, <1>2, <1>3, <1>4, <1>5, <1>6

\* Questions that share a key of the cache have one answer, whatever the notas:
\* the key holds all that the answer depends on.
THEOREM KeyIsEnoughHolds == PainelSpec => []KeyIsEnough
<1>1. KeyIsEnough
  BY PerguntaAssumption, MesmaChave DEF KeyIsEnough, Colidem
<1> QED
  BY <1>1, PTL DEF PainelSpec
-----------------------------------------------------------------------------
\* The counters: what a partial function of counts adds up to.
LEMMA SomaConta ==
  ASSUME NEW T, IsFiniteSet(T), NEW F, NEW D, IsFiniteSet(D), NEW cont,
         \A d \in D : cont[d] = Cardinality({n \in T : F[n] = d})
  PROVE  Total(cont, D) = Cardinality({n \in T : F[n] \in D})
<1> DEFINE um(s) == CHOOSE x \in s : TRUE
           E(h) == [s \in SUBSET D |-> IF s = {} THEN 0 ELSE cont[um(s)] + h[s \ {um(s)}]]
           De(s) == {n \in T : F[n] \in s}
           g == [s \in SUBSET D |-> Cardinality(De(s))]
<1>1. Total(cont, D) = (CHOOSE h : h = E(h))[D]
  BY DEF Total, MapThenSumSet, MapThenFoldSet
<1>0. \A s : De(s) = {n \in T : F[n] \in s}
  OBVIOUS
<1> HIDE DEF De
<1>2. ASSUME NEW s \in SUBSET D, s # {}
      PROVE  /\ um(s) \in s /\ s \ {um(s)} \in SUBSET D
             /\ Cardinality(De(s)) = cont[um(s)] + Cardinality(De(s \ {um(s)}))
  <2> DEFINE A == {n \in T : F[n] = um(s)}
             r == s \ {um(s)}
  <2>1. um(s) \in s
    BY <1>2
  <2> HIDE DEF um
  <2>2. De(s) = A \cup De(r) /\ A \cap De(r) = {}
    BY <1>0, <2>1
  <2>3. IsFiniteSet(A) /\ IsFiniteSet(De(r))
    BY <1>0, FS_Subset
  <2>6. Cardinality(A) = cont[um(s)]
    BY <2>1
  <2> HIDE DEF A
  <2>4. Cardinality(A \cup De(r)) = Cardinality(A) + Cardinality(De(r)) - Cardinality(A \cap De(r))
    BY <2>3, FS_Union
  <2>5. Cardinality(A) \in Nat /\ Cardinality(De(r)) \in Nat /\ Cardinality({}) = 0
    BY <2>3, FS_CardinalityType, FS_EmptySet
  <2>7. Cardinality(De(s)) = cont[um(s)] + Cardinality(De(r))
    <3>1. Cardinality(De(s)) = Cardinality(A) + Cardinality(De(r)) - Cardinality({})
      BY <2>2, <2>4
    <3> HIDE DEF r
    <3> QED
      BY <2>5, <2>6, <3>1
  <2> QED
    BY <2>1, <2>7
<1> HIDE DEF um
<1>3. Cardinality(De({})) = 0
  <2>1. De({}) = {}
    BY <1>0
  <2> QED
    BY <2>1, FS_EmptySet
<1>4. g = E(g)
  BY <1>2, <1>3
<1>7. g[D] = Cardinality(De(D)) /\ g = [s \in SUBSET D |-> g[s]]
  OBVIOUS
<1> HIDE DEF g
<1>5. ASSUME NEW h, h = E(h) PROVE h = g
  <2> DEFINE J == {m \in Nat : \A s \in SUBSET D : Cardinality(s) = m => h[s] = g[s]}
  <2>1. 0 \in J
    <3> SUFFICES ASSUME NEW s \in SUBSET D, Cardinality(s) = 0 PROVE h[s] = g[s]
      OBVIOUS
    <3>1. s = {}
      BY FS_Subset, FS_EmptySet
    <3> QED
      BY <3>1, <1>4, <1>5
  <2>2. ASSUME NEW m \in Nat, m \in J PROVE m + 1 \in J
    <3> SUFFICES ASSUME NEW s \in SUBSET D, Cardinality(s) = m + 1 PROVE h[s] = g[s]
      OBVIOUS
    <3>1. IsFiniteSet(s) /\ s # {}
      BY FS_Subset, FS_EmptySet
    <3>2. um(s) \in s /\ s \ {um(s)} \in SUBSET D
      BY <1>2, <3>1
    <3>3. Cardinality(s \ {um(s)}) = m
      <4>1. Cardinality(s \ {um(s)}) = Cardinality(s) - 1
        BY <3>1, <3>2, FS_RemoveElement
      <4> QED
        BY <4>1
    <3>4. h[s \ {um(s)}] = g[s \ {um(s)}]
      BY <2>2, <3>2, <3>3
    <3>5. h[s] = cont[um(s)] + h[s \ {um(s)}]
      BY <1>5, <3>1
    <3>6. g[s] = cont[um(s)] + g[s \ {um(s)}]
      BY <1>4, <3>1
    <3> QED
      BY <3>4, <3>5, <3>6
  <2>3. \A m \in Nat : m \in J
    <3> HIDE DEF J
    <3> QED
      BY <2>1, <2>2, Inducao
  <2>4. \A s \in SUBSET D : h[s] = g[s]
    <3> SUFFICES ASSUME NEW s \in SUBSET D PROVE h[s] = g[s]
      OBVIOUS
    <3>1. Cardinality(s) \in Nat
      BY FS_Subset, FS_CardinalityType
    <3> QED
      BY <2>3, <3>1
  <2>5. h = [s \in SUBSET D |-> h[s]]
    BY <1>5
  <2> QED
    BY <1>7, <2>4, <2>5
<1>6. (CHOOSE h : h = E(h)) = g
  <2>1. (CHOOSE h : h = E(h)) = E(CHOOSE h : h = E(h))
    BY <1>4
  <2> QED
    BY <1>5, <2>1
<1> QED
  BY <1>0, <1>1, <1>6, <1>7

\* The instants a nota records.
Instante == {t \in Nat : t = Never \/ t >= PorDia}

\* What a text field holds; "" is one the code leaves empty.
Texto == STRING \cup {""}

Linha == [chave : Nota, doc : Texto, status : NotaStatus, dir : Texto,
          emp : Empresa \cup {Nulo}, fil : Filial \cup {Nulo}, emissao : Nat, first : Nat,
          arrived : Instante, synced : Instante, pending : Instante, imported : Instante]

\* Observations are dated after the day of Never.
Datadas == {o \in Observation : o.at >= PorDia}

\* The row r says of the nota c what the set S of its observations says.
Espelha(r, c, S) ==
  /\ r.chave = c /\ r.doc = DocDe[c] /\ r.status = SituacaoNota(S)
  /\ r.arrived = Primeira(S, ArrivalEvent) /\ r.synced = Primeira(S, Progresso)
  /\ r.pending = Primeira(S, {"seen_pending"}) /\ r.imported = Primeira(S, {"imported"})
  /\ r.emissao = EmissaoDas(c, S)
  /\ Ultima(S, NomeiaEmpresa, r.emp) /\ Ultima(S, NomeiaFilial, r.fil)

\* cont counts the rows of T by F, and has a line for each of them.
Conta(cont, T, F) ==
  /\ IsFiniteSet(DOMAIN cont)
  /\ \A n \in T : F[n] \in DOMAIN cont
  /\ \A d \in DOMAIN cont : cont[d] = Cardinality({n \in T : F[n] = d})

PorNota == [n \in Linha |-> DimNota(n)]
PorEmpresa == [n \in Linha |-> DimEmpresa(n)]
DimNotas == [doc : Texto, status : NotaStatus, dir : Texto]
DimEmpresas == [emp : Empresa \cup {Nulo}, fil : Filial \cup {Nulo}, doc : Texto,
                dir : Texto, status : NotaStatus]

PainelTipo ==
  /\ observations \in [Nota -> Seq(Datadas)]
  /\ agora \in PorDia .. MaxTempo
  /\ cenario \in [cache : BOOLEAN, sinais : SUBSET Sinal, saltos : SUBSET Saltos, restam : Nat]

\* Each nota with observations has its row, and the row says what they say.
Linhas ==
  /\ DOMAIN notas = {c \in Nota : observations[c] # <<>>} /\ IsFiniteSet(DOMAIN notas)
  /\ \A c \in DOMAIN notas : notas[c] \in Linha /\ Espelha(notas[c], c, ToSet(observations[c]))

Contadores ==
  /\ DOMAIN notas_counts \subseteq DimNotas /\ DOMAIN empresa_counts \subseteq DimEmpresas
  /\ Conta(notas_counts, Tabela, PorNota) /\ Conta(empresa_counts, Tabela, PorEmpresa)

PainelInv == PainelTipo /\ Linhas /\ Contadores

LEMMA ContaMais ==
  ASSUME NEW T, IsFiniteSet(T), NEW F, NEW cont, Conta(cont, T, F), NEW n, n \notin T
  PROVE  Conta(Soma(cont, F[n]), T \cup {n}, F)
<1> DEFINE novo == Soma(cont, F[n])
           De(d) == {m \in T : F[m] = d}
           Agora(d) == {m \in T \cup {n} : F[m] = d}
<1>1. DOMAIN novo = DOMAIN cont \cup {F[n]} /\ IsFiniteSet(DOMAIN novo)
  BY FS_AddElement DEF Soma, Conta
<1>2. ASSUME NEW d \in DOMAIN novo PROVE novo[d] = Cardinality(Agora(d))
  <2>1. IsFiniteSet(De(d)) /\ Cardinality(De(d)) \in Nat
    BY FS_Subset, FS_CardinalityType
  <2>2. (IF d \in DOMAIN cont THEN cont[d] ELSE 0) = Cardinality(De(d))
    <3>1. CASE d \in DOMAIN cont
      BY <3>1 DEF Conta
    <3>2. CASE d \notin DOMAIN cont
      <4>1. De(d) = {}
        BY <3>2 DEF Conta
      <4> QED
        BY <3>2, <4>1, FS_EmptySet
    <3> QED
      BY <3>1, <3>2
  <2>3. novo[d] = Cardinality(De(d)) + IF d = F[n] THEN 1 ELSE 0
    BY <1>1, <2>2 DEF Soma
  <2>4. CASE d = F[n]
    <3>1. Agora(d) = De(d) \cup {n} /\ n \notin De(d)
      BY <2>4
    <3>2. Cardinality(De(d) \cup {n}) = Cardinality(De(d)) + 1
      <4> HIDE DEF De
      <4> QED
        BY <2>1, <3>1, FS_AddElement
    <3> QED
      BY <2>3, <2>4, <3>1, <3>2
  <2>5. CASE d # F[n]
    <3>1. Agora(d) = De(d)
      BY <2>5
    <3> QED
      BY <2>1, <2>3, <2>5, <3>1
  <2> QED
    BY <2>4, <2>5
<1>3. \A m \in T \cup {n} : F[m] \in DOMAIN novo
  BY <1>1 DEF Conta
<1> QED
  BY <1>1, <1>2, <1>3 DEF Conta

LEMMA ContaMenos ==
  ASSUME NEW T, IsFiniteSet(T), NEW F, NEW cont, Conta(cont, T, F), NEW n \in T
  PROVE  Conta(Retira(cont, F[n]), T \ {n}, F)
<1> DEFINE novo == Retira(cont, F[n])
           De(d) == {m \in T : F[m] = d}
           Agora(d) == {m \in T \ {n} : F[m] = d}
<1>1. DOMAIN novo = DOMAIN cont
  BY DEF Retira
<1>2. ASSUME NEW d \in DOMAIN novo PROVE novo[d] = Cardinality(Agora(d))
  <2>1. IsFiniteSet(De(d)) /\ Cardinality(De(d)) \in Nat
    BY FS_Subset, FS_CardinalityType
  <2>3. novo[d] = Cardinality(De(d)) - IF d = F[n] THEN 1 ELSE 0
    BY <1>1 DEF Retira, Conta
  <2>4. CASE d = F[n]
    <3>1. Agora(d) = De(d) \ {n} /\ n \in De(d)
      BY <2>4
    <3>2. Cardinality(De(d) \ {n}) = Cardinality(De(d)) - 1
      <4> HIDE DEF De
      <4> QED
        BY <2>1, <3>1, FS_RemoveElement
    <3> QED
      BY <2>3, <2>4, <3>1, <3>2
  <2>5. CASE d # F[n]
    <3>1. Agora(d) = De(d)
      BY <2>5
    <3> QED
      BY <2>1, <2>3, <2>5, <3>1
  <2> QED
    BY <2>4, <2>5
<1> QED
  BY <1>1, <1>2 DEF Conta

LEMMA ContaTroca ==
  ASSUME NEW T, IsFiniteSet(T), NEW F, NEW cont, Conta(cont, T, F),
         NEW de \in T, NEW para, para \notin T \ {de}
  PROVE  /\ Conta(Soma(Retira(cont, F[de]), F[para]), (T \ {de}) \cup {para}, F)
         /\ F[de] = F[para] => Conta(cont, (T \ {de}) \cup {para}, F)
<1> DEFINE meio == Retira(cont, F[de])
           U == (T \ {de}) \cup {para}
<1>1. Conta(meio, T \ {de}, F) /\ IsFiniteSet(T \ {de})
  BY ContaMenos, FS_Subset
<1>2. Conta(Soma(meio, F[para]), U, F)
  <2> HIDE DEF meio
  <2> QED
    BY <1>1, ContaMais
<1>3. ASSUME F[de] = F[para] PROVE Conta(cont, U, F)
  <2> DEFINE x == F[para]
             novo == Soma(Retira(cont, x), x)
  <2>1. x \in DOMAIN cont
    BY <1>3 DEF Conta
  <2>2. \A d \in DOMAIN cont : cont[d] \in Nat
    <3> SUFFICES ASSUME NEW d \in DOMAIN cont PROVE cont[d] \in Nat
      OBVIOUS
    <3>1. IsFiniteSet({n \in T : F[n] = d})
      BY FS_Subset
    <3> QED
      BY <3>1, FS_CardinalityType DEF Conta
  <2> HIDE DEF x
  <2>3. DOMAIN novo = DOMAIN cont /\ \A d \in DOMAIN cont : novo[d] = cont[d]
    BY <2>1, <2>2 DEF Soma, Retira
  <2>4. Conta(novo, U, F)
    BY <1>2, <1>3 DEF x
  <2> HIDE DEF novo, U
  <2> QED
    BY <2>3, <2>4 DEF Conta
<1> QED
  BY <1>2, <1>3

\* How days and instants go together.
LEMMA Dias ==
  /\ \A t \in Nat : Dia(t) \in Nat /\ PorDia * Dia(t) <= t /\ t < PorDia * Dia(t) + PorDia
  /\ \A t \in Instante : Dia(t) = 0 <=> t = Never
  /\ \A t \in Nat : t >= PorDia => PorDia <= MeiaNoite(Dia(t)) /\ MeiaNoite(Dia(t)) <= t
BY DEF Dia, PorDia, MeiaNoite, Instante, Never

LEMMA TabelaTipo ==
  ASSUME Linhas
  PROVE  Tabela \subseteq Linha /\ IsFiniteSet(Tabela)
<1>1. Tabela \subseteq Linha
  BY DEF Linhas, Tabela
<1>2. IsFiniteSet(Tabela)
  <2> DEFINE f == [c \in DOMAIN notas |-> notas[c]]
  <2>1. IsFiniteSet(DOMAIN notas)
    BY DEF Linhas
  <2>2. f \in Surjection(DOMAIN notas, Tabela)
    BY DEF Surjection, Tabela
  <2> QED
    BY <2>1, <2>2, FS_Surjection
<1> QED
  BY <1>1, <1>2

LEMMA Dimensoes ==
  ASSUME NEW n \in Linha
  PROVE  PorNota[n] \in DimNotas /\ PorEmpresa[n] \in DimEmpresas
BY DEF PorNota, PorEmpresa, DimNotas, DimEmpresas, DimNota, DimEmpresa, Linha

\* The row of a nota in the table of rows, before and after it is written.
LEMMA EscreveTabela ==
  ASSUME Linhas, NEW c \in Nota, NEW linha \in Linha, linha.chave = c, Escreve(c, linha)
  PROVE  /\ c \notin DOMAIN notas => Tabela' = Tabela \cup {linha} /\ linha \notin Tabela
         /\ c \in DOMAIN notas => /\ notas[c] \in Tabela
                                  /\ Tabela' = (Tabela \ {notas[c]}) \cup {linha}
                                  /\ linha \notin Tabela \ {notas[c]}
<1>1. \A x \in DOMAIN notas : notas[x].chave = x
  BY DEF Linhas, Espelha
<1>2. /\ DOMAIN notas' = DOMAIN notas \cup {c}
      /\ \A x \in DOMAIN notas' : notas'[x] = IF x = c THEN linha ELSE notas[x]
  BY DEF Escreve
<1>3. Tabela' = {notas'[x] : x \in DOMAIN notas'}
  BY DEF Tabela
<1>4. CASE c \notin DOMAIN notas
  BY <1>1, <1>2, <1>3, <1>4 DEF Tabela
<1>5. CASE c \in DOMAIN notas
  <2>1. Tabela' = {IF x = c THEN linha ELSE notas[x] : x \in DOMAIN notas}
    BY <1>2, <1>3, <1>5
  <2>2. Tabela \ {notas[c]} = {notas[x] : x \in DOMAIN notas \ {c}}
    BY <1>1, <1>5 DEF Tabela
  <2>3. notas[c] \in Tabela
    BY <1>5 DEF Tabela
  <2>4. {IF x = c THEN linha ELSE notas[x] : x \in DOMAIN notas}
          = {notas[x] : x \in DOMAIN notas \ {c}} \cup {linha}
    BY <1>5
  <2>5. linha \notin {notas[x] : x \in DOMAIN notas \ {c}}
    BY <1>1
  <2> QED
    BY <1>5, <2>1, <2>2, <2>3, <2>4, <2>5
<1> QED
  BY <1>4, <1>5

\* What the triggers do to each counter, as rows.
LEMMA EscreveConta ==
  ASSUME Linhas, Contadores, NEW c \in Nota, NEW linha \in Linha, linha.chave = c, Escreve(c, linha)
  PROVE  Contadores'
<1>0. Tabela \subseteq Linha /\ IsFiniteSet(Tabela)
  BY TabelaTipo
<1>1. PorNota[linha] = DimNota(linha) /\ PorEmpresa[linha] = DimEmpresa(linha)
  BY DEF PorNota, PorEmpresa
<1>2. CASE c \notin DOMAIN notas
  <2>1. Tabela' = Tabela \cup {linha} /\ linha \notin Tabela
    BY <1>2, EscreveTabela
  <2>2. notas_counts' = Soma(notas_counts, PorNota[linha])
        /\ empresa_counts' = Soma(empresa_counts, PorEmpresa[linha])
    BY <1>1, <1>2 DEF Escreve
  <2>3. Conta(notas_counts', Tabela', PorNota) /\ Conta(empresa_counts', Tabela', PorEmpresa)
    BY <1>0, <2>1, <2>2, ContaMais DEF Contadores
  <2>4. DOMAIN notas_counts' \subseteq DimNotas /\ DOMAIN empresa_counts' \subseteq DimEmpresas
    BY <2>2, Dimensoes DEF Soma, Contadores
  <2> QED
    BY <2>3, <2>4 DEF Contadores
<1>3. CASE c \in DOMAIN notas
  <2> DEFINE de == notas[c]
  <2>1. de \in Tabela /\ Tabela' = (Tabela \ {de}) \cup {linha} /\ linha \notin Tabela \ {de}
    BY <1>3, EscreveTabela
  <2>2. de \in Linha /\ PorNota[de] = DimNota(de) /\ PorEmpresa[de] = DimEmpresa(de)
    BY <1>0, <2>1 DEF PorNota, PorEmpresa
  <2>3. /\ notas_counts' = notas_counts_sync(notas_counts, de, linha)
        /\ empresa_counts' = empresa_counts_sync(empresa_counts, de, linha)
    BY <1>3 DEF Escreve
  <2> HIDE DEF de
  <2>4. ~MudouNota(de, linha) => PorNota[de] = PorNota[linha]
    BY <1>1, <2>2 DEF MudouNota, DimNota
  <2>5. ~MudouEmpresa(de, linha) => PorEmpresa[de] = PorEmpresa[linha]
    BY <1>1, <2>2 DEF MudouNota, MudouEmpresa, DimEmpresa
  <2>6. Conta(notas_counts', Tabela', PorNota) /\ Conta(empresa_counts', Tabela', PorEmpresa)
    <3>1. Conta(notas_counts, Tabela, PorNota) /\ Conta(empresa_counts, Tabela, PorEmpresa)
      BY DEF Contadores
    <3>2. /\ Conta(Soma(Retira(notas_counts, PorNota[de]), PorNota[linha]), Tabela', PorNota)
          /\ PorNota[de] = PorNota[linha] => Conta(notas_counts, Tabela', PorNota)
      BY <1>0, <2>1, <3>1, ContaTroca
    <3>3. /\ Conta(Soma(Retira(empresa_counts, PorEmpresa[de]), PorEmpresa[linha]), Tabela', PorEmpresa)
          /\ PorEmpresa[de] = PorEmpresa[linha] => Conta(empresa_counts, Tabela', PorEmpresa)
      BY <1>0, <2>1, <3>1, ContaTroca
    <3> QED
      BY <1>1, <2>2, <2>3, <2>4, <2>5, <3>2, <3>3 DEF notas_counts_sync, empresa_counts_sync
  <2>7. DOMAIN notas_counts' \subseteq DimNotas /\ DOMAIN empresa_counts' \subseteq DimEmpresas
    BY <1>1, <2>2, <2>3, Dimensoes
       DEF notas_counts_sync, empresa_counts_sync, Soma, Retira, Contadores
  <2> QED
    BY <2>6, <2>7 DEF Contadores
<1> QED
  BY <1>2, <1>3

\* A row written is one of the events of the scenario.
LEMMA EscreveCenario ==
  ASSUME PainelTipo, NEW c, NEW linha, Escreve(c, linha)
  PROVE  agora' = agora /\ cenario' \in [cache : BOOLEAN, sinais : SUBSET Sinal, saltos : SUBSET Saltos, restam : Nat]
<1>1. /\ cenario \in [cache : BOOLEAN, sinais : SUBSET Sinal, saltos : SUBSET Saltos, restam : Nat]
      /\ cenario.restam > 0 /\ cenario' = [cenario EXCEPT !.restam = @ - 1] /\ agora' = agora
  BY DEF PainelTipo, Escreve
<1>2. cenario.restam - 1 \in Nat
  BY <1>1
<1> QED
  BY <1>1, <1>2

LEMMA DatadasSao ==
  ASSUME NEW s \in Seq(Datadas)
  PROVE  /\ s \in Seq(Observation) /\ ToSet(s) \in SUBSET Datadas /\ ToSet(s) \in SUBSET Observation
         /\ \A E : Primeira(ToSet(s), E) \in Instante
<1>1. Datadas \in SUBSET Observation
  BY DEF Datadas
<1>2. s \in Seq(Observation) /\ ToSet(s) \in SUBSET Datadas /\ ToSet(s) \in SUBSET Observation
  BY <1>1 DEF ToSet
<1>3. ASSUME NEW E PROVE Primeira(ToSet(s), E) \in Instante
  <2>1. CASE Viu(ToSet(s), E)
    <3>1. PICK o \in ToSet(s) : o.at = Primeira(ToSet(s), E)
      BY <1>2, <2>1, PrimeiraMinima
    <3>2. o.at \in Nat /\ o.at >= PorDia
      BY <1>2 DEF Datadas, Observation, Tempo
    <3> QED
      BY <3>1, <3>2 DEF Instante
  <2>2. CASE ~Viu(ToSet(s), E)
    BY <1>2, <2>2, PrimeiraMinima DEF Instante, Never
  <2> QED
    BY <2>1, <2>2
<1> QED
  BY <1>2, <1>3

LEMMA EmissaoTipo ==
  ASSUME NEW c \in Nota, NEW S \in SUBSET Observation
  PROVE  /\ EmissaoDas(c, S) \in Nat
         /\ EmissaoDas(c, S) = Never <=> \A o \in S : EmissaoDe[c][o.event] = Never
<1> DEFINE dias == {EmissaoDe[c][o.event] : o \in S} \ {Never}
<1>1. \A o \in S : EmissaoDe[c][o.event] \in Nat
  BY NotasAssumption DEF Observation
<1>2. dias \subseteq Nat /\ Never \notin dias /\ Never \in Nat
  BY <1>1 DEF Never
<1>3. dias = {} <=> \A o \in S : EmissaoDe[c][o.event] = Never
  OBVIOUS
<1>4. EmissaoDas(c, S) = IF dias = {} THEN Never ELSE CHOOSE d \in dias : TRUE
  BY DEF EmissaoDas
<1> HIDE DEF dias
<1> QED
  BY <1>2, <1>3, <1>4

\* What is derived from a sequence mirrors its set, in any order of ties.
LEMMA DerivadaEspelha ==
  ASSUME NEW c \in Nota, NEW s \in Seq(Datadas), s # <<>>
  PROVE  /\ Espelha(NotaDerivada(c, s), c, ToSet(s))
         /\ [NotaDerivada(c, s) EXCEPT !.dir = ""] \in Linha
         /\ Espelha([NotaDerivada(c, s) EXCEPT !.dir = ""], c, ToSet(s))
<1> DEFINE S == ToSet(s)
           n == NotaParticipacoes(s)
           d == NotaDerivada(c, s)
<1>1. s \in Seq(Observation) /\ S \in SUBSET Observation /\ \A E : Primeira(S, E) \in Instante
  BY DatadasSao
<1>2. /\ n.spans.arrived = Primeira(S, ArrivalEvent) /\ n.spans.synced = Primeira(S, Progresso)
      /\ n.spans.pending = Primeira(S, {"seen_pending"}) /\ n.spans.imported = Primeira(S, {"imported"})
      /\ n.status = SituacaoNota(S)
  BY <1>1, NotaDoConjunto DEF Marcam
<1>3. Ultima(S, NomeiaEmpresa, n.spans.codigo) /\ Ultima(S, NomeiaFilial, n.spans.filial)
  BY <1>1, UltimasNomeadas
<1>4. sortObs(s)[1].at \in Nat
  <2>1. sortObs(s) \in Seq(Observation) /\ Len(sortObs(s)) = Len(s) /\ Len(s) \in Nat \ {0}
    BY <1>1, SortObsOrdena DEF Crescentes
  <2>2. 1 \in 1 .. Len(sortObs(s))
    BY <2>1
  <2>3. sortObs(s)[1] \in Observation
    BY <2>1, <2>2
  <2> QED
    BY <2>3 DEF Observation, Tempo
<1> HIDE DEF n
<1>5. d = [chave |-> c, doc |-> DocDe[c], status |-> n.status, dir |-> DirecaoDe(c, sortObs(s)),
           emp |-> n.spans.codigo, fil |-> n.spans.filial, emissao |-> EmissaoDas(c, S),
           first |-> sortObs(s)[1].at, arrived |-> n.spans.arrived, synced |-> n.spans.synced,
           pending |-> n.spans.pending, imported |-> n.spans.imported]
  BY DEF NotaDerivada, n
<1> HIDE DEF d, S
<1>6. Espelha(d, c, S)
  BY <1>2, <1>3, <1>5 DEF Espelha
<1>7. /\ n.spans.codigo \in Empresa \cup {Nulo} /\ n.spans.filial \in Filial \cup {Nulo}
  BY <1>1, <1>3 DEF Ultima, NomeiaEmpresa, NomeiaFilial, Observation
<1>8. EmissaoDas(c, S) \in Nat /\ DocDe[c] \in STRING /\ SituacaoNota(S) \in NotaStatus
  BY <1>1, EmissaoTipo, NotasAssumption DEF SituacaoNota, NotaStatus
<1> DEFINE m == [d EXCEPT !.dir = ""]
<1>9. d \in [chave : Nota, doc : Texto, status : NotaStatus, dir : {DirecaoDe(c, sortObs(s))},
             emp : Empresa \cup {Nulo}, fil : Filial \cup {Nulo}, emissao : Nat, first : Nat,
             arrived : Instante, synced : Instante, pending : Instante, imported : Instante]
  <2>1. /\ n.spans.arrived \in Instante /\ n.spans.synced \in Instante
        /\ n.spans.pending \in Instante /\ n.spans.imported \in Instante
    BY <1>1, <1>2 DEF S
  <2>2. n.status \in NotaStatus /\ DocDe[c] \in Texto
    BY <1>2, <1>8 DEF Texto
  <2> QED
    BY <1>4, <1>5, <1>7, <1>8, <2>1, <2>2
<1>10. m \in Linha
  <2>1. "" \in Texto
    BY DEF Texto
  <2> QED
    BY <1>9, <2>1 DEF Linha
<1>11. Espelha(m, c, S)
  <2>1. /\ m.chave = d.chave /\ m.doc = d.doc /\ m.status = d.status /\ m.emissao = d.emissao
        /\ m.arrived = d.arrived /\ m.synced = d.synced /\ m.pending = d.pending
        /\ m.imported = d.imported /\ m.emp = d.emp /\ m.fil = d.fil
    BY <1>9
  <2> HIDE DEF m
  <2> QED
    BY <1>6, <2>1 DEF Espelha
<1> QED
  BY <1>6, <1>10, <1>11 DEF d, m, S

\* What is kept of an older row by COALESCE is what its observations still say.
LEMMA RecomputeEspelha ==
  ASSUME Linhas, NEW c \in Nota, NEW S0 \in SUBSET Observation,
         c \in DOMAIN notas => S0 = ToSet(observations[c]),
         NEW s \in Seq(Datadas), s # <<>>, S0 \subseteq ToSet(s)
  PROVE  recompute(c, s) \in Linha /\ Espelha(recompute(c, s), c, ToSet(s))
<1> DEFINE n == [NotaDerivada(c, s) EXCEPT !.dir = ""]
           S == ToSet(s)
           r == notas[c]
<1>1. n \in Linha /\ Espelha(n, c, S)
  BY DerivadaEspelha
<1>2. n.dir = ""
  BY DEF NotaDerivada
<1>3. recompute(c, s) = upsertNota(c, n)
  BY DEF recompute
<1>4. S \in SUBSET Observation
  BY DatadasSao
<1> HIDE DEF n, S
<1>5. CASE c \notin DOMAIN notas
  BY <1>1, <1>3, <1>5 DEF upsertNota, S
<1>6. CASE c \in DOMAIN notas
  <2>1. r \in Linha /\ Espelha(r, c, S0) /\ S0 \subseteq S
    BY <1>6 DEF Linhas, S
  <2>2. n.emp = Nulo => r.emp = Nulo
    BY <1>1, <1>4, <2>1 DEF Espelha, Ultima
  <2>3. n.fil = Nulo => r.fil = Nulo
    BY <1>1, <1>4, <2>1 DEF Espelha, Ultima
  <2>4. n.emissao = Never => r.emissao = Never
    <3>1. n.emissao = EmissaoDas(c, S) /\ r.emissao = EmissaoDas(c, S0)
      BY <1>1, <2>1 DEF Espelha
    <3> QED
      BY <1>4, <2>1, <3>1, EmissaoTipo
  <2> HIDE DEF r
  <2>5. recompute(c, s) = [n EXCEPT !.emp = COALESCE(@, Nulo, r.emp), !.fil = COALESCE(@, Nulo, r.fil),
                                    !.emissao = COALESCE(@, Never, r.emissao),
                                    !.dir = COALESCE(@, "", r.dir), !.first = r.first]
    BY <1>3, <1>6 DEF upsertNota, r
  <2>6. COALESCE(n.emp, Nulo, r.emp) = n.emp /\ COALESCE(n.fil, Nulo, r.fil) = n.fil
        /\ COALESCE(n.emissao, Never, r.emissao) = n.emissao /\ COALESCE(n.dir, "", r.dir) = r.dir
    BY <1>2, <2>2, <2>3, <2>4 DEF COALESCE
  <2>7. recompute(c, s) = [n EXCEPT !.dir = r.dir, !.first = r.first]
    BY <1>1, <2>5, <2>6 DEF Linha
  <2>8. r.dir \in Texto /\ r.first \in Nat
    BY <2>1 DEF Linha
  <2>9. recompute(c, s) \in Linha
    BY <1>1, <2>7, <2>8 DEF Linha
  <2>10. Espelha(recompute(c, s), c, S)
    BY <1>1, <2>7 DEF Linha, Espelha
  <2> QED
    BY <2>9, <2>10 DEF S
<1> QED
  BY <1>5, <1>6

LEMMA Acrescenta ==
  ASSUME NEW T, NEW q \in Seq(T), NEW o \in T
  PROVE  Append(q, o) \in Seq(T) /\ Append(q, o) # <<>> /\ ToSet(Append(q, o)) = ToSet(q) \cup {o}
<1>1. /\ Append(q, o) \in Seq(T) /\ Len(q) \in Nat /\ Len(Append(q, o)) = Len(q) + 1
      /\ Append(q, o)[Len(q) + 1] = o
      /\ \A i \in 1 .. Len(q) : Append(q, o)[i] = q[i]
  OBVIOUS
<1>2. ToSet(q) = {q[i] : i \in 1 .. Len(q)}
      /\ ToSet(Append(q, o)) = {Append(q, o)[i] : i \in 1 .. Len(q) + 1}
  BY <1>1 DEF ToSet
<1>3. 1 .. Len(q) + 1 = (1 .. Len(q)) \cup {Len(q) + 1}
  BY <1>1
<1> QED
  BY <1>1, <1>2, <1>3

LEMMA ObservaPasso ==
  ASSUME PainelInv, NEW c \in Nota, NEW o \in Sinal, Observa(c, o)
  PROVE  PainelInv'
<1>1. PICK t \in InstantesDe(o.event) : observations' = [observations EXCEPT ![c] = Append(@, Sinaliza(o, t))]
  BY DEF Observa
<1> DEFINE x == Sinaliza(o, t)
           novas == Append(observations[c], x)
<1>2. agora \in Nat /\ PorDia <= agora /\ agora <= MaxTempo /\ MaxTempo \in Nat
  BY TempoAssumption DEF PainelInv, PainelTipo, PorDia
<1>3. t \in Nat /\ PorDia <= t /\ t <= MaxTempo
  <2>1. MeiaNoite(Dia(agora)) \in Nat /\ PorDia <= MeiaNoite(Dia(agora)) /\ MeiaNoite(Dia(agora)) <= agora
    BY <1>2, Dias DEF MeiaNoite, PorDia
  <2> QED
    BY <1>2, <2>1 DEF InstantesDe
<1>4. x \in Datadas
  <2>1. t \in Tempo
    BY <1>3 DEF Tempo, PorDia
  <2>2. x \in Observation /\ x.at = t
    BY <2>1, SinalAssumption DEF Sinaliza
  <2> QED
    BY <1>3, <2>2 DEF Datadas
<1> HIDE DEF x
<1>5. observations[c] \in Seq(Datadas) /\ observations' = [observations EXCEPT ![c] = novas]
      /\ observations'[c] = novas
  BY <1>1 DEF PainelInv, PainelTipo, x
<1>6. novas \in Seq(Datadas) /\ novas # <<>> /\ ToSet(novas) = ToSet(observations[c]) \cup {x}
  BY <1>4, <1>5, Acrescenta
<1>7. PICK s \in loadObservations(novas) : Escreve(c, recompute(c, s))
  BY <1>5 DEF Observa
<1> HIDE DEF novas
<1>8. s \in Seq(Datadas) /\ s # <<>> /\ ToSet(s) = ToSet(novas)
  <2>1. s \in [1 .. Len(novas) -> ToSet(novas)] /\ ToSet(s) = ToSet(novas)
    BY DEF loadObservations
  <2>2. ToSet(novas) \in SUBSET Datadas
    BY <1>6, DatadasSao
  <2>3. Len(novas) \in Nat /\ Len(novas) # 0
    BY <1>6
  <2>4. s \in Seq(Datadas) /\ Len(s) = Len(novas)
    BY <2>1, <2>2, <2>3
  <2> QED
    BY <2>1, <2>3, <2>4
<1> DEFINE linha == recompute(c, s)
<1>9. linha \in Linha /\ Espelha(linha, c, ToSet(novas))
  <2>1. ToSet(observations[c]) \in SUBSET Observation
    BY <1>5, DatadasSao
  <2> QED
    BY <1>6, <1>8, <2>1, RecomputeEspelha DEF PainelInv
<1> HIDE DEF linha
<1>10. Escreve(c, linha)
  BY <1>7 DEF linha
<1>11. PainelTipo'
  <2>1. observations' \in [Nota -> Seq(Datadas)]
    BY <1>5, <1>6 DEF PainelInv, PainelTipo
  <2> QED
    BY <1>10, <2>1, EscreveCenario DEF PainelTipo, PainelInv
<1>12. Linhas'
  <2>1. /\ DOMAIN notas' = DOMAIN notas \cup {c}
        /\ \A y \in DOMAIN notas' : notas'[y] = IF y = c THEN linha ELSE notas[y]
    BY <1>10 DEF Escreve
  <2>2. \A y \in Nota : observations'[y] = IF y = c THEN novas ELSE observations[y]
    BY <1>5 DEF PainelInv, PainelTipo
  <2>3. DOMAIN notas' = {y \in Nota : observations'[y] # <<>>}
    BY <1>6, <2>1, <2>2 DEF PainelInv, Linhas
  <2>4. IsFiniteSet(DOMAIN notas')
    BY <2>1, FS_AddElement DEF PainelInv, Linhas
  <2>5. ASSUME NEW y \in DOMAIN notas'
        PROVE  notas'[y] \in Linha /\ Espelha(notas'[y], y, ToSet(observations'[y]))
    <3>1. CASE y = c
      BY <1>9, <2>1, <2>2, <3>1
    <3>2. CASE y # c
      <4>1. y \in DOMAIN notas /\ y \in Nota
        BY <2>1, <3>2 DEF PainelInv, Linhas
      <4> QED
        BY <2>1, <2>2, <3>2, <4>1 DEF PainelInv, Linhas
    <3> QED
      BY <3>1, <3>2
  <2> QED
    BY <2>3, <2>4, <2>5 DEF Linhas
<1>13. linha.chave = c
  BY <1>9 DEF Espelha
<1> QED
  BY <1>9, <1>10, <1>11, <1>12, <1>13, EscreveConta DEF PainelInv

LEMMA BackfillPasso ==
  ASSUME PainelInv, NEW c \in Nota, BackfillDirection(c)
  PROVE  PainelInv'
<1> DEFINE n == notas[c]
           m == [n EXCEPT !.dir = LadoDe[c][n.emp]]
<1>1. c \in DOMAIN notas /\ n \in Linha /\ n.emp # Nulo /\ Escreve(c, m) /\ UNCHANGED observations
      /\ Espelha(n, c, ToSet(observations[c]))
  BY DEF BackfillDirection, PainelInv, Linhas
<1>2. LadoDe[c][n.emp] \in Texto
  <2>1. n.emp \in Empresa
    BY <1>1 DEF Linha
  <2> QED
    BY <2>1, NotasAssumption DEF Texto
<1>3. m \in Linha /\ Espelha(m, c, ToSet(observations[c])) /\ m.chave = c
  BY <1>1, <1>2 DEF Linha, Espelha
<1> HIDE DEF m
<1>4. PainelTipo'
  BY <1>1, EscreveCenario DEF PainelInv, PainelTipo
<1>5. Linhas'
  <2>1. /\ DOMAIN notas' = DOMAIN notas
        /\ \A y \in DOMAIN notas' : notas'[y] = IF y = c THEN m ELSE notas[y]
    BY <1>1 DEF Escreve
  <2> QED
    BY <1>1, <1>3, <2>1 DEF PainelInv, Linhas
<1> QED
  BY <1>1, <1>3, <1>4, <1>5, EscreveConta DEF PainelInv

LEMMA PainelInvInit == PainelInit => PainelInv
<1> SUFFICES ASSUME PainelInit PROVE PainelInv
  OBVIOUS
<1>1. DOMAIN notas = {} /\ DOMAIN notas_counts = {} /\ DOMAIN empresa_counts = {}
      /\ observations = [c \in Nota |-> <<>>]
  BY DEF PainelInit
<1>2. PainelTipo
  BY <1>1, InicioAssumption, CenarioPainelAssumption DEF PainelInit, PainelTipo
<1>3. Linhas
  BY <1>1, FS_EmptySet DEF Linhas
<1>4. Tabela = {}
  BY <1>1 DEF Tabela
<1>5. Contadores
  BY <1>1, <1>4, FS_EmptySet DEF Contadores, Conta
<1> QED
  BY <1>2, <1>3, <1>5 DEF PainelInv

LEMMA PainelPasso == PainelInv /\ [PainelNext]_vars => PainelInv'
<1> SUFFICES ASSUME PainelInv, [PainelNext]_vars PROVE PainelInv'
  OBVIOUS
<1>1. CASE UNCHANGED painelVars
  BY <1>1 DEF painelVars, PainelInv, PainelTipo, Linhas, Contadores, Tabela
<1>2. ASSUME NEW c \in Nota, NEW o \in cenario.sinais, Observa(c, o) PROVE PainelInv'
  <2>1. o \in Sinal
    BY DEF PainelInv, PainelTipo
  <2> QED
    BY <1>2, <2>1, ObservaPasso
<1>3. ASSUME NEW d \in cenario.saltos, Passa(d) PROVE PainelInv'
  <2>1. d \in Nat
    BY InicioAssumption DEF PainelInv, PainelTipo
  <2>2. /\ UNCHANGED <<observations, notas, notas_counts, empresa_counts>>
        /\ agora' = agora + d /\ agora + d <= MaxTempo
    BY <1>3 DEF Passa
  <2>3. cenario' \in [cache : BOOLEAN, sinais : SUBSET Sinal, saltos : SUBSET Saltos, restam : Nat]
    BY <1>3 DEF Passa, PainelInv, PainelTipo
  <2>4. agora' \in PorDia .. MaxTempo
    BY <2>1, <2>2, TempoAssumption DEF PainelInv, PainelTipo, PorDia
  <2> QED
    BY <2>2, <2>3, <2>4 DEF PainelInv, PainelTipo, Linhas, Contadores, Tabela
<1> QED
  BY <1>1, <1>2, <1>3, BackfillPasso DEF PainelNext, vars

\* A total over some of the lines of a counter is a number of rows.
LEMMA TotalConta ==
  ASSUME NEW T, IsFiniteSet(T), NEW F, NEW cont, Conta(cont, T, F), NEW D, D \subseteq DOMAIN cont
  PROVE  Total(cont, D) = Cardinality({n \in T : F[n] \in D})
<1>1. IsFiniteSet(D)
  BY FS_Subset DEF Conta
<1> QED
  BY <1>1, SomaConta DEF Conta

\* The status counts of a set of lines are those of the rows they count.
LEMMA StatusConta ==
  ASSUME NEW T, IsFiniteSet(T), NEW F, NEW cont, Conta(cont, T, F),
         NEW D, D \subseteq DOMAIN cont, NEW S, S = {n \in T : F[n] \in D},
         \A n \in T : F[n].status = n.status
  PROVE  SomaPorStatus(cont, D) = PorStatus(S)
<1>1. ASSUME NEW s \in NotaStatus
      PROVE  Total(cont, {d \in D : d.status = s}) = Cardinality({n \in S : n.status = s})
  <2>1. Total(cont, {d \in D : d.status = s}) = Cardinality({n \in T : F[n] \in {d \in D : d.status = s}})
    BY TotalConta
  <2>2. {n \in T : F[n] \in {d \in D : d.status = s}} = {n \in S : n.status = s}
    OBVIOUS
  <2> QED
    BY <2>1, <2>2
<1> QED
  BY <1>1 DEF SomaPorStatus, PorStatus

LEMMA LinhaDims ==
  ASSUME NEW n \in Linha
  PROVE  /\ PorNota[n].doc = n.doc /\ PorNota[n].status = n.status
         /\ PorEmpresa[n].doc = n.doc /\ PorEmpresa[n].status = n.status
         /\ PorEmpresa[n].dir = n.dir /\ Grupo(PorEmpresa[n]) = Grupo(n)
BY DEF PorNota, PorEmpresa, DimNota, DimEmpresa, Grupo

\* A row is that of its nota.
LEMMA LinhaPropria ==
  ASSUME PainelInv, NEW n \in Tabela
  PROVE  n.chave \in DOMAIN notas /\ notas[n.chave] = n
BY DEF PainelInv, Linhas, Espelha, Tabela

LEMMA TiposIguais ==
  ASSUME PainelInv
  PROVE  DocTypes(notas_counts) =
           [d \in DOMAIN DocTypes(notas_counts) |-> Cardinality({n \in Tabela : n.doc = d})]
<1> DEFINE docs == {d.doc : d \in DOMAIN notas_counts}
           D(doc) == {d \in DOMAIN notas_counts : d.doc = doc}
<1>0. Tabela \subseteq Linha /\ IsFiniteSet(Tabela) /\ Conta(notas_counts, Tabela, PorNota)
  BY TabelaTipo DEF PainelInv, Contadores
<1>1. ASSUME NEW doc \in docs
      PROVE  Total(notas_counts, D(doc)) = Cardinality({n \in Tabela : n.doc = doc})
  <2>1. Total(notas_counts, D(doc)) = Cardinality({n \in Tabela : PorNota[n] \in D(doc)})
    BY <1>0, TotalConta
  <2>2. \A n \in Tabela : PorNota[n] \in D(doc) <=> n.doc = doc
    BY <1>0, LinhaDims DEF Conta
  <2>3. {n \in Tabela : PorNota[n] \in D(doc)} = {n \in Tabela : n.doc = doc}
    BY <2>2
  <2> QED
    BY <2>1, <2>3
<1>2. DocTypes(notas_counts) = [doc \in docs |-> Total(notas_counts, D(doc))]
  BY DEF DocTypes
<1>3. DocTypes(notas_counts) = [doc \in docs |-> Cardinality({n \in Tabela : n.doc = doc})]
  BY <1>1, <1>2
<1> HIDE DEF docs
<1> QED
  BY <1>3

\* The two windows keep the same rows.
LEMMA Janela ==
  ASSUME PainelInv, NEW f \in Questao, ~NaBorda(f), NEW n \in Tabela
  PROVE  inDateWindow(n, f) <=> entreDatas(n, f)
<1>0. n \in Linha
  BY TabelaTipo DEF PainelInv
<1>1. n.emissao \in Nat /\ n.arrived \in Instante /\ n.synced \in Instante /\ n.imported \in Instante
      /\ f.de \in Nat /\ f.ate \in Nat
  BY <1>0 DEF Linha, Questao
<1> SUFFICES ASSUME windowed(f) PROVE inDateWindow(n, f) <=> entreDatas(n, f)
  BY DEF inDateWindow, entreDatas
<1> DEFINE d == notaDate(n, f.campo)
           v == Coluna(n, f.campo)
<1>2. CASE f.campo = "emissao"
  <2>1. d = n.emissao /\ v = PorDia * n.emissao
    BY <1>1, <1>2 DEF notaDate, Coluna, MeiaNoite, PorDia
  <2> QED
    BY <1>1, <2>1 DEF inDateWindow, entreDatas, MeiaNoite, PorDia, Never
<1>3. CASE f.campo \in {"arrived", "synced", "imported"}
  <2>1. v \in Instante /\ d = Dia(v)
    BY <1>1, <1>3 DEF notaDate, Coluna
  <2>2. f.ate # 0 /\ d = f.ate => v <= MeiaNoite(f.ate)
    <3>1. f.ate # 0 /\ d = f.ate => ~(v > MeiaNoite(f.ate))
      BY <1>3 DEF NaBorda
    <3> QED
      BY <1>1, <2>1, <3>1 DEF Instante, MeiaNoite, PorDia
  <2>3. d \in Nat /\ 2 * d <= v /\ v < 2 * d + 2 /\ (d = 0 <=> v = 0) /\ v \in Nat
    <3> HIDE DEF d, v
    <3>1. v \in Nat
      BY <2>1 DEF Instante
    <3>2. Dia(v) \in Nat /\ PorDia * Dia(v) <= v /\ v < PorDia * Dia(v) + PorDia
          /\ (Dia(v) = 0 <=> v = Never)
      BY <2>1, <3>1, Dias
    <3> QED
      BY <2>1, <3>1, <3>2 DEF PorDia, Never
  <2> HIDE DEF d, v
  <2>4. (f.de # 0 => d >= f.de) <=> (f.de # 0 => v >= MeiaNoite(f.de))
    BY <1>1, <2>3 DEF MeiaNoite, PorDia
  <2>5. (f.ate # 0 => d <= f.ate) <=> (f.ate # 0 => v <= MeiaNoite(f.ate))
    BY <1>1, <2>2, <2>3 DEF MeiaNoite, PorDia
  <2> QED
    BY <2>3, <2>4, <2>5 DEF inDateWindow, entreDatas, Never, d, v
<1> QED
  BY <1>2, <1>3 DEF windowed, dateColumn

LEMMA OverviewIgual ==
  ASSUME PainelInv, NEW f \in Questao, ~NaBorda(f)
  PROVE  OverviewPostgres(Tabela, notas_counts, f, agora) = OverviewMemoria(Tabela, f, agora)
<1> DEFINE S == {n \in Tabela : overviewMatches(n, f)}
           D == {d \in DOMAIN notas_counts : doTipo(d, f)}
<1>0. Tabela \subseteq Linha /\ IsFiniteSet(Tabela) /\ Conta(notas_counts, Tabela, PorNota)
  BY TabelaTipo DEF PainelInv, Contadores
<1>1. CASE live(f)
  <2>1. {n \in Tabela : overviewWhere(n, f)} = S
    BY Janela DEF overviewWhere, overviewMatches
  <2> HIDE DEF S
  <2> QED
    BY <1>1, <2>1 DEF OverviewPostgres, OverviewMemoria, S
<1>2. CASE ~live(f)
  <2>1. \A n \in Tabela : PorNota[n] \in D <=> overviewMatches(n, f)
    BY <1>0, <1>2, LinhaDims DEF Conta, live, overviewMatches, inDateWindow, daEmpresa, doTipo, Filtra
  <2>2. S = {n \in Tabela : PorNota[n] \in D}
    BY <2>1
  <2>3. \A n \in Tabela : PorNota[n].status = n.status
    BY <1>0, LinhaDims
  <2>4. D \subseteq DOMAIN notas_counts
    OBVIOUS
  <2>5. SomaPorStatus(notas_counts, D) = PorStatus(S)
    <3> HIDE DEF S, D
    <3> QED
      BY <1>0, <2>2, <2>3, <2>4, StatusConta
  <2> HIDE DEF S, D
  <2> QED
    BY <1>2, <2>5 DEF OverviewPostgres, OverviewMemoria, S, D
<1> QED
  BY <1>1, <1>2

\* What StoresAgree asks of the two answers about companies.
MesmasEmpresas(pg, mem) ==
  /\ \A k \in DOMAIN mem : k \in DOMAIN pg /\ pg[k] = mem[k]
  /\ \A k \in DOMAIN pg \ DOMAIN mem : pg[k] = Zero

LEMMA EmpresasIguais ==
  ASSUME PainelInv, NEW f \in Questao, ~NaBorda(f)
  PROVE  MesmasEmpresas(EmpresasPostgres(Tabela, empresa_counts, f), EmpresasMemoria(Tabela, f))
<1> DEFINE S == {n \in Tabela : inDateWindow(n, f) /\ doTipo(n, f) /\ daDirecao(n, f)}
           D == {d \in DOMAIN empresa_counts : doTipo(d, f) /\ daDirecao(d, f)}
           pg0 == empresasCounterQuery(empresa_counts, f)
           mem0 == Agrupa(S)
<1>0. Tabela \subseteq Linha /\ IsFiniteSet(Tabela) /\ Conta(empresa_counts, Tabela, PorEmpresa)
  BY TabelaTipo DEF PainelInv, Contadores
<1>1. CASE windowed(f)
  <2>1. {n \in Tabela : entreDatas(n, f) /\ doTipo(n, f) /\ daDirecao(n, f)} = S
    BY Janela
  <2> HIDE DEF S
  <2>2. EmpresasPostgres(Tabela, empresa_counts, f) = EmpresasMemoria(Tabela, f)
    BY <1>1, <2>1 DEF EmpresasPostgres, EmpresasMemoria, empresasFilteredQuery, S
  <2> QED
    BY <2>2 DEF MesmasEmpresas
<1>2. CASE ~windowed(f)
  <2>1. \A n \in Tabela : PorEmpresa[n] \in D <=> n \in S
    BY <1>0, <1>2, LinhaDims DEF Conta, inDateWindow, doTipo, daDirecao, Filtra
  <2>2. ASSUME NEW k
        PROVE  SomaPorStatus(empresa_counts, {d \in D : Grupo(d) = k}) = PorStatus({n \in S : Grupo(n) = k})
    <3> DEFINE Dk == {d \in D : Grupo(d) = k}
               Sk == {n \in S : Grupo(n) = k}
    <3>1. \A n \in Tabela : Grupo(PorEmpresa[n]) = Grupo(n) /\ PorEmpresa[n].status = n.status
      BY <1>0, LinhaDims
    <3>2. Sk = {n \in Tabela : PorEmpresa[n] \in Dk}
      <4>1. S \subseteq Tabela
        OBVIOUS
      <4> HIDE DEF S, D
      <4> QED
        BY <2>1, <3>1, <4>1
    <3>3. Dk \subseteq DOMAIN empresa_counts
      OBVIOUS
    <3> HIDE DEF Dk, Sk
    <3> QED
      BY <1>0, <3>1, <3>2, <3>3, StatusConta DEF Dk, Sk
  <2>3. /\ pg0 = [k \in {Grupo(d) : d \in D} |-> SomaPorStatus(empresa_counts, {d \in D : Grupo(d) = k})]
        /\ mem0 = [k \in {Grupo(n) : n \in S} |-> PorStatus({n \in S : Grupo(n) = k})]
    BY DEF empresasCounterQuery, Agrupa
  <2>4. DOMAIN mem0 \subseteq DOMAIN pg0
    <3>1. \A n \in S : n \in Tabela /\ PorEmpresa[n] \in D /\ Grupo(PorEmpresa[n]) = Grupo(n)
      BY <1>0, <2>1, LinhaDims
    <3> HIDE DEF S, D, pg0, mem0
    <3> QED
      BY <2>3, <3>1
  <2>5. \A k \in DOMAIN pg0 : pg0[k] = PorStatus({n \in S : Grupo(n) = k})
    <3> HIDE DEF S, D
    <3> QED
      BY <2>2, <2>3
  <2>6. \A k \in DOMAIN mem0 : mem0[k] = pg0[k]
    <3> HIDE DEF S, D
    <3> QED
      BY <2>3, <2>4, <2>5
  <2>7. \A k \in DOMAIN pg0 \ DOMAIN mem0 : pg0[k] = Zero
    <3> SUFFICES ASSUME NEW k \in DOMAIN pg0 \ DOMAIN mem0 PROVE pg0[k] = Zero
      OBVIOUS
    <3>1. {n \in S : Grupo(n) = k} = {}
      BY <2>3
    <3>2. PorStatus({}) = Zero
      BY FS_EmptySet DEF PorStatus, Zero
    <3> QED
      BY <2>5, <3>1, <3>2
  <2>8. /\ EmpresasPostgres(Tabela, empresa_counts, f) = SoPendentes(pg0, f)
        /\ EmpresasMemoria(Tabela, f) = SoPendentes(mem0, f)
    BY <1>2 DEF EmpresasPostgres, EmpresasMemoria
  <2> HIDE DEF pg0, mem0, S, D
  <2> QED
    BY <2>4, <2>6, <2>7, <2>8 DEF SoPendentes, MesmasEmpresas
<1> QED
  BY <1>1, <1>2

\* A map that keeps rows apart keeps their number.
LEMMA MesmoNumero ==
  ASSUME NEW T, IsFiniteSet(T), NEW g, \A n, m \in T : g[n] = g[m] => n = m,
         NEW A, A \subseteq T, NEW B, B \subseteq {g[n] : n \in T},
         \A n \in T : n \in A <=> g[n] \in B
  PROVE  Cardinality(B) = Cardinality(A)
<1> DEFINE h == [n \in A |-> g[n]]
<1>1. IsFiniteSet(A)
  BY FS_Subset
<1>2. h \in Bijection(A, B)
  BY DEF Bijection, Injection, Surjection, IsInjective
<1> QED
  BY <1>1, <1>2, FS_Bijection DEF ExistsBijection

Corte(t, f) == IF t >= agora - (f.dias + 7) * PorDia THEN t ELSE Never
Cortada(n, f) ==
  [n EXCEPT !.arrived = Corte(@, f), !.synced = Corte(@, f), !.imported = Corte(@, f)]

\* An instant of the spine is not cut, and one that is cut is not of the spine.
LEMMA CorteFora ==
  ASSUME PainelInv, NEW f \in Questao, NEW b \in Espinha(f, agora), NEW t \in Instante
  PROVE  (Corte(t, f) # Never /\ bucketStart(Dia(Corte(t, f)), f) = b)
           <=> (t # Never /\ bucketStart(Dia(t), f) = b)
<1>1. agora \in Nat /\ t \in Nat /\ f.dias \in Nat
  BY TempoAssumption DEF PainelInv, PainelTipo, Instante, Questao, PorDia
<1>2. ASSUME t # Never, bucketStart(Dia(t), f) = b PROVE Corte(t, f) = t
  <2> DEFINE x == Dia(agora) - (f.dias - 1)
  <2>1. b >= bucketStart(x, f)
    BY <1>1, Dias DEF Espinha, bucketStart
  <2>2. x \in Int /\ bucketStart(x, f) >= x - 6
    <3>1. Dia(agora) \in Nat
      BY <1>1, Dias
    <3>2. x \in Int
      BY <1>1, <3>1
    <3> HIDE DEF x
    <3> QED
      BY <3>2 DEF bucketStart
  <2>3. Dia(t) \in Nat /\ bucketStart(Dia(t), f) <= Dia(t)
    <3>1. Dia(t) \in Nat
      BY <1>1, Dias
    <3> QED
      BY <3>1 DEF bucketStart
  <2>4. Dia(t) >= x - 6
    <3>1. bucketStart(x, f) \in Int /\ b \in Int
      <4> HIDE DEF x
      <4> QED
        BY <1>2, <2>2, <2>3 DEF bucketStart
    <3> HIDE DEF x
    <3> QED
      BY <1>2, <2>1, <2>2, <2>3, <3>1
  <2>5. PorDia * Dia(t) <= t /\ agora < PorDia * Dia(agora) + PorDia /\ Dia(agora) \in Nat
    BY <1>1, Dias
  <2>6. t >= agora - (f.dias + 7) * PorDia
    BY <1>1, <2>3, <2>4, <2>5 DEF PorDia
  <2> QED
    BY <2>6 DEF Corte
<1> QED
  BY <1>2 DEF Corte

LEMMA TimeseriesIguais ==
  ASSUME PainelInv, NEW f \in Questao
  PROVE  TimeseriesPostgres(Tabela, f, agora) = TimeseriesMemoria(Tabela, f, agora)
<1> DEFINE U == {Cortada(n, f) : n \in Tabela}
           g == [n \in Tabela |-> Cortada(n, f)]
<1>0. Tabela \subseteq Linha /\ IsFiniteSet(Tabela)
  BY TabelaTipo DEF PainelInv
<1>1. \A n, m \in Tabela : g[n] = g[m] => n = m
  <2> SUFFICES ASSUME NEW n \in Tabela, NEW m \in Tabela, Cortada(n, f) = Cortada(m, f)
               PROVE  n = m
    OBVIOUS
  <2>1. Cortada(n, f).chave = n.chave /\ Cortada(m, f).chave = m.chave
    BY <1>0 DEF Cortada, Linha
  <2>2. n.chave = m.chave
    BY <2>1
  <2> QED
    BY <2>2, LinhaPropria
<1>2. \A n \in Tabela :
        /\ Cortada(n, f).arrived = Corte(n.arrived, f) /\ n.arrived \in Instante
        /\ Cortada(n, f).synced = Corte(n.synced, f) /\ n.synced \in Instante
        /\ Cortada(n, f).imported = Corte(n.imported, f) /\ n.imported \in Instante
  BY <1>0 DEF Cortada, Linha
<1>3. ASSUME NEW b \in Espinha(f, agora) PROVE Balde(U, f, b) = Balde(Tabela, f, b)
  <2> DEFINE no(t) == t # Never /\ bucketStart(Dia(t), f) = b
  <2>1. \A t \in Instante : no(Corte(t, f)) <=> no(t)
    BY <1>3, CorteFora
  <2> HIDE DEF no
  <2>2. U = {g[n] : n \in Tabela}
    OBVIOUS
  <2>6. \A n \in Tabela : g[n] = Cortada(n, f)
    OBVIOUS
  <2> HIDE DEF g, U
  <2>3. Cardinality({n \in U : no(n.arrived)}) = Cardinality({n \in Tabela : no(n.arrived)})
    BY <1>0, <1>1, <1>2, <2>1, <2>2, <2>6, MesmoNumero
  <2>4. Cardinality({n \in U : no(n.synced)}) = Cardinality({n \in Tabela : no(n.synced)})
    BY <1>0, <1>1, <1>2, <2>1, <2>2, <2>6, MesmoNumero
  <2>5. Cardinality({n \in U : no(n.imported)}) = Cardinality({n \in Tabela : no(n.imported)})
    BY <1>0, <1>1, <1>2, <2>1, <2>2, <2>6, MesmoNumero
  <2> QED
    BY <2>3, <2>4, <2>5 DEF Balde, no
<1>4. TimeseriesPostgres(Tabela, f, agora) = [b \in Espinha(f, agora) |-> Balde(U, f, b)]
  BY DEF TimeseriesPostgres, Cortada, Corte
<1> HIDE DEF U
<1> QED
  BY <1>3, <1>4 DEF TimeseriesMemoria

\* The nota of a row, as Memory derives it.
Gemea(n) == NotaMemoria(n.chave)

LEMMA Gemeas ==
  ASSUME PainelInv
  PROVE  /\ TabelaMemoria = {Gemea(n) : n \in Tabela}
         /\ \A n \in Tabela :
              /\ Gemea(n).chave = n.chave /\ Gemea(n).doc = n.doc /\ Gemea(n).status = n.status
              /\ Gemea(n).arrived = n.arrived /\ Gemea(n).synced = n.synced
              /\ Gemea(n).pending = n.pending /\ Gemea(n).imported = n.imported
              /\ Gemea(n).emissao = n.emissao
<1>1. ASSUME NEW c \in DOMAIN notas
      PROVE  /\ notas[c].chave = c /\ Espelha(notas[c], c, ToSet(observations[c]))
             /\ Espelha(NotaMemoria(c), c, ToSet(observations[c]))
  <2>1. c \in Nota /\ observations[c] # <<>> /\ Espelha(notas[c], c, ToSet(observations[c]))
    BY DEF PainelInv, Linhas
  <2>2. observations[c] \in Seq(Datadas)
    BY <2>1 DEF PainelInv, PainelTipo
  <2>3. Espelha(NotaMemoria(c), c, ToSet(observations[c]))
    BY <2>1, <2>2, DerivadaEspelha DEF NotaMemoria
  <2> QED
    BY <2>1, <2>3 DEF Espelha
<1>2. TabelaMemoria = {NotaMemoria(c) : c \in DOMAIN notas}
  BY DEF TabelaMemoria, PainelInv, Linhas
<1>3. TabelaMemoria = {Gemea(n) : n \in Tabela}
  <2>1. \A c \in DOMAIN notas : Gemea(notas[c]) = NotaMemoria(c)
    BY <1>1 DEF Gemea
  <2> QED
    BY <1>2, <2>1 DEF Tabela
<1>4. ASSUME NEW n \in Tabela
      PROVE  Espelha(n, n.chave, ToSet(observations[n.chave]))
             /\ Espelha(Gemea(n), n.chave, ToSet(observations[n.chave]))
  BY <1>1, LinhaPropria DEF Gemea
<1> QED
  BY <1>3, <1>4 DEF Espelha

\* Without a tie, what the latest that name something name is one thing.
LEMMA UltimaUnica ==
  ASSUME NEW S \in SUBSET Observation, NEW V, NEW x, NEW y, Ultima(S, V, x), Ultima(S, V, y),
         \A o, u \in S : /\ V[o] # Nulo /\ \A v \in S : V[v] # Nulo => v.at <= o.at
                         /\ V[u] # Nulo /\ \A v \in S : V[v] # Nulo => v.at <= u.at
                         => V[o] = V[u]
  PROVE  x = y
BY DEF Ultima

LEMMA SemEmpate ==
  ASSUME PainelInv, NEW n \in Tabela, ~Empate(n.chave)
  PROVE  Gemea(n).emp = n.emp /\ Gemea(n).fil = n.fil
<1> DEFINE c == n.chave
           S == ToSet(observations[c])
<1>1. c \in Nota /\ observations[c] # <<>> /\ observations[c] \in Seq(Datadas)
      /\ Espelha(n, c, S)
  BY LinhaPropria DEF PainelInv, PainelTipo, Linhas
<1>2. Espelha(Gemea(n), c, S)
  BY <1>1, DerivadaEspelha DEF Gemea, NotaMemoria
<1>3. S \in SUBSET Observation
  BY <1>1, DatadasSao
<1>4. /\ Ultima(S, NomeiaEmpresa, n.emp) /\ Ultima(S, NomeiaEmpresa, Gemea(n).emp)
      /\ Ultima(S, NomeiaFilial, n.fil) /\ Ultima(S, NomeiaFilial, Gemea(n).fil)
  BY <1>1, <1>2 DEF Espelha
<1>5. \A o \in S : NomeiaEmpresa[o] = o.emp /\ NomeiaFilial[o] = o.fil
  BY <1>3 DEF NomeiaEmpresa, NomeiaFilial
<1>6. /\ \A o, u \in {x \in S : x.emp # Nulo} :
           (\A v \in {x \in S : x.emp # Nulo} : v.at <= o.at /\ v.at <= u.at) => o.emp = u.emp
      /\ \A o, u \in {x \in S : x.fil # Nulo} :
           (\A v \in {x \in S : x.fil # Nulo} : v.at <= o.at /\ v.at <= u.at) => o.fil = u.fil
  BY DEF Empate
<1> HIDE DEF c, S
<1>7. Gemea(n).emp = n.emp
  BY <1>3, <1>4, <1>5, <1>6, UltimaUnica
<1>8. Gemea(n).fil = n.fil
  BY <1>3, <1>4, <1>5, <1>6, UltimaUnica
<1> QED
  BY <1>7, <1>8

\* Rows and derived notas that go together are as many.
LEMMA Contagem ==
  ASSUME PainelInv, NEW A, A \subseteq Tabela, NEW B, B \subseteq TabelaMemoria,
         \A n \in Tabela : n \in A <=> Gemea(n) \in B
  PROVE  Cardinality(B) = Cardinality(A)
<1> DEFINE g == [n \in Tabela |-> Gemea(n)]
<1>1. \A n, m \in Tabela : g[n] = g[m] => n = m
  BY Gemeas, LinhaPropria
<1>2. \A n \in Tabela : g[n] = Gemea(n)
  OBVIOUS
<1> HIDE DEF g
<1>3. B \subseteq {g[n] : n \in Tabela}
  BY <1>2, Gemeas
<1>4. IsFiniteSet(Tabela)
  BY TabelaTipo DEF PainelInv
<1> QED
  BY <1>1, <1>2, <1>3, <1>4, MesmoNumero

\* The same of the counts by status of some of them.
LEMMA StatusGemeo ==
  ASSUME PainelInv, NEW A, A \subseteq Tabela, NEW B, B \subseteq TabelaMemoria,
         \A n \in Tabela : n \in A <=> Gemea(n) \in B
  PROVE  PorStatus(B) = PorStatus(A)
<1>1. ASSUME NEW s \in NotaStatus
      PROVE  Cardinality({n \in B : n.status = s}) = Cardinality({n \in A : n.status = s})
  <2>1. \A n \in Tabela : n \in {m \in A : m.status = s} <=> Gemea(n) \in {m \in B : m.status = s}
    BY Gemeas
  <2> QED
    BY <2>1, Contagem
<1> QED
  BY <1>1 DEF PorStatus

LEMMA JanelaGemea ==
  ASSUME PainelInv, NEW f \in Questao, NEW n \in Tabela
  PROVE  inDateWindow(Gemea(n), f) <=> inDateWindow(n, f)
<1>1. windowed(f) => notaDate(Gemea(n), f.campo) = notaDate(n, f.campo)
  BY Gemeas DEF windowed, dateColumn, notaDate
<1> QED
  BY <1>1 DEF inDateWindow

LEMMA OverviewGemeo ==
  ASSUME PainelInv, NEW f \in Questao, f.rota = "overview", ~Diverge(f)
  PROVE  OverviewMemoria(TabelaMemoria, f, agora) = OverviewMemoria(Tabela, f, agora)
<1>1. ASSUME NEW n \in Tabela PROVE overviewMatches(n, f) <=> overviewMatches(Gemea(n), f)
  <2>1. f.emp # Nulo \/ f.fil # Nulo => ~Empate(n.chave)
    BY LinhaPropria DEF Diverge, LeEmpresa
  <2>2. daEmpresa(n, f) <=> daEmpresa(Gemea(n), f)
    BY <2>1, SemEmpate DEF daEmpresa, Filtra
  <2> QED
    BY <2>2, JanelaGemea, Gemeas DEF overviewMatches, doTipo
<1>2. PorStatus({n \in TabelaMemoria : overviewMatches(n, f)}) = PorStatus({n \in Tabela : overviewMatches(n, f)})
  <2>1. \A n \in Tabela : n \in {m \in Tabela : overviewMatches(m, f)}
                            <=> Gemea(n) \in {m \in TabelaMemoria : overviewMatches(m, f)}
    BY <1>1, Gemeas
  <2> QED
    BY <2>1, StatusGemeo
<1>3. importedToday(TabelaMemoria, agora) = importedToday(Tabela, agora)
  <2> DEFINE hoje(m) == m.imported # Never /\ Dia(m.imported) = Dia(agora)
  <2>1. \A n \in Tabela : n \in {m \in Tabela : hoje(m)} <=> Gemea(n) \in {m \in TabelaMemoria : hoje(m)}
    BY Gemeas
  <2>2. Cardinality({m \in TabelaMemoria : hoje(m)}) = Cardinality({m \in Tabela : hoje(m)})
    BY <2>1, Contagem
  <2> QED
    BY <2>2 DEF importedToday
<1> QED
  BY <1>2, <1>3 DEF OverviewMemoria

LEMMA EmpresasGemeas ==
  ASSUME PainelInv, NEW f \in Questao, f.rota = "empresas", ~Diverge(f)
  PROVE  EmpresasMemoria(TabelaMemoria, f) = EmpresasMemoria(Tabela, f)
<1> DEFINE escolhe(n) == inDateWindow(n, f) /\ doTipo(n, f) /\ daDirecao(n, f)
           A == {n \in Tabela : escolhe(n)}
           B == {n \in TabelaMemoria : escolhe(n)}
<1>1. ASSUME NEW n \in Tabela
      PROVE  /\ Gemea(n) \in TabelaMemoria
             /\ escolhe(n) <=> escolhe(Gemea(n))
             /\ Grupo(Gemea(n)) = Grupo(n)
  <2>1. n.chave \in DOMAIN notas /\ notas[n.chave] = n
    BY LinhaPropria
  <2>2. f.dir # "" => Gemea(n).dir = n.dir
    BY <2>1 DEF Diverge, LeDirecao, Gemea
  <2>3. ~Empate(n.chave)
    BY <2>1 DEF Diverge, LeEmpresa
  <2>4. Gemea(n).emp = n.emp /\ Gemea(n).fil = n.fil
    BY <2>3, SemEmpate
  <2>5. daDirecao(n, f) <=> daDirecao(Gemea(n), f)
    BY <2>2 DEF daDirecao, Filtra
  <2>6. doTipo(n, f) <=> doTipo(Gemea(n), f)
    BY Gemeas DEF doTipo
  <2>7. Grupo(Gemea(n)) = Grupo(n)
    BY <2>4 DEF Grupo, DimEmpresa
  <2> QED
    BY <2>5, <2>6, <2>7, JanelaGemea, Gemeas
<1>2. TabelaMemoria = {Gemea(n) : n \in Tabela}
  BY Gemeas
<1> HIDE DEF escolhe
<1>3. ASSUME NEW k PROVE PorStatus({n \in B : Grupo(n) = k}) = PorStatus({n \in A : Grupo(n) = k})
  <2>1. \A n \in Tabela : n \in {m \in A : Grupo(m) = k} <=> Gemea(n) \in {m \in B : Grupo(m) = k}
    BY <1>1
  <2>2. {m \in A : Grupo(m) = k} \subseteq Tabela /\ {m \in B : Grupo(m) = k} \subseteq TabelaMemoria
    OBVIOUS
  <2> HIDE DEF A, B
  <2> QED
    BY <2>1, <2>2, StatusGemeo
<1>4. {Grupo(n) : n \in B} = {Grupo(n) : n \in A}
  BY <1>1, <1>2
<1>5. Agrupa(B) = Agrupa(A)
  <2> HIDE DEF A, B
  <2> QED
    BY <1>3, <1>4 DEF Agrupa
<1> QED
  BY <1>5 DEF EmpresasMemoria, escolhe

LEMMA TimeseriesGemea ==
  ASSUME PainelInv, NEW f
  PROVE  TimeseriesMemoria(TabelaMemoria, f, agora) = TimeseriesMemoria(Tabela, f, agora)
<1>1. ASSUME NEW b PROVE Balde(TabelaMemoria, f, b) = Balde(Tabela, f, b)
  <2> DEFINE no(t) == t # Never /\ bucketStart(Dia(t), f) = b
  <2> HIDE DEF no
  <2>1. Cardinality({n \in TabelaMemoria : no(n.arrived)}) = Cardinality({n \in Tabela : no(n.arrived)})
    <3>1. \A n \in Tabela : n \in {m \in Tabela : no(m.arrived)} <=> Gemea(n) \in {m \in TabelaMemoria : no(m.arrived)}
      BY Gemeas
    <3> QED
      BY <3>1, Contagem
  <2>2. Cardinality({n \in TabelaMemoria : no(n.synced)}) = Cardinality({n \in Tabela : no(n.synced)})
    <3>1. \A n \in Tabela : n \in {m \in Tabela : no(m.synced)} <=> Gemea(n) \in {m \in TabelaMemoria : no(m.synced)}
      BY Gemeas
    <3> QED
      BY <3>1, Contagem
  <2>3. Cardinality({n \in TabelaMemoria : no(n.imported)}) = Cardinality({n \in Tabela : no(n.imported)})
    <3>1. \A n \in Tabela : n \in {m \in Tabela : no(m.imported)} <=> Gemea(n) \in {m \in TabelaMemoria : no(m.imported)}
      BY Gemeas
    <3> QED
      BY <3>1, Contagem
  <2> QED
    BY <2>1, <2>2, <2>3 DEF Balde, no
<1> QED
  BY <1>1 DEF TimeseriesMemoria

LEMMA LatencyGemea ==
  ASSUME PainelInv, NEW f
  PROVE  Latency(TabelaMemoria, f, agora) = Latency(Tabela, f, agora)
<1> DEFINE desde == MeiaNoite(Dia(agora) - f.dias)
           sinc(n) == n.synced # Never /\ n.synced >= desde /\ n.arrived # Never /\ n.synced >= n.arrived
           impo(n) == n.imported # Never /\ n.imported >= desde /\ n.synced # Never
           dd(n) == Dia(n.imported) - Dia(n.synced)
           S(T) == {n \in T : sinc(n)}
           I(T) == {n \in T : impo(n)}
           dias(T) == {Dia(n.synced) : n \in S(T)}
<1>1. ASSUME NEW n \in Tabela
      PROVE  /\ Gemea(n) \in TabelaMemoria /\ Gemea(n).synced = n.synced /\ dd(Gemea(n)) = dd(n)
             /\ sinc(Gemea(n)) <=> sinc(n)
             /\ impo(Gemea(n)) <=> impo(n)
  BY Gemeas
<1>2. TabelaMemoria = {Gemea(n) : n \in Tabela}
  BY Gemeas
<1> HIDE DEF sinc, impo, dd
<1>3. dias(TabelaMemoria) = dias(Tabela)
  BY <1>1, <1>2
<1>4. ASSUME NEW d
      PROVE  Cardinality({n \in S(TabelaMemoria) : Dia(n.synced) = d})
               = Cardinality({n \in S(Tabela) : Dia(n.synced) = d})
  <2>1. \A n \in Tabela : n \in {m \in S(Tabela) : Dia(m.synced) = d}
                            <=> Gemea(n) \in {m \in S(TabelaMemoria) : Dia(m.synced) = d}
    BY <1>1
  <2> QED
    BY <2>1, Contagem
<1>5. Cardinality({n \in I(TabelaMemoria) : dd(n) <= 0}) = Cardinality({n \in I(Tabela) : dd(n) <= 0})
  <2>1. \A n \in Tabela : n \in {m \in I(Tabela) : dd(m) <= 0}
                            <=> Gemea(n) \in {m \in I(TabelaMemoria) : dd(m) <= 0}
    BY <1>1
  <2> QED
    BY <2>1, Contagem
<1>6. Cardinality({n \in I(TabelaMemoria) : dd(n) = 1}) = Cardinality({n \in I(Tabela) : dd(n) = 1})
  <2>1. \A n \in Tabela : n \in {m \in I(Tabela) : dd(m) = 1}
                            <=> Gemea(n) \in {m \in I(TabelaMemoria) : dd(m) = 1}
    BY <1>1
  <2> QED
    BY <2>1, Contagem
<1>7. Cardinality({n \in I(TabelaMemoria) : dd(n) >= 2}) = Cardinality({n \in I(Tabela) : dd(n) >= 2})
  <2>1. \A n \in Tabela : n \in {m \in I(Tabela) : dd(m) >= 2}
                            <=> Gemea(n) \in {m \in I(TabelaMemoria) : dd(m) >= 2}
    BY <1>1
  <2> QED
    BY <2>1, Contagem
<1>8. ASSUME NEW T
      PROVE  Latency(T, f, agora) =
               [daily |-> [d \in dias(T) |-> Cardinality({n \in S(T) : Dia(n.synced) = d})],
                same_day |-> Cardinality({n \in I(T) : dd(n) <= 0}),
                d1 |-> Cardinality({n \in I(T) : dd(n) = 1}),
                d2_plus |-> Cardinality({n \in I(T) : dd(n) >= 2})]
  BY DEF Latency, sinc, impo, dd
<1> DEFINE daily(T) == [d \in dias(T) |-> Cardinality({n \in S(T) : Dia(n.synced) = d})]
           same(T) == Cardinality({n \in I(T) : dd(n) <= 0})
           d1(T) == Cardinality({n \in I(T) : dd(n) = 1})
           d2(T) == Cardinality({n \in I(T) : dd(n) >= 2})
<1>9. daily(TabelaMemoria) = daily(Tabela)
  <2> HIDE DEF S, dias
  <2> QED
    BY <1>3, <1>4
<1>10. same(TabelaMemoria) = same(Tabela) /\ d1(TabelaMemoria) = d1(Tabela) /\ d2(TabelaMemoria) = d2(Tabela)
  BY <1>5, <1>6, <1>7
<1>11. ASSUME NEW T
       PROVE  Latency(T, f, agora) = [daily |-> daily(T), same_day |-> same(T), d1 |-> d1(T), d2_plus |-> d2(T)]
  BY <1>8
<1> HIDE DEF daily, same, d1, d2
<1> QED
  BY <1>9, <1>10, <1>11

LEMMA BacklogGemeo ==
  ASSUME PainelInv, NEW f, f.rota = "backlog-age", ~Diverge(f)
  PROVE  BacklogAge(TabelaMemoria, agora) = BacklogAge(Tabela, agora)
<1> DEFINE faixa(n) == BacklogBucketOf(Horas(agora, Coalesce(n.arrived, n.first)))
           aberta(n) == n.status \in {"arrived", "synced", "pending_import"}
           S(T) == {n \in T : aberta(n)}
<1>1. ASSUME NEW n \in Tabela
      PROVE  Gemea(n) \in TabelaMemoria /\ faixa(Gemea(n)) = faixa(n) /\ Gemea(n).status = n.status
  <2>1. n.arrived = Never => n.first = Gemea(n).first
    BY LinhaPropria DEF Diverge, Gemea
  <2>2. Coalesce(Gemea(n).arrived, Gemea(n).first) = Coalesce(n.arrived, n.first)
    BY <2>1, Gemeas DEF Coalesce
  <2> QED
    BY <2>2, Gemeas
<1> HIDE DEF faixa
<1>2. ASSUME NEW i
      PROVE  Cardinality({n \in S(TabelaMemoria) : faixa(n) = i}) = Cardinality({n \in S(Tabela) : faixa(n) = i})
  <2>1. \A n \in Tabela : n \in {m \in S(Tabela) : faixa(m) = i}
                            <=> Gemea(n) \in {m \in S(TabelaMemoria) : faixa(m) = i}
    BY <1>1
  <2> QED
    BY <2>1, Contagem
<1>3. ASSUME NEW T
      PROVE  BacklogAge(T, agora) = [i \in 0 .. 5 |-> Cardinality({n \in S(T) : faixa(n) = i})]
  BY DEF BacklogAge, faixa
<1> HIDE DEF S
<1> QED
  BY <1>2, <1>3

LEMMA TiposGemeos ==
  ASSUME PainelInv
  PROVE  DocTypes(notas_counts) =
           [d \in DOMAIN DocTypes(notas_counts) |-> Cardinality({n \in TabelaMemoria : n.doc = d})]
<1>1. ASSUME NEW d PROVE Cardinality({n \in TabelaMemoria : n.doc = d}) = Cardinality({n \in Tabela : n.doc = d})
  <2>1. \A n \in Tabela : n \in {m \in Tabela : m.doc = d} <=> Gemea(n) \in {m \in TabelaMemoria : m.doc = d}
    BY Gemeas
  <2> QED
    BY <2>1, Contagem
<1> QED
  BY <1>1, TiposIguais

LEMMA InvConcorda == PainelInv => StoresAgree
<1> SUFFICES ASSUME PainelInv PROVE StoresAgree
  OBVIOUS
<1>1. ASSUME NEW c \in DOMAIN notas
      PROVE  /\ notas[c].status = NotaMemoria(c).status /\ notas[c].arrived = NotaMemoria(c).arrived
             /\ notas[c].synced = NotaMemoria(c).synced /\ notas[c].pending = NotaMemoria(c).pending
             /\ notas[c].imported = NotaMemoria(c).imported /\ notas[c].emissao = NotaMemoria(c).emissao
  <2>1. notas[c] \in Tabela /\ Gemea(notas[c]) = NotaMemoria(c)
    BY DEF Tabela, Gemea, PainelInv, Linhas, Espelha
  <2> QED
    BY <2>1, Gemeas
<1>2. ASSUME NEW f \in Pergunta, ~NaBorda(f), ~Diverge(f) PROVE Concordam(f)
  <2>1. f \in Questao /\ f.rota \in Rota
    BY PerguntaAssumption DEF Questao
  <2>2. CASE f.rota = "overview"
    <3>1. Resposta(f) = OverviewPostgres(Tabela, notas_counts, f, agora)
          /\ RespostaMemoria(f) = OverviewMemoria(TabelaMemoria, f, agora)
      BY <2>2 DEF Resposta, RespostaMemoria
    <3> QED
      BY <1>2, <2>1, <2>2, <3>1, OverviewIgual, OverviewGemeo DEF Concordam
  <2>3. CASE f.rota = "empresas"
    <3>1. Resposta(f) = EmpresasPostgres(Tabela, empresa_counts, f)
          /\ RespostaMemoria(f) = EmpresasMemoria(TabelaMemoria, f)
      BY <2>3 DEF Resposta, RespostaMemoria
    <3> QED
      BY <1>2, <2>1, <2>3, <3>1, EmpresasIguais, EmpresasGemeas DEF Concordam, MesmasEmpresas
  <2>4. CASE f.rota = "timeseries"
    <3>1. Resposta(f) = TimeseriesPostgres(Tabela, f, agora)
          /\ RespostaMemoria(f) = TimeseriesMemoria(TabelaMemoria, f, agora)
      BY <2>4 DEF Resposta, RespostaMemoria
    <3> QED
      BY <2>1, <2>4, <3>1, TimeseriesIguais, TimeseriesGemea DEF Concordam
  <2>5. CASE f.rota = "latency"
    <3>1. Resposta(f) = Latency(Tabela, f, agora) /\ RespostaMemoria(f) = Latency(TabelaMemoria, f, agora)
      BY <2>5 DEF Resposta, RespostaMemoria
    <3> QED
      BY <2>5, <3>1, LatencyGemea DEF Concordam
  <2>6. CASE f.rota = "backlog-age"
    <3>1. Resposta(f) = BacklogAge(Tabela, agora) /\ RespostaMemoria(f) = BacklogAge(TabelaMemoria, agora)
      BY <2>6 DEF Resposta, RespostaMemoria
    <3> QED
      BY <1>2, <2>6, <3>1, BacklogGemeo DEF Concordam
  <2> QED
    BY <2>1, <2>2, <2>3, <2>4, <2>5, <2>6 DEF Rota
<1> QED
  BY <1>1, <1>2, TiposGemeos DEF StoresAgree

\* For any notas, observations, backfills and questions: what Postgres keeps and
\* counts at each observation gives the answer Memory derives from its own
\* observations of the notas, outside NaBorda and Diverge.
THEOREM StoresAgreeHolds == PainelSpec => []StoresAgree
<1>1. PainelSpec => []PainelInv
  BY PainelInvInit, PainelPasso, PTL DEF PainelSpec
<1> QED
  BY <1>1, InvConcorda, PTL
=============================================================================
