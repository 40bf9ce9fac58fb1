------------------------------- MODULE Cached -------------------------------
(***************************************************************************)
(* internal/store/cache.go: stale-while-revalidate over the heavy          *)
(* questions of the dashboard.  Readers (requests, and the warming at      *)
(* boot) and background refreshes share one item per key, each with its    *)
(* mutex, and one slot for queries.  A value is the version of the data    *)
(* its query began with.  The mutex of the map is held over no other step  *)
(* and is left out; an item nobody asked for yet is an empty one.          *)
(***************************************************************************)
EXTENDS Naturals, FiniteSets

CONSTANTS
  Filtro,      \* the questions
  CacheKey,    \* the key of each
  Leitor,      \* requests and Warm
  Fundo,       \* goroutines of refreshAsync (bound)
  Livre,       \* nobody holds it
  MaxVersao    \* changes of the data (bound)

Key == {CacheKey[f] : f \in Filtro}
Processo == Leitor \cup Fundo

ASSUME CacheKeyAssumption == DOMAIN CacheKey = Filtro
ASSUME ProcessoAssumption == Leitor \cap Fundo = {} /\ Livre \notin Processo
ASSUME VersaoAssumption == MaxVersao \in Nat

VARIABLES
  item,     \* per key: has, val, velho (past its TTL), refreshing
  trava,    \* who holds the mutex of the item
  vaga,     \* who holds the slot
  proc,     \* per process: pc, its question, the version read, whether it failed
  versao    \* version of the data

cacheVars == <<item, trava, vaga, proc, versao>>

Versao == 0 .. MaxVersao
Vazio == [has |-> FALSE, val |-> 0, velho |-> FALSE, refreshing |-> FALSE]
Parado == [pc |-> "idle", f |-> Livre, val |-> 0, erro |-> FALSE]

Init ==
  /\ item = [k \in Key |-> Vazio]
  /\ trava = [k \in Key |-> Livre]
  /\ vaga = Livre
  /\ proc = [p \in Processo |-> Parado]
  /\ versao = 0

K(p) == CacheKey[proc[p].f]
Vai(p, pc) == proc' = [proc EXCEPT ![p].pc = pc]
Volta(p) == proc' = [proc EXCEPT ![p] = Parado]
-----------------------------------------------------------------------------
(* get                                                                      *)

Pede(p, f) ==
  /\ proc[p].pc = "idle"
  /\ proc' = [proc EXCEPT ![p] = [Parado EXCEPT !.pc = "trava", !.f = f]]
  /\ UNCHANGED <<item, trava, vaga, versao>>

\* Mutant of ServeGuardado: whoever finds the value stale starts a refresh.
ServeGuardadoSemMarca(p) ==
  LET k == K(p) IN
  /\ proc[p].pc = "trava" /\ trava[k] = Livre /\ item[k].has
  /\ \/ ~item[k].velho /\ Volta(p)
     \/ /\ item[k].velho
        /\ \E g \in Fundo :
             /\ proc[g].pc = "idle"
             /\ proc' = [proc EXCEPT ![p] = Parado,
                                     ![g] = [Parado EXCEPT !.pc = "vaga", !.f = proc[p].f]]
  /\ item' = [item EXCEPT ![k].refreshing = item[k].velho]
  /\ UNCHANGED <<trava, vaga, versao>>

\* A value is served at once, fresh or stale; the first to find it stale starts
\* the refresh.  The mutex is taken and given back in between.
ServeGuardado(p) ==
  LET k == K(p) IN
  /\ proc[p].pc = "trava" /\ trava[k] = Livre /\ item[k].has
  /\ \/ /\ ~item[k].velho \/ item[k].refreshing
        /\ Volta(p)
        /\ UNCHANGED item
     \/ /\ item[k].velho /\ ~item[k].refreshing
        /\ \E g \in Fundo :
             /\ proc[g].pc = "idle"
             /\ proc' = [proc EXCEPT ![p] = Parado,
                                     ![g] = [Parado EXCEPT !.pc = "vaga", !.f = proc[p].f]]
        /\ item' = [item EXCEPT ![k].refreshing = TRUE]
  /\ UNCHANGED <<trava, vaga, versao>>

\* Mutant of ColdStart: the mutex is given back before the query.
ColdStartSemTrava(p) ==
  LET k == K(p) IN
  /\ proc[p].pc = "trava" /\ trava[k] = Livre /\ ~item[k].has
  /\ Vai(p, "vaga")
  /\ UNCHANGED <<item, trava, vaga, versao>>

\* The first computation of a key keeps the mutex, and the others wait for it.
ColdStart(p) ==
  LET k == K(p) IN
  /\ proc[p].pc = "trava" /\ trava[k] = Livre /\ ~item[k].has
  /\ trava' = [trava EXCEPT ![k] = p]
  /\ Vai(p, "vaga")
  /\ UNCHANGED <<item, vaga, versao>>
-----------------------------------------------------------------------------
(* computeDetached, of a reader or of a refresh                             *)

Adquire(p) ==
  /\ proc[p].pc = "vaga" /\ vaga = Livre
  /\ vaga' = p
  /\ proc' = [proc EXCEPT ![p].pc = "consulta", ![p].val = versao]
  /\ UNCHANGED <<item, trava, versao>>

\* Mutant of Responde: the slot comes back only with an answer.
RespondeSemDefer(p) ==
  /\ proc[p].pc = "consulta"
  /\ \E erro \in BOOLEAN :
       /\ vaga' = IF erro THEN vaga ELSE Livre
       /\ proc' = [proc EXCEPT ![p].pc = "guarda", ![p].erro = erro]
  /\ UNCHANGED <<item, trava, versao>>

\* The query answers, or fails: within 180 s it does one or the other.
Responde(p) ==
  /\ proc[p].pc = "consulta"
  /\ vaga' = Livre
  /\ \E erro \in BOOLEAN : proc' = [proc EXCEPT ![p].pc = "guarda", ![p].erro = erro]
  /\ UNCHANGED <<item, trava, versao>>

Atualizado(i, p) ==
  IF proc[p].erro THEN i ELSE [i EXCEPT !.has = TRUE, !.val = proc[p].val, !.velho = FALSE]

\* The reader of a cold start: an error is returned and not kept.
GuardaFrio(p) ==
  /\ p \in Leitor /\ proc[p].pc = "guarda"
  /\ item' = [item EXCEPT ![K(p)] = Atualizado(@, p)]
  /\ trava' = [trava EXCEPT ![K(p)] = Livre]
  /\ Volta(p)
  /\ UNCHANGED <<vaga, versao>>

\* Mutant of Refresca: the mark comes off only with an answer.
RefrescaSoComResposta(i, p) ==
  IF proc[p].erro THEN i ELSE [Atualizado(i, p) EXCEPT !.refreshing = FALSE]

Refresca(i, p) == [Atualizado(i, p) EXCEPT !.refreshing = FALSE]

\* The end of refreshAsync.
GuardaFundo(p) ==
  /\ p \in Fundo /\ proc[p].pc = "guarda" /\ trava[K(p)] = Livre
  /\ item' = [item EXCEPT ![K(p)] = Refresca(@, p)]
  /\ Volta(p)
  /\ UNCHANGED <<trava, vaga, versao>>
-----------------------------------------------------------------------------
Expira(k) ==
  /\ item[k].has /\ ~item[k].velho
  /\ item' = [item EXCEPT ![k].velho = TRUE]
  /\ UNCHANGED <<trava, vaga, proc, versao>>

DadosMudam ==
  /\ versao < MaxVersao
  /\ versao' = versao + 1
  /\ UNCHANGED <<item, trava, vaga, proc>>

Entra(p) == ServeGuardado(p) \/ ColdStart(p)
Termina(p) == Responde(p) \/ GuardaFrio(p)

\* All but the changes of the data.
Cache ==
  \/ \E p \in Leitor : Entra(p) \/ \E f \in Filtro : Pede(p, f)
  \/ \E p \in Processo : Adquire(p) \/ Termina(p) \/ GuardaFundo(p)
  \/ \E k \in Key : Expira(k)

Next == Cache \/ DadosMudam

Spec == Init /\ [][Next]_cacheVars

\* A query ends in its timeout; a mutex and a channel that many wait for are
\* handed over in turn by the Go runtime, hence SF.
Justica ==
  /\ \A p \in Leitor : SF_cacheVars(Entra(p))
  /\ \A p \in Processo : SF_cacheVars(Adquire(p)) /\ WF_cacheVars(Termina(p))
  /\ \A p \in Fundo : SF_cacheVars(GuardaFundo(p))
-----------------------------------------------------------------------------
PC == {"idle", "trava", "vaga", "consulta", "guarda"}
Ocupado(p) == proc[p].pc \in {"vaga", "consulta", "guarda"}

\* The slot belongs to the query that runs, and the mutex of a key to the
\* reader that computes it: neither is left behind.
TypeOK ==
  /\ item \in [Key -> [has : BOOLEAN, val : Versao, velho : BOOLEAN, refreshing : BOOLEAN]]
  /\ proc \in [Processo -> [pc : PC, f : Filtro \cup {Livre}, val : Versao, erro : BOOLEAN]]
  /\ trava \in [Key -> Leitor \cup {Livre}] /\ vaga \in Processo \cup {Livre} /\ versao \in Versao
  /\ \A p \in Processo : /\ proc[p].pc # "idle" => proc[p].f \in Filtro
                         /\ vaga = p <=> proc[p].pc = "consulta"
  /\ \A p \in Leitor, k \in Key : trava[k] = p <=> Ocupado(p) /\ K(p) = k

\* "uma so goroutine por chave": a key is refreshed by one goroutine, exactly
\* while it is marked; and once it has a value no reader waits for a query
\* ("sem nunca bloquear"), nobody holding its mutex through one.
ServesStale ==
  \A k \in Key :
    LET deK == {g \in Fundo : proc[g].pc # "idle" /\ K(g) = k} IN
    /\ item[k].refreshing <=> deK # {}
    /\ \A g, h \in deK : g = h
    /\ item[k].refreshing => item[k].has
    /\ item[k].has => trava[k] = Livre

\* A value is never lost to an error, nor replaced by the answer of a query
\* that began earlier; and a query begins only for a key that has no value, or
\* a stale one ("refreshs concorrentes esperam UMA computacao").
NeverBack ==
  [][/\ \A k \in Key : item[k].has => item'[k].has /\ item'[k].val >= item[k].val
     /\ \A p \in Processo :
          proc[p].pc = "vaga" /\ proc'[p].pc = "consulta" =>
            ~item[K(p)].has \/ item[K(p)].velho]_cacheVars

\* Whoever asks is answered, and no refresh stays marked for ever, however many
\* queries fail.
Answered ==
  /\ \A p \in Leitor : proc[p].pc # "idle" ~> proc[p].pc = "idle"
  /\ \A k \in Key : item[k].refreshing ~> ~item[k].refreshing
=============================================================================
