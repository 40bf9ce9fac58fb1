---------------------------- MODULE TrackerStore ----------------------------
(***************************************************************************)
(* internal/store/postgres.go: the transactions that change observations.  *)
(* Every one of them re-derives the notas it touched and materialises nota *)
(* and participations, and triggers keep a counter per status.  They run   *)
(* at READ COMMITTED, from several goroutines of the api and the poller    *)
(* and from the one-off commands: a statement sees what was committed when *)
(* it starts plus what its own transaction did, and waits for a row that   *)
(* another open transaction has changed.  One action is one statement; a   *)
(* statement that has to wait is not enabled.                              *)
(***************************************************************************)
EXTENDS NotaSpec, Integers, FiniteSets

CONSTANTS
  ChaveAcesso,   \* the notas
  Worker,        \* connections that run transactions
  Lotes,         \* the batches callers append: sets of rows
  Nenhuma        \* no row, or no chave

Row == [chave : ChaveAcesso, o : Observation]

\* What a row of notas keeps of the derived nota.
NotaRow == [status : NotaStatus, imported : {Never} \cup Tempo]

ASSUME LotesAssumption == Lotes \subseteq SUBSET Row
ASSUME ChaveAssumption == IsFiniteSet(ChaveAcesso)
ASSUME NenhumaAssumption == Nenhuma \notin ChaveAcesso \cup NotaRow

VARIABLES
  observations,   \* committed rows of observations
  notas,          \* committed rows of notas
  nota_empresa,   \* committed rows of nota_empresa, per chave
  counts,         \* committed rows of notas_counts, its other dimensions left out
  tx              \* the open transaction of each worker

vars == <<observations, notas, nota_empresa, counts, tx>>

\* notas and partes are the rows of notas and nota_empresa the transaction has
\* written and delta what it has added to the counters; it holds the locks of
\* these rows, and of the counters in locks, to its end.  alone is history: no
\* other transaction has been open beside this one.
Ocioso ==
  [pc |-> "idle", todo |-> {}, ins |-> {}, del |-> {}, affected |-> {},
   chave |-> Nenhuma,
   lida |-> [nota |-> NotaDe({}), partes |-> ParticipacoesDe({})],
   notas |-> [c \in ChaveAcesso |-> Nenhuma],
   partes |-> [c \in ChaveAcesso |-> ParticipacoesDe({})],
   delta |-> [s \in NotaStatus |-> 0], locks |-> {}, alone |-> FALSE]

Init ==
  /\ observations = {}
  /\ notas = [c \in ChaveAcesso |-> Nenhuma]
  /\ nota_empresa = [c \in ChaveAcesso |-> ParticipacoesDe({})]
  /\ counts = [s \in NotaStatus |-> 0]
  /\ tx = [w \in Worker |-> Ocioso]
-----------------------------------------------------------------------------
Others(w) == Worker \ {w}

\* The source of an observation follows from its event; hashes are left out.
DedupKey(x) == <<x.chave, x.o.event, x.o.emp, x.o.fil>>

\* What a statement of w sees.
Visible(w) == (observations \ tx[w].del) \cup tx[w].ins

Of(rows, c) == {x.o : x \in {y \in rows : y.chave = c}}

\* Rows w may change, or insert, without waiting.
Free(w, rows) ==
  \A v \in Others(w) : \A y \in tx[v].ins \cup tx[v].del, x \in rows :
    DedupKey(x) # DedupKey(y)

Wrote(w, c) == tx[w].notas[c] # Nenhuma

Begin(w, t) ==
  /\ tx[w].pc = "idle"
  /\ tx' = [v \in Worker |->
              IF v = w
                THEN [t EXCEPT !.alone = \A u \in Others(w) : tx[u].pc = "idle"]
                ELSE [tx[v] EXCEPT !.alone = FALSE]]
  /\ UNCHANGED <<observations, notas, nota_empresa, counts>>

Step(w, t) ==
  /\ tx' = [tx EXCEPT ![w] = t]
  /\ UNCHANGED <<observations, notas, nota_empresa, counts>>

AppendObservations(w, lote) ==
  Begin(w, [Ocioso EXCEPT !.pc = IF lote = {} THEN "recompute" ELSE "insert",
                          !.todo = lote])

\* ON CONFLICT (dedup_key) DO NOTHING.
Insert(w, x) ==
  /\ tx[w].pc = "insert" /\ x \in tx[w].todo
  /\ Free(w, {x})
  /\ LET known == \E y \in Visible(w) : DedupKey(y) = DedupKey(x) IN
     Step(w, [tx[w] EXCEPT
       !.todo = @ \ {x},
       !.ins = IF known THEN @ ELSE @ \cup {x},
       !.affected = IF known THEN @ ELSE @ \cup {x.chave},
       !.pc = IF tx[w].todo = {x} THEN "recompute" ELSE @])

\* Mutant of Ignoradas: every observation of the import stage.
IgnoradasSemEvento(c) == {x \in observations : x.chave = c /\ x.o.event \in ImportEvent}

Ignoradas(c) == {x \in observations : x.chave = c /\ x.o.event = "import_ignored"}

\* Mutant of DeleteImportIgnoredObs: nothing is recomputed.
DeleteWithoutRecompute(w, c) ==
  /\ Ignoradas(c) # {} /\ Free(w, Ignoradas(c))
  /\ Begin(w, [Ocioso EXCEPT !.pc = "recompute", !.del = Ignoradas(c)])

\* A correction that finds no row changes nothing and is not a step.
DeleteImportIgnoredObs(w, c) ==
  /\ Ignoradas(c) # {} /\ Free(w, Ignoradas(c))
  /\ Begin(w, [Ocioso EXCEPT !.pc = "recompute", !.affected = {c},
                             !.del = Ignoradas(c)])

ObservadaEm(x, t) == [x EXCEPT !.o.at = t]

Corrigidas(c, t) ==
  {x \in observations : x.chave = c /\ x.o.event = "imported" /\ x.o.at # t}

\* One time for every participation of the chave.
UpdateImportedObservedAt(w, c, t) ==
  /\ Corrigidas(c, t) # {} /\ Free(w, Corrigidas(c, t))
  /\ Begin(w, [Ocioso EXCEPT
       !.pc = "recompute", !.affected = {c}, !.del = Corrigidas(c, t),
       !.ins = {ObservadaEm(x, t) : x \in Corrigidas(c, t)}])
-----------------------------------------------------------------------------
(* recompute: load, upsert (with its trigger), replace the participations. *)

\* A chave without observations is left as it is.
SkipChave(w, c) ==
  /\ tx[w].pc = "recompute" /\ c \in tx[w].affected
  /\ Of(Visible(w), c) = {}
  /\ Step(w, [tx[w] EXCEPT !.affected = @ \ {c}])

\* The affected chaves come in the random order of a Go map.
LoadObservations(w, c) ==
  /\ tx[w].pc = "recompute" /\ c \in tx[w].affected
  /\ LET obs == Of(Visible(w), c) IN
     /\ obs # {}
     /\ Step(w, [tx[w] EXCEPT
          !.pc = "upsert", !.chave = c,
          !.lida = [nota |-> NotaDe(obs), partes |-> ParticipacoesDe(obs)]])

\* The trigger fires on a new row and on a change of status.
AfterUpsert(old, new) ==
  IF old = Nenhuma THEN "countNew"
  ELSE IF old.status # new.status THEN "countOld" ELSE "parts"

\* Mutant of UpsertNota: no lock on the row.
UpsertUnlocked(w) ==
  /\ tx[w].pc = "upsert"
  /\ Step(w, [tx[w] EXCEPT !.notas[tx[w].chave] = tx[w].lida.nota,
                           !.pc = AfterUpsert(notas[tx[w].chave], tx[w].lida.nota)])

\* INSERT ... ON CONFLICT (chave_acesso) DO UPDATE.
UpsertNota(w) ==
  /\ tx[w].pc = "upsert"
  /\ \A v \in Others(w) : ~Wrote(v, tx[w].chave)
  /\ Step(w, [tx[w] EXCEPT !.notas[tx[w].chave] = tx[w].lida.nota,
                           !.pc = AfterUpsert(notas[tx[w].chave], tx[w].lida.nota)])

\* One statement of the trigger.
Count(w, s, by, next) ==
  /\ \A v \in Others(w) : s \notin tx[v].locks
  /\ Step(w, [tx[w] EXCEPT !.delta[s] = @ + by, !.locks = @ \cup {s}, !.pc = next])

CountOld(w) ==
  /\ tx[w].pc = "countOld"
  /\ Count(w, notas[tx[w].chave].status, -1, "countNew")

\* Mutant of CountNew: the trigger adds one for new rows only.
CountInserted(w) ==
  /\ tx[w].pc = "countNew"
  /\ Count(w, tx[w].lida.nota.status,
           IF notas[tx[w].chave] = Nenhuma THEN 1 ELSE 0, "parts")

CountNew(w) ==
  /\ tx[w].pc = "countNew"
  /\ Count(w, tx[w].lida.nota.status, 1, "parts")

\* Mutant of ReplaceParticipacoes: the participations come from a new load.
ReplaceReloaded(w) ==
  /\ tx[w].pc = "parts"
  /\ Step(w, [tx[w] EXCEPT
       !.partes[tx[w].chave] = ParticipacoesDe(Of(Visible(w), tx[w].chave)),
       !.affected = @ \ {tx[w].chave}, !.pc = "recompute"])

\* Delete and insert; the lock on the notas row keeps other writers out.
ReplaceParticipacoes(w) ==
  /\ tx[w].pc = "parts"
  /\ Step(w, [tx[w] EXCEPT
       !.partes[tx[w].chave] = tx[w].lida.partes,
       !.affected = @ \ {tx[w].chave}, !.pc = "recompute"])

Commit(w) ==
  /\ tx[w].pc = "recompute" /\ tx[w].affected = {}
  /\ observations' = Visible(w)
  /\ notas' = [c \in ChaveAcesso |-> IF Wrote(w, c) THEN tx[w].notas[c] ELSE notas[c]]
  /\ nota_empresa' = [c \in ChaveAcesso |->
                        IF Wrote(w, c) THEN tx[w].partes[c] ELSE nota_empresa[c]]
  /\ counts' = [s \in NotaStatus |-> counts[s] + tx[w].delta[s]]
  /\ tx' = [tx EXCEPT ![w] = Ocioso]

\* An error of any statement: a lost connection, a cancelled context, or the
\* deadlock detector picking this transaction.
Rollback(w) ==
  /\ tx[w].pc # "idle"
  /\ Step(w, Ocioso)

Next ==
  \E w \in Worker :
    \/ \E lote \in Lotes : AppendObservations(w, lote)
    \/ \E x \in tx[w].todo : Insert(w, x)
    \/ \E c \in ChaveAcesso :
         \/ DeleteImportIgnoredObs(w, c)
         \/ \E t \in Tempo : UpdateImportedObservedAt(w, c, t)
         \/ SkipChave(w, c) \/ LoadObservations(w, c)
    \/ UpsertNota(w) \/ CountOld(w) \/ CountNew(w) \/ ReplaceParticipacoes(w)
    \/ Commit(w) \/ Rollback(w)

Spec == Init /\ [][Next]_vars
-----------------------------------------------------------------------------
\* The rows that can ever be stored: those of the batches, at any time.
Conhecidas == {ObservadaEm(x, t) : x \in UNION Lotes, t \in Tempo}
ChavesDeParticipacao == Empresa \X (Filial \cup {Nulo})
Partes == UNION {[K -> NotaStatus] : K \in SUBSET ChavesDeParticipacao}

TxType ==
  [pc : {"idle", "insert", "recompute", "upsert", "countOld", "countNew", "parts"},
   todo : SUBSET Conhecidas, ins : SUBSET Conhecidas, del : SUBSET Conhecidas,
   affected : SUBSET ChaveAcesso, chave : ChaveAcesso \cup {Nenhuma},
   lida : [nota : NotaRow, partes : Partes],
   notas : [ChaveAcesso -> NotaRow \cup {Nenhuma}], partes : [ChaveAcesso -> Partes],
   delta : [NotaStatus -> Int], locks : SUBSET NotaStatus, alone : BOOLEAN]

\* Rows of the known shape only, and no counter ever below zero.
TypeOK ==
  /\ observations \subseteq Conhecidas
  /\ notas \in [ChaveAcesso -> NotaRow \cup {Nenhuma}]
  /\ nota_empresa \in [ChaveAcesso -> Partes]
  /\ counts \in [NotaStatus -> Nat]
  /\ tx \in [Worker -> TxType]

NotasEm(s) == {c \in ChaveAcesso : notas[c] # Nenhuma /\ notas[c].status = s}

\* The counter the triggers keep is the number of notas in the status, whatever
\* transactions overlapped, waited for one another or were rolled back.
CountsMatch == \A s \in NotaStatus : counts[s] = Cardinality(NotasEm(s))

Derivadas(nota, partes, c) ==
  \E S \in SUBSET Of(Conhecidas, c) : nota = NotaDe(S) /\ partes = ParticipacoesDe(S)

\* "para os dois derivados nunca divergirem": the row of notas and the rows of
\* nota_empresa of a chave are derived from one and the same set of observations.
DerivedsAgree ==
  \A c \in ChaveAcesso :
    notas[c] # Nenhuma => Derivadas(notas[c], nota_empresa[c], c)

\* A nota is shown as imported only if an imported observation is committed,
\* even when the transaction that stored it was lost beside others that go on.
ImportedIsBacked ==
  \A c \in ChaveAcesso :
    notas[c] # Nenhuma /\ notas[c].imported # Never =>
      Viu(Of(observations, c), {"imported"})

\* A transaction with no other open beside it leaves every chave it changed
\* exactly as its observations say, whatever stale state it found.
SerialIsExact ==
  [][observations' # observations /\ (\E w \in Worker : tx[w].pc # "idle" /\ tx[w].alone) =>
       \A c \in ChaveAcesso :
         LET S == Of(observations', c) IN
         S # Of(observations, c) /\ S # {} =>
           notas'[c] = NotaDe(S) /\ nota_empresa'[c] = ParticipacoesDe(S)]_vars

\* "Nota state is derived from a chave's observations": when no transaction is
\* open, a materialised nota is the one its observations give.
DerivedUpToDate ==
  (\A w \in Worker : tx[w].pc = "idle") =>
    \A c \in ChaveAcesso :
      Of(observations, c) # {} => notas[c] = NotaDe(Of(observations, c))
=============================================================================
