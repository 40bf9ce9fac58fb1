--------------------------- MODULE AthenasReader ---------------------------
(***************************************************************************)
(* internal/firebird/reader.go: what the tracker makes of the rows that    *)
(* Athenas keeps about one chave, one or more per company.  The order in   *)
(* which Firebird returns rows is not fixed; where the code keeps the      *)
(* first of equals any of them may be kept.  Names, CNPJs and values that  *)
(* ride along are left out.                                                *)
(***************************************************************************)
EXTENDS Observation

CONSTANT Linha   \* rows of TABLISTACHAVEACESSO that may exist

ASSUME EmpresaAssumption == Empresa \subseteq Nat   \* CODIGOEMPRESA is ordered
ASSUME LinhaAssumption ==
  \A l \in Linha : /\ l.emp \in Empresa \cup {Nulo}
                   /\ l.fil \in Filial \cup {Nulo}
                   /\ l.robo \in {Never} \cup Tempo
                   /\ l.inclusao \in {Never} \cup Tempo

\* IMPORTADO and IMPORTACAOIGNORADA; imported wins when both are set.
EstadoLinha == {"ausente", "pendente", "importada", "ignorada"}

\* A row as it was read.
Lida(l, estado) == [emp |-> l.emp, fil |-> l.fil, estado |-> estado,
                    robo |-> l.robo, inclusao |-> l.inclusao]

\* Of the rows of one participation: imported, then pending, then ignored.
partRank(r) == CASE r.estado = "importada" -> 2
                 [] r.estado = "pendente"  -> 1
                 [] r.estado = "ignorada"  -> 0

Melhor(S) == CHOOSE r \in S : \A x \in S : partRank(x) <= partRank(r)

\* One row per (company, branch); a row without company anchors none.
Participacoes(rows) ==
  LET donas == {r \in rows : r.emp # Nulo}
      de(k) == {r \in donas : Chave(r) = k}
  IN {Melhor(de(k)) : k \in {Chave(r) : r \in donas}}

\* nil sorts last.
lessCodigo(a, b) == a.emp # Nulo /\ (b.emp = Nulo \/ a.emp < b.emp)

lowestCodigo(S) == CHOOSE r \in S : \A x \in S : ~lessCodigo(x, r)

\* The row that stands for the whole nota: an import is a fact, a pending row
\* keeps the nota on its way, ignored counts only when every row is.
selectState(rows) ==
  LET com(e) == {r \in rows : r.estado = e} IN
  IF com("importada") # {} THEN lowestCodigo(com("importada"))
  ELSE IF com("pendente") # {} THEN lowestCodigo(com("pendente"))
  ELSE lowestCodigo(com("ignorada"))
-----------------------------------------------------------------------------
(* internal/poller/poller.go: the observations made of one lookup.          *)

\* Detection comes after every date of Athenas.
Agora == MaxTempo

EventoDe(r) == CASE r.estado = "importada" -> "imported"
                 [] r.estado = "ignorada"  -> "import_ignored"
                 [] r.estado = "pendente"  -> "seen_pending"

\* DATAROBO, else DATAINCLUSAO.
DataDe(r) == IF r.robo # Never THEN r.robo ELSE r.inclusao

\* Mutant of obsForRow: an import without a date keeps the zero time.
obsSemAgora(r) ==
  [event |-> EventoDe(r), emp |-> r.emp, fil |-> r.fil,
   at |-> IF r.estado = "importada" THEN DataDe(r) ELSE Agora]

obsForRow(r) ==
  [event |-> EventoDe(r), emp |-> r.emp, fil |-> r.fil,
   at |-> IF r.estado = "importada" /\ DataDe(r) # Never THEN DataDe(r) ELSE Agora]

\* Mutant of obsPorParticipacao: one observation per nota, as before M0.
obsDoRepresentante(rows) == {obsForRow(selectState(rows))}

\* One per participation; a chave with none gets that of its representative.
obsPorParticipacao(rows) ==
  IF Participacoes(rows) = {} THEN {obsForRow(selectState(rows))}
  ELSE {obsForRow(r) : r \in Participacoes(rows)}
=============================================================================
